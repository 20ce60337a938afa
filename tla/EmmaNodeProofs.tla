---------------------------- MODULE EmmaNodeProofs ----------------------------
(***************************************************************************)
(* The handlers and processes of a node leave its resource store sound,    *)
(* for any names, pools, requests and agents. A handler makes several      *)
(* calls of the store in one step; each of them keeps the store sound by   *)
(* a lemma of ResourceStoreProofs, provided that the names a call is made  *)
(* with are names of the node: hence the second conjunct of the invariant, *)
(* about the targets the client works through.                             *)
(***************************************************************************)
EXTENDS EmmaNode, ResourceStoreProofs

NodeInv ==
  /\ Sound(store)
  /\ \A target \in todo : target.uri \in Uris

-----------------------------------------------------------------------------
(* What the handlers do to a store between their calls.                    *)

(* The process identifiers the handlers pass are modifiers of a resource.  *)
LEMMA Identifiers == {SERVER, CLIENT, SYSTEM} \subseteq Keys
  BY NodeAssumption

(* Rewriting the entries of a sound store leaves it sound: the ageing of   *)
(* the clock times and the client's release of every mutex.                *)
LEMMA EntriesRewritten ==
  ASSUME NEW s, Sound(s), NEW f \in [DOMAIN s.tree -> Entry]
  PROVE  Sound([s EXCEPT !.tree = f])
<1> DEFINE new == [s EXCEPT !.tree = f]
<1>1. WellTyped(s)
  BY DEF Sound
<1>2. /\ new.tree = f /\ new.order = s.order /\ new.blocks = s.blocks
      /\ new.slots = s.slots /\ new.fault = s.fault
  BY <1>1 DEF WellTyped, StoreType
<1>3. f \in Trees
  BY <1>1, TreeType DEF Trees
<1>4. WellTyped(new)
  BY <1>1, <1>3 DEF WellTyped, StoreType
<1>5. DOMAIN new.tree = DOMAIN s.tree
  BY <1>2
<1> QED
  <2> HIDE DEF new
  <2>1. Sound(new)
    BY <1>2, <1>4, <1>5, KeepsSound
  <2> QED
    BY <2>1 DEF new

(* What the server does with the resource of an incomplete transfer.       *)
LEMMA AbortSound ==
  ASSUME NEW s, Sound(s), NEW u \in Uris
  PROVE  Sound(Abort(s, u))
<1>1. Sound(Del(s, u)) /\ Sound(Release(s, u))
  BY DelSound, LockSound
<1>2. Sound(SetLastModified(Del(s, u), NoUri, SERVER))
  BY <1>1, Identifiers, SetLastModifiedSound
<1> QED
  BY <1>1, <1>2 DEF Abort

(* The end of a transfer, for a block that may be the last.                *)
LEMMA FinishedSound ==
  ASSUME NEW s, Sound(s), NEW r \in Requests
  PROVE  Sound(Finished(s, r))
<1>1. Sound(SetLastModified(s, r.uri, SERVER))
  BY Identifiers, SetLastModifiedSound
<1>2. Sound(Release(SetLastModified(s, r.uri, SERVER), r.uri))
  BY <1>1, LockSound
<1> QED
  BY <1>2 DEF Finished

(* The start of a transfer: an add, whatever it answers, and a lock.       *)
LEMMA BegunSound ==
  ASSUME Sound(store), NEW r \in Requests, NEW t \in Times
  PROVE  Sound(Begun(r, t).store)
<1>1. r.uri \in Uris
  BY NodeAssumption
<1>2. Sound(Add(store, r.uri, t))
  BY <1>1, AddSound
<1>3. Sound(Lock(Add(store, r.uri, t), r.uri))
  BY <1>2, LockSound
<1>4. CASE r.num = 0
  <2>1. Begun(r, t).store = Lock(Add(store, r.uri, t), r.uri)
    BY <1>4 DEF Begun
  <2> QED
    BY <1>3, <2>1
<1>5. CASE r.num # 0
  BY <1>5 DEF Begun
<1> QED
  BY <1>4, <1>5

(* A look of the watchdog at one resource.                                 *)
LEMMA LookSound ==
  ASSUME NEW w, DOMAIN w = {"store", "it", "hit"}, Sound(w.store), NEW i
  PROVE  DOMAIN Look(w, i) = {"store", "it", "hit"} /\ Sound(Look(w, i).store)
<1> DEFINE u == Answer(i)
<1>1. CASE TimedOut(w.store, u)
  <2>1. u \in Uris
    BY <1>1, TreeType DEF TimedOut, IsLocked, Exists, Sound
  <2>2. Look(w, i) = [store |-> Abort(w.store, u), it |-> AfterDel(w.store, u), hit |-> TRUE]
    BY <1>1 DEF Look
  <2> QED
    BY <2>1, <2>2, AbortSound
<1>2. CASE ~TimedOut(w.store, u)
  <2>1. Look(w, i) = [w EXCEPT !.it = NextOf(w.store, i)]
    BY <1>2 DEF Look
  <2> QED
    BY <2>1
<1> QED
  BY <1>1, <1>2

-----------------------------------------------------------------------------
(* The node starts with the resources of S, all of them unlocked.          *)
LEMMA NodeBootSound == NodeInit => NodeInv
<1> SUFFICES ASSUME NodeInit
             PROVE  NodeInv
  OBVIOUS
<1>1. Init
  BY DEF NodeInit, Init
<1> QED
  BY <1>1, BootSound DEF NodeInv, NodeInit

(* What the server's handler does on a request.                            *)
LEMMA HandleKeeps ==
  ASSUME NodeInv, NEW r \in Requests, Handle(r)
  PROVE  NodeInv'
<1>1. r.uri \in Uris /\ Sound(store)
  BY NodeAssumption DEF NodeInv
<1>2. Fresh \in Times
  BY NodeAssumption
<1>3. todo' = todo
  BY DEF Handle, Dropped, LostPacket, Refused, Stored, WriteFailed, NoPayload, Get, List,
         WellKnown, Delete, clientVars, nodeVars
<1>4. SUFFICES Sound(store')
  BY <1>3 DEF NodeInv
<1>5. CASE UNCHANGED store
  BY <1>1, <1>5
<1>6. CASE LostPacket(r)
  BY <1>1, <1>6, AbortSound DEF LostPacket
<1>7. ASSUME NEW t \in Times, Refused(r, Begun(r, t))
      PROVE  Sound(store')
  BY <1>1, <1>7, BegunSound DEF Refused
<1>8. ASSUME NEW t \in Times, Stored(r, Begun(r, t))
      PROVE  Sound(store')
  <2>1. Sound(SetClocktime(Begun(r, t).store, r.uri, Fresh))
    BY <1>1, <1>2, BegunSound, SetClocktimeSound
  <2> QED
    BY <1>8, <2>1, FinishedSound DEF Stored
<1>9. ASSUME NEW t \in Times, WriteFailed(r, Begun(r, t))
      PROVE  Sound(store')
  <2>1. Sound(Abort(Begun(r, t).store, r.uri))
    BY <1>1, BegunSound, AbortSound
  <2>2. Sound(SetClocktime(Abort(Begun(r, t).store, r.uri), r.uri, Fresh))
    BY <1>2, <2>1, SetClocktimeSound
  <2> QED
    BY <1>9, <2>2, FinishedSound DEF WriteFailed
<1>10. CASE NoPayload(r)
  BY <1>1, <1>10, FinishedSound DEF NoPayload
<1>11. CASE Delete(r)
  BY <1>1, <1>5, <1>11, AbortSound DEF Delete
<1>12. Dropped(r) \/ Get(r) \/ List(r) \/ WellKnown(r) => UNCHANGED store
  BY DEF Dropped, Get, List, WellKnown, nodeVars
<1> QED
  BY <1>5, <1>6, <1>7, <1>8, <1>9, <1>10, <1>11, <1>12 DEF Handle

(* What the watchdog, the clock and the system process do.                 *)
LEMMA ServerKeeps ==
  ASSUME NodeInv, Watchdog \/ Elapse \/ SystemTick
  PROVE  NodeInv'
<1>1. Sound(store) /\ todo' = todo
  BY DEF NodeInv, Watchdog, WatchdogLooks, WatchdogHangs, Elapse, SystemTick, clientVars
<1>2. SUFFICES Sound(store')
  BY <1>1 DEF NodeInv
<1>3. CASE WatchdogLooks
  <2> DEFINE w0 == [store |-> store, it |-> it, hit |-> FALSE]
             w1 == Look(w0, w0.it)
             w2 == Look(w1, AtRoot(w1.store, 1))
             w3 == Look(w2, AtRoot(w2.store, 2))
  <2>1. store' = w3.store
    BY <1>3 DEF WatchdogLooks
  <2>2. DOMAIN w0 = {"store", "it", "hit"} /\ Sound(w0.store)
    BY <1>1
  <2> HIDE DEF w0
  <2>3. DOMAIN w1 = {"store", "it", "hit"} /\ Sound(w1.store)
    BY <2>2, LookSound
  <2> HIDE DEF w1
  <2>4. DOMAIN w2 = {"store", "it", "hit"} /\ Sound(w2.store)
    BY <2>3, LookSound
  <2> HIDE DEF w2
  <2>5. Sound(w3.store)
    BY <2>4, LookSound
  <2> QED
    BY <2>1, <2>5
<1>4. CASE Elapse
  <2> DEFINE old == [u \in DOMAIN store.tree |-> [store.tree[u] EXCEPT !.clocktime = Old]]
  <2>1. store' = [store EXCEPT !.tree = old]
    BY <1>4 DEF Elapse
  <2>2. old \in [DOMAIN store.tree -> Entry]
    BY <1>1, TreeType, NodeAssumption DEF Sound, Entry
  <2> QED
    BY <1>1, <2>1, <2>2, EntriesRewritten
<1>5. CASE SystemTick
  BY <1>1, <1>5, Identifiers, SetLastModifiedSound DEF SystemTick
<1>6. CASE WatchdogHangs
  BY <1>1, <1>6 DEF WatchdogHangs
<1> QED
  BY <1>3, <1>4, <1>5, <1>6 DEF Watchdog

-----------------------------------------------------------------------------
(* What the client process does. The steps that only move the client, the  *)
(* iterator or the history leave the store and the targets alone.          *)

(* A visit starts the agent it comes to, or ends the run.                  *)
LEMMA VisitKeeps ==
  ASSUME NodeInv, NEW i, Visit(i)
  PROVE  NodeInv'
<1>1. CASE RunAgent(i)
  <2>1. store' = store
    BY <1>1 DEF RunAgent
  <2>2. \A target \in todo' : target.uri \in Uris
    <3>1. CASE Exists(store, Answer(i))
      <4>1. Answer(i) \in Uris
        BY <3>1, TreeType DEF Exists, NodeInv, Sound
      <4>2. todo' = Targets[Answer(i)]
        BY <1>1, <3>1 DEF RunAgent
      <4> QED
        BY <4>1, <4>2, NodeAssumption
    <3>2. CASE ~Exists(store, Answer(i))
      BY <1>1, <3>2 DEF RunAgent
    <3> QED
      BY <3>1, <3>2
  <2> QED
    BY <2>1, <2>2 DEF NodeInv
<1>2. CASE NoMoreAgents(i)
  <2>1. store' = SetLastModified(store, NoUri, CLIENT) /\ todo' = {}
    BY <1>2 DEF NoMoreAgents, EndRun
  <2> QED
    BY <2>1, Identifiers, SetLastModifiedSound DEF NodeInv
<1>3. CASE HangInWalk(i)
  BY <1>3 DEF HangInWalk, NodeInv
<1> QED
  BY <1>1, <1>2, <1>3 DEF Visit

(* A served target is one of the agent's, and no other is added.           *)
LEMMA TargetKeeps ==
  ASSUME NodeInv, NEW target \in todo,
         NotServed(target) \/ LocalDelete(target) \/ LocalWrite(target) \/ SendRequest(target)
  PROVE  NodeInv'
<1>1. Sound(store) /\ target.uri \in Uris
  BY DEF NodeInv
<1>2. todo' \subseteq todo
  BY DEF NotServed, LocalDelete, LocalWrite, SendRequest, Serve
<1>3. SUFFICES Sound(store')
  BY <1>2 DEF NodeInv
<1>4. CASE NotServed(target) \/ SendRequest(target)
  BY <1>1, <1>4 DEF NotServed, SendRequest
<1>5. CASE LocalDelete(target)
  BY <1>1, <1>5, DelSound DEF LocalDelete
<1>6. CASE LocalWrite(target)
  BY <1>1, <1>6, AddSound DEF LocalWrite
<1> QED
  BY <1>4, <1>5, <1>6

(* The client's steps.                                                     *)
LEMMA ClientKeeps ==
  ASSUME NodeInv, Client
  PROVE  NodeInv'
<1>1. CASE WakeUp \/ Start \/ NothingToLock \/ RequestEnds
  BY <1>1 DEF WakeUp, Start, NothingToLock, RequestEnds, NodeInv
<1>2. CASE LockFirst
  <2>1. todo' = todo
    BY <1>2 DEF LockFirst
  <2>2. PICK n \in 1 .. Len(AllNames) :
          \/ UNCHANGED store
          \/ store' = SetLastModified(Lock(store, AllNames[n]), AllNames[n], CLIENT)
    BY <1>2 DEF LockFirst
  <2>3. Sound(SetLastModified(Lock(store, AllNames[n]), AllNames[n], CLIENT))
    BY LockSound, SetLastModifiedSound, Identifiers DEF NodeInv
  <2> QED
    BY <2>1, <2>2, <2>3 DEF NodeInv
<1>3. CASE RunFirst \/ RunNext
  BY <1>3, VisitKeeps DEF RunFirst, RunNext
<1>4. CASE StopOnFailure
  <2>1. store' = SetLastModified(store, NoUri, CLIENT) /\ todo' = {}
    BY <1>4 DEF StopOnFailure, EndRun
  <2> QED
    BY <2>1, Identifiers, SetLastModifiedSound DEF NodeInv
<1>5. CASE ReleaseAll
  <2> DEFINE free == [u \in DOMAIN store.tree |-> [store.tree[u] EXCEPT !.mutex = FALSE]]
  <2>1. store' = [store EXCEPT !.tree = free] /\ todo' = todo
    BY <1>5 DEF ReleaseAll
  <2>2. free \in [DOMAIN store.tree -> Entry]
    BY TreeType DEF NodeInv, Sound, Entry
  <2> QED
    BY <2>1, <2>2, EntriesRewritten DEF NodeInv
<1>6. ASSUME NEW target \in todo,
             NotServed(target) \/ LocalDelete(target) \/ LocalWrite(target) \/ SendRequest(target)
      PROVE  NodeInv'
  BY <1>6, TargetKeeps
<1> QED
  BY <1>1, <1>2, <1>3, <1>4, <1>5, <1>6 DEF Client

-----------------------------------------------------------------------------
LEMMA NodeStepSound == NodeInv /\ [NodeNext]_nodeVars => NodeInv'
<1> SUFFICES ASSUME NodeInv, [NodeNext]_nodeVars
             PROVE  NodeInv'
  OBVIOUS
<1>1. CASE Arrives
  BY <1>1, HandleKeeps DEF Arrives
<1>2. CASE Watchdog \/ Elapse \/ SystemTick
  BY <1>2, ServerKeeps
<1>3. CASE Client
  BY <1>3, ClientKeeps
<1>4. CASE UNCHANGED nodeVars
  BY <1>4 DEF NodeInv, nodeVars, clientVars
<1> QED
  BY <1>1, <1>2, <1>3, <1>4 DEF NodeNext

(* Whatever requests come in, in whatever order the processes of the node  *)
(* take their steps and whatever its agents do, the resource store keeps   *)
(* its type, never hands out a block it does not have, and its lists hold  *)
(* each resource once, each with its data slot.                            *)
THEOREM NodeKeepsStoreSound == NodeSpec => []StoreStaysSound
<1>1. NodeInv => StoreStaysSound
  BY DEF NodeInv, StoreStaysSound
<1> QED
  BY <1>1, NodeBootSound, NodeStepSound, PTL DEF NodeSpec

-----------------------------------------------------------------------------
(* The one iterator of a node, that the client walks its agents with while *)
(* the server, the watchdog and the agents themselves add and delete       *)
(* resources and move it. For any names, requests and agents the node      *)
(* keeps its type, and the iterator only answers resources that there are, *)
(* but for the one that a del took from under it.                          *)

Iterators ==
  [root : 1 .. Len(RootSeq) + 1, rest : Seq(Uris \cup {NoUri}), onFreed : BOOLEAN, lost : BOOLEAN]

(* The iterator i may be left as it is over the resources of s.            *)
Stands(s, i) ==
  /\ i \in Iterators
  /\ ~i.lost => \A n \in 1 .. Len(i.rest) :
       i.rest[n] = NoUri \/ Exists(s, i.rest[n]) \/ (n = 1 /\ i.onFreed)

NodeTyped ==
  /\ opened \in BOOLEAN /\ locked \in BOOLEAN /\ count \in Nat \cup {-1}
  /\ client \in {"IDLE", "START", "WAITING_MUTEX", "RUNNING", "AGENT", "AWAIT", "RELEASE"}
  /\ agent \in Uris \cup {NoUri}
  /\ todo \subseteq UNION {Targets[u] : u \in Uris}
  /\ previousFail \in BOOLEAN /\ hung \in BOOLEAN
  /\ written \in [Uris -> SUBSET Nat]

IteratorInv == NodeTyped /\ Stands(store, it)

-----------------------------------------------------------------------------
(* What the calls of the store do to its resources and their mutexes.      *)

LEMMA AddTree ==
  ASSUME NEW s, Sound(s), NEW u \in Uris, NEW t
  PROVE  /\ AddCode(s, u) = AddOk => DOMAIN Add(s, u, t).tree = DOMAIN s.tree \cup {u}
         /\ AddCode(s, u) # AddOk => DOMAIN Add(s, u, t).tree = DOMAIN s.tree
         /\ \A v : IsLocked(Add(s, u, t), v) <=> IsLocked(s, v)
<1> DEFINE new == Add(s, u, t)
           r == RootOf[u]
<1>1. s \in StoreType /\ r \in Roots
  BY NamesAssumption DEF Sound, WellTyped
<1>2. AddCode(s, u) \in {AddOk, AddExists, AddNoFolder, AddRootFull}
  BY BlockLeft DEF AddCode
<1>3. AddCode(s, u) \in {AddOk, AddNoFolder} =>
        Taken(s, r) \in StoreType /\ Taken(s, r).tree = s.tree
  <2>1. SUFFICES ASSUME s.slots[r] # Capacity[r]
                 PROVE  Taken(s, r) \in StoreType /\ Taken(s, r).tree = s.tree
    BY DEF AddCode, AddOk, AddNoFolder, AddExists, AddNoBlock, AddRootFull
  <2>2. Taken(s, r) \in StoreType
    BY <1>1, <2>1, TakenSound DEF Sound, WellTyped
  <2> QED
    BY <1>1, <2>2 DEF Taken, StoreType
<1> USE DEF AddOk, AddExists, AddNoBlock, AddRootFull, AddNoFolder
<1>4. CASE AddCode(s, u) = AddOk
  <2> DEFINE tree == [v \in DOMAIN s.tree \cup {u} |-> IF v = u THEN NewEntry(t) ELSE s.tree[v]]
  <2>1. new = [Taken(s, r) EXCEPT !.tree = tree, !.order[r] = Linked(@, u)]
    BY <1>4 DEF Add
  <2>2. new.tree = tree
    BY <1>3, <1>4, <2>1 DEF StoreType
  <2>3. u \notin DOMAIN s.tree /\ ~NewEntry(t).mutex
    BY <1>4 DEF AddCode, Exists, NewEntry
  <2>4. \A v : IsLocked(new, v) <=> IsLocked(s, v)
    BY <2>2, <2>3 DEF IsLocked, Exists
  <2> QED
    BY <1>4, <2>2, <2>4
<1>5. CASE AddCode(s, u) # AddOk
  <2>1. new.tree = s.tree
    BY <1>2, <1>3, <1>5 DEF Add
  <2> QED
    BY <1>5, <2>1 DEF IsLocked, Exists
<1> QED
  BY <1>4, <1>5

(* No name lies in a folder, so that a resource there is can be deleted.   *)
LEMMA DelTree ==
  ASSUME NEW s, Sound(s), NEW u \in Uris
  PROVE  /\ DelCode(s, u) = DelOk <=> Exists(s, u)
         /\ DOMAIN Del(s, u).tree = DOMAIN s.tree \ {u}
         /\ \A v : IsLocked(Del(s, u), v) <=> IsLocked(s, v) /\ v # u
<1> DEFINE new == Del(s, u)
<1>1. s \in StoreType /\ DOMAIN s.tree \subseteq Uris
  BY TreeType DEF Sound, WellTyped
<1>2. Children(s, u) = {}
  BY <1>1, NodeAssumption, NamesAssumption DEF Children
<1>3. DelCode(s, u) = DelOk <=> Exists(s, u)
  BY <1>2 DEF DelCode, DelOk, DelNotFound, DelNotEmpty
<1>4. CASE Exists(s, u)
  <2>1. new.tree = [v \in DOMAIN s.tree \ {u} |-> s.tree[v]]
    BY <1>1, <1>3, <1>4 DEF Del, StoreType
  <2> QED
    BY <1>3, <2>1 DEF IsLocked, Exists
<1>5. CASE ~Exists(s, u)
  <2>1. new = s
    BY <1>3, <1>5 DEF Del
  <2> QED
    BY <1>3, <1>5, <2>1 DEF IsLocked, Exists
<1> QED
  BY <1>4, <1>5

(* Rewriting the entry of a resource.                                      *)
LEMMA EditedTree ==
  ASSUME NEW s, Sound(s), NEW u, Exists(s, u), NEW new, NEW e \in Entry,
         new.tree = [s.tree EXCEPT ![u] = e]
  PROVE  /\ DOMAIN new.tree = DOMAIN s.tree
         /\ \A v : v # u => (IsLocked(new, v) <=> IsLocked(s, v))
         /\ IsLocked(new, u) <=> e.mutex
<1>1. s.tree \in [DOMAIN s.tree -> Entry]
  BY TreeType DEF Sound
<1> QED
  BY <1>1 DEF IsLocked, Exists

LEMMA LockTree ==
  ASSUME NEW s, Sound(s), NEW u
  PROVE  /\ DOMAIN Lock(s, u).tree = DOMAIN s.tree
         /\ \A v : IsLocked(Lock(s, u), v) <=> IsLocked(s, v) \/ (v = u /\ Exists(s, u))
<1>1. s \in StoreType /\ s.tree \in [DOMAIN s.tree -> Entry]
  BY TreeType DEF Sound, WellTyped
<1>2. CASE Exists(s, u)
  <2> DEFINE e == [s.tree[u] EXCEPT !.mutex = TRUE]
  <2>1. Lock(s, u).tree = [s.tree EXCEPT ![u] = e]
    BY <1>1, <1>2 DEF Lock, StoreType
  <2>2. e \in Entry /\ e.mutex
    BY <1>1, <1>2 DEF Entry, Exists
  <2> HIDE DEF e
  <2> QED
    BY <1>2, <2>1, <2>2, EditedTree
<1>3. CASE ~Exists(s, u)
  BY <1>3 DEF Lock
<1> QED
  BY <1>2, <1>3

LEMMA ReleaseTree ==
  ASSUME NEW s, Sound(s), NEW u
  PROVE  /\ DOMAIN Release(s, u).tree = DOMAIN s.tree
         /\ \A v : IsLocked(Release(s, u), v) <=> IsLocked(s, v) /\ v # u
<1>1. s \in StoreType /\ s.tree \in [DOMAIN s.tree -> Entry]
  BY TreeType DEF Sound, WellTyped
<1>2. CASE Exists(s, u)
  <2> DEFINE e == [s.tree[u] EXCEPT !.mutex = FALSE]
  <2>1. Release(s, u).tree = [s.tree EXCEPT ![u] = e]
    BY <1>1, <1>2 DEF Release, StoreType
  <2>2. e \in Entry /\ ~e.mutex
    BY <1>1, <1>2 DEF Entry, Exists
  <2> HIDE DEF e
  <2> QED
    BY <1>2, <2>1, <2>2, EditedTree
<1>3. CASE ~Exists(s, u)
  BY <1>3 DEF Release, IsLocked
<1> QED
  BY <1>2, <1>3

LEMMA ModifiedTree ==
  ASSUME NEW s, Sound(s), NEW u, NEW k \in Keys
  PROVE  /\ DOMAIN SetLastModified(s, u, k).tree = DOMAIN s.tree
         /\ \A v : IsLocked(SetLastModified(s, u, k), v) <=> IsLocked(s, v)
<1>1. s \in StoreType /\ s.tree \in [DOMAIN s.tree -> Entry]
  BY TreeType DEF Sound, WellTyped
<1>2. CASE u # NoUri /\ Exists(s, u)
  <2> DEFINE e == [s.tree[u] EXCEPT !.lastModified = k]
  <2>1. SetLastModified(s, u, k).tree = [s.tree EXCEPT ![u] = e]
    BY <1>1, <1>2 DEF SetLastModified, StoreType
  <2>2. e \in Entry /\ (e.mutex <=> IsLocked(s, u))
    BY <1>1, <1>2 DEF Entry, Exists, IsLocked
  <2> HIDE DEF e
  <2> QED
    BY <1>2, <2>1, <2>2, EditedTree
<1>3. CASE ~(u # NoUri /\ Exists(s, u))
  <2>1. SetLastModified(s, u, k).tree = s.tree
    BY <1>1, <1>3 DEF SetLastModified, StoreType
  <2> QED
    BY <2>1 DEF IsLocked, Exists
<1> QED
  BY <1>2, <1>3

LEMMA ClockTree ==
  ASSUME NEW s, Sound(s), NEW u, NEW t \in Times
  PROVE  /\ DOMAIN SetClocktime(s, u, t).tree = DOMAIN s.tree
         /\ \A v : IsLocked(SetClocktime(s, u, t), v) <=> IsLocked(s, v)
<1>1. s \in StoreType /\ s.tree \in [DOMAIN s.tree -> Entry]
  BY TreeType DEF Sound, WellTyped
<1>2. CASE Exists(s, u)
  <2> DEFINE e == [s.tree[u] EXCEPT !.clocktime = t]
  <2>1. SetClocktime(s, u, t).tree = [s.tree EXCEPT ![u] = e]
    BY <1>1, <1>2 DEF SetClocktime, StoreType
  <2>2. e \in Entry /\ (e.mutex <=> IsLocked(s, u))
    BY <1>1, <1>2 DEF Entry, Exists, IsLocked
  <2> HIDE DEF e
  <2> QED
    BY <1>2, <2>1, <2>2, EditedTree
<1>3. CASE ~Exists(s, u)
  BY <1>3 DEF SetClocktime
<1> QED
  BY <1>2, <1>3

LEMMA AbortTree ==
  ASSUME NEW s, Sound(s), NEW u \in Uris
  PROVE  /\ DOMAIN Abort(s, u).tree = DOMAIN s.tree \ {u}
         /\ \A v : IsLocked(Abort(s, u), v) <=> IsLocked(s, v) /\ v # u
<1>1. CASE Exists(s, u)
  <2>1. Abort(s, u) = SetLastModified(Del(s, u), NoUri, SERVER)
    BY <1>1, DelTree DEF Abort
  <2>2. Sound(Del(s, u))
    BY DelSound
  <2>3. /\ DOMAIN Abort(s, u).tree = DOMAIN Del(s, u).tree
        /\ \A v : IsLocked(Abort(s, u), v) <=> IsLocked(Del(s, u), v)
    BY <2>1, <2>2, ModifiedTree, Identifiers
  <2> QED
    BY <2>3, DelTree
<1>2. CASE ~Exists(s, u)
  <2>1. Abort(s, u) = s
    BY <1>2, DelTree DEF Abort, Release
  <2> QED
    BY <1>2, <2>1 DEF IsLocked, Exists
<1> QED
  BY <1>1, <1>2

LEMMA FinishedTree ==
  ASSUME NEW s, Sound(s), NEW r
  PROVE  /\ DOMAIN Finished(s, r).tree = DOMAIN s.tree
         /\ \A v : IsLocked(Finished(s, r), v) <=> IsLocked(s, v) /\ (r.more \/ v # r.uri)
<1>1. CASE r.more
  BY <1>1 DEF Finished
<1>2. CASE ~r.more
  <2> DEFINE m == SetLastModified(s, r.uri, SERVER)
  <2>1. Finished(s, r) = Release(m, r.uri)
    BY <1>2 DEF Finished
  <2>2. Sound(m)
    BY Identifiers, SetLastModifiedSound
  <2>3. DOMAIN m.tree = DOMAIN s.tree /\ \A v : IsLocked(m, v) <=> IsLocked(s, v)
    BY ModifiedTree, Identifiers
  <2> HIDE DEF m
  <2>4. /\ DOMAIN Release(m, r.uri).tree = DOMAIN m.tree
        /\ \A v : IsLocked(Release(m, r.uri), v) <=> IsLocked(m, v) /\ v # r.uri
    BY <2>2, ReleaseTree
  <2> QED
    BY <1>2, <2>1, <2>3, <2>4
<1> QED
  BY <1>1, <1>2

-----------------------------------------------------------------------------
(* Where the operators of the model put the iterator.                      *)

LEMMA RootSeqIs ==
  Len(RootSeq) = 3 /\ \A r \in 1 .. 3 : RootSeq[r] \in Roots
  BY DEF RootSeq, Roots

(* A part of the list of a root holds resources of the store only.         *)
LEMMA ListStands ==
  ASSUME NEW s, Sound(s), NEW r \in 1 .. 3, NEW R \in Roots,
         NEW m \in 1 .. Len(s.order[R]) + 1
  PROVE  Stands(s, IteratorAt(r, SubSeq(s.order[R], m, Len(s.order[R]))))
<1> DEFINE list == s.order[R]
           rest == SubSeq(list, m, Len(list))
<1>1. list \in Seq(Uris) /\ Elements(list) = Listed(s, R)
  BY DEF Sound, WellTyped, StoreType, WalkListsAll
<1>2. Len(list) \in Nat
  BY <1>1
<1>3. \A n \in 1 .. Len(list) : list[n] \in Uris /\ Exists(s, list[n])
  BY <1>1 DEF Elements, Listed, Exists
<1> HIDE DEF list
<1>4. /\ rest \in Seq(Uris)
      /\ \A n \in 1 .. Len(rest) : rest[n] = list[m + n - 1] /\ m + n - 1 \in 1 .. Len(list)
  BY <1>1, <1>2, <1>3, SubSeqProperties
<1>5. rest \in Seq(Uris \cup {NoUri})
  BY <1>4
<1>6. \A n \in 1 .. Len(rest) : Exists(s, rest[n])
  BY <1>3, <1>4
<1> HIDE DEF rest
<1>7. Stands(s, IteratorAt(r, rest))
  BY <1>5, <1>6, RootSeqIs DEF Stands, IteratorAt, Iterators
<1> QED
  BY <1>7 DEF rest, list

LEMMA AtRootStands ==
  ASSUME NEW s, Sound(s), NEW r \in 1 .. 4
  PROVE  Stands(s, AtRoot(s, r))
<1>1. CASE r \in 1 .. 3
  <2>1. RootSeq[r] \in Roots /\ s.order[RootSeq[r]] \in Seq(Uris)
    BY <1>1, RootSeqIs DEF Sound, WellTyped, StoreType
  <2>2. SubSeq(s.order[RootSeq[r]], 1, Len(s.order[RootSeq[r]])) = s.order[RootSeq[r]]
    BY <2>1, SubSeqFull
  <2>3. AtRoot(s, r) = IteratorAt(r, s.order[RootSeq[r]])
    BY <1>1, RootSeqIs DEF AtRoot
  <2>4. 1 \in 1 .. Len(s.order[RootSeq[r]]) + 1
    BY <2>1
  <2> QED
    BY <1>1, <2>1, <2>2, <2>3, <2>4, ListStands
<1>2. CASE r = 4
  <2>1. AtRoot(s, r) = IteratorAt(4, << >>)
    BY <1>2, RootSeqIs DEF AtRoot
  <2> QED
    BY <2>1, RootSeqIs DEF Stands, IteratorAt, Iterators
<1> QED
  BY <1>1, <1>2

(* A walk does not loop where it starts.                                   *)
LEMMA AtRootFree ==
  ASSUME NEW s, NEW r
  PROVE  ~Hangs(AtRoot(s, r))
  BY DEF Hangs, AtRoot, IteratorAt

(* Adding resources, or rewriting entries, does not disturb the iterator.  *)
LEMMA StandsStay ==
  ASSUME NEW s, NEW new, NEW i, Stands(s, i), DOMAIN s.tree \subseteq DOMAIN new.tree
  PROVE  Stands(new, i)
  BY DEF Stands, Exists

(* The walk goes on from any position that does not loop.                  *)
LEMMA NextStands ==
  ASSUME NEW s, Sound(s), NEW i, Stands(s, i), ~Hangs(i)
  PROVE  Stands(s, NextOf(s, i))
<1>1. i \in Iterators /\ i.root \in 1 .. 4
  BY RootSeqIs DEF Stands, Iterators
<1>2. CASE i.rest # <<>>
  <2> DEFINE next == NextOf(s, i)
             S == Uris \cup {NoUri}
  <2>1. i.rest \in Seq(S) /\ ~i.lost
    BY <1>1, <1>2 DEF Iterators, Hangs
  <2>2. next.rest = Tail(i.rest) /\ next.lost = i.onFreed /\ next \in Iterators
    BY <1>1, <1>2, <2>1, HeadTailProperties DEF NextOf, Iterators
  <2>3. /\ Len(Tail(i.rest)) = Len(i.rest) - 1
        /\ \A n \in 1 .. Len(Tail(i.rest)) : Tail(i.rest)[n] = i.rest[n + 1]
    BY <1>2, <2>1, HeadTailProperties
  <2>4. Len(i.rest) \in Nat
    BY <2>1
  <2> HIDE DEF next
  <2>5. ASSUME ~next.lost, NEW n \in 1 .. Len(next.rest)
        PROVE  next.rest[n] = NoUri \/ Exists(s, next.rest[n])
    <3>1. ~i.onFreed /\ n + 1 \in 1 .. Len(i.rest) /\ next.rest[n] = i.rest[n + 1]
      BY <2>2, <2>3, <2>4, <2>5
    <3> QED
      BY <2>1, <3>1 DEF Stands
  <2>6. Stands(s, next)
    BY <2>2, <2>5 DEF Stands
  <2> QED
    BY <2>6 DEF next
<1>3. CASE i.rest = <<>> /\ i.root # 4
  <2>1. NextOf(s, i) = AtRoot(s, i.root + 1) /\ i.root + 1 \in 1 .. 4
    BY <1>1, <1>3, RootSeqIs DEF NextOf
  <2> QED
    BY <2>1, AtRootStands
<1>4. CASE i.rest = <<>> /\ i.root = 4
  <2>1. NextOf(s, i) = i
    BY <1>4, RootSeqIs DEF NextOf
  <2> QED
    BY <2>1
<1> QED
  BY <1>2, <1>3, <1>4

LEMMA PositionsStand ==
  ASSUME NEW s, Sound(s), NEW r \in 1 .. 3, NEW i \in Positions(s, r)
  PROVE  Stands(s, i)
<1>1. CASE i = AtRoot(s, 4)
  BY <1>1, AtRootStands
<1>2. CASE i # AtRoot(s, 4)
  <2> DEFINE At(q) ==
        {IteratorAt(q, SubSeq(s.order[RootSeq[q]], n, Len(s.order[RootSeq[q]]))) :
           n \in (IF q = r THEN 2 ELSE 1) .. Len(s.order[RootSeq[q]]) + 1}
             walks == {At(q) : q \in r .. 3}
  <2>1. Positions(s, r) = (UNION walks) \cup {AtRoot(s, 4)}
    BY RootSeqIs DEF Positions
  <2>2. PICK q \in r .. 3 : i \in At(q)
    <3> HIDE DEF walks
    <3>1. PICK walk \in walks : i \in walk
      BY <1>2, <2>1
    <3> QED
      BY <3>1 DEF walks
  <2>3. q \in 1 .. 3 /\ RootSeq[q] \in Roots
    BY <2>2, RootSeqIs
  <2>4. PICK n \in 1 .. Len(s.order[RootSeq[q]]) + 1 :
          i = IteratorAt(q, SubSeq(s.order[RootSeq[q]], n, Len(s.order[RootSeq[q]])))
    BY <2>2 DEF At
  <2> QED
    BY <2>3, <2>4, ListStands
<1> QED
  BY <1>1, <1>2

(* Every name the walk of LockFirst answers is that of a resource.         *)
LEMMA NamesExist ==
  ASSUME Sound(store), NEW n \in 1 .. Len(AllNames)
  PROVE  Exists(store, AllNames[n]) /\ AllNames[n] \in Uris
<1> DEFINE A == store.order["A"]
           L == store.order["L"]
           S == store.order["S"]
<1>1. /\ A \in Seq(Uris) /\ L \in Seq(Uris) /\ S \in Seq(Uris)
      /\ Elements(A) \cup Elements(L) \cup Elements(S) \subseteq DOMAIN store.tree
  BY DEF Sound, WellTyped, StoreType, WalkListsAll, Listed, Roots
<1> HIDE DEF A, L, S
<1>2. Len(A) \in Nat /\ Len(L) \in Nat /\ Len(S) \in Nat
  BY <1>1
<1>3. /\ A \o L \in Seq(Uris) /\ Len(A \o L) = Len(A) + Len(L)
      /\ \A i \in 1 .. Len(A) + Len(L) :
           (A \o L)[i] = IF i <= Len(A) THEN A[i] ELSE L[i - Len(A)]
  BY <1>1, <1>2, ConcatProperties
<1>4. /\ AllNames \in Seq(Uris) /\ Len(AllNames) = Len(A \o L) + Len(S)
      /\ \A i \in 1 .. Len(A \o L) + Len(S) :
           AllNames[i] = IF i <= Len(A \o L) THEN (A \o L)[i] ELSE S[i - Len(A \o L)]
  <2>1. AllNames = (A \o L) \o S
    BY DEF AllNames, A, L, S
  <2> QED
    BY <1>1, <1>3, <2>1, ConcatProperties
<1>5. AllNames[n] \in Elements(A) \cup Elements(L) \cup Elements(S)
  <2>1. CASE n <= Len(A)
    BY <1>2, <1>3, <1>4, <2>1 DEF Elements
  <2>2. CASE n > Len(A) /\ n <= Len(A) + Len(L)
    <3>1. AllNames[n] = L[n - Len(A)] /\ n - Len(A) \in 1 .. Len(L)
      BY <1>2, <1>3, <1>4, <2>2
    <3> QED
      BY <3>1 DEF Elements
  <2>3. CASE n > Len(A) + Len(L)
    <3>1. AllNames[n] = S[n - Len(A \o L)] /\ n - Len(A \o L) \in 1 .. Len(S)
      BY <1>2, <1>3, <1>4, <2>3
    <3> QED
      BY <3>1 DEF Elements
  <2> QED
    BY <1>2, <1>4, <2>1, <2>2, <2>3
<1> QED
  BY <1>1, <1>4, <1>5 DEF Exists

(* What LockFirst leaves behind the resource it locked.                    *)
LEMMA BehindStands ==
  ASSUME Sound(store), NEW u, Exists(store, u)
  PROVE  Stands(store, Behind(u))
<1> DEFINE R == RootOf[u]
           names == store.order[R]
           r == CHOOSE q \in 1 .. Len(RootSeq) : RootSeq[q] = R
           at == CHOOSE n \in 1 .. Len(names) : names[n] = u
<1>1. u \in Uris /\ R \in Roots
  BY TreeType, NamesAssumption DEF Exists, Sound
<1>2. names \in Seq(Uris) /\ u \in Elements(names)
  BY <1>1 DEF Sound, WellTyped, StoreType, WalkListsAll, Listed, Exists
<1>3. \E q \in 1 .. 3 : RootSeq[q] = R
  BY <1>1 DEF Roots, RootSeq
<1>4. r \in 1 .. 3
  BY <1>3, RootSeqIs
<1>5. at \in 1 .. Len(names)
  BY <1>2 DEF Elements
<1>6. at + 1 \in 1 .. Len(names) + 1
  BY <1>2, <1>5
<1> HIDE DEF r, at
<1>7. Stands(store, IteratorAt(r, SubSeq(names, at + 1, Len(names))))
  BY <1>1, <1>4, <1>6, ListStands
<1> QED
  BY <1>7 DEF Behind, r, at

(* del puts the iterator on the first agent before it frees a resource,    *)
(* which may be this one; every other agent is still there.                *)
LEMMA AfterDelStands ==
  ASSUME NEW s, Sound(s), NEW u \in Uris
  PROVE  Stands(Del(s, u), AfterDel(s, u))
<1> DEFINE agents == s.order["A"]
<1>1. "A" \in Roots /\ agents \in Seq(Uris) /\ Elements(agents) = Listed(s, "A") /\ Distinct(agents)
  BY DEF Roots, Sound, WellTyped, StoreType, WalkListsAll
<1>2. CASE DelCode(s, u) = DelOk /\ agents # <<>> /\ Head(agents) = u
  <2> DEFINE j == IteratorAt(1, agents)
             i == [j EXCEPT !.onFreed = TRUE]
  <2>1. j.rest = agents /\ j \in Iterators
    <3> HIDE DEF agents
    <3> QED BY <1>1, RootSeqIs DEF IteratorAt, Iterators
  <2> HIDE DEF j
  <2>7. i.rest = agents /\ i.onFreed /\ i \in Iterators
    BY <2>1 DEF Iterators
  <2>2. Len(agents) \in Nat /\ agents[1] = u /\ 1 \in 1 .. Len(agents)
    BY <1>1, <1>2
  <2>3. DOMAIN Del(s, u).tree = DOMAIN s.tree \ {u}
    BY <1>2 DEF Del, Sound, WellTyped, StoreType
  <2>4. ASSUME NEW n \in 1 .. Len(agents), n # 1
        PROVE  Exists(Del(s, u), agents[n])
    <3>1. agents[n] # u
      BY <1>1, <2>2, <2>4 DEF Distinct
    <3>2. agents[n] \in DOMAIN s.tree
      BY <1>1 DEF Elements, Listed
    <3> QED
      BY <2>3, <3>1, <3>2 DEF Exists
  <2>5. AfterDel(s, u) = i
    BY <1>2 DEF AfterDel, j
  <2> HIDE DEF i
  <2>6. Stands(Del(s, u), i)
    BY <2>7, <2>4 DEF Stands
  <2> QED
    BY <2>5, <2>6
<1>3. CASE ~(DelCode(s, u) = DelOk /\ agents # <<>> /\ Head(agents) = u)
  <2>1. AfterDel(s, u) = AtRoot(Del(s, u), 1)
    BY <1>3 DEF AfterDel
  <2> QED
    BY <2>1, DelSound, AtRootStands
<1> QED
  BY <1>2, <1>3

(* An add may hand the freed block the iterator stands on to its resource. *)
LEMMA AfterAddStands ==
  ASSUME NEW s, Sound(s), NEW u \in Uris, NEW t \in Times, NEW i, Stands(s, i),
         NEW j \in AfterAdd(s, u, i)
  PROVE  Stands(Add(s, u, t), j)
<1> DEFINE r == RootOf[u]
           new == Add(s, u, Old).order[r]
<1>1. r \in Roots /\ Old \in Times
  BY NamesAssumption, NodeAssumption
<1>2. CASE j = i
  <2>1. DOMAIN s.tree \subseteq DOMAIN Add(s, u, t).tree
    BY AddTree
  <2> QED
    BY <1>2, <2>1, StandsStay
<1>3. CASE j # i /\ AddCode(s, u) # AddOk
  <2>1. j = IteratorAt(1, <<NoUri>>)
    BY <1>3 DEF AfterAdd
  <2>2. j \in Iterators /\ \A n \in 1 .. Len(j.rest) : j.rest[n] = NoUri
    BY <2>1, RootSeqIs DEF IteratorAt, Iterators
  <2> QED
    BY <2>2 DEF Stands
<1>4. CASE j # i /\ AddCode(s, u) = AddOk
  <2>1. Sound(Add(s, u, Old))
    BY <1>1, AddSound
  <2>2. new \in Seq(Uris) /\ Elements(new) = Listed(Add(s, u, Old), r)
    BY <1>1, <2>1 DEF Sound, WellTyped, StoreType, WalkListsAll
  <2>3. DOMAIN Add(s, u, Old).tree = DOMAIN Add(s, u, t).tree
    <3>1. DOMAIN Add(s, u, Old).tree = DOMAIN s.tree \cup {u}
      BY <1>4, AddTree
    <3>2. DOMAIN Add(s, u, t).tree = DOMAIN s.tree \cup {u}
      BY <1>4, AddTree
    <3> QED
      BY <3>1, <3>2
  <2> HIDE DEF new
  <2>4. CASE r = "A"
    <3>1. j = IteratorAt(1, new)
      BY <1>4, <2>4 DEF AfterAdd, new
    <3>2. \A n \in 1 .. Len(new) : Exists(Add(s, u, t), new[n])
      BY <2>2, <2>3 DEF Elements, Listed, Exists
    <3> QED
      BY <2>2, <3>1, <3>2, RootSeqIs DEF Stands, IteratorAt, Iterators
  <2>5. CASE r # "A"
    <3> DEFINE nobody == [n \in 1 .. Len(new) |-> NoUri]
    <3>1. j = IteratorAt(1, nobody)
      BY <1>4, <2>5 DEF AfterAdd, new
    <3>2. Len(new) \in Nat
      BY <2>2
    <3>3. nobody \in Seq(Uris \cup {NoUri})
      BY <3>2
    <3>4. \A n \in 1 .. Len(nobody) : nobody[n] = NoUri
      BY <3>2
    <3> HIDE DEF nobody
    <3> QED
      BY <3>1, <3>3, <3>4, RootSeqIs DEF Stands, IteratorAt, Iterators
  <2> QED
    BY <2>4, <2>5
<1> QED
  BY <1>2, <1>3, <1>4

-----------------------------------------------------------------------------
(* The handlers of the server.                                             *)

LEMMA BegunStands ==
  ASSUME NodeInv, IteratorInv, NEW r \in Requests, NEW t \in Times, NEW i \in Begun(r, t).its
  PROVE  Stands(Begun(r, t).store, i)
<1>1. Sound(store) /\ r.uri \in Uris /\ Stands(store, it)
  BY NodeAssumption DEF NodeInv, IteratorInv
<1>2. CASE r.num = 0
  <2> DEFINE added == Add(store, r.uri, t)
  <2>1. Begun(r, t).store = Lock(added, r.uri) /\ i \in AfterAdd(store, r.uri, it)
    BY <1>2 DEF Begun
  <2>2. Sound(added) /\ Stands(added, i)
    BY <1>1, <2>1, AddSound, AfterAddStands
  <2> HIDE DEF added
  <2>3. DOMAIN Lock(added, r.uri).tree = DOMAIN added.tree
    BY <2>2, LockTree
  <2> QED
    BY <2>1, <2>2, <2>3, StandsStay
<1>3. CASE r.num # 0
  BY <1>1, <1>3 DEF Begun
<1> QED
  BY <1>2, <1>3

LEMMA AbortStands ==
  ASSUME NEW s, Sound(s), NEW u \in Uris
  PROVE  Stands(Abort(s, u), AfterDel(s, u))
<1>1. DOMAIN Del(s, u).tree = DOMAIN Abort(s, u).tree
  BY AbortTree, DelTree
<1> QED
  BY <1>1, AfterDelStands, StandsStay

LEMMA HandleStands ==
  ASSUME NodeInv, IteratorInv, NEW r \in Requests, Handle(r)
  PROVE  Stands(store', it')
<1>1. r.uri \in Uris /\ Sound(store) /\ Stands(store, it)
  BY NodeAssumption DEF NodeInv, IteratorInv
<1>2. Fresh \in Times
  BY NodeAssumption
<1>3. CASE Dropped(r) \/ Get(r)
  BY <1>1, <1>3 DEF Dropped, Get, nodeVars
<1>4. CASE LostPacket(r)
  BY <1>1, <1>4, AbortStands DEF LostPacket
<1>5. ASSUME NEW t \in Times, Refused(r, Begun(r, t))
      PROVE  Stands(store', it')
  BY <1>5, BegunStands DEF Refused
<1>6. ASSUME NEW t \in Times, Stored(r, Begun(r, t))
      PROVE  Stands(store', it')
  <2> DEFINE b == Begun(r, t)
             s == SetClocktime(b.store, r.uri, Fresh)
  <2>1. Sound(b.store) /\ it' \in b.its /\ store' = Finished(s, r)
    BY <1>1, <1>6, BegunSound DEF Stored
  <2>2. Stands(b.store, it')
    BY <2>1, BegunStands
  <2> HIDE DEF b
  <2>3. Sound(s) /\ DOMAIN s.tree = DOMAIN b.store.tree
    BY <1>2, <2>1, SetClocktimeSound, ClockTree
  <2> HIDE DEF s
  <2>4. DOMAIN Finished(s, r).tree = DOMAIN s.tree
    BY <2>3, FinishedTree
  <2> QED
    BY <2>1, <2>2, <2>3, <2>4, StandsStay
<1>7. ASSUME NEW t \in Times, WriteFailed(r, Begun(r, t))
      PROVE  Stands(store', it')
  <2> DEFINE b == Begun(r, t)
             a == Abort(b.store, r.uri)
             s == SetClocktime(a, r.uri, Fresh)
  <2>1. Sound(b.store) /\ it' = AfterDel(b.store, r.uri) /\ store' = Finished(s, r)
    BY <1>1, <1>7, BegunSound DEF WriteFailed
  <2> HIDE DEF b
  <2>2. Stands(a, it') /\ Sound(a)
    BY <1>1, <2>1, AbortStands, AbortSound
  <2> HIDE DEF a
  <2>3. Sound(s) /\ DOMAIN s.tree = DOMAIN a.tree
    BY <1>2, <2>2, SetClocktimeSound, ClockTree
  <2> HIDE DEF s
  <2>4. DOMAIN Finished(s, r).tree = DOMAIN s.tree
    BY <2>3, FinishedTree
  <2> QED
    BY <2>1, <2>2, <2>3, <2>4, StandsStay
<1>8. CASE NoPayload(r)
  <2>1. store' = Finished(store, r) /\ it' = it
    BY <1>8 DEF NoPayload
  <2> QED
    BY <1>1, <2>1, FinishedTree, StandsStay
<1>9. CASE List(r)
  BY <1>1, <1>9, PositionsStand, RootSeqIs DEF List
<1>10. CASE WellKnown(r)
  BY <1>1, <1>10, PositionsStand DEF WellKnown
<1>11. CASE Delete(r)
  BY <1>1, <1>11, AbortStands DEF Delete
<1> QED
  BY <1>3, <1>4, <1>5, <1>6, <1>7, <1>8, <1>9, <1>10, <1>11 DEF Handle

(* A look of the watchdog, at the resource the iterator i stands on.       *)
LEMMA LookStands ==
  ASSUME NEW w, DOMAIN w = {"store", "it", "hit"}, Sound(w.store), NEW i,
         Stands(w.store, i), ~Hangs(i)
  PROVE  Stands(Look(w, i).store, Look(w, i).it)
<1> DEFINE u == Answer(i)
<1>1. CASE TimedOut(w.store, u)
  <2>1. u \in Uris
    BY <1>1, TreeType DEF TimedOut, IsLocked, Exists, Sound
  <2>2. Look(w, i) = [store |-> Abort(w.store, u), it |-> AfterDel(w.store, u), hit |-> TRUE]
    BY <1>1 DEF Look
  <2> QED
    BY <2>1, <2>2, AbortStands
<1>2. CASE ~TimedOut(w.store, u)
  <2>1. Look(w, i) = [w EXCEPT !.it = NextOf(w.store, i)]
    BY <1>2 DEF Look
  <2>2. Look(w, i).store = w.store /\ Look(w, i).it = NextOf(w.store, i)
    BY <2>1
  <2> QED
    BY <2>2, NextStands
<1> QED
  BY <1>1, <1>2

(* Only the first of its looks goes on with a walk of others; the iterator *)
(* is left where the last of them takes it.                                *)
LEMMA WatchdogStands ==
  ASSUME NodeInv, IteratorInv, Watchdog \/ Elapse \/ SystemTick
  PROVE  Stands(store', it')
<1>1. Sound(store) /\ Stands(store, it)
  BY DEF NodeInv, IteratorInv
<1>2. CASE WatchdogLooks
  <2> DEFINE w0 == [store |-> store, it |-> it, hit |-> FALSE]
             w1 == Look(w0, w0.it)
             w2 == Look(w1, AtRoot(w1.store, 1))
             w3 == Look(w2, AtRoot(w2.store, 2))
  <2>1. store' = w3.store /\ it' = w3.it
    BY <1>2 DEF WatchdogLooks
  <2>2. DOMAIN w0 = {"store", "it", "hit"} /\ Sound(w0.store)
    BY <1>1
  <2> HIDE DEF w0
  <2>3. DOMAIN w1 = {"store", "it", "hit"} /\ Sound(w1.store)
    BY <2>2, LookSound
  <2> HIDE DEF w1
  <2>4. DOMAIN w2 = {"store", "it", "hit"} /\ Sound(w2.store)
    BY <2>3, LookSound
  <2> HIDE DEF w2
  <2>5. Stands(w2.store, AtRoot(w2.store, 2))
    BY <2>4, AtRootStands
  <2>6. Stands(w3.store, w3.it)
    BY <2>4, <2>5, AtRootFree, LookStands
  <2> QED
    BY <2>1, <2>6
<1>3. CASE WatchdogHangs
  BY <1>1, <1>3 DEF WatchdogHangs
<1>4. CASE Elapse
  <2> DEFINE old == [u \in DOMAIN store.tree |-> [store.tree[u] EXCEPT !.clocktime = Old]]
  <2>1. it' = it /\ store' = [store EXCEPT !.tree = old]
    BY <1>4 DEF Elapse
  <2>2. store'.tree = old
    BY <1>1, <2>1 DEF Sound, WellTyped, StoreType
  <2> QED
    BY <1>1, <2>1, <2>2, StandsStay
<1>5. CASE SystemTick
  <2>1. it' = it /\ store' = SetLastModified(store, SysTime, SYSTEM)
    BY <1>5 DEF SystemTick
  <2>2. DOMAIN store'.tree = DOMAIN store.tree
    BY <1>1, <2>1, ModifiedTree, Identifiers
  <2> QED
    BY <1>1, <2>1, <2>2, StandsStay
<1> QED
  BY <1>2, <1>3, <1>4, <1>5 DEF Watchdog

-----------------------------------------------------------------------------
(* The client.                                                             *)

LEMMA EndRunStands ==
  ASSUME Sound(store), NEW i, Stands(store, i), EndRun(i)
  PROVE  Stands(store', it')
<1>1. store' = SetLastModified(store, NoUri, CLIENT) /\ it' = i
  BY DEF EndRun
<1> QED
  BY <1>1, ModifiedTree, Identifiers, StandsStay

LEMMA VisitStands ==
  ASSUME Sound(store), Stands(store, it), NEW i, Stands(store, i), Visit(i)
  PROVE  Stands(store', it')
<1>1. CASE RunAgent(i)
  BY <1>1, NextStands DEF RunAgent
<1>2. CASE NoMoreAgents(i)
  <2>1. ~Hangs(i) /\ ~(i.root = 1 /\ i.rest # <<>>)
    BY <1>2 DEF NoMoreAgents
  <2>2. CASE i.root = 1
    <3>1. Stands(store, NextOf(store, i))
      BY <2>1, NextStands
    <3>2. NextOf(store, i) = AtRoot(store, 2)
      <4>1. i.rest = <<>> /\ i.root <= Len(RootSeq) /\ i.root + 1 = 2
        BY <2>1, <2>2, RootSeqIs
      <4> QED
        BY <4>1 DEF NextOf
    <3>4. Stands(store, NextOf(store, NextOf(store, i)))
      BY <3>1, <3>2, AtRootFree, NextStands
    <3>5. EndRun(NextOf(store, NextOf(store, i)))
      BY <1>2, <2>2 DEF NoMoreAgents
    <3> QED
      BY <3>4, <3>5, EndRunStands
  <2>3. CASE i.root # 1
    <3>1. Stands(store, NextOf(store, i))
      BY <2>1, NextStands
    <3>2. EndRun(NextOf(store, i))
      BY <1>2, <2>3 DEF NoMoreAgents
    <3> QED
      BY <3>1, <3>2, EndRunStands
  <2> QED
    BY <2>2, <2>3
<1>3. CASE HangInWalk(i)
  BY <1>3 DEF HangInWalk
<1> QED
  BY <1>1, <1>2, <1>3 DEF Visit

LEMMA ClientStands ==
  ASSUME NodeInv, IteratorInv, Client
  PROVE  Stands(store', it')
<1>1. Sound(store) /\ Stands(store, it) /\ \A target \in todo : target.uri \in Uris
  BY DEF NodeInv, IteratorInv
<1>2. CASE WakeUp \/ Start \/ RequestEnds
  BY <1>1, <1>2 DEF WakeUp, Start, RequestEnds
<1>3. CASE NothingToLock \/ ReleaseAll
  <2>1. Stands(store, AtRoot(store, 4)) /\ it' = AtRoot(store, 4)
    BY <1>1, <1>3, RootSeqIs, AtRootStands DEF NothingToLock, ReleaseAll
  <2>2. DOMAIN store'.tree = DOMAIN store.tree
    <3>1. CASE NothingToLock
      BY <3>1 DEF NothingToLock
    <3>2. CASE ReleaseAll
      <4> DEFINE free == [u \in DOMAIN store.tree |-> [store.tree[u] EXCEPT !.mutex = FALSE]]
      <4>1. store' = [store EXCEPT !.tree = free]
        BY <3>2 DEF ReleaseAll
      <4>2. store'.tree = free
        BY <1>1, <4>1 DEF Sound, WellTyped, StoreType
      <4> QED
        BY <4>2
    <3> QED
      BY <1>3, <3>1, <3>2
  <2> QED
    BY <2>1, <2>2, StandsStay
<1>4. CASE LockFirst
  <2>1. PICK n \in 1 .. Len(AllNames) :
          /\ it' = Behind(AllNames[n])
          /\ \/ store' = store
             \/ store' = SetLastModified(Lock(store, AllNames[n]), AllNames[n], CLIENT)
    BY <1>4 DEF LockFirst
  <2> DEFINE u == AllNames[n]
  <2>2. Exists(store, u)
    BY <1>1, NamesExist
  <2>3. Stands(store, it')
    BY <1>1, <2>1, <2>2, BehindStands
  <2>4. Sound(Lock(store, u)) /\ DOMAIN Lock(store, u).tree = DOMAIN store.tree
    BY <1>1, LockSound, LockTree
  <2>5. DOMAIN SetLastModified(Lock(store, u), u, CLIENT).tree = DOMAIN store.tree
    BY <2>4, ModifiedTree, Identifiers
  <2> QED
    BY <2>1, <2>3, <2>5, StandsStay
<1>5. CASE RunFirst
  BY <1>1, <1>5, AtRootStands, VisitStands DEF RunFirst
<1>6. CASE RunNext
  BY <1>1, <1>6, VisitStands DEF RunNext
<1>7. CASE StopOnFailure
  BY <1>1, <1>7, EndRunStands DEF StopOnFailure
<1>8. ASSUME NEW target \in todo, NotServed(target) \/ SendRequest(target)
      PROVE  Stands(store', it')
  BY <1>1, <1>8 DEF NotServed, SendRequest
<1>9. ASSUME NEW target \in todo, LocalDelete(target)
      PROVE  Stands(store', it')
  BY <1>1, <1>9, AfterDelStands DEF LocalDelete
<1>10. ASSUME NEW target \in todo, LocalWrite(target)
       PROVE  Stands(store', it')
  BY <1>1, <1>10, AfterAddStands DEF LocalWrite
<1> QED
  BY <1>2, <1>3, <1>4, <1>5, <1>6, <1>7, <1>8, <1>9, <1>10 DEF Client

-----------------------------------------------------------------------------
(* The types of the other variables.                                       *)

LEMMA KeptTyped ==
  ASSUME NodeTyped, NEW s
  PROVE  Kept(s) \in [Uris -> SUBSET Nat]
  BY DEF NodeTyped, Kept

LEMMA BegunTyped ==
  ASSUME NodeTyped, NEW r, NEW t
  PROVE  Begun(r, t).locked \in BOOLEAN /\ Begun(r, t).count \in Nat \cup {-1}
<1>1. CASE r.num = 0
  <2>1. /\ Begun(r, t).locked = Locks(Add(store, r.uri, t), r.uri)
        /\ Begun(r, t).count = -1
    BY <1>1 DEF Begun
  <2> QED
    BY <2>1 DEF Locks
<1>2. CASE r.num # 0
  BY <1>2 DEF Begun, NodeTyped
<1> QED
  BY <1>1, <1>2

LEMMA HandleTyped ==
  ASSUME NodeTyped, NEW r \in Requests, Handle(r)
  PROVE  NodeTyped'
<1>1. r.num \in Nat /\ r.more \in BOOLEAN /\ r.uri \in Uris
  BY NodeAssumption
<1>2. UNCHANGED <<client, agent, todo, previousFail, hung>>
  BY DEF Handle, Dropped, LostPacket, Refused, Stored, WriteFailed, NoPayload, Get, List,
         WellKnown, Delete, clientVars, nodeVars
<1> DEFINE ServerTyped == /\ opened' \in BOOLEAN /\ locked' \in BOOLEAN /\ count' \in Nat \cup {-1}
                          /\ written' \in [Uris -> SUBSET Nat]
<1>3. SUFFICES ServerTyped
  BY <1>2 DEF NodeTyped
<1>4. CASE LostPacket(r)
  BY <1>4, KeptTyped DEF LostPacket, NodeTyped
<1>5. ASSUME NEW t \in Times, Refused(r, Begun(r, t))
      PROVE  ServerTyped
  BY <1>5, BegunTyped DEF Refused, NodeTyped
<1>6. ASSUME NEW t \in Times, Stored(r, Begun(r, t))
      PROVE  ServerTyped
  <2>1. /\ opened' = TRUE /\ locked' = r.more /\ count' = r.num
        /\ written' = [written EXCEPT ![r.uri] = (IF r.num = 0 THEN {} ELSE @) \cup {r.num}]
    BY <1>6 DEF Stored
  <2> QED
    BY <1>1, <2>1 DEF NodeTyped
<1>7. ASSUME NEW t \in Times, WriteFailed(r, Begun(r, t))
      PROVE  ServerTyped
  BY <1>1, <1>7, KeptTyped DEF WriteFailed
<1>8. CASE Delete(r)
  BY <1>8, KeptTyped DEF Delete, NodeTyped
<1>9. CASE Dropped(r) \/ NoPayload(r) \/ Get(r) \/ List(r) \/ WellKnown(r)
  BY <1>1, <1>9 DEF Dropped, NoPayload, Get, List, WellKnown, nodeVars, serverVars, NodeTyped
<1> QED
  BY <1>4, <1>5, <1>6, <1>7, <1>8, <1>9 DEF Handle

LEMMA WatchdogTyped ==
  ASSUME NodeTyped, Watchdog \/ Elapse \/ SystemTick
  PROVE  NodeTyped'
<1>1. CASE WatchdogLooks
  <2>1. PICK s, hit : /\ written' = Kept(s)
                      /\ opened' = (opened /\ ~hit) /\ locked' = (locked /\ ~hit)
                      /\ UNCHANGED <<count, client, agent, todo, previousFail, hung>>
    BY <1>1 DEF WatchdogLooks, clientVars
  <2> QED
    BY <2>1, KeptTyped DEF NodeTyped
<1>2. CASE WatchdogHangs \/ Elapse \/ SystemTick
  BY <1>2 DEF WatchdogHangs, Elapse, SystemTick, serverVars, clientVars, NodeTyped
<1> QED
  BY <1>1, <1>2 DEF Watchdog

LEMMA ClientTyped ==
  ASSUME NodeTyped, Sound(store), Stands(store, it), Client
  PROVE  NodeTyped'
<1>1. CASE \/ WakeUp \/ Start \/ LockFirst \/ NothingToLock \/ StopOnFailure \/ RequestEnds
           \/ ReleaseAll
  BY <1>1 DEF WakeUp, Start, LockFirst, NothingToLock, StopOnFailure, EndRun, RequestEnds,
              ReleaseAll, serverVars, NodeTyped
<1>2. ASSUME NEW i, Stands(store, i), Visit(i), UNCHANGED <<serverVars, previousFail, written>>
      PROVE  NodeTyped'
  <2>1. CASE RunAgent(i)
    <3>1. Answer(i) \in Uris \cup {NoUri}
      <4>1. i.rest \in Seq(Uris \cup {NoUri}) /\ i.rest # <<>>
        BY <1>2, <2>1 DEF Stands, Iterators, RunAgent
      <4> QED
        BY <4>1 DEF Answer
    <3>2. (IF Exists(store, Answer(i)) THEN Targets[Answer(i)] ELSE {})
             \subseteq UNION {Targets[u] : u \in Uris}
      BY TreeType DEF Exists, Sound
    <3> QED
      BY <1>2, <2>1, <3>1, <3>2 DEF RunAgent, serverVars, NodeTyped
  <2>2. CASE NoMoreAgents(i)
    BY <1>2, <2>2 DEF NoMoreAgents, EndRun, serverVars, NodeTyped
  <2>3. CASE HangInWalk(i)
    BY <1>2, <2>3 DEF HangInWalk, serverVars, NodeTyped
  <2> QED
    BY <1>2, <2>1, <2>2, <2>3 DEF Visit
<1>3. CASE RunFirst \/ RunNext
  BY <1>2, <1>3, AtRootStands DEF RunFirst, RunNext
<1>4. ASSUME NEW target \in todo,
             NotServed(target) \/ LocalDelete(target) \/ LocalWrite(target) \/ SendRequest(target)
      PROVE  NodeTyped'
  <2>1. /\ todo' \subseteq todo /\ UNCHANGED <<agent, hung, opened, locked, count>>
        /\ client' \in {client, "AWAIT"} /\ previousFail' \in BOOLEAN
    BY <1>4 DEF NotServed, LocalDelete, LocalWrite, SendRequest, Serve, serverVars, NodeTyped
  <2>2. written' \in {written, Kept(store'), [written EXCEPT ![target.uri] = {}]}
    BY <1>4 DEF NotServed, LocalDelete, LocalWrite, SendRequest
  <2>3. written' \in [Uris -> SUBSET Nat]
    BY <2>2, KeptTyped DEF NodeTyped
  <2> QED
    BY <2>1, <2>3 DEF NodeTyped
<1> QED
  BY <1>1, <1>3, <1>4 DEF Client

-----------------------------------------------------------------------------
LEMMA BootStands == NodeInit => IteratorInv
<1> SUFFICES ASSUME NodeInit
             PROVE  IteratorInv
  OBVIOUS
<1>1. NodeTyped
  BY DEF NodeInit, NodeTyped
<1>2. Stands(store, it)
  BY RootSeqIs DEF NodeInit, Stands, Iterators, IteratorAt
<1> QED
  BY <1>1, <1>2 DEF IteratorInv

LEMMA NodeStepStands == NodeInv /\ IteratorInv /\ [NodeNext]_nodeVars => IteratorInv'
<1> SUFFICES ASSUME NodeInv, IteratorInv, [NodeNext]_nodeVars
             PROVE  IteratorInv'
  OBVIOUS
<1>1. CASE Arrives
  BY <1>1, HandleStands, HandleTyped DEF Arrives, IteratorInv
<1>2. CASE Watchdog \/ Elapse \/ SystemTick
  BY <1>2, WatchdogStands, WatchdogTyped DEF IteratorInv
<1>3. CASE Client
  BY <1>3, ClientStands, ClientTyped DEF IteratorInv, NodeInv
<1>4. CASE UNCHANGED nodeVars
  BY <1>4 DEF IteratorInv, NodeTyped, Stands, Exists, nodeVars, serverVars, clientVars
<1> QED
  BY <1>1, <1>2, <1>3, <1>4 DEF NodeNext

(* The store and the iterator of a node are in order at every point where  *)
(* a handler or process of it starts.                                      *)
THEOREM NodeInOrder == NodeSpec => [](NodeInv /\ IteratorInv)
<1>1. NodeInit => NodeInv /\ IteratorInv
  BY NodeBootSound, BootStands
<1>2. NodeInv /\ IteratorInv /\ [NodeNext]_nodeVars => (NodeInv /\ IteratorInv)'
  BY NodeStepSound, NodeStepStands
<1> QED
  BY <1>1, <1>2, PTL DEF NodeSpec

(* Every variable of the node keeps its type; the block number that is     *)
(* handled last is -1 at the least, the value it is reset to when a        *)
(* transfer starts (emma-server.c:329).                                    *)
THEOREM NodeTypes == NodeSpec => []NodeTypeOK
<1>1. NodeInv /\ IteratorInv => NodeTypeOK
  BY DEF NodeInv, Sound, IteratorInv, NodeTyped, Stands, Iterators, NodeTypeOK
<1> QED
  BY <1>1, NodeInOrder, PTL

(* Whoever moved the iterator, and whatever was added or deleted since, it *)
(* stands on resources that there are, but for the one resource that       *)
(* emma_resource_del deletes after it has put the iterator on it           *)
(* (emma-resource.c:567).                                                  *)
THEOREM IteratorStands == NodeSpec => []OnlyHeadIsFreed
<1>1. NodeInv /\ IteratorInv => OnlyHeadIsFreed
  BY DEF IteratorInv, Stands, OnlyHeadIsFreed
<1> QED
  BY <1>1, NodeInOrder, PTL

-----------------------------------------------------------------------------
(* The transfers to a node: its resource mutexes, the server's locked and  *)
(* count, and the blocks a resource has of the last transfer to it.        *)
(*                                                                         *)
(* The server has one locked and one count for all resources. Two          *)
(* transfers to different resources at a time take each other's blocks for *)
(* their own, and nothing below would hold; hence the assumptions on what  *)
(* other nodes send, in two strengths. Every other kind of request, the    *)
(* losses and repetitions of the network, the watchdog, the client and the *)
(* agents are as in the model.                                             *)

(* Blocks are sent to the resource x only.                                 *)
OneResource(x) == \A r \in Requests : Block(r) => r.uri = x

(* The transfers to x have as many blocks each, only their blocks have a   *)
(* number, and no agent of this node creates or writes x.                  *)
OneTransfer(x, last) ==
  /\ OneResource(x)
  /\ \A r \in Requests :
       IF Block(r) THEN r.num <= last /\ (r.more <=> r.num # last) ELSE r.num = 0
  /\ \A u \in Uris : \A target \in Targets[u] :
       target.local /\ target.method # "DELETE" => target.uri # x

(* No request but a block, or .well-known/core, which has a handler of its *)
(* own: any other one resets count.                                        *)
OnlyBlocks == \A r \in Requests : Block(r) \/ r.method = "CORE"

-----------------------------------------------------------------------------
(* Mutexes. While the client does not run, only the server has one set.    *)

NotRunning == client \in {"IDLE", "START", "WAITING_MUTEX"}

MutexInv(x) == NotRunning => \A u : IsLocked(store, u) => locked /\ u = x

(* What the watchdog makes of the store, in one look or several: only what *)
(* is locked goes, and without a hit nothing does.                         *)
Looked(w, x) ==
  /\ DOMAIN w = {"store", "it", "hit"} /\ Sound(w.store) /\ w.hit \in BOOLEAN
  /\ DOMAIN w.store.tree \subseteq DOMAIN store.tree
  /\ \A v : IsLocked(w.store, v) => IsLocked(store, v)
  /\ w.hit => NotRunning /\ ~Exists(w.store, x)
  /\ ~w.hit => w.store = store

LEMMA LookLooked ==
  ASSUME NEW x \in Uris, MutexInv(x), NEW w, Looked(w, x), NEW i
  PROVE  Looked(Look(w, i), x)
<1> DEFINE u == Answer(i)
           new == Look(w, i)
<1>1. DOMAIN new = {"store", "it", "hit"} /\ Sound(new.store)
  BY LookSound DEF Looked
<1>2. CASE TimedOut(w.store, u)
  <2>1. new = [store |-> Abort(w.store, u), it |-> AfterDel(w.store, u), hit |-> TRUE]
    BY <1>2 DEF Look
  <2>2. u \in Uris /\ IsLocked(w.store, u) /\ NotRunning
    BY <1>2, TreeType DEF TimedOut, IsLocked, Exists, Looked, Sound, NotRunning
  <2>3. u = x
    BY <2>2 DEF MutexInv, Looked
  <2>4. /\ DOMAIN new.store.tree = DOMAIN w.store.tree \ {u}
        /\ \A v : IsLocked(new.store, v) <=> IsLocked(w.store, v) /\ v # u
    BY <2>1, <2>2, AbortTree DEF Looked
  <2>5. new.hit = TRUE
    BY <2>1
  <2> HIDE DEF new
  <2>6. Looked(new, x)
    BY <1>1, <2>2, <2>3, <2>4, <2>5 DEF Looked, Exists
  <2> QED
    BY <2>6 DEF new
<1>3. CASE ~TimedOut(w.store, u)
  <2>1. new = [w EXCEPT !.it = NextOf(w.store, i)]
    BY <1>3 DEF Look
  <2>2. new.store = w.store /\ new.hit = w.hit
    BY <2>1 DEF Looked
  <2> HIDE DEF new
  <2>3. Looked(new, x)
    BY <1>1, <2>2 DEF Looked
  <2> QED
    BY <2>3 DEF new
<1> QED
  BY <1>2, <1>3

LEMMA WatchdogLooked ==
  ASSUME NEW x \in Uris, NodeInv, MutexInv(x), WatchdogLooks
  PROVE  \E w : /\ Looked(w, x)
                /\ store' = w.store /\ written' = Kept(w.store)
                /\ locked' = (locked /\ ~w.hit)
                /\ UNCHANGED <<count, client>>
<1> DEFINE w0 == [store |-> store, it |-> it, hit |-> FALSE]
           w1 == Look(w0, w0.it)
           w2 == Look(w1, AtRoot(w1.store, 1))
           w3 == Look(w2, AtRoot(w2.store, 2))
<1>1. /\ store' = w3.store /\ written' = Kept(w3.store)
      /\ locked' = (locked /\ ~w3.hit) /\ UNCHANGED <<count, client>>
  BY DEF WatchdogLooks, clientVars
<1>2. Looked(w0, x)
  BY DEF NodeInv, Looked
<1> HIDE DEF w0
<1>3. Looked(w1, x)
  BY <1>2, LookLooked
<1> HIDE DEF w1
<1>4. Looked(w2, x)
  BY <1>3, LookLooked
<1> HIDE DEF w2
<1>5. Looked(w3, x)
  BY <1>4, LookLooked
<1> QED
  BY <1>1, <1>5

(* The first block of a transfer adds the resource and locks it.           *)
LEMMA BegunTree ==
  ASSUME Sound(store), NEW r \in Requests, NEW t \in Times
  PROVE  LET b == Begun(r, t) IN
         /\ r.num # 0 => b.store = store /\ b.locked = locked /\ b.count = count
         /\ r.num = 0 =>
              /\ DOMAIN store.tree \subseteq DOMAIN b.store.tree
              /\ DOMAIN b.store.tree \subseteq DOMAIN store.tree \cup {r.uri}
              /\ \A v : v # r.uri => (IsLocked(b.store, v) <=> IsLocked(store, v))
              /\ ~b.locked => (IsLocked(b.store, r.uri) <=> IsLocked(store, r.uri))
              /\ b.count = -1
<1>1. r.uri \in Uris
  BY NodeAssumption
<1>2. CASE r.num = 0
  <2> DEFINE u == r.uri
             added == Add(store, u, t)
             b == Begun(r, t)
  <2>1. b.store = Lock(added, u) /\ b.locked = Locks(added, u) /\ b.count = -1
    BY <1>2 DEF Begun
  <2>2. Sound(added)
    BY <1>1, AddSound
  <2>3. /\ DOMAIN added.tree \in {DOMAIN store.tree, DOMAIN store.tree \cup {u}}
        /\ \A v : IsLocked(added, v) <=> IsLocked(store, v)
    BY <1>1, AddTree
  <2> HIDE DEF added, b
  <2>4. /\ DOMAIN b.store.tree = DOMAIN added.tree
        /\ \A v : IsLocked(b.store, v) <=> IsLocked(added, v) \/ (v = u /\ Exists(added, u))
    BY <2>1, <2>2, LockTree
  <2>5. ~b.locked => (Exists(added, u) => IsLocked(added, u))
    BY <2>1 DEF Locks, IsLocked
  <2> QED
    BY <1>2, <2>1, <2>3, <2>4, <2>5 DEF b
<1>3. CASE r.num # 0
  BY <1>3 DEF Begun
<1> QED
  BY <1>2, <1>3

LEMMA MutexHandle ==
  ASSUME NEW x \in Uris, OneResource(x), NodeInv, NodeTyped, MutexInv(x),
         NEW r \in Requests, Handle(r)
  PROVE  MutexInv(x)'
<1>1. r.uri \in Uris /\ Sound(store) /\ locked \in BOOLEAN /\ Fresh \in Times
  BY NodeAssumption DEF NodeInv, NodeTyped
<1>2. client' = client
  BY DEF Handle, Dropped, LostPacket, Refused, Stored, WriteFailed, NoPayload, Get, List,
         WellKnown, Delete, clientVars, nodeVars
<1>3. SUFFICES ASSUME NotRunning, NEW v, IsLocked(store, v)', 
                      IsLocked(store, v) => locked /\ v = x
               PROVE  locked' /\ v = x
  BY <1>2 DEF MutexInv, NotRunning
<1>4. CASE Dropped(r) \/ Get(r) \/ List(r) \/ WellKnown(r)
  BY <1>3, <1>4 DEF Dropped, Get, List, WellKnown, nodeVars, serverVars, IsLocked, Exists
<1>5. CASE LostPacket(r)
  <2>1. r.uri = x /\ store' = Abort(store, x)
    BY <1>5 DEF LostPacket, Cancels, OneResource
  <2> QED
    BY <1>1, <1>3, <2>1, AbortTree DEF IsLocked, Exists
<1>6. ASSUME NEW t \in Times, Refused(r, Begun(r, t))
      PROVE  locked' /\ v = x
  <2> DEFINE b == Begun(r, t)
  <2>1. /\ store' = b.store /\ ~b.locked
        /\ r.uri = x /\ (r.num = 0 => ~locked)
    BY <1>6 DEF Refused, Accepted, Busy, OneResource
  <2>2. IsLocked(b.store, v)
    BY <1>3, <2>1 DEF IsLocked, Exists
  <2>3. CASE r.num = 0
    <3>1. IsLocked(store, v)
      BY <1>1, <2>1, <2>2, <2>3, BegunTree
    <3> QED
      BY <1>3, <2>1, <2>3, <3>1
  <2>4. CASE r.num # 0
    BY <1>1, <1>3, <2>1, <2>2, <2>4, BegunTree
  <2> QED
    BY <2>3, <2>4
<1>7. ASSUME NEW t \in Times, Stored(r, Begun(r, t))
      PROVE  locked' /\ v = x
  <2> DEFINE b == Begun(r, t)
             s == SetClocktime(b.store, x, Fresh)
  <2>1. r.uri = x /\ store' = Finished(s, r) /\ locked' = r.more
    BY <1>7 DEF Stored, Accepted, OneResource
  <2>2. Sound(b.store)
    BY <1>1, BegunSound
  <2>3. v # x => (IsLocked(b.store, v) => IsLocked(store, v))
    BY <1>1, <2>1, BegunTree
  <2> HIDE DEF b
  <2>4. Sound(s) /\ (IsLocked(s, v) <=> IsLocked(b.store, v))
    BY <1>1, <2>2, SetClocktimeSound, ClockTree
  <2> HIDE DEF s
  <2>5. IsLocked(s, v) /\ (r.more \/ v # x)
    BY <1>3, <2>1, <2>4, FinishedTree DEF IsLocked, Exists
  <2> QED
    BY <1>3, <2>1, <2>3, <2>4, <2>5
<1>8. ASSUME NEW t \in Times, WriteFailed(r, Begun(r, t))
      PROVE  locked' /\ v = x
  <2> DEFINE b == Begun(r, t)
             a == Abort(b.store, x)
             s == SetClocktime(a, x, Fresh)
  <2>1. r.uri = x /\ store' = Finished(s, r)
    BY <1>8 DEF WriteFailed, Accepted, OneResource
  <2>2. Sound(b.store)
    BY <1>1, BegunSound
  <2>3. v # x => (IsLocked(b.store, v) => IsLocked(store, v))
    BY <1>1, <2>1, BegunTree
  <2> HIDE DEF b
  <2>4. Sound(a) /\ (IsLocked(a, v) <=> IsLocked(b.store, v) /\ v # x)
    BY <2>2, AbortSound, AbortTree
  <2> HIDE DEF a
  <2>5. Sound(s) /\ (IsLocked(s, v) <=> IsLocked(a, v))
    BY <1>1, <2>4, SetClocktimeSound, ClockTree
  <2> HIDE DEF s
  <2>6. IsLocked(s, v)
    BY <1>3, <2>1, <2>5, FinishedTree DEF IsLocked, Exists
  <2> QED
    BY <1>3, <2>3, <2>4, <2>5, <2>6
<1>9. CASE NoPayload(r)
  <2>1. store' = Finished(store, r) /\ locked' = locked
    BY <1>9 DEF NoPayload
  <2>2. IsLocked(store, v)
    BY <1>1, <1>3, <2>1, FinishedTree DEF IsLocked, Exists
  <2> QED
    BY <1>3, <2>1, <2>2
<1>10. CASE Delete(r)
  <2>1. locked' = locked /\ store' \in {store, Abort(store, r.uri)}
    BY <1>10 DEF Delete
  <2>2. IsLocked(store, v)
    BY <1>1, <1>3, <2>1, AbortTree DEF IsLocked, Exists
  <2> QED
    BY <1>3, <2>1, <2>2
<1> QED
  BY <1>4, <1>5, <1>6, <1>7, <1>8, <1>9, <1>10 DEF Handle

LEMMA MutexStep ==
  ASSUME NEW x \in Uris, OneResource(x)
  PROVE  NodeInv /\ IteratorInv /\ MutexInv(x) /\ [NodeNext]_nodeVars => MutexInv(x)'
<1> SUFFICES ASSUME NodeInv, IteratorInv, MutexInv(x), [NodeNext]_nodeVars
             PROVE  MutexInv(x)'
  OBVIOUS
<1>1. Sound(store) /\ NodeTyped
  BY DEF NodeInv, IteratorInv
<1>2. CASE Arrives
  BY <1>1, <1>2, MutexHandle DEF Arrives
<1>3. CASE WatchdogLooks
  <2>1. PICK w : /\ Looked(w, x) /\ store' = w.store /\ locked' = (locked /\ ~w.hit)
                 /\ client' = client
    BY <1>3, WatchdogLooked
  <2>2. ASSUME NotRunning, NEW v, IsLocked(w.store, v)
        PROVE  locked' /\ v = x
    <3>1. locked /\ v = x
      BY <2>1, <2>2 DEF Looked, MutexInv
    <3> QED
      BY <2>1, <2>2, <3>1 DEF Looked, IsLocked
  <2> QED
    BY <2>1, <2>2 DEF MutexInv, NotRunning, IsLocked, Exists
<1>4. CASE WatchdogHangs
  BY <1>4 DEF WatchdogHangs, serverVars, clientVars, MutexInv, NotRunning, IsLocked, Exists
<1>5. CASE Elapse
  <2> DEFINE old == [u \in DOMAIN store.tree |-> [store.tree[u] EXCEPT !.clocktime = Old]]
  <2>1. store' = [store EXCEPT !.tree = old] /\ UNCHANGED <<locked, client>>
    BY <1>5 DEF Elapse, serverVars, clientVars
  <2>2. store'.tree = old
    BY <1>1, <2>1 DEF Sound, WellTyped, StoreType
  <2>3. \A u \in DOMAIN store.tree : old[u].mutex = store.tree[u].mutex
    BY <1>1, TreeType DEF Sound, Entry
  <2>4. \A v : IsLocked(store, v)' => IsLocked(store, v)
    BY <2>2, <2>3 DEF IsLocked, Exists
  <2> QED
    BY <2>1, <2>4 DEF MutexInv, NotRunning
<1>6. CASE SystemTick
  <2>1. store' = SetLastModified(store, SysTime, SYSTEM) /\ UNCHANGED <<locked, client>>
    BY <1>6 DEF SystemTick, serverVars, clientVars
  <2>2. \A v : IsLocked(store, v)' => IsLocked(store, v)
    BY <1>1, <2>1, ModifiedTree, Identifiers DEF IsLocked, Exists
  <2> QED
    BY <2>1, <2>2 DEF MutexInv, NotRunning
<1>7. CASE Client
  <2>1. CASE client' = client /\ store' = store /\ locked' = locked
    BY <2>1 DEF MutexInv, NotRunning, IsLocked, Exists
  <2>2. CASE client' \in {"RUNNING", "AGENT", "AWAIT", "RELEASE"}
    BY <2>2 DEF MutexInv, NotRunning
  <2>3. CASE WakeUp \/ Start
    BY <2>3 DEF WakeUp, Start, serverVars, MutexInv, NotRunning, IsLocked, Exists
  <2>4. CASE LockFirst \/ NothingToLock \/ RequestEnds
    BY <2>1, <2>2, <2>4 DEF LockFirst, NothingToLock, RequestEnds, serverVars
  <2>5. CASE RunFirst \/ RunNext \/ StopOnFailure
    <3>1. client \in {"RUNNING", "AGENT"}
      BY <2>5 DEF RunFirst, RunNext, StopOnFailure
    <3>2. client' \in {client, "AGENT", "RELEASE"}
      BY <2>5 DEF RunFirst, RunNext, StopOnFailure, Visit, RunAgent, NoMoreAgents, HangInWalk,
                  EndRun
    <3> QED
      BY <2>2, <3>1, <3>2
  <2>6. ASSUME NEW target \in todo,
               \/ NotServed(target) \/ LocalDelete(target) \/ LocalWrite(target)
               \/ SendRequest(target)
        PROVE  MutexInv(x)'
    <3>1. client' \in {"AGENT", "AWAIT"}
      BY <2>6 DEF NotServed, LocalDelete, LocalWrite, SendRequest, Serve
    <3> QED
      BY <2>2, <3>1
  <2>7. CASE ReleaseAll
    <3> DEFINE free == [u \in DOMAIN store.tree |-> [store.tree[u] EXCEPT !.mutex = FALSE]]
    <3>1. store' = [store EXCEPT !.tree = free]
      BY <2>7 DEF ReleaseAll
    <3>2. store'.tree = free
      BY <1>1, <3>1 DEF Sound, WellTyped, StoreType
    <3>3. \A u \in DOMAIN store.tree : ~free[u].mutex
      BY <1>1, TreeType DEF Sound, Entry
    <3> QED
      BY <3>2, <3>3 DEF MutexInv, IsLocked, Exists
  <2> QED
    BY <1>7, <2>3, <2>4, <2>5, <2>6, <2>7 DEF Client
<1>8. CASE UNCHANGED nodeVars
  BY <1>8 DEF nodeVars, serverVars, clientVars, MutexInv, NotRunning, IsLocked, Exists
<1> QED
  BY <1>2, <1>3, <1>4, <1>5, <1>6, <1>7, <1>8 DEF NodeNext, Watchdog

LEMMA MutexBoot ==
  ASSUME NEW x \in Uris
  PROVE  NodeInit => MutexInv(x)
<1> SUFFICES ASSUME NodeInit, NEW u, IsLocked(store, u)
             PROVE  FALSE
  BY DEF MutexInv
<1>1. PICK t \in Times : store = BootStore([v \in BootUris |-> NewEntry(t)])
  BY DEF NodeInit
<1>2. store.tree = [v \in BootUris |-> NewEntry(t)]
  BY <1>1 DEF BootStore
<1> QED
  BY <1>2 DEF IsLocked, Exists, NewEntry

(* A mutex that is set while the client does not run is that of the        *)
(* resource of the transfer the server is in (emma-server.c:331): the      *)
(* server lets go of its mutex on every way out of a transfer, and the     *)
(* client of every mutex at the end of a run (emma-client.c:468).          *)
THEOREM MutexesAreHeld ==
  ASSUME NEW x \in Uris, OneResource(x)
  PROVE  NodeSpec => []NoOrphanMutex
<1>1. NodeInit => MutexInv(x)
  BY MutexBoot
<1>2. NodeInv /\ IteratorInv /\ MutexInv(x) /\ [NodeNext]_nodeVars => MutexInv(x)'
  BY MutexStep
<1>3. IteratorInv /\ MutexInv(x) => NoOrphanMutex
  BY DEF IteratorInv, NodeTyped, MutexInv, NotRunning, NoOrphanMutex
<1> QED
  BY <1>1, <1>2, <1>3, NodeInOrder, PTL DEF NodeSpec

-----------------------------------------------------------------------------
(* Blocks. What a resource has of the last transfer is the blocks from the *)
(* first to some m, to the last one when the server is not in a transfer.  *)
(* count may have been reset since, but is never ahead of m.               *)

HasUpTo(x, last) ==
  \E m \in 0 .. last : written[x] = 0 .. m /\ count <= m /\ (OnlyBlocks => count = m)

TransferInv(x, last) ==
  /\ \A u \in Uris : written[u] # {} => u = x /\ Exists(store, u)
  /\ ~locked => written[x] = {} \/ Whole(x)
  /\ locked /\ Exists(store, x) => HasUpTo(x, last)

(* What is written of other resources, and of x once it is gone.           *)
LEMMA KeptIs ==
  ASSUME NEW x \in Uris, \A u \in Uris : written[u] # {} => u = x /\ Exists(store, u), NEW s
  PROVE  /\ \A u \in Uris : Kept(s)[u] # {} => u = x /\ Exists(s, u)
         /\ Kept(s)[x] = IF Exists(s, x) THEN written[x] ELSE {}
  BY DEF Kept

(* x is gone, and the server is not in a transfer any more.                *)
LEMMA TransferGone ==
  ASSUME NEW x \in Uris, NEW last \in Nat, TransferInv(x, last),
         written' = Kept(store'), ~Exists(store, x)'
  PROVE  TransferInv(x, last)'
<1>1. \A u \in Uris : written[u] # {} => u = x /\ Exists(store, u)
  BY DEF TransferInv
<1>2. /\ \A u \in Uris : written'[u] # {} => u = x /\ u \in DOMAIN store'.tree
      /\ written'[x] = {}
  BY <1>1, KeptIs DEF Exists
<1> QED
  BY <1>2 DEF TransferInv, Exists

(* A step that writes no block to x and does not end a transfer: resources *)
(* come and go, x only goes, and count is at most reset.                   *)
LEMMA TransferStays ==
  ASSUME NEW x \in Uris, NEW last \in Nat, TransferInv(x, last),
         written' \in [Uris -> SUBSET Nat],
         \A u \in Uris : written'[u] \in {written[u], {}},
         \A u \in Uris : written'[u] # {} => Exists(store, u)',
         Exists(store, x)' => Exists(store, x) /\ written'[x] = written[x],
         locked' = locked, locked \in BOOLEAN,
         count' = count \/ (count' = 0 /\ ~OnlyBlocks)
  PROVE  TransferInv(x, last)'
<1>1. \A u \in Uris : written'[u] # {} => u = x /\ Exists(store, u)'
  BY DEF TransferInv
<1>2. ASSUME ~locked'
      PROVE  written'[x] = {} \/ Whole(x)'
  BY <1>2 DEF TransferInv, Whole
<1>3. ASSUME locked', Exists(store, x)'
      PROVE  HasUpTo(x, last)'
  <2>1. HasUpTo(x, last) /\ written'[x] = written[x]
    BY <1>3 DEF TransferInv
  <2> QED
    BY <2>1 DEF HasUpTo
<1> QED
  BY <1>1, <1>2, <1>3 DEF TransferInv

(* A block is only stored if it is the first, or follows on the one that   *)
(* was handled last: the blocks up to m become those up to m or m + 1.     *)
LEMMA StoredBlocks ==
  ASSUME NEW x \in Uris, NEW last \in Nat, OneTransfer(x, last), NodeTyped, TransferInv(x, last),
         NEW r \in Requests, NEW t, Stored(r, Begun(r, t))
  PROVE  /\ r.uri = x /\ Block(r) /\ (r.more <=> r.num # last)
         /\ \E m \in 0 .. last : /\ written'[x] = 0 .. m /\ r.num <= m
                                 /\ OnlyBlocks => r.num = m
<1>1. Block(r) /\ r.uri = x /\ r.num \in 0 .. last /\ (r.more <=> r.num # last)
  BY NodeAssumption DEF Stored, Accepted, OneTransfer, OneResource
<1>2. written' = [written EXCEPT ![r.uri] = (IF r.num = 0 THEN {} ELSE @) \cup {r.num}]
  BY DEF Stored
<1>3. written'[x] = (IF r.num = 0 THEN {} ELSE written[x]) \cup {r.num}
  BY <1>1, <1>2 DEF NodeTyped
<1>4. CASE r.num = 0
  <2>1. written'[x] = 0 .. 0
    BY <1>3, <1>4
  <2> QED
    BY <1>1, <1>4, <2>1
<1>5. CASE r.num # 0
  <2>1. Begun(r, t).store = store /\ Begun(r, t).locked = locked
    BY <1>5 DEF Begun
  <2>2. locked /\ Exists(store, x)
    BY <1>1, <2>1 DEF Stored
  <2>3. count \in Int /\ r.num - count \in {0, 1} /\ r.num # count
    BY <1>5, <2>2 DEF Stored, Accepted, Cancels, AlreadyProceeded, NodeTyped
  <2>4. PICK m \in 0 .. last : written[x] = 0 .. m /\ count <= m /\ (OnlyBlocks => count = m)
    BY <2>2 DEF TransferInv, HasUpTo
  <2>5. r.num \in Nat /\ r.num = count + 1 /\ r.num <= m + 1 /\ r.num <= last
    BY <1>1, <2>3, <2>4
  <2>6. written'[x] = (0 .. m) \cup {r.num}
    BY <1>3, <1>5, <2>4
  <2>7. CASE r.num <= m
    <3>1. written'[x] = 0 .. m
      BY <2>5, <2>6, <2>7
    <3> QED
      BY <1>1, <2>4, <2>5, <2>7, <3>1
  <2>8. CASE r.num = m + 1
    <3>1. written'[x] = 0 .. r.num
      BY <2>5, <2>6, <2>8
    <3> QED
      BY <1>1, <2>5, <3>1
  <2> QED
    BY <2>5, <2>7, <2>8
<1> QED
  BY <1>4, <1>5

LEMMA TransferHandle ==
  ASSUME NEW x \in Uris, NEW last \in Nat, OneTransfer(x, last), NodeInv, NodeTyped, NodeTyped',
         TransferInv(x, last), NEW r \in Requests, Handle(r)
  PROVE  TransferInv(x, last)'
<1>1. /\ r.uri \in Uris /\ r.num \in Nat /\ Sound(store) /\ locked \in BOOLEAN
      /\ Fresh \in Times /\ OneResource(x)
  BY NodeAssumption DEF NodeInv, NodeTyped, OneTransfer
<1>2. \A u \in Uris : written[u] # {} => u = x /\ Exists(store, u)
  BY DEF TransferInv
<1>3. CASE Dropped(r) \/ WellKnown(r)
  BY <1>3 DEF Dropped, WellKnown, nodeVars, serverVars, TransferInv, HasUpTo, Whole, Exists
<1>4. CASE LostPacket(r)
  <2>1. r.uri = x /\ store' = Abort(store, x) /\ written' = Kept(store')
    BY <1>1, <1>4 DEF LostPacket, Cancels, OneResource
  <2>2. ~Exists(store, x)'
    BY <1>1, <2>1, AbortTree DEF Exists
  <2> QED
    BY <2>1, <2>2, TransferGone
<1>5. ASSUME NEW t \in Times, Refused(r, Begun(r, t))
      PROVE  TransferInv(x, last)'
  <2> DEFINE b == Begun(r, t)
  <2>1. /\ store' = b.store /\ ~b.locked /\ written' = written /\ ~locked'
        /\ r.num = 0 => ~locked
    BY <1>5 DEF Refused, Accepted, Busy
  <2>2. ~locked /\ DOMAIN store.tree \subseteq DOMAIN store'.tree
    BY <1>1, <2>1, BegunTree
  <2> QED
    BY <1>2, <2>1, <2>2 DEF TransferInv, Whole, Exists
<1>6. ASSUME NEW t \in Times, Stored(r, Begun(r, t))
      PROVE  TransferInv(x, last)'
  <2> DEFINE b == Begun(r, t)
             s == SetClocktime(b.store, x, Fresh)
  <2>1. /\ r.uri = x /\ Block(r) /\ (r.more <=> r.num # last)
        /\ \E m \in 0 .. last : written'[x] = 0 .. m /\ r.num <= m /\ (OnlyBlocks => r.num = m)
    BY <1>6, StoredBlocks
  <2>2. /\ store' = Finished(s, r) /\ locked' = r.more /\ count' = r.num
        /\ Exists(b.store, x)
        /\ \A u \in Uris \ {x} : written'[u] = written[u]
    BY <1>6, <2>1 DEF Stored, NodeTyped
  <2>3. Sound(b.store)
    BY <1>1, BegunSound
  <2> HIDE DEF b
  <2>4. Sound(s) /\ Exists(s, x)
    BY <1>1, <2>2, <2>3, SetClocktimeSound, ClockTree DEF Exists
  <2> HIDE DEF s
  <2>5. Exists(store, x)'
    BY <2>2, <2>4, FinishedTree DEF Exists
  <2>6. \A u \in Uris : written'[u] # {} => u = x
    BY <1>2, <2>2
  <2>7. PICK m \in 0 .. last : written'[x] = 0 .. m /\ r.num <= m /\ (OnlyBlocks => r.num = m)
    BY <2>1
  <2>8. HasUpTo(x, last)'
    BY <2>2, <2>7 DEF HasUpTo
  <2>9. ASSUME ~locked'
        PROVE  Whole(x)'
    <3>1. ~r.more /\ r.num = last
      BY <2>1, <2>2, <2>9
    <3>2. m = r.num
      BY <1>1, <2>7, <3>1
    <3> QED
      BY <2>1, <2>7, <3>1, <3>2 DEF Whole
  <2> QED
    BY <2>5, <2>6, <2>8, <2>9 DEF TransferInv, Exists
<1>7. ASSUME NEW t \in Times, WriteFailed(r, Begun(r, t))
      PROVE  TransferInv(x, last)'
  <2> DEFINE b == Begun(r, t)
             a == Abort(b.store, x)
             s == SetClocktime(a, x, Fresh)
  <2>1. r.uri = x /\ store' = Finished(s, r) /\ written' = Kept(store')
    BY <1>1, <1>7 DEF WriteFailed, Accepted, OneResource
  <2>2. Sound(b.store)
    BY <1>1, BegunSound
  <2> HIDE DEF b
  <2>3. Sound(a) /\ ~Exists(a, x)
    BY <2>2, AbortSound, AbortTree DEF Exists
  <2> HIDE DEF a
  <2>4. Sound(s) /\ ~Exists(s, x)
    BY <1>1, <2>3, SetClocktimeSound, ClockTree DEF Exists
  <2> HIDE DEF s
  <2>5. ~Exists(store, x)'
    BY <2>1, <2>4, FinishedTree DEF Exists
  <2> QED
    BY <2>1, <2>5, TransferGone
<1>8. CASE NoPayload(r) \/ Get(r) \/ List(r) \/ Delete(r)
  <2>1. ~Block(r) /\ r.num = 0 /\ r.method # "CORE"
    BY <1>8 DEF NoPayload, Get, List, Delete, Block, OneTransfer
  <2>2. count' = 0 /\ locked' = locked /\ ~OnlyBlocks
    BY <1>8, <2>1 DEF NoPayload, Get, List, Delete, OnlyBlocks
  <2>3. DOMAIN store'.tree \subseteq DOMAIN store.tree
    BY <1>1, <1>8, FinishedTree, AbortTree DEF NoPayload, Get, List, Delete
  <2>4. \/ written' = written /\ DOMAIN store'.tree = DOMAIN store.tree
        \/ written' = Kept(store')
    BY <1>1, <1>8, FinishedTree DEF NoPayload, Get, List, Delete
  <2>5. /\ \A u \in Uris : written'[u] \in {written[u], {}}
        /\ \A u \in Uris : written'[u] # {} => Exists(store, u)'
        /\ Exists(store, x)' => written'[x] = written[x]
    BY <1>2, <2>4 DEF Kept, Exists
  <2>6. written' \in [Uris -> SUBSET Nat] /\ (Exists(store, x)' => Exists(store, x))
    BY <2>3 DEF NodeTyped, Exists
  <2> QED
    BY <1>1, <2>2, <2>5, <2>6, TransferStays
<1> QED
  BY <1>3, <1>4, <1>5, <1>6, <1>7, <1>8 DEF Handle

LEMMA TransferStep ==
  ASSUME NEW x \in Uris, NEW last \in Nat, OneTransfer(x, last)
  PROVE  /\ NodeInv /\ IteratorInv /\ MutexInv(x) /\ TransferInv(x, last)
         /\ [NodeNext]_nodeVars
         => TransferInv(x, last)'
<1> SUFFICES ASSUME NodeInv, IteratorInv, MutexInv(x), TransferInv(x, last), [NodeNext]_nodeVars
             PROVE  TransferInv(x, last)'
  OBVIOUS
<1>1. Sound(store) /\ NodeTyped /\ NodeTyped' /\ locked \in BOOLEAN
  BY NodeStepStands DEF NodeInv, IteratorInv, NodeTyped
<1>2. \A u \in Uris : written[u] # {} => u = x /\ Exists(store, u)
  BY DEF TransferInv
<1>3. ASSUME UNCHANGED <<written, locked, count>>, DOMAIN store'.tree = DOMAIN store.tree
      PROVE  TransferInv(x, last)'
  <2>1. /\ \A u \in Uris : written'[u] \in {written[u], {}}
        /\ \A u \in Uris : written'[u] # {} => Exists(store, u)'
        /\ Exists(store, x)' => Exists(store, x) /\ written'[x] = written[x]
        /\ written' \in [Uris -> SUBSET Nat]
    BY <1>1, <1>2, <1>3 DEF Exists, NodeTyped
  <2> QED
    BY <1>1, <1>3, <2>1, TransferStays
<1>4. CASE Arrives
  BY <1>1, <1>4, TransferHandle DEF Arrives
<1>5. CASE WatchdogLooks
  <2>1. PICK w : /\ Looked(w, x) /\ store' = w.store /\ written' = Kept(w.store)
                 /\ locked' = (locked /\ ~w.hit) /\ count' = count
    BY <1>5, WatchdogLooked
  <2>2. CASE w.hit
    <3>1. ~Exists(store, x)' /\ written' = Kept(store')
      BY <2>1, <2>2 DEF Looked, Exists
    <3> QED
      BY <3>1, TransferGone
  <2>3. CASE ~w.hit
    <3>1. store' = store /\ locked' = locked /\ written' = Kept(store)
      BY <1>1, <2>1, <2>3 DEF Looked
    <3>2. /\ \A u \in Uris : written'[u] \in {written[u], {}}
          /\ \A u \in Uris : written'[u] # {} => Exists(store, u)'
          /\ Exists(store, x)' => Exists(store, x) /\ written'[x] = written[x]
          /\ written' \in [Uris -> SUBSET Nat]
      BY <1>1, <1>2, <3>1 DEF Kept, Exists, NodeTyped
    <3> QED
      BY <1>1, <2>1, <3>1, <3>2, TransferStays
  <2> QED
    BY <2>1, <2>2, <2>3 DEF Looked
<1>6. CASE WatchdogHangs
  BY <1>3, <1>6 DEF WatchdogHangs, serverVars
<1>7. CASE Elapse
  <2> DEFINE old == [u \in DOMAIN store.tree |-> [store.tree[u] EXCEPT !.clocktime = Old]]
  <2>1. store' = [store EXCEPT !.tree = old] /\ UNCHANGED <<written, locked, count>>
    BY <1>7 DEF Elapse, serverVars
  <2>2. store'.tree = old
    BY <1>1, <2>1 DEF Sound, WellTyped, StoreType
  <2> QED
    BY <1>3, <2>1, <2>2
<1>8. CASE SystemTick
  <2>1. store' = SetLastModified(store, SysTime, SYSTEM) /\ UNCHANGED <<written, locked, count>>
    BY <1>8 DEF SystemTick, serverVars
  <2>2. DOMAIN store'.tree = DOMAIN store.tree
    BY <1>1, <2>1, ModifiedTree, Identifiers
  <2> QED
    BY <1>3, <2>1, <2>2
<1>9. CASE Client
  <2>1. CASE WakeUp \/ Start \/ NothingToLock \/ RequestEnds
    BY <1>3, <2>1 DEF WakeUp, Start, NothingToLock, RequestEnds, serverVars
  <2>2. CASE LockFirst
    <3>1. PICK n \in 1 .. Len(AllNames) :
            \/ store' = store
            \/ store' = SetLastModified(Lock(store, AllNames[n]), AllNames[n], CLIENT)
      BY <2>2 DEF LockFirst
    <3>2. /\ Sound(Lock(store, AllNames[n]))
          /\ DOMAIN Lock(store, AllNames[n]).tree = DOMAIN store.tree
      BY <1>1, LockSound, LockTree
    <3>3. DOMAIN SetLastModified(Lock(store, AllNames[n]), AllNames[n], CLIENT).tree
            = DOMAIN store.tree
      BY <3>2, ModifiedTree, Identifiers
    <3>4. UNCHANGED <<written, locked, count>>
      BY <2>2 DEF LockFirst, serverVars
    <3> QED
      BY <1>3, <3>1, <3>3, <3>4
  <2>3. CASE RunFirst \/ RunNext \/ StopOnFailure
    <3>1. UNCHANGED <<written, locked, count>>
      BY <2>3 DEF RunFirst, RunNext, StopOnFailure, serverVars
    <3>2. store' = store \/ store' = SetLastModified(store, NoUri, CLIENT)
      BY <2>3 DEF RunFirst, RunNext, StopOnFailure, Visit, RunAgent, NoMoreAgents, HangInWalk,
                  EndRun
    <3>3. DOMAIN SetLastModified(store, NoUri, CLIENT).tree = DOMAIN store.tree
      BY <1>1, ModifiedTree, Identifiers
    <3> QED
      BY <1>3, <3>1, <3>2, <3>3
  <2>4. CASE ReleaseAll
    <3> DEFINE free == [u \in DOMAIN store.tree |-> [store.tree[u] EXCEPT !.mutex = FALSE]]
    <3>1. store' = [store EXCEPT !.tree = free] /\ UNCHANGED <<written, locked, count>>
      BY <2>4 DEF ReleaseAll, serverVars
    <3>2. store'.tree = free
      BY <1>1, <3>1 DEF Sound, WellTyped, StoreType
    <3> QED
      BY <1>3, <3>1, <3>2
  <2>5. ASSUME NEW target \in todo, NotServed(target) \/ SendRequest(target)
        PROVE  TransferInv(x, last)'
    BY <1>3, <2>5 DEF NotServed, SendRequest, Serve, serverVars
  <2>6. ASSUME NEW target \in todo, LocalDelete(target)
        PROVE  TransferInv(x, last)'
    <3>1. /\ store' = Del(store, target.uri) /\ written' = Kept(store')
          /\ locked' = locked /\ count' = count /\ target.uri \in Uris
      BY <2>6 DEF LocalDelete, Serve, serverVars, NodeInv
    <3>2. DOMAIN store'.tree \subseteq DOMAIN store.tree
      BY <1>1, <3>1, DelTree
    <3>3. /\ \A u \in Uris : written'[u] \in {written[u], {}}
          /\ \A u \in Uris : written'[u] # {} => Exists(store, u)'
          /\ Exists(store, x)' => Exists(store, x) /\ written'[x] = written[x]
          /\ written' \in [Uris -> SUBSET Nat]
      BY <1>1, <3>1, <3>2 DEF Kept, Exists, NodeTyped
    <3> QED
      BY <1>1, <3>1, <3>3, TransferStays
  <2>7. ASSUME NEW target \in todo, LocalWrite(target)
        PROVE  TransferInv(x, last)'
    <3>1. /\ written' = [written EXCEPT ![target.uri] = {}]
          /\ locked' = locked /\ count' = count /\ target.uri \in Uris
          /\ target.local /\ target.method # "DELETE"
      BY <2>7 DEF LocalWrite, Serve, serverVars, NodeInv
    <3>2. PICK t \in Times : store' = Add(store, target.uri, t)
      BY <2>7 DEF LocalWrite
    <3>3. target.uri # x
      BY <1>1, <3>1 DEF OneTransfer, NodeTyped
    <3>4. DOMAIN store'.tree \in {DOMAIN store.tree, DOMAIN store.tree \cup {target.uri}}
      BY <1>1, <3>1, <3>2, AddTree
    <3>5. /\ \A u \in Uris : written'[u] \in {written[u], {}}
          /\ \A u \in Uris : written'[u] # {} => Exists(store, u)'
          /\ Exists(store, x)' => Exists(store, x) /\ written'[x] = written[x]
          /\ written' \in [Uris -> SUBSET Nat]
      BY <1>1, <1>2, <3>1, <3>3, <3>4 DEF Exists, NodeTyped
    <3> QED
      BY <1>1, <3>1, <3>5, TransferStays
  <2> QED
    BY <1>9, <2>1, <2>2, <2>3, <2>4, <2>5, <2>6, <2>7 DEF Client
<1>10. CASE UNCHANGED nodeVars
  BY <1>3, <1>10 DEF nodeVars, serverVars
<1> QED
  BY <1>4, <1>5, <1>6, <1>7, <1>8, <1>9, <1>10 DEF NodeNext, Watchdog

(* One resource is transferred to a node at a time, each time in as many   *)
(* blocks: the mutexes and the blocks written agree with locked and count. *)
THEOREM TransfersInOrder ==
  ASSUME NEW x \in Uris, NEW last \in Nat, OneTransfer(x, last)
  PROVE  NodeSpec => [](MutexInv(x) /\ TransferInv(x, last))
<1>1. NodeInit => MutexInv(x) /\ TransferInv(x, last)
  BY MutexBoot DEF NodeInit, TransferInv
<1>2. OneResource(x)
  BY DEF OneTransfer
<1>3. NodeInv /\ IteratorInv /\ MutexInv(x) /\ TransferInv(x, last) /\ [NodeNext]_nodeVars
        => (MutexInv(x) /\ TransferInv(x, last))'
  BY <1>2, MutexStep, TransferStep
<1> QED
  BY <1>1, <1>3, NodeInOrder, PTL DEF NodeSpec

(* No way out of a transfer, be it a lost block, a failed write or the     *)
(* watchdog, leaves a resource with a part of its blocks                   *)
(* (emma-server.c:104-109, :345-357, :380-400).                            *)
THEOREM PartsAreHeld ==
  ASSUME NEW x \in Uris, NEW last \in Nat, OneTransfer(x, last)
  PROVE  NodeSpec => []PartialsAreHeld
<1>1. TransferInv(x, last) => PartialsAreHeld
  BY DEF TransferInv, PartialsAreHeld, Partial
<1> QED
  BY <1>1, TransfersInOrder, PTL

(* A transfer that ends well has left all of its blocks, whatever the      *)
(* network lost, repeated or reordered and whatever requests of other      *)
(* kinds reset count in between (emma-server.c:345, :371, :510).           *)
THEOREM EndedAreWhole ==
  ASSUME NEW x \in Uris, NEW last \in Nat, OneTransfer(x, last)
  PROVE  NodeSpec => EndedTransfersAreWhole
<1>1. ASSUME NodeInv, IteratorInv, TransferInv(x, last),
             NEW r \in Requests, NEW t \in Times, ~r.more, Stored(r, Begun(r, t))
      PROVE  written'[r.uri] = 0 .. r.num
  <2>1. /\ r.uri = x /\ r.num = last
        /\ \E m \in 0 .. last : written'[x] = 0 .. m /\ r.num <= m
    BY <1>1, StoredBlocks DEF IteratorInv
  <2> QED
    BY <2>1
<1>2. NodeInv /\ IteratorInv /\ TransferInv(x, last)
        => \A r \in Requests, t \in Times :
             ~r.more /\ Stored(r, Begun(r, t)) => written'[r.uri] = 0 .. r.num
  BY <1>1
<1> QED
  BY <1>2, TransfersInOrder, NodeInOrder, PTL DEF EndedTransfersAreWhole

(* A block that follows on what was written is never taken for one after a *)
(* lost packet (emma-server.c:345), as long as no other request resets     *)
(* count in the midst of the transfer (emma-server.c:510).                 *)
THEOREM OnlyLostCancels ==
  ASSUME NEW x \in Uris, NEW last \in Nat, OneTransfer(x, last), OnlyBlocks
  PROVE  NodeSpec => []CancelsOnlyLost
<1>1. ASSUME NodeInv, IteratorInv, TransferInv(x, last),
             NEW r \in Requests, Cancels(r), written[r.uri] = 0 .. r.num - 1
      PROVE  FALSE
  <2>1. /\ Block(r) /\ r.uri = x /\ r.num \in 1 .. last
        /\ r.num - count \notin {0, 1} /\ locked \in BOOLEAN /\ count \in Int
    BY <1>1, NodeAssumption DEF Cancels, OneTransfer, OneResource, IteratorInv, NodeTyped
  <2>2. 0 \in written[x] /\ r.num \notin written[x] /\ r.num - 1 \in written[x]
    BY <1>1, <2>1
  <2>3. CASE ~locked
    <3>1. Whole(x)
      BY <1>1, <2>2, <2>3 DEF TransferInv
    <3>2. PICK q \in Requests : Block(q) /\ ~q.more /\ written[x] = 0 .. q.num
      BY <3>1 DEF Whole
    <3>3. q.num = last
      BY <3>2, NodeAssumption DEF OneTransfer
    <3> QED
      BY <2>1, <2>2, <3>2, <3>3
  <2>4. CASE locked
    <3>1. Exists(store, x)
      BY <1>1, <2>2 DEF TransferInv
    <3>2. PICK m \in 0 .. last : written[x] = 0 .. m /\ count = m
      BY <1>1, <2>4, <3>1 DEF TransferInv, HasUpTo
    <3>3. m = r.num - 1
      BY <2>1, <2>2, <3>2
    <3> QED
      BY <2>1, <3>2, <3>3
  <2> QED
    BY <2>1, <2>3, <2>4
<1>2. NodeInv /\ IteratorInv /\ TransferInv(x, last) => CancelsOnlyLost
  BY <1>1 DEF CancelsOnlyLost
<1> QED
  BY <1>2, TransfersInOrder, NodeInOrder, PTL
=============================================================================
