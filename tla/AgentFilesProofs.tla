--------------------------- MODULE AgentFilesProofs ---------------------------
(***************************************************************************)
(* Whatever the documents, the blocks, the failures and the other          *)
(* requests: agents never share a file, and a request leaves no agent in   *)
(* part. With well-written documents and no other request between the      *)
(* blocks: keys are noted where they are, and what is read of an agent is  *)
(* its own.                                                                *)
(***************************************************************************)
EXTENDS AgentFiles, FiniteSetTheorems, SequenceTheorems, WellFoundedInduction, TLAPS

-----------------------------------------------------------------------------
(* There is a file for who gets an agent from the pool.                    *)

(* A set of numbers that is not empty has a least one.                     *)
LEMMA LeastIs ==
  ASSUME NEW S \in SUBSET Nat, S # {}
  PROVE  Least(S) \in S /\ \A t \in S : Least(S) <= t
<1>1. PICK x \in S : \A y \in S : ~(<<y, x>> \in OpToRel(<, Nat))
  BY NatLessThanWellFounded, WFMin
<1>2. ASSUME NEW y \in S
      PROVE  x <= y
  <2>1. ~(y < x)
    BY <1>1, Zenon DEF OpToRel
  <2> QED
    BY <2>1, SMT
<1> QED
  BY <1>2 DEF Least

FilesTyped ==
  memoryIndex \in [Names -> Slots \cup {NoAgent}] /\ memory \subseteq Slots

(* getMemoryIndex does not run past the end of the table (root-agent.c:76) *)
(* while the pool of agents has one left: it finds a file that is free.    *)
LEMMA AFileIsFree ==
  ASSUME FilesTyped, FilesAreApart, Cardinality(InUse) < Cardinality(Slots)
  PROVE  getMemoryIndex \in Slots \ memory
<1> DEFINE f == [u \in InUse |-> memoryIndex[u]]
<1>1. IsFiniteSet(InUse) /\ IsFiniteSet(Slots) /\ Slots \in SUBSET Nat
  <2>1. InUse \in SUBSET Names
    BY DEF InUse
  <2> QED
    BY <2>1, AgentAssumption, FS_Subset
<1>2. f \in Surjection(InUse, memory)
  BY DEF FilesAreApart, Surjection
<1>3. Cardinality(memory) <= Cardinality(InUse) /\ IsFiniteSet(memory)
  BY <1>1, <1>2, FS_Surjection
<1>4. Slots \ memory # {}
  <2>1. SUFFICES ASSUME Slots = memory PROVE FALSE
    BY DEF FilesTyped
  <2>2. Cardinality(memory) \in Nat /\ Cardinality(InUse) \in Nat
    BY <1>1, <1>3, FS_CardinalityType
  <2> QED
    BY <2>1, <2>2, <1>3
<1> QED
  BY <1>1, <1>4, LeastIs DEF getMemoryIndex

-----------------------------------------------------------------------------
(* The invariant: the server holds no lock but that of the transfer whose  *)
(* later blocks it takes, what it has locked is there, and what is there   *)
(* in part by a request is what it has locked.                             *)

TransferTyped ==
  /\ locked \in InUse \cup {NoName}
  /\ incoming # NoTransfer =>
       /\ incoming.uri \in Names /\ incoming.sent \in Nat
       /\ incoming = [uri |-> incoming.uri, doc |-> incoming.doc,
                      method |-> incoming.method, sent |-> incoming.sent]

LockIsOwn ==
  incoming # NoTransfer /\ incoming.sent # 0 => locked \in {NoName, incoming.uri}

IInv ==
  /\ FilesTyped
  /\ FilesAreApart
  /\ TransferTyped
  /\ DOMAIN partBy = Names
  /\ LockIsOwn
  /\ RequestsAreWhole

LEMMA InitIInv == Init => IInv
<1> SUFFICES ASSUME Init PROVE IInv
  OBVIOUS
<1> USE AgentAssumption DEF Init
<1>1. InUse = {}
  BY DEF InUse
<1>2. FilesTyped /\ FilesAreApart
  BY <1>1 DEF FilesTyped, FilesAreApart
<1>3. TransferTyped /\ LockIsOwn /\ DOMAIN partBy = Names
  BY <1>1 DEF TransferTyped, LockIsOwn
<1>4. RequestsAreWhole
  BY <1>1 DEF RequestsAreWhole
<1> QED
  BY <1>2, <1>3, <1>4 DEF IInv

(* The agent of u goes with its file.                                      *)
LEMMA GoneKeeps ==
  ASSUME IInv, NEW u \in Names, Gone(u)
  PROVE  /\ FilesTyped' /\ FilesAreApart' /\ DOMAIN partBy' = Names
         /\ InUse' = InUse \ {u}
         /\ \A v \in InUse' : partBy'[v] = partBy[v]
<1> USE AgentAssumption DEF IInv
<1>1. DOMAIN partBy' = Names /\ \A v \in Names \ {u} : partBy'[v] = partBy[v]
  BY DEF Gone
<1>2. CASE u \in InUse
  <2>1. /\ memoryIndex' = [memoryIndex EXCEPT ![u] = NoAgent]
        /\ memory' = memory \ {memoryIndex[u]}
    BY <1>2 DEF Gone, root_agent_free
  <2>2. InUse' = InUse \ {u} /\ FilesTyped'
    BY <2>1 DEF InUse, FilesTyped
  <2>3. \A v \in InUse' : memoryIndex'[v] = memoryIndex[v] /\ v \in InUse
    BY <2>1, <2>2 DEF InUse, FilesTyped
  <2>4. \A v, w \in InUse' : memoryIndex'[v] = memoryIndex'[w] => v = w
    BY <2>3 DEF FilesAreApart
  <2>5. memory' = {memoryIndex'[v] : v \in InUse'}
    BY <1>2, <2>1, <2>2, <2>3 DEF FilesAreApart
  <2>6. FilesAreApart'
    BY <2>4, <2>5 DEF FilesAreApart
  <2>7. \A v \in InUse' : v \in Names \ {u}
    BY <2>2 DEF InUse
  <2> QED
    BY <1>1, <2>2, <2>6, <2>7
<1>3. CASE u \notin InUse
  <2>1. memoryIndex' = memoryIndex /\ memory' = memory
    BY <1>3 DEF Gone
  <2>2. InUse' = InUse /\ FilesTyped' /\ FilesAreApart'
    BY <2>1 DEF InUse, FilesTyped, FilesAreApart
  <2>3. \A v \in InUse' : v \in Names \ {u}
    BY <1>3, <2>2 DEF InUse
  <2> QED
    BY <1>1, <1>3, <2>2, <2>3
<1> QED
  BY <1>2, <1>3

(* The file of an agent, or of one that comes from the pool, is no other's.*)
LEMMA FileIsOwn ==
  ASSUME IInv, NEW u \in Names, CanHave(u)
  PROVE  FileFor(u) \in Slots /\ \A v \in InUse \ {u} : memoryIndex[v] # FileFor(u)
<1> USE AgentAssumption DEF IInv
<1>1. CASE u \in InUse
  <2>1. FileFor(u) = memoryIndex[u]
    BY <1>1 DEF FileFor
  <2> QED
    BY <1>1, <2>1 DEF FilesAreApart, FilesTyped, InUse
<1>2. CASE u \notin InUse
  <2>1. FileFor(u) \in Slots \ memory
    BY <1>2, AFileIsFree DEF CanHave, FileFor
  <2> QED
    BY <2>1 DEF FilesAreApart
<1> QED
  BY <1>1, <1>2

(* u has an agent, the one it had or a new one on a file that was free.    *)
LEMMA HasKeeps ==
  ASSUME IInv, NEW u \in Names, CanHave(u), NEW a, NEW content, Has(u, FileFor(u), a, content)
  PROVE  FilesTyped' /\ FilesAreApart' /\ InUse' = InUse \cup {u}
<1> DEFINE f == FileFor(u)
<1> USE AgentAssumption DEF IInv
<1>1. memoryIndex' = [memoryIndex EXCEPT ![u] = f] /\ memory' = memory \cup {f}
  BY DEF Has
<1>2. f \in Slots /\ \A v \in InUse \ {u} : memoryIndex[v] # f
  BY FileIsOwn
<1>3. InUse' = InUse \cup {u} /\ FilesTyped'
  BY <1>1, <1>2 DEF InUse, FilesTyped
<1>4. \A v \in InUse' : v \in Names /\ memoryIndex'[v] = IF v = u THEN f ELSE memoryIndex[v]
  BY <1>1 DEF InUse, FilesTyped
<1>5. \A v, w \in InUse' : memoryIndex'[v] = memoryIndex'[w] => v = w
  BY <1>2, <1>3, <1>4 DEF FilesAreApart
<1>6. memory' = {memoryIndex'[v] : v \in InUse'}
  <2>1. ASSUME NEW s \in memory' PROVE \E v \in InUse' : s = memoryIndex'[v]
    <3>1. CASE s = f
      BY <3>1, <1>3, <1>4
    <3>2. CASE s # f
      <4>1. PICK v \in InUse : s = memoryIndex[v]
        BY <2>1, <3>2, <1>1 DEF FilesAreApart
      <4>2. CASE v = u
        <5>1. f = memoryIndex[u]
          BY <4>1, <4>2 DEF FileFor
        <5> QED
          BY <5>1, <4>1, <4>2, <3>2
      <4>3. CASE v # u
        BY <4>1, <4>3, <1>3, <1>4
      <4> QED
        BY <4>2, <4>3
    <3> QED
      BY <3>1, <3>2
  <2>2. ASSUME NEW v \in InUse' PROVE memoryIndex'[v] \in memory'
    BY <1>1, <1>3, <1>4 DEF FilesAreApart
  <2> QED
    BY <2>1, <2>2
<1> QED
  BY <1>3, <1>5, <1>6 DEF FilesAreApart

-----------------------------------------------------------------------------
(* The actions.                                                            *)

(* A block of the transfer is cancelled or refused.                        *)
LEMMA DropKeeps ==
  ASSUME IInv, incoming # NoTransfer, locked \in {NoName, incoming.uri},
         Gone(incoming.uri), locked' = NoName, incoming' = incoming
  PROVE  IInv'
<1> USE AgentAssumption DEF IInv
<1>1. incoming.uri \in Names
  BY DEF TransferTyped
<1>2. /\ FilesTyped' /\ FilesAreApart' /\ DOMAIN partBy' = Names
      /\ InUse' = InUse \ {incoming.uri}
      /\ \A v \in InUse' : partBy'[v] = partBy[v]
  BY <1>1, GoneKeeps
<1>3. TransferTyped' /\ LockIsOwn'
  <2>1. TransferTyped'
    BY DEF TransferTyped
  <2> QED
    BY <2>1 DEF LockIsOwn
<1>4. \A v \in InUse' : partBy'[v] # "request"
  BY <1>2 DEF RequestsAreWhole, InUse
<1>5. RequestsAreWhole'
  BY <1>4 DEF RequestsAreWhole
<1> QED
  BY <1>2, <1>3, <1>5

LEMMA BlockKeeps ==
  ASSUME IInv, incoming # NoTransfer, NEW n \in 0 .. incoming.sent, Block(n)
  PROVE  IInv'
<1> USE AgentAssumption DEF IInv
<1>0. /\ incoming.uri \in Names /\ incoming.sent \in Nat /\ n \in Nat
      /\ n # 0 => locked \in {NoName, incoming.uri}
  BY SMT DEF TransferTyped, LockIsOwn
<1>1. CASE Cancel(n)
  <2>1. n # 0 /\ Gone(incoming.uri) /\ locked' = NoName /\ incoming' = incoming
    BY <1>1 DEF Cancel, Cancels
  <2> QED
    BY <2>1, <1>0, DropKeeps
<1>2. CASE NoPlace
  <2>1. UNCHANGED <<memoryIndex, memory, incoming, locked, partBy>>
    BY <1>2 DEF NoPlace
  <2> QED
    BY <2>1 DEF FilesTyped, FilesAreApart, TransferTyped, LockIsOwn, RequestsAreWhole, InUse
<1>3. CASE PutBlock(n)
  <2>1. PICK w : Stored(n, w) \/ Refused(w)
    BY <1>3 DEF PutBlock
  <2>2. Takes(n)
    BY <1>3 DEF PutBlock
  <2>3. locked \in {NoName, incoming.uri}
    BY <2>2, <1>0 DEF Takes
  <2>4. CASE Refused(w)
    BY <2>3, <2>4, DropKeeps DEF Refused
  <2>5. CASE Stored(n, w)
    <3> DEFINE u == incoming.uri
    <3>1. PICK more \in BOOLEAN :
            /\ Has(u, FileFor(u), w.agt, w.file)
            /\ locked' = IF more THEN u ELSE NoName
            /\ incoming' = [incoming EXCEPT !.sent = IF more /\ n = @ THEN @ + 1 ELSE @]
            /\ partBy' = [partBy EXCEPT ![u] = IF more THEN "request" ELSE "none"]
      <4> DEFINE more == n < LastBlock(incoming.doc)
      <4>1. more \in BOOLEAN
        OBVIOUS
      <4> QED
        BY <2>5, <4>1 DEF Stored
    <3>2. CanHave(u)
      <4>1. CASE n = 0
        BY <2>2, <4>1 DEF Takes
      <4>2. CASE n # 0
        BY <2>2, <4>2, <1>0 DEF Takes, TransferTyped, CanHave
      <4> QED
        BY <4>1, <4>2
    <3>3. FilesTyped' /\ FilesAreApart' /\ InUse' = InUse \cup {u}
      BY <1>0, <3>1, <3>2, HasKeeps
    <3>4. incoming'.uri = u /\ incoming'.sent \in Nat
          /\ incoming' = [uri |-> u, doc |-> incoming.doc, method |-> incoming.method, sent |-> incoming'.sent]
      <4>1. incoming = [uri |-> u, doc |-> incoming.doc, method |-> incoming.method, sent |-> incoming.sent]
        BY DEF TransferTyped
      <4>2. PICK k \in Nat : incoming' = [incoming EXCEPT !.sent = k]
        <5>1. (IF more /\ n = incoming.sent THEN incoming.sent + 1 ELSE incoming.sent) \in Nat
          BY <1>0
        <5> QED
          BY <5>1, <3>1
      <4>3. incoming' = [uri |-> u, doc |-> incoming.doc, method |-> incoming.method, sent |-> k]
        BY <4>1, <4>2
      <4> QED
        BY <4>3
    <3>5. locked' \in {u, NoName}
      BY <3>1
    <3>6. TransferTyped' /\ LockIsOwn'
      <4>1. TransferTyped'
        BY <1>0, <3>3, <3>4, <3>5 DEF TransferTyped
      <4>2. LockIsOwn'
        BY <3>4, <3>5 DEF LockIsOwn
      <4> QED
        BY <4>1, <4>2
    <3>7. RequestsAreWhole'
      <4>1. SUFFICES ASSUME NEW v \in InUse', partBy'[v] = "request" PROVE locked' = v
        BY DEF RequestsAreWhole
      <4>2. CASE v = u
        BY <1>0, <3>1, <4>1, <4>2
      <4>3. CASE v # u
        <5>1. v \in InUse /\ partBy[v] = "request"
          BY <3>1, <3>3, <4>1, <4>3
        <5>2. v = u
          BY <5>1, <2>3, <1>0 DEF RequestsAreWhole, InUse
        <5> QED
          BY <5>2, <4>3
      <4> QED
        BY <4>2, <4>3
    <3>8. DOMAIN partBy' = Names
      BY <3>1
    <3> QED
      BY <3>3, <3>6, <3>7, <3>8
  <2> QED
    BY <2>1, <2>4, <2>5
<1> QED
  BY <1>1, <1>2, <1>3 DEF Block

LEMMA RequestKeeps ==
  ASSUME IInv,
         \/ OtherRequest \/ Watchdog
         \/ \E u \in Names : Delete(u) \/ LocalDelete(u)
         \/ \E u \in Names, d \in Documents, m \in {"PUT", "POST"} : Begin(u, d, m)
  PROVE  IInv'
<1> USE AgentAssumption DEF IInv
<1>1. CASE OtherRequest
  <2>1. UNCHANGED <<memoryIndex, memory, incoming, locked, partBy>>
    BY <1>1 DEF OtherRequest
  <2> QED
    BY <2>1 DEF FilesTyped, FilesAreApart, TransferTyped, LockIsOwn, RequestsAreWhole, InUse
<1>2. CASE Watchdog
  <2>1. locked \in Names /\ Gone(locked) /\ locked' = NoName /\ incoming' = incoming
    BY <1>2 DEF Watchdog, TransferTyped, InUse
  <2>2. /\ FilesTyped' /\ FilesAreApart' /\ DOMAIN partBy' = Names
        /\ InUse' = InUse \ {locked}
        /\ \A v \in InUse' : partBy'[v] = partBy[v]
    BY <2>1, GoneKeeps
  <2>3. TransferTyped'
    BY <2>1 DEF TransferTyped
  <2>4. LockIsOwn'
    BY <2>1 DEF LockIsOwn
  <2>5. RequestsAreWhole'
    BY <2>2 DEF RequestsAreWhole
  <2> QED
    BY <2>2, <2>3, <2>4, <2>5
<1>3. ASSUME NEW u \in Names, Delete(u) \/ LocalDelete(u) PROVE IInv'
  <2>1. Gone(u) /\ locked # u /\ locked' = locked /\ incoming' = incoming
    BY <1>3 DEF Delete, LocalDelete
  <2>2. /\ FilesTyped' /\ FilesAreApart' /\ DOMAIN partBy' = Names
        /\ InUse' = InUse \ {u}
        /\ \A v \in InUse' : partBy'[v] = partBy[v]
    BY <2>1, GoneKeeps
  <2>3. TransferTyped'
    BY <2>1, <2>2 DEF TransferTyped
  <2>4. LockIsOwn'
    BY <2>1 DEF LockIsOwn
  <2>5. RequestsAreWhole'
    BY <2>1, <2>2 DEF RequestsAreWhole
  <2> QED
    BY <2>2, <2>3, <2>4, <2>5
<1>4. ASSUME NEW u \in Names, NEW d \in Documents, NEW m \in {"PUT", "POST"}, Begin(u, d, m)
      PROVE  IInv'
  <2>1. /\ UNCHANGED <<memoryIndex, memory, locked, partBy>>
        /\ incoming' = [uri |-> u, doc |-> d, method |-> m, sent |-> 0]
    BY <1>4 DEF Begin
  <2>2. FilesTyped' /\ FilesAreApart' /\ RequestsAreWhole' /\ InUse' = InUse
    BY <2>1 DEF FilesTyped, FilesAreApart, RequestsAreWhole, InUse
  <2>3. TransferTyped'
    BY <2>1, <2>2 DEF TransferTyped
  <2>4. LockIsOwn'
    BY <2>1 DEF LockIsOwn
  <2> QED
    BY <2>1, <2>2, <2>3, <2>4
<1> QED
  BY <1>1, <1>2, <1>3, <1>4

LEMMA LocalWriteKeeps ==
  ASSUME IInv, NEW u \in Names, NEW d \in LocalDocuments, LocalWrite(u, d)
  PROVE  IInv'
<1> USE AgentAssumption DEF IInv
<1>1. PICK w : /\ Has(u, FileFor(u), w.agt, w.file)
               /\ partBy' = [partBy EXCEPT ![u] = IF w.ok THEN "none" ELSE "agent"]
  BY DEF LocalWrite
<1>2. locked = NoName /\ CanHave(u) /\ locked' = locked /\ incoming' = incoming
  BY DEF LocalWrite
<1>3. FilesTyped' /\ FilesAreApart' /\ InUse' = InUse \cup {u}
  BY <1>1, <1>2, HasKeeps
<1>4. TransferTyped'
  BY <1>2 DEF TransferTyped
<1>5. LockIsOwn'
  BY <1>2 DEF LockIsOwn
<1>6. ASSUME NEW v \in InUse' PROVE partBy'[v] # "request"
  <2>1. CASE v = u
    BY <1>1, <2>1
  <2>2. CASE v # u
    <3>1. v \in InUse /\ partBy'[v] = partBy[v]
      BY <1>1, <1>3, <2>2 DEF InUse
    <3> QED
      BY <3>1, <1>2 DEF RequestsAreWhole, InUse
  <2> QED
    BY <2>1, <2>2
<1>7. RequestsAreWhole'
  BY <1>6 DEF RequestsAreWhole
<1>8. DOMAIN partBy' = Names
  BY <1>1
<1> QED
  BY <1>3, <1>4, <1>5, <1>7, <1>8

LEMMA NextKeeps == IInv /\ [Next]_vars => IInv'
<1> SUFFICES ASSUME IInv, [Next]_vars PROVE IInv'
  OBVIOUS
<1>1. CASE \E u \in Names, d \in Documents, m \in {"PUT", "POST"} : Begin(u, d, m)
  BY <1>1, RequestKeeps
<1>2. CASE incoming # NoTransfer /\ \E n \in 0 .. incoming.sent : Block(n)
  BY <1>2, BlockKeeps
<1>3. CASE OtherRequest \/ Watchdog \/ \E u \in Names : Delete(u) \/ LocalDelete(u)
  BY <1>3, RequestKeeps
<1>4. CASE \E u \in Names, d \in LocalDocuments : LocalWrite(u, d)
  BY <1>4, LocalWriteKeeps
<1>5. CASE UNCHANGED vars
  BY <1>5 DEF vars, IInv, FilesTyped, FilesAreApart, TransferTyped, LockIsOwn, RequestsAreWhole, InUse
<1> QED
  BY <1>1, <1>2, <1>3, <1>4, <1>5 DEF Next

(* Behind the two theorems below: what the server has locked is there, and *)
(* it belongs to the transfer whose later blocks it takes.                 *)
THEOREM AgentsSound == Spec => []IInv
<1>1. Init => IInv
  BY InitIInv
<1>2. IInv /\ [Next]_vars => IInv'
  BY NextKeeps
<1> QED
  BY <1>1, <1>2, PTL DEF Spec

(* Agents never share a file and the files in use are theirs, whatever is  *)
(* written, refused, deleted or timed out (root-agent.c:73-115).           *)
THEOREM ApartForEver == Spec => []FilesAreApart
<1>1. IInv => FilesAreApart
  BY DEF IInv
<1> QED
  BY <1>1, AgentsSound, PTL

(* No request leaves an agent in part without its lock, also when other    *)
(* requests come between its blocks (emma-server.c:345-401).               *)
THEOREM RequestsLeaveNoPart == Spec => []RequestsAreWhole
<1>1. IInv => RequestsAreWhole
  BY DEF IInv
<1> QED
  BY <1>1, AgentsSound, PTL

-----------------------------------------------------------------------------
(* Counting up. A property of numbers is a set here: a number that is not  *)
(* in it would be preceded by one.                                         *)

LEMMA CountingUp ==
  ASSUME NEW lo \in Int, NEW hi \in Int, NEW Good, lo \in Good,
         \A i \in lo .. hi - 1 : i \in Good => i + 1 \in Good
  PROVE  \A i \in lo .. hi : i \in Good
<1> DEFINE Bad == {n \in Nat : lo + n <= hi /\ lo + n \notin Good}
<1>1. Bad = {}
  <2>1. SUFFICES ASSUME Bad # {} PROVE FALSE
    OBVIOUS
  <2>2. Bad \in SUBSET Nat
    OBVIOUS
  <2>3. PICK n : n \in Bad /\ \A m \in Bad : n <= m
    <3> HIDE DEF Bad
    <3> QED
      BY <2>1, <2>2, LeastIs
  <2>4. n \in Nat /\ lo + n <= hi /\ lo + n \notin Good
    BY <2>3
  <2>5. n # 0
    BY <2>4
  <2>6. n - 1 \in Nat /\ lo + (n - 1) \in lo .. hi - 1 /\ (lo + (n - 1)) + 1 = lo + n
    BY <2>4, <2>5
  <2>7. lo + (n - 1) \notin Good
    BY <2>4, <2>6
  <2>8. lo + (n - 1) <= hi
    BY <2>4, <2>6
  <2>9. n - 1 \in Bad
    BY <2>6, <2>7, <2>8
  <2> HIDE DEF Bad
  <2>10. n <= n - 1
    BY <2>3, <2>9
  <2> QED
    BY <2>4, <2>10
<1>2. ASSUME NEW i \in lo .. hi PROVE i \in Good
  <2>1. i - lo \in Nat /\ lo + (i - lo) = i /\ lo + (i - lo) <= hi
    OBVIOUS
  <2> QED
    BY <2>1, <1>1
<1> QED
  BY <1>2

(* A function that is given step by step exists.                           *)
Goes(f, lo, hi, S, first, step) ==
  /\ f \in [lo .. hi -> S] /\ f[lo] = first
  /\ \A i \in lo .. hi - 1 : f[i + 1] = step[i + 1][f[i]]

LEMMA StepsExist ==
  ASSUME NEW lo \in Int, NEW hi \in Int, lo <= hi, NEW S, NEW first \in S, NEW step,
         \A i \in lo .. hi - 1 : \A s \in S : step[i + 1][s] \in S
  PROVE  \E f : Goes(f, lo, hi, S, first, step)
<1> DEFINE Good == {n \in Int : \E f : Goes(f, lo, n, S, first, step)}
<1>1. lo \in Good
  <2> DEFINE f == [i \in lo .. lo |-> first]
  <2>1. f \in [lo .. lo -> S] /\ f[lo] = first /\ ~\E i \in lo .. lo - 1 : TRUE
    OBVIOUS
  <2>2. Goes(f, lo, lo, S, first, step)
    BY <2>1 DEF Goes
  <2> HIDE DEF f
  <2> QED
    BY <2>2
<1>2. ASSUME NEW n \in lo .. hi - 1, n \in Good PROVE n + 1 \in Good
  <2>1. PICK f : Goes(f, lo, n, S, first, step)
    BY <1>2
  <2> DEFINE g == [i \in lo .. n + 1 |-> IF i = n + 1 THEN step[n + 1][f[n]] ELSE f[i]]
  <2>2. /\ f \in [lo .. n -> S] /\ f[lo] = first /\ n \in lo .. n /\ lo # n + 1 /\ lo \in lo .. n + 1
        /\ \A i \in lo .. n - 1 : f[i + 1] = step[i + 1][f[i]]
    BY <2>1 DEF Goes
  <2>3. f[n] \in S
    BY <2>2
  <2>4. step[n + 1][f[n]] \in S
    BY <2>3, <1>2
  <2>5. \A i \in lo .. n + 1 : g[i] = IF i = n + 1 THEN step[n + 1][f[n]] ELSE f[i]
    OBVIOUS
  <2>6. g \in [lo .. n + 1 -> S]
    <3>1. ASSUME NEW i \in lo .. n + 1 PROVE (IF i = n + 1 THEN step[n + 1][f[n]] ELSE f[i]) \in S
      <4>1. CASE i = n + 1
        BY <4>1, <2>4
      <4>2. CASE i # n + 1
        <5>1. i \in lo .. n
          BY <4>2
        <5> QED
          BY <5>1, <4>2, <2>2
      <4> QED
        BY <4>1, <4>2
    <3> QED
      BY <3>1
  <2> HIDE DEF g
  <2>7. g[lo] = first
    BY <2>2, <2>5
  <2>8. ASSUME NEW i \in lo .. (n + 1) - 1 PROVE g[i + 1] = step[i + 1][g[i]]
    <3>1. i \in lo .. n + 1 /\ i # n + 1 /\ g[i] = f[i]
      BY <2>5
    <3>2. CASE i = n
      <4>1. i + 1 \in lo .. n + 1 /\ i + 1 = n + 1
        BY <3>2
      <4> QED
        BY <3>1, <3>2, <4>1, <2>5
    <3>3. CASE i # n
      <4>1. i + 1 \in lo .. n + 1 /\ i + 1 # n + 1 /\ i \in lo .. n - 1
        BY <3>3
      <4> QED
        BY <3>1, <4>1, <2>2, <2>5
    <3> QED
      BY <3>2, <3>3
  <2>9. Goes(g, lo, n + 1, S, first, step)
    BY <2>6, <2>7, <2>8 DEF Goes
  <2>10. n + 1 \in Int
    OBVIOUS
  <2> QED
    BY <2>9, <2>10
<1>3. hi \in Good
  <2> HIDE DEF Good
  <2>1. hi \in lo .. hi
    OBVIOUS
  <2> QED
    BY <1>1, <1>2, <2>1, CountingUp
<1> QED
  BY <1>3

-----------------------------------------------------------------------------
(* The analysis of a block.                                                *)

Counts == [obj : Nat, arr : Nat, str : BOOLEAN]

Agents == [patternIndex : [Keys -> 0 .. 5], fileIndex : [Keys -> Nat], size : Nat,
           parser : Counts, twice : BOOLEAN]

LEMMA PatternsAre ==
  /\ Keys = {"PRE", "POST", "TARGET", "NAME"}
  /\ \A k \in Keys : /\ Len(agent_patterns[k]) = 5
                     /\ agent_patterns[k][1] = "q" /\ agent_patterns[k][2] = k
                     /\ agent_patterns[k][3] = "q" /\ agent_patterns[k][4] = ":"
                     /\ agent_patterns[k][5] = IF k \in {"POST", "TARGET"} THEN "[" ELSE "q"
<1>1. Keys = {"PRE", "POST", "TARGET", "NAME"}
  <2>1. DOMAIN Patterns = {1, 2, 3, 4}
    BY DEF Patterns
  <2>2. Patterns[1] = "PRE" /\ Patterns[2] = "POST" /\ Patterns[3] = "TARGET" /\ Patterns[4] = "NAME"
    BY DEF Patterns
  <2> QED
    BY <2>1, <2>2 DEF Keys
<1>2. ASSUME NEW k \in Keys
      PROVE  /\ Len(agent_patterns[k]) = 5
             /\ agent_patterns[k][1] = "q" /\ agent_patterns[k][2] = k
             /\ agent_patterns[k][3] = "q" /\ agent_patterns[k][4] = ":"
             /\ agent_patterns[k][5] = IF k \in {"POST", "TARGET"} THEN "[" ELSE "q"
  <2>1. PICK x : x = IF k \in {"POST", "TARGET"} THEN "[" ELSE "q"
    OBVIOUS
  <2>2. agent_patterns[k] = <<"q", k, "q", ":", x>>
    BY <2>1 DEF agent_patterns
  <2> QED
    BY <2>1, <2>2
<1> QED
  BY <1>1, <1>2

LEMMA ParserTyped ==
  ASSUME NEW p \in Counts, NEW c
  PROVE  JSONnParse(p, c) \in Counts
<1>1. Less(p.arr) \in Nat /\ Less(p.obj) \in Nat
  BY DEF Counts, Less
<1>2. PICK o, r, t : /\ o = p.obj /\ r = p.arr /\ t = p.str /\ p = [obj |-> o, arr |-> r, str |-> t]
                     /\ o \in Nat /\ r \in Nat /\ t \in BOOLEAN
  BY DEF Counts
<1>3. /\ [p EXCEPT !.str = ~@] = [obj |-> o, arr |-> r, str |-> ~t]
      /\ [p EXCEPT !.arr = @ + 1] = [obj |-> o, arr |-> r + 1, str |-> t]
      /\ [p EXCEPT !.arr = Less(@)] = [obj |-> o, arr |-> Less(r), str |-> t]
      /\ [p EXCEPT !.obj = @ + 1] = [obj |-> o + 1, arr |-> r, str |-> t]
      /\ [p EXCEPT !.obj = Less(@)] = [obj |-> Less(o), arr |-> r, str |-> t]
  BY <1>2
<1>4. /\ [p EXCEPT !.str = ~@] \in Counts /\ [p EXCEPT !.arr = @ + 1] \in Counts
      /\ [p EXCEPT !.arr = Less(@)] \in Counts /\ [p EXCEPT !.obj = @ + 1] \in Counts
      /\ [p EXCEPT !.obj = Less(@)] \in Counts
  <2>1. (~t) \in BOOLEAN /\ o + 1 \in Nat /\ r + 1 \in Nat /\ Less(o) \in Nat /\ Less(r) \in Nat
    BY <1>1, <1>2
  <2> QED
    BY <2>1, <1>2, <1>3 DEF Counts
<1> QED
  BY <1>4, Zenon DEF JSONnParse

Matches(a, c) == [k \in Keys |-> NextMatch(k, a.patternIndex[k], c)]

Found(a, c) ==
  {k \in Keys : NextMatch(k, a.patternIndex[k], c) = 5 /\ ~IsContent(a.parser, c, 1)}

Again(a, c) == {k \in Found(a, c) : a.fileIndex[k] # 0}

LEMMA MatchTyped ==
  ASSUME NEW a \in Agents, NEW c, NEW k \in Keys
  PROVE  NextMatch(k, a.patternIndex[k], c) \in 0 .. 5
<1>1. a.patternIndex[k] \in 0 .. 5 /\ Len(agent_patterns[k]) = 5
  BY PatternsAre DEF Agents
<1> QED
  BY <1>1 DEF NextMatch

(* What a character does to an agent without a key that was found twice.   *)
LEMMA FeedIs ==
  ASSUME NEW a \in Agents, ~a.twice, NEW c, NEW i \in Nat
  PROVE  /\ Feed(a, c, i) \in Agents
         /\ Feed(a, c, i).size = a.size
         /\ Feed(a, c, i).twice <=> Again(a, c) # {}
         /\ Feed(a, c, i).parser = JSONnParse(a.parser, c)
         /\ \A k \in Keys : Feed(a, c, i).fileIndex[k] =
              IF k \in Found(a, c) \ Again(a, c) THEN a.size + i ELSE a.fileIndex[k]
         /\ Again(a, c) = {} =>
              \A k \in Keys : Feed(a, c, i).patternIndex[k] = NextMatch(k, a.patternIndex[k], c)
<1> PICK again, found : again = Again(a, c) /\ found = Found(a, c)
  OBVIOUS
<1> PICK skipped : skipped = {Patterns[j] : j \in {j \in DOMAIN Patterns :
                                \E h \in 1 .. j - 1 : Patterns[h] \in again}}
  OBVIOUS
<1>0. again = {} => skipped = {}
  OBVIOUS
<1>1. PICK pI : pI = [k \in Keys |-> IF k \in skipped THEN a.patternIndex[k]
                                     ELSE NextMatch(k, a.patternIndex[k], c)]
  OBVIOUS
<1>2. PICK fI : fI = [k \in Keys |-> IF k \in found \ again THEN Place(a, i) ELSE a.fileIndex[k]]
  OBVIOUS
<1>3. Feed(a, c, i) = [a EXCEPT !.parser = JSONnParse(a.parser, c), !.patternIndex = pI,
                                !.fileIndex = fI, !.twice = again # {}]
  <2> DEFINE M == [k \in Keys |-> NextMatch(k, a.patternIndex[k], c)]
             F == {k \in Keys : M[k] = Len(agent_patterns[k]) /\ ~IsContent(a.parser, c, 1)}
             G == {k \in F : a.fileIndex[k] # 0}
             S == {Patterns[j] : j \in {j \in DOMAIN Patterns :
                                           \E h \in 1 .. j - 1 : Patterns[h] \in G}}
  <2>1. Feed(a, c, i) =
          [a EXCEPT !.parser = JSONnParse(a.parser, c),
                    !.patternIndex = [k \in Keys |-> IF k \in S THEN a.patternIndex[k] ELSE M[k]],
                    !.fileIndex = [k \in Keys |-> IF k \in F \ G THEN Place(a, i) ELSE a.fileIndex[k]],
                    !.twice = G # {}]
    BY Zenon DEF Feed
  <2>2. F = found
    <3>1. \A k \in Keys : M[k] = 5 <=> NextMatch(k, a.patternIndex[k], c) = 5
      OBVIOUS
    <3>2. \A k \in Keys : Len(agent_patterns[k]) = 5
      BY PatternsAre
    <3> HIDE DEF M
    <3> QED
      BY <3>1, <3>2, Zenon DEF Found
  <2>3. G = again
    <3> HIDE DEF F
    <3> QED
      BY <2>2, Zenon DEF Again
  <2>4. S = skipped
    <3> HIDE DEF G
    <3> QED
      BY <2>3, Zenon
  <2>5. [k \in Keys |-> IF k \in S THEN a.patternIndex[k] ELSE M[k]] = pI
    <3> HIDE DEF S
    <3> QED
      BY <1>1, <2>4
  <2> HIDE DEF F, G, M, S
  <2> QED
    BY <1>2, <2>1, <2>2, <2>3, <2>5, Zenon
<1>4. pI \in [Keys -> 0 .. 5] /\ fI \in [Keys -> Nat] /\ a.size \in Nat
  <2>1. \A k \in Keys : NextMatch(k, a.patternIndex[k], c) \in 0 .. 5
    BY MatchTyped
  <2>2. a.size + i \in Nat
    BY DEF Agents
  <2> QED
    BY <1>1, <1>2, <2>1, <2>2 DEF Agents, Place
<1>5. PICK p : p = JSONnParse(a.parser, c) /\ p \in Counts
  BY ParserTyped DEF Agents
<1>6. Feed(a, c, i) = [patternIndex |-> pI, fileIndex |-> fI, size |-> a.size, parser |-> p,
                       twice |-> again # {}]
  BY <1>3, <1>5 DEF Agents
<1>7. Feed(a, c, i) \in Agents
  BY <1>4, <1>5, <1>6 DEF Agents
<1>8. \A k \in Keys : fI[k] = IF k \in found \ again THEN a.size + i ELSE a.fileIndex[k]
  BY <1>2 DEF Place
<1>9. again = {} => \A k \in Keys : pI[k] = NextMatch(k, a.patternIndex[k], c)
  BY <1>0, <1>1
<1>10. /\ Feed(a, c, i).size = a.size /\ Feed(a, c, i).parser = p
       /\ Feed(a, c, i).fileIndex = fI /\ Feed(a, c, i).patternIndex = pI
       /\ Feed(a, c, i).twice = (again # {})
  BY <1>6
<1> QED
  BY <1>5, <1>7, <1>8, <1>9, <1>10

LEMMA FeedTyped ==
  ASSUME NEW a \in Agents, NEW c, NEW i \in Nat
  PROVE  Feed(a, c, i) \in Agents /\ Feed(a, c, i).size = a.size
<1>1. CASE a.twice
  BY <1>1 DEF Feed
<1>2. CASE ~a.twice
  BY <1>2, FeedIs
<1> QED
  BY <1>1, <1>2

First(agt, n) == IF n = 0 THEN root_agent_reset(agt) ELSE [agt EXCEPT !.twice = FALSE]

Feeds(f, first, block) ==
  /\ f \in [0 .. Len(block) -> Agents] /\ f[0] = first
  /\ \A i \in 0 .. Len(block) - 1 : f[i + 1] = Feed(f[i], block[i + 1], i)

IsFed(f, first, block) ==
  f = [i \in 0 .. Len(block) |-> IF i = 0 THEN first ELSE Feed(f[i - 1], block[i], i - 1)]

LEMMA NewTyped == NewAgent \in Agents
  BY DEF NewAgent, Agents, Counts, CleanParser

LEMMA FirstTyped ==
  ASSUME NEW agt \in Agents, NEW n
  PROVE  First(agt, n) \in Agents /\ ~First(agt, n).twice
<1>1. root_agent_reset(agt) \in Agents /\ ~root_agent_reset(agt).twice
  BY NewTyped DEF root_agent_reset, NewAgent
<1>2. [agt EXCEPT !.twice = FALSE] \in Agents /\ ~[agt EXCEPT !.twice = FALSE].twice
  BY DEF Agents
<1> QED
  BY <1>1, <1>2, Zenon DEF First

(* The characters of a block go one by one through the agent.              *)
LEMMA AnalysedFeeds ==
  ASSUME NEW agt \in Agents, NEW n, NEW block, Len(block) \in Nat
  PROVE  \E f : Feeds(f, First(agt, n), block) /\ Analysed(agt, block, n) = f[Len(block)]
<1> PICK N, first : N = Len(block) /\ first = First(agt, n) /\ first \in Agents
  BY FirstTyped
<1> DEFINE step == [j \in 1 .. N |-> [a \in Agents |-> Feed(a, block[j], j - 1)]]
<1>1. ASSUME NEW i \in 0 .. N - 1, NEW a \in Agents
      PROVE  step[i + 1][a] = Feed(a, block[i + 1], i) /\ step[i + 1][a] \in Agents
  <2>1. i + 1 \in 1 .. N /\ (i + 1) - 1 = i /\ i \in Nat
    OBVIOUS
  <2>2. step[i + 1][a] = Feed(a, block[i + 1], i)
    BY <2>1
  <2> QED
    BY <2>1, <2>2, FeedTyped
<1> HIDE DEF step
<1>2. PICK g : Goes(g, 0, N, Agents, first, step)
  <2>1. 0 \in Int /\ N \in Int /\ 0 <= N
    OBVIOUS
  <2> QED
    BY <1>1, <2>1, StepsExist
<1>3. /\ g \in [0 .. N -> Agents] /\ g[0] = first
      /\ \A i \in 0 .. N - 1 : g[i + 1] = step[i + 1][g[i]]
  BY <1>2, Zenon DEF Goes
<1>4. ASSUME NEW i \in 0 .. N - 1 PROVE g[i + 1] = Feed(g[i], block[i + 1], i)
  <2>1. i \in 0 .. N
    OBVIOUS
  <2> QED
    BY <1>1, <1>3, <2>1
<1>5. IsFed(g, first, block)
  <2>1. ASSUME NEW i \in 0 .. N
        PROVE  g[i] = IF i = 0 THEN first ELSE Feed(g[i - 1], block[i], i - 1)
    <3>1. CASE i = 0
      BY <3>1, <1>3
    <3>2. CASE i # 0
      <4>1. i - 1 \in 0 .. N - 1 /\ (i - 1) + 1 = i
        BY <3>2
      <4> QED
        BY <3>2, <4>1, <1>4
    <3> QED
      BY <3>1, <3>2
  <2>2. g = [i \in 0 .. N |-> g[i]]
    BY <1>3
  <2>3. [i \in 0 .. N |-> g[i]] = [i \in 0 .. N |-> IF i = 0 THEN first ELSE Feed(g[i - 1], block[i], i - 1)]
    BY <2>1
  <2> QED
    BY <2>2, <2>3, Zenon DEF IsFed
<1> DEFINE f == CHOOSE h : IsFed(h, first, block)
<1>6. IsFed(f, first, block)
  BY <1>5
<1>7. Analysed(agt, block, n) = f[N]
  BY Zenon DEF Analysed, First, IsFed
<1> HIDE DEF f
<1>8. f = [i \in 0 .. N |-> IF i = 0 THEN first ELSE Feed(f[i - 1], block[i], i - 1)]
  BY <1>6, Zenon DEF IsFed
<1>9. f[0] = first /\ \A i \in 0 .. N - 1 : f[i + 1] = Feed(f[i], block[i + 1], i)
  <2>1. 0 \in 0 .. N
    OBVIOUS
  <2>2. f[0] = first
    BY <1>8, <2>1
  <2>3. ASSUME NEW i \in 0 .. N - 1 PROVE f[i + 1] = Feed(f[i], block[i + 1], i)
    <3>1. i + 1 \in 0 .. N /\ i + 1 # 0 /\ (i + 1) - 1 = i
      OBVIOUS
    <3> QED
      BY <1>8, <3>1
  <2> QED
    BY <2>2, <2>3
<1>10. \A i \in 0 .. N : f[i] \in Agents
  <2> DEFINE Good == {i \in 0 .. N : f[i] \in Agents}
  <2>1. 0 \in Good /\ 0 \in Int /\ N \in Int
    BY <1>9
  <2>2. ASSUME NEW i \in 0 .. N - 1, i \in Good PROVE i + 1 \in Good
    <3>1. i \in Nat /\ i + 1 \in 0 .. N /\ f[i] \in Agents
      BY <2>2
    <3>2. f[i + 1] \in Agents
      BY <1>9, <3>1, FeedTyped
    <3> QED
      BY <3>1, <3>2
  <2>3. \A i \in 0 .. N : i \in Good
    <3> HIDE DEF Good
    <3> QED
      BY <2>1, <2>2, CountingUp
  <2> QED
    BY <2>3
<1>11. f \in [0 .. N -> Agents]
  <2>1. f = [i \in 0 .. N |-> f[i]]
    BY <1>8
  <2> QED
    BY <2>1, <1>10
<1>12. Feeds(f, first, block)
  BY <1>9, <1>11 DEF Feeds
<1> QED
  BY <1>7, <1>12

Inside(a) == \A k \in Keys : a.fileIndex[k] < a.size

(* A position is that of a character of the block, or what it was.         *)
LEMMA AnalysedTyped ==
  ASSUME NEW agt \in Agents, NEW n, NEW block, Len(block) \in Nat
  PROVE  /\ Analysed(agt, block, n) \in Agents
         /\ Analysed(agt, block, n).size = First(agt, n).size
         /\ \A k \in Keys : \/ Analysed(agt, block, n).fileIndex[k] = First(agt, n).fileIndex[k]
                            \/ Analysed(agt, block, n).fileIndex[k] < First(agt, n).size + Len(block)
<1>1. PICK f : Feeds(f, First(agt, n), block) /\ Analysed(agt, block, n) = f[Len(block)]
  BY AnalysedFeeds
<1> PICK N, first : N = Len(block) /\ first = First(agt, n) /\ first \in Agents
  BY FirstTyped
<1>2. /\ f \in [0 .. N -> Agents] /\ f[0] = first
      /\ \A i \in 0 .. N - 1 : f[i + 1] = Feed(f[i], block[i + 1], i)
  BY <1>1, Zenon DEF Feeds
<1>3. first.size \in Nat
  BY DEF Agents
<1> DEFINE Fine(a) == /\ a.size = first.size
                      /\ \A k \in Keys : \/ a.fileIndex[k] = first.fileIndex[k]
                                         \/ a.fileIndex[k] < first.size + N
           Good == {i \in 0 .. N : Fine(f[i])}
<1>4. 0 \in Good /\ 0 \in Int /\ N \in Int
  BY <1>2
<1>5. ASSUME NEW i \in 0 .. N - 1, i \in Good PROVE i + 1 \in Good
  <2>1. i \in Nat /\ i < N /\ i + 1 \in 0 .. N /\ f[i] \in Agents /\ Fine(f[i])
    BY <1>5, <1>2
  <2> PICK a, b : a = f[i] /\ b = f[i + 1] /\ b = Feed(a, block[i + 1], i)
    BY <1>2
  <2>2. CASE a.twice
    BY <2>1, <2>2 DEF Feed
  <2>3. CASE ~a.twice
    <3>1. /\ b.size = a.size
          /\ \A k \in Keys : b.fileIndex[k] = a.fileIndex[k] \/ b.fileIndex[k] = a.size + i
      BY <2>1, <2>3, FeedIs
    <3>2. a.size + i < first.size + N
      BY <2>1, <1>3
    <3>3. Fine(b)
      BY <2>1, <3>1, <3>2
    <3> QED
      BY <2>1, <3>3
  <2> QED
    BY <2>2, <2>3
<1>6. N \in Good
  <2>1. N \in 0 .. N
    OBVIOUS
  <2> HIDE DEF Good
  <2> QED
    BY <2>1, <1>4, <1>5, CountingUp
<1>7. f[N] \in Agents
  BY <1>2
<1> QED
  BY <1>1, <1>6, <1>7

-----------------------------------------------------------------------------
(* The blocks of a document.                                               *)

LEMMA PartIs ==
  ASSUME NEW S, NEW q \in Seq(S), NEW a \in Nat, NEW b \in Nat, a <= b, b <= Len(q)
  PROVE  /\ SubSeq(q, a + 1, b) \in Seq(S) /\ Len(SubSeq(q, a + 1, b)) = b - a
         /\ \A i \in 1 .. b - a : SubSeq(q, a + 1, b)[i] = q[a + i]
<1>1. a + 1 \in 1 .. Len(q) + 1 /\ b \in (a + 1) - 1 .. Len(q)
  OBVIOUS
<1>2. /\ SubSeq(q, a + 1, b) \in Seq(S)
      /\ Len(SubSeq(q, a + 1, b)) = IF a + 1 <= b THEN b - (a + 1) + 1 ELSE 0
      /\ \A i \in 1 .. b - (a + 1) + 1 : SubSeq(q, a + 1, b)[i] = q[(a + 1) + i - 1]
  BY <1>1, SubSeqProperties
<1>3. ASSUME NEW i \in 1 .. b - a PROVE SubSeq(q, a + 1, b)[i] = q[a + i]
  <2>1. i \in 1 .. b - (a + 1) + 1 /\ (a + 1) + i - 1 = a + i
    OBVIOUS
  <2>2. SubSeq(q, a + 1, b)[i] = q[(a + 1) + i - 1]
    BY <1>2, <2>1
  <2> QED
    BY <2>1, <2>2
<1> QED
  BY <1>2, <1>3

BlockEnd(d, n) == IF n = LastBlock(d) THEN Len(d) ELSE (n + 1) * BlockSize

LEMMA BlockIs ==
  ASSUME NEW d \in Documents, NEW n \in 0 .. LastBlock(d)
  PROVE  /\ LastBlock(d) \in Nat /\ n * BlockSize \in Nat /\ Len(d) \in Nat
         /\ BlockEnd(d, n) \in n * BlockSize + 1 .. Len(d)
         /\ Len(Blocks[d][n]) = BlockEnd(d, n) - n * BlockSize
         /\ \A i \in 1 .. Len(Blocks[d][n]) : Blocks[d][n][i] = d[n * BlockSize + i]
         /\ n < LastBlock(d) => /\ n + 1 \in 0 .. LastBlock(d)
                                /\ BlockEnd(d, n) = (n + 1) * BlockSize
                                /\ BlockEnd(d, n) < Len(d)
<1>1. d \in Seq(STRING) /\ Len(d) \in Nat /\ Len(d) >= 1 /\ BlockSize \in Nat /\ BlockSize >= 1
  BY AgentAssumption
<1>2. PICK L, B, q : L = Len(d) /\ B = BlockSize /\ q = (L - 1) \div B
  OBVIOUS
<1>3. q \in Nat /\ q * B <= L - 1 /\ q * B \in Nat
  BY <1>1, <1>2
<1>4. LastBlock(d) = q
  BY <1>2 DEF LastBlock
<1>5. n \in Nat /\ n <= q
  BY <1>3, <1>4
<1>6. n * B \in Nat /\ n * B <= q * B
  BY <1>1, <1>2, <1>3, <1>5
<1>7. n < q => /\ (n + 1) * B \in Nat /\ (n + 1) * B <= q * B /\ (n + 1) * B = n * B + B
  BY <1>1, <1>2, <1>3, <1>5
<1>8. PICK e, s, t : e = BlockEnd(d, n) /\ s = n * B /\ t = (n + 1) * B
  OBVIOUS
<1>9. e = IF n = q THEN L ELSE t
  BY <1>2, <1>4, <1>8 DEF BlockEnd
<1>10. e \in s + 1 .. L /\ (n < q => e = t /\ e < L) /\ s \in Nat /\ L \in Nat
  <2>1. s \in Nat /\ s <= L - 1 /\ L \in Nat
    BY <1>1, <1>2, <1>3, <1>6, <1>8
  <2>2. n < q => t \in Nat /\ t <= L - 1 /\ t > s
    BY <1>1, <1>2, <1>3, <1>7, <1>8
  <2>3. q \in Nat
    BY <1>3
  <2>4. (n = q /\ ~(n < q)) \/ (n # q /\ n < q)
    BY <1>5, <2>3
  <2>5. CASE n = q /\ ~(n < q)
    BY <1>9, <2>1, <2>5
  <2>6. CASE n # q /\ n < q
    BY <1>9, <2>1, <2>2, <2>6
  <2> QED
    BY <2>4, <2>5, <2>6
<1>11. PICK block : block = SubSeq(d, s + 1, e)
  OBVIOUS
<1>12. Blocks[d][n] = block
  BY <1>2, <1>4, <1>8, <1>11 DEF Blocks, BlockEnd
<1>13. Len(block) = e - s /\ \A i \in 1 .. e - s : block[i] = d[s + i]
  <2>1. s \in Nat /\ e \in Nat /\ s <= e /\ e <= Len(d) /\ d \in Seq(STRING)
    BY <1>1, <1>2, <1>10
  <2>2. /\ Len(SubSeq(d, s + 1, e)) = e - s
        /\ \A i \in 1 .. e - s : SubSeq(d, s + 1, e)[i] = d[s + i]
    BY <2>1, PartIs
  <2> QED
    BY <1>11, <2>2
<1>14. /\ n * BlockSize = s /\ (n + 1) * BlockSize = t /\ BlockEnd(d, n) = e /\ Len(d) = L
       /\ n < q => n + 1 \in 0 .. q
  BY <1>2, <1>3, <1>5, <1>8
<1> QED
  BY <1>3, <1>4, <1>10, <1>12, <1>13, <1>14

(* The same of the offsets s and e of a block.                             *)
LEMMA BlockSpan ==
  ASSUME NEW d \in Documents, NEW n \in 0 .. LastBlock(d),
         NEW s, s = n * BlockSize, NEW e, e = BlockEnd(d, n), NEW block, block = Blocks[d][n]
  PROVE  /\ s \in Nat /\ e \in Nat /\ s < e /\ e <= Len(d)
         /\ Len(block) = e - s /\ Len(block) \in Nat /\ Len(block) >= 1
         /\ \A i \in 1 .. e - s : block[i] = d[s + i]
<1>1. /\ s \in Nat /\ Len(d) \in Nat /\ e \in s + 1 .. Len(d) /\ Len(block) = e - s
      /\ \A i \in 1 .. Len(block) : block[i] = d[s + i]
  BY BlockIs, Zenon
<1> QED
  BY <1>1

-----------------------------------------------------------------------------
(* Writing a block, and all blocks.                                        *)

Symbols == STRING \cup {"gap"}

Writes == [agt : Agents, file : Seq(Symbols), ok : BOOLEAN]

LEMMA OverwrittenIs ==
  ASSUME NEW old \in Seq(Symbols), NEW offset \in Nat, NEW block \in Seq(Symbols)
  PROVE  /\ Overwritten(old, offset, block) \in Seq(Symbols)
         /\ Len(Overwritten(old, offset, block)) =
              IF offset + Len(block) > Len(old) THEN offset + Len(block) ELSE Len(old)
         /\ \A i \in 1 .. Len(Overwritten(old, offset, block)) : Overwritten(old, offset, block)[i] =
              IF i > offset /\ i <= offset + Len(block) THEN block[i - offset]
              ELSE IF i <= Len(old) THEN old[i] ELSE "gap"
<1> PICK N : N = (IF offset + Len(block) > Len(old) THEN offset + Len(block) ELSE Len(old))
  OBVIOUS
<1>1. N \in Nat
  OBVIOUS
<1> DEFINE at(i) == IF i > offset /\ i <= offset + Len(block) THEN block[i - offset]
                    ELSE IF i <= Len(old) THEN old[i] ELSE "gap"
<1>2. Overwritten(old, offset, block) = [i \in 1 .. N |-> at(i)]
  BY DEF Overwritten
<1>3. ASSUME NEW i \in 1 .. N PROVE at(i) \in Symbols
  <2>1. CASE i > offset /\ i <= offset + Len(block)
    <3>1. i - offset \in 1 .. Len(block)
      BY <2>1
    <3>2. block[i - offset] \in Symbols
      BY <3>1
    <3> QED
      BY <2>1, <3>2
  <2>2. CASE ~(i > offset /\ i <= offset + Len(block)) /\ i <= Len(old)
    <3>1. i \in 1 .. Len(old)
      BY <2>2
    <3>2. old[i] \in Symbols
      BY <3>1
    <3> QED
      BY <2>2, <3>2
  <2>3. CASE ~(i > offset /\ i <= offset + Len(block)) /\ ~(i <= Len(old))
    BY <2>3 DEF Symbols
  <2> QED
    BY <2>1, <2>2, <2>3
<1> PICK s : s = Overwritten(old, offset, block)
  OBVIOUS
<1>4. s = [i \in 1 .. N |-> at(i)]
  BY <1>2
<1> HIDE DEF at
<1>5. s \in [1 .. N -> Symbols]
  BY <1>3, <1>4
<1>6. s \in Seq(Symbols) /\ Len(s) = N
  BY <1>1, <1>5, SMTT(20)
<1>7. \A i \in 1 .. N : s[i] = at(i)
  BY <1>4
<1> QED
  BY <1>6, <1>7 DEF at

LEMMA BlockTyped ==
  ASSUME NEW d \in Documents, NEW n \in 0 .. LastBlock(d)
  PROVE  Blocks[d][n] \in Seq(Symbols) /\ Len(Blocks[d][n]) \in Nat
<1> PICK e, s : e = BlockEnd(d, n) /\ s = n * BlockSize
  OBVIOUS
<1>1. s \in Nat /\ e \in Nat /\ s <= e /\ e <= Len(d)
  BY BlockSpan
<1>2. Blocks[d][n] = SubSeq(d, s + 1, e)
  BY DEF Blocks, BlockEnd
<1>3. d \in Seq(Symbols)
  <2>1. d \in Seq(STRING)
    BY AgentAssumption
  <2>2. Len(d) \in Nat /\ d \in [1 .. Len(d) -> STRING]
    BY <2>1
  <2>3. d \in [1 .. Len(d) -> Symbols]
    BY <2>2 DEF Symbols
  <2> QED
    BY <2>2, <2>3
<1>4. SubSeq(d, s + 1, e) \in Seq(Symbols)
  BY <1>1, <1>3, PartIs
<1> QED
  BY <1>2, <1>4

LEMMA WriteIs ==
  ASSUME NEW agt \in Agents, NEW old \in Seq(Symbols), NEW d \in Documents,
         NEW n \in 0 .. LastBlock(d), NEW fails \in BOOLEAN
  PROVE  /\ Write(agt, old, d, n, fails) \in Writes
         /\ Write(agt, old, d, n, fails).ok <=> ~fails /\ ~Analysed(agt, Blocks[d][n], n).twice
         /\ Write(agt, old, d, n, fails).ok =>
              /\ Write(agt, old, d, n, fails).agt =
                   [Analysed(agt, Blocks[d][n], n) EXCEPT !.size = @ + Len(Blocks[d][n])]
              /\ Write(agt, old, d, n, fails).file = Overwritten(old, n * BlockSize, Blocks[d][n])
<1> PICK a, block : a = Analysed(agt, Blocks[d][n], n) /\ block = Blocks[d][n]
  OBVIOUS
<1>1. block \in Seq(Symbols) /\ Len(block) \in Nat /\ n * BlockSize \in Nat
  BY BlockTyped, BlockIs
<1>2. a \in Agents
  BY <1>1, AnalysedTyped
<1>3. [a EXCEPT !.size = @ + Len(block)] \in Agents
  <2>1. a.size + Len(block) \in Nat
    BY <1>1, <1>2 DEF Agents
  <2> QED
    BY <2>1, <1>2 DEF Agents
<1>4. Overwritten(old, n * BlockSize, block) \in Seq(Symbols)
  BY <1>1, OverwrittenIs
<1>5. CASE a.twice \/ fails
  <2>1. Write(agt, old, d, n, fails) = [agt |-> a, file |-> old, ok |-> FALSE]
    BY <1>5 DEF Write
  <2>2. [agt |-> a, file |-> old, ok |-> FALSE] \in Writes
    BY <1>2 DEF Writes
  <2> QED
    BY <1>5, <2>1, <2>2
<1>6. CASE ~(a.twice \/ fails)
  <2> PICK b, o : b = [a EXCEPT !.size = @ + Len(block)] /\ o = Overwritten(old, n * BlockSize, block)
    OBVIOUS
  <2>1. Write(agt, old, d, n, fails) = [agt |-> b, file |-> o, ok |-> TRUE]
    BY <1>6 DEF Write
  <2>2. [agt |-> b, file |-> o, ok |-> TRUE] \in Writes
    BY <1>3, <1>4 DEF Writes
  <2> QED
    BY <1>6, <2>1, <2>2
<1> QED
  BY <1>5, <1>6

(* The first block makes the positions those of the document, the others   *)
(* add to them.                                                            *)
WrittenAfter(w, first, N) == w.ok => w.agt.size = first.size + N /\ Inside(w.agt)

LEMMA WriteInside ==
  ASSUME NEW agt \in Agents, NEW old \in Seq(Symbols), NEW d \in Documents,
         NEW n \in 0 .. LastBlock(d), NEW fails \in BOOLEAN,
         n # 0 => Inside(agt)
  PROVE  WrittenAfter(Write(agt, old, d, n, fails), First(agt, n), Len(Blocks[d][n]))
<1> PICK a, block, N, w, s : /\ a = Analysed(agt, Blocks[d][n], n) /\ N = Len(Blocks[d][n])
                             /\ w = Write(agt, old, d, n, fails) /\ s = First(agt, n).size
                             /\ block = Blocks[d][n]
  OBVIOUS
<1>1. s \in Nat /\ N \in Nat /\ N >= 1
  <2>1. Len(Blocks[d][n]) \in Nat /\ Len(Blocks[d][n]) >= 1
    BY BlockSpan
  <2>2. First(agt, n) \in Agents
    BY FirstTyped
  <2> QED
    BY <2>1, <2>2 DEF Agents
<1>2. \A k \in Keys : First(agt, n).fileIndex[k] < s + N
  <2>1. CASE n = 0
    <3>1. First(agt, n) = NewAgent
      BY <2>1 DEF First, root_agent_reset
    <3>2. \A k \in Keys : NewAgent.fileIndex[k] = 0
      BY DEF NewAgent
    <3> QED
      BY <3>1, <3>2, <1>1
  <2>2. CASE n # 0
    <3>1. First(agt, n) = [agt EXCEPT !.twice = FALSE]
      BY <2>2 DEF First
    <3>2. s = agt.size /\ First(agt, n).fileIndex = agt.fileIndex
      BY <3>1 DEF Agents
    <3>3. \A k \in Keys : agt.fileIndex[k] \in Nat /\ agt.fileIndex[k] < s
      BY <2>2, <3>2 DEF Agents, Inside
    <3> QED
      BY <3>2, <3>3, <1>1
  <2> QED
    BY <2>1, <2>2
<1>3. a \in Agents /\ a.size = s /\ \A k \in Keys : a.fileIndex[k] < s + N
  <2>1. Len(block) \in Nat /\ Len(block) = N /\ a = Analysed(agt, block, n)
    BY <1>1
  <2>2. /\ a \in Agents /\ a.size = s
        /\ \A k \in Keys : \/ a.fileIndex[k] = First(agt, n).fileIndex[k]
                           \/ a.fileIndex[k] < s + N
    BY <2>1, AnalysedTyped
  <2> QED
    BY <1>2, <2>2
<1>4. ASSUME w.ok PROVE w.agt.size = s + N /\ Inside(w.agt)
  <2>1. w.agt = [a EXCEPT !.size = @ + N]
    BY <1>4, WriteIs
  <2>2. w.agt.size = s + N /\ w.agt.fileIndex = a.fileIndex
    BY <1>3, <2>1 DEF Agents
  <2> QED
    BY <1>3, <2>2 DEF Inside
<1> QED
  BY <1>4, Zenon DEF WrittenAfter

LEMMA OutcomeIs ==
  ASSUME NEW w \in Writes, NEW b \in BOOLEAN
  PROVE  /\ [w EXCEPT !.ok = b] \in Writes /\ [w EXCEPT !.ok = b].ok = b
         /\ [w EXCEPT !.ok = b].agt = w.agt /\ [w EXCEPT !.ok = b].file = w.file
  BY DEF Writes

LEMMA ThenIs ==
  ASSUME NEW v \in Writes, NEW d \in Documents, NEW n \in 0 .. LastBlock(d), NEW bad
  PROVE  /\ Then(v, d, n, bad) \in Writes
         /\ Then(v, d, n, bad).ok <=> Write(v.agt, v.file, d, n, n = bad).ok /\ v.ok
         /\ Then(v, d, n, bad).agt = Write(v.agt, v.file, d, n, n = bad).agt
         /\ Then(v, d, n, bad).file = Write(v.agt, v.file, d, n, n = bad).file
<1>1. PICK w : w = Write(v.agt, v.file, d, n, n = bad)
  OBVIOUS
<1>2. v.agt \in Agents /\ v.file \in Seq(Symbols) /\ v.ok \in BOOLEAN /\ (n = bad) \in BOOLEAN
  BY DEF Writes
<1>3. w \in Writes
  BY <1>1, <1>2, WriteIs
<1>4. Then(v, d, n, bad) = [w EXCEPT !.ok = @ /\ v.ok]
  BY <1>1 DEF Then
<1>5. PICK b : b \in BOOLEAN /\ b = (w.ok /\ v.ok)
  OBVIOUS
<1>6. PICK r : r = [w EXCEPT !.ok = b]
  OBVIOUS
<1>7. Then(v, d, n, bad) = r
  BY <1>4, <1>5, <1>6, Zenon
<1>8. r \in Writes /\ r.ok = b /\ r.agt = w.agt /\ r.file = w.file
  <2>1. /\ [w EXCEPT !.ok = b] \in Writes /\ [w EXCEPT !.ok = b].ok = b
        /\ [w EXCEPT !.ok = b].agt = w.agt /\ [w EXCEPT !.ok = b].file = w.file
    BY <1>3, <1>5, OutcomeIs, Zenon
  <2> QED
    BY <1>6, <2>1, Zenon
<1> QED
  BY <1>1, <1>5, <1>7, <1>8, Zenon

LocalSteps(f, u, d, bad) ==
  /\ f \in [-1 .. LastBlock(d) -> Writes]
  /\ f[-1] = [agt |-> agent[u], file |-> file[FileFor(u)], ok |-> TRUE]
  /\ \A n \in -1 .. LastBlock(d) - 1 : f[n + 1] = Then(f[n], d, n + 1, bad)

IsAfter(f, u, d, bad) ==
  f = [n \in -1 .. LastBlock(d) |->
         IF n = -1 THEN [agt |-> agent[u], file |-> file[FileFor(u)], ok |-> TRUE]
         ELSE CHOOSE w \in {Then(v, d, n, bad) : v \in {f[n - 1]}} : TRUE]

(* The client of the node writes all blocks, one after the other.          *)
LEMMA LocalResultIs ==
  ASSUME NEW u, agent[u] \in Agents, file[FileFor(u)] \in Seq(Symbols),
         NEW d \in Documents, NEW bad
  PROVE  \E f : LocalSteps(f, u, d, bad) /\ LocalResult(u, d, bad) = f[LastBlock(d)]
<1> PICK N, start : /\ N = LastBlock(d)
                    /\ start = [agt |-> agent[u], file |-> file[FileFor(u)], ok |-> TRUE]
  OBVIOUS
<1>0. N \in Nat
  BY AgentAssumption DEF LastBlock
<1>1. start \in Writes
  BY DEF Writes
<1> DEFINE step == [n \in 0 .. N |-> [v \in Writes |-> Then(v, d, n, bad)]]
<1>2. ASSUME NEW n \in -1 .. N - 1, NEW v \in Writes
      PROVE  step[n + 1][v] = Then(v, d, n + 1, bad) /\ step[n + 1][v] \in Writes
  <2>1. n + 1 \in 0 .. N
    BY <1>0
  <2>2. step[n + 1][v] = Then(v, d, n + 1, bad)
    BY <2>1
  <2> QED
    BY <2>1, <2>2, ThenIs
<1> HIDE DEF step
<1>3. PICK g : Goes(g, -1, N, Writes, start, step)
  <2>1. -1 \in Int /\ N \in Int /\ -1 <= N
    BY <1>0
  <2> QED
    BY <1>1, <1>2, <2>1, StepsExist
<1>4. /\ g \in [-1 .. N -> Writes] /\ g[-1] = start
      /\ \A n \in -1 .. N - 1 : g[n + 1] = step[n + 1][g[n]]
  BY <1>3, Zenon DEF Goes
<1>5. \A x : (CHOOSE w \in {Then(v, d, x, bad) : v \in {g[x - 1]}} : TRUE) = Then(g[x - 1], d, x, bad)
  OBVIOUS
<1>6. IsAfter(g, u, d, bad)
  <2>1. ASSUME NEW n \in -1 .. N
        PROVE  g[n] = IF n = -1 THEN start
                      ELSE CHOOSE w \in {Then(v, d, n, bad) : v \in {g[n - 1]}} : TRUE
    <3>1. CASE n = -1
      BY <3>1, <1>4
    <3>2. CASE n # -1
      <4>1. n - 1 \in -1 .. N - 1 /\ (n - 1) + 1 = n /\ n - 1 \in -1 .. N
        BY <3>2, <1>0
      <4>2. g[n] = step[n][g[n - 1]] /\ g[n - 1] \in Writes
        BY <4>1, <1>4
      <4>3. g[n] = Then(g[n - 1], d, n, bad)
        BY <4>1, <4>2, <1>2
      <4> QED
        BY <3>2, <4>3, <1>5, Zenon
    <3> QED
      BY <3>1, <3>2
  <2>2. g = [n \in -1 .. N |-> g[n]]
    BY <1>4
  <2>3. [n \in -1 .. N |-> g[n]] =
          [n \in -1 .. N |-> IF n = -1 THEN start
                             ELSE CHOOSE w \in {Then(v, d, n, bad) : v \in {g[n - 1]}} : TRUE]
    BY <2>1, Zenon
  <2> QED
    BY <2>2, <2>3, Zenon DEF IsAfter
<1> DEFINE f == CHOOSE h : IsAfter(h, u, d, bad)
<1>7. IsAfter(f, u, d, bad)
  BY <1>6
<1>8. LocalResult(u, d, bad) = f[N]
  BY Zenon DEF LocalResult, IsAfter
<1> HIDE DEF f
<1>9. f = [n \in -1 .. N |-> IF n = -1 THEN start
                             ELSE CHOOSE w \in {Then(v, d, n, bad) : v \in {f[n - 1]}} : TRUE]
  BY <1>7, Zenon DEF IsAfter
<1>10. \A x : (CHOOSE w \in {Then(v, d, x, bad) : v \in {f[x - 1]}} : TRUE) = Then(f[x - 1], d, x, bad)
  OBVIOUS
<1>11. ASSUME NEW n \in -1 .. N - 1 PROVE f[n + 1] = Then(f[n], d, n + 1, bad)
  <2>1. n + 1 \in -1 .. N /\ n + 1 # -1 /\ (n + 1) - 1 = n
    BY <1>0
  <2>2. f[n + 1] = CHOOSE w \in {Then(v, d, n + 1, bad) : v \in {f[(n + 1) - 1]}} : TRUE
    BY <1>9, <2>1, Zenon
  <2> QED
    BY <2>1, <2>2, <1>10, Zenon
<1>12. -1 \in -1 .. N
  BY <1>0
<1>13. f[-1] = start
  BY <1>9, <1>12, Zenon
<1>14. \A n \in -1 .. N : f[n] \in Writes
  <2> DEFINE Good == {n \in -1 .. N : f[n] \in Writes}
  <2>1. -1 \in Good /\ -1 \in Int /\ N \in Int
    BY <1>0, <1>1, <1>12, <1>13
  <2>2. ASSUME NEW n \in -1 .. N - 1, n \in Good PROVE n + 1 \in Good
    <3>1. n + 1 \in 0 .. N /\ n + 1 \in -1 .. N /\ f[n] \in Writes
      BY <2>2, <1>0
    <3>2. f[n + 1] \in Writes
      BY <1>11, <3>1, ThenIs
    <3> QED
      BY <3>1, <3>2
  <2>3. \A n \in -1 .. N : n \in Good
    <3> HIDE DEF Good
    <3> QED
      BY <2>1, <2>2, CountingUp
  <2> QED
    BY <2>3
<1>15. f \in [-1 .. N -> Writes]
  <2>1. f = [n \in -1 .. N |-> f[n]]
    BY <1>9
  <2> QED
    BY <2>1, <1>14
<1>16. LocalSteps(f, u, d, bad)
  BY <1>11, <1>13, <1>15 DEF LocalSteps
<1> QED
  BY <1>8, <1>16

-----------------------------------------------------------------------------
(* Types. The positions of an agent are inside of what was written to it,  *)
(* if it is whole or on the way there.                                     *)

SentAreBlocks ==
  incoming # NoTransfer =>
    incoming.doc \in Documents /\ incoming.sent \in 0 .. LastBlock(incoming.doc)

AgentsTyped ==
  /\ agent \in [Names -> Agents] /\ file \in [Slots -> Seq(Symbols)]
  /\ whole \in [Names -> Documents \cup {NoDocument}]
  /\ partBy \in [Names -> {"none", "request", "agent"}]
  /\ SentAreBlocks

LockedIsPart == locked # NoName => partBy[locked] = "request"

PositionsInside ==
  \A u \in Names : whole[u] # NoDocument \/ partBy[u] = "request" => Inside(agent[u])

TInv == IInv /\ AgentsTyped /\ LockedIsPart /\ PositionsInside

LEMMA InitTInv == Init => TInv
<1> SUFFICES ASSUME Init PROVE TInv
  OBVIOUS
<1>1. IInv
  BY InitIInv
<1>2. agent \in [Names -> Agents] /\ file \in [Slots -> Seq(Symbols)]
  BY NewTyped DEF Init
<1>3. /\ whole \in [Names -> Documents \cup {NoDocument}]
      /\ partBy \in [Names -> {"none", "request", "agent"}]
      /\ incoming = NoTransfer /\ locked = NoName
      /\ \A u \in Names : whole[u] = NoDocument /\ partBy[u] = "none"
  BY DEF Init
<1> QED
  BY <1>1, <1>2, <1>3 DEF TInv, AgentsTyped, SentAreBlocks, LockedIsPart, PositionsInside

LEMMA GoneTyped ==
  ASSUME TInv, NEW u \in Names, Gone(u), file' = file, incoming' = incoming
  PROVE  /\ AgentsTyped' /\ PositionsInside'
         /\ \A v \in Names \ {u} : partBy'[v] = partBy[v]
<1> USE DEF TInv
<1>1. /\ whole' = [whole EXCEPT ![u] = NoDocument] /\ partBy' = [partBy EXCEPT ![u] = "none"]
      /\ agent' = [agent EXCEPT ![u] = NewAgent] \/ agent' = agent
  BY DEF Gone, root_agent_free
<1>2. agent' \in [Names -> Agents] /\ \A v \in Names \ {u} : agent'[v] = agent[v]
  BY <1>1, NewTyped DEF AgentsTyped
<1>3. /\ whole' \in [Names -> Documents \cup {NoDocument}]
      /\ partBy' \in [Names -> {"none", "request", "agent"}]
      /\ \A v \in Names : /\ whole'[v] = IF v = u THEN NoDocument ELSE whole[v]
                          /\ partBy'[v] = IF v = u THEN "none" ELSE partBy[v]
  BY <1>1 DEF AgentsTyped
<1>4. AgentsTyped'
  BY <1>2, <1>3 DEF AgentsTyped, SentAreBlocks
<1>5. PositionsInside'
  BY <1>2, <1>3 DEF PositionsInside, Inside
<1> QED
  BY <1>3, <1>4, <1>5

LEMMA HasTyped ==
  ASSUME TInv, NEW u \in Names, CanHave(u),
         NEW a \in Agents, NEW content \in Seq(Symbols), Has(u, FileFor(u), a, content),
         NEW d \in Documents \cup {NoDocument}, whole' = [whole EXCEPT ![u] = d],
         NEW p \in {"none", "request", "agent"}, partBy' = [partBy EXCEPT ![u] = p],
         d # NoDocument \/ p = "request" => Inside(a),
         SentAreBlocks'
  PROVE  AgentsTyped' /\ PositionsInside'
<1> USE DEF TInv
<1>1. FileFor(u) \in Slots
  BY FileIsOwn
<1>2. agent' \in [Names -> Agents] /\ \A v \in Names : agent'[v] = IF v = u THEN a ELSE agent[v]
  BY DEF Has, AgentsTyped
<1>3. file' \in [Slots -> Seq(Symbols)]
  BY <1>1 DEF Has, AgentsTyped
<1>4. /\ whole' \in [Names -> Documents \cup {NoDocument}]
      /\ partBy' \in [Names -> {"none", "request", "agent"}]
      /\ \A v \in Names : /\ whole'[v] = IF v = u THEN d ELSE whole[v]
                          /\ partBy'[v] = IF v = u THEN p ELSE partBy[v]
  BY DEF AgentsTyped
<1>5. AgentsTyped'
  BY <1>2, <1>3, <1>4 DEF AgentsTyped
<1>6. PositionsInside'
  BY <1>2, <1>4 DEF PositionsInside, Inside
<1> QED
  BY <1>5, <1>6

(* What the server makes of a block it takes.                              *)
LEMMA ResultIs ==
  ASSUME TInv, incoming # NoTransfer, NEW n \in 0 .. incoming.sent, Takes(n), NEW fails \in BOOLEAN
  PROVE  /\ incoming.uri \in Names /\ CanHave(incoming.uri) /\ locked \in {NoName, incoming.uri}
         /\ incoming.doc \in Documents /\ n \in 0 .. LastBlock(incoming.doc)
         /\ Result(n, fails) \in Writes
         /\ Result(n, fails).ok => Inside(Result(n, fails).agt)
<1> USE AgentAssumption DEF TInv
<1> PICK u, d : u = incoming.uri /\ d = incoming.doc
  OBVIOUS
<1>1. u \in Names /\ d \in Documents /\ n \in 0 .. LastBlock(d)
  <2>1. incoming.sent \in 0 .. LastBlock(d) /\ d \in Documents
    BY DEF AgentsTyped, SentAreBlocks
  <2>2. LastBlock(d) \in Int
    BY <2>1 DEF LastBlock
  <2>3. u \in Names
    BY DEF IInv, TransferTyped
  <2> QED
    BY <2>1, <2>2, <2>3
<1>2. CanHave(u) /\ locked \in {NoName, u} /\ (n # 0 => locked = u /\ locked # NoName)
  <2>1. CASE n = 0
    BY <2>1 DEF Takes
  <2>2. CASE n # 0
    <3>1. locked = u /\ u # NoName
      BY <1>1, <2>2 DEF Takes
    <3>2. u \in InUse
      BY <3>1 DEF IInv, TransferTyped
    <3> QED
      BY <2>2, <3>1, <3>2 DEF CanHave
  <2> QED
    BY <2>1, <2>2
<1>3. agent[u] \in Agents /\ file[FileFor(u)] \in Seq(Symbols)
  <2>1. FileFor(u) \in Slots
    BY <1>1, <1>2, FileIsOwn
  <2> QED
    BY <1>1, <2>1 DEF AgentsTyped
<1>4. n # 0 => Inside(agent[u])
  BY <1>1, <1>2 DEF LockedIsPart, PositionsInside
<1> PICK a, old, w : a = agent[u] /\ old = file[FileFor(u)] /\ w = Write(a, old, d, n, fails)
  OBVIOUS
<1>5. w \in Writes /\ WrittenAfter(w, First(a, n), Len(Blocks[d][n]))
  BY <1>1, <1>3, <1>4, WriteIs, WriteInside
<1>6. Result(n, fails) = w
  BY DEF Result
<1> QED
  BY <1>1, <1>2, <1>5, <1>6 DEF WrittenAfter

LEMMA DropTyped ==
  ASSUME TInv, incoming # NoTransfer, locked \in {NoName, incoming.uri},
         Gone(incoming.uri), locked' = NoName, incoming' = incoming, file' = file
  PROVE  TInv'
<1> USE DEF TInv
<1>1. incoming.uri \in Names
  BY DEF IInv, TransferTyped
<1>2. AgentsTyped' /\ PositionsInside'
  BY <1>1, GoneTyped
<1>3. LockedIsPart'
  BY DEF LockedIsPart
<1>4. IInv'
  BY DropKeeps
<1> QED
  BY <1>2, <1>3, <1>4

LEMMA BlockTypes ==
  ASSUME TInv, incoming # NoTransfer, NEW n \in 0 .. incoming.sent, Block(n)
  PROVE  TInv'
<1> USE DEF TInv
<1>0. IInv'
  BY BlockKeeps
<1>1. CASE Cancel(n)
  <2>1. n # 0 /\ Gone(incoming.uri) /\ locked' = NoName /\ incoming' = incoming /\ file' = file
    BY <1>1 DEF Cancel, Cancels
  <2>2. incoming.sent # 0 /\ locked \in {NoName, incoming.uri}
    BY <2>1 DEF IInv, TransferTyped, LockIsOwn
  <2> QED
    BY <2>1, <2>2, DropTyped
<1>2. CASE NoPlace
  <2>1. UNCHANGED <<agent, file, incoming, locked, whole, partBy>>
    BY <1>2 DEF NoPlace
  <2> QED
    BY <1>0, <2>1 DEF AgentsTyped, SentAreBlocks, LockedIsPart, PositionsInside
<1>3. CASE PutBlock(n)
  <2>1. PICK fails \in BOOLEAN : \E w \in {Result(n, fails)} : Stored(n, w) \/ Refused(w)
    BY <1>3 DEF PutBlock, Fails
  <2> PICK w : w = Result(n, fails)
    OBVIOUS
  <2>2. Stored(n, w) \/ Refused(w)
    BY <2>1
  <2>3. /\ incoming.uri \in Names /\ CanHave(incoming.uri) /\ locked \in {NoName, incoming.uri}
        /\ incoming.doc \in Documents /\ n \in 0 .. LastBlock(incoming.doc)
        /\ w \in Writes /\ (w.ok => Inside(w.agt))
    <3>1. Takes(n)
      BY <1>3 DEF PutBlock
    <3> QED
      BY <3>1, ResultIs
  <2>4. CASE Refused(w)
    <3>1. Gone(incoming.uri) /\ locked' = NoName /\ incoming' = incoming /\ file' = file
      BY <2>4 DEF Refused
    <3> QED
      BY <2>3, <3>1, DropTyped
  <2>5. CASE Stored(n, w)
    <3> PICK u, d : u = incoming.uri /\ d = incoming.doc
      OBVIOUS
    <3>1. PICK more \in BOOLEAN :
            /\ more <=> n < LastBlock(d)
            /\ Has(u, FileFor(u), w.agt, w.file)
            /\ locked' = IF more THEN u ELSE NoName
            /\ incoming' = [incoming EXCEPT !.sent = IF more /\ n = @ THEN @ + 1 ELSE @]
            /\ whole' = [whole EXCEPT ![u] = IF more THEN NoDocument ELSE d]
            /\ partBy' = [partBy EXCEPT ![u] = IF more THEN "request" ELSE "none"]
      <4> DEFINE more == n < LastBlock(incoming.doc)
      <4>1. more \in BOOLEAN
        OBVIOUS
      <4> QED
        BY <2>5, <4>1 DEF Stored
    <3>2. w.ok /\ w.agt \in Agents /\ w.file \in Seq(Symbols) /\ Inside(w.agt)
      BY <2>3, <2>5 DEF Stored, Writes
    <3>3. SentAreBlocks'
      <4>1. incoming = [uri |-> u, doc |-> d, method |-> incoming.method, sent |-> incoming.sent]
        BY DEF IInv, TransferTyped
      <4>2. PICK k : k = (IF more /\ n = incoming.sent THEN incoming.sent + 1 ELSE incoming.sent)
        OBVIOUS
      <4>3. incoming' = [incoming EXCEPT !.sent = k]
        BY <3>1, <4>2
      <4>4. incoming' = [uri |-> u, doc |-> d, method |-> incoming.method, sent |-> k]
        BY <4>1, <4>3
      <4>5. incoming'.doc = d /\ incoming'.sent = k
        BY <4>4
      <4>6. d \in Documents /\ incoming.sent \in 0 .. LastBlock(d) /\ LastBlock(d) \in Int
        <5>1. d \in Documents /\ incoming.sent \in 0 .. LastBlock(d)
          BY DEF AgentsTyped, SentAreBlocks
        <5> QED
          BY <5>1, <2>3, BlockIs
      <4>7. k \in 0 .. LastBlock(d)
        BY <3>1, <4>2, <4>6
      <4> QED
        BY <4>5, <4>6, <4>7 DEF SentAreBlocks
    <3>4. CASE more
      <4>1. /\ whole' = [whole EXCEPT ![u] = NoDocument] /\ partBy' = [partBy EXCEPT ![u] = "request"]
            /\ locked' = u
        BY <3>1, <3>4
      <4>2. AgentsTyped' /\ PositionsInside'
        BY <2>3, <3>1, <3>2, <3>3, <4>1, HasTyped
      <4>3. LockedIsPart'
        BY <2>3, <4>1 DEF LockedIsPart, AgentsTyped
      <4> QED
        BY <1>0, <4>2, <4>3
    <3>5. CASE ~more
      <4>1. /\ whole' = [whole EXCEPT ![u] = d] /\ partBy' = [partBy EXCEPT ![u] = "none"]
            /\ locked' = NoName
        BY <3>1, <3>5
      <4>2. AgentsTyped' /\ PositionsInside'
        BY <2>3, <3>1, <3>2, <3>3, <4>1, HasTyped
      <4>3. LockedIsPart'
        BY <4>1 DEF LockedIsPart
      <4> QED
        BY <1>0, <4>2, <4>3
    <3> QED
      BY <3>4, <3>5
  <2> QED
    BY <2>2, <2>4, <2>5
<1> QED
  BY <1>1, <1>2, <1>3 DEF Block

LEMMA RequestTypes ==
  ASSUME TInv,
         \/ OtherRequest \/ Watchdog
         \/ \E u \in Names : Delete(u) \/ LocalDelete(u)
         \/ \E u \in Names, d \in Documents, m \in {"PUT", "POST"} : Begin(u, d, m)
  PROVE  TInv'
<1> USE DEF TInv
<1>0. IInv'
  BY RequestKeeps
<1>1. CASE OtherRequest
  <2>1. UNCHANGED <<agent, file, incoming, locked, whole, partBy>>
    BY <1>1 DEF OtherRequest
  <2> QED
    BY <1>0, <2>1 DEF AgentsTyped, SentAreBlocks, LockedIsPart, PositionsInside
<1>2. CASE Watchdog
  <2>1. locked \in Names /\ Gone(locked) /\ locked' = NoName /\ incoming' = incoming /\ file' = file
    BY <1>2 DEF Watchdog, IInv, TransferTyped, InUse
  <2>2. AgentsTyped' /\ PositionsInside'
    BY <2>1, GoneTyped
  <2>3. LockedIsPart'
    BY <2>1 DEF LockedIsPart
  <2> QED
    BY <1>0, <2>2, <2>3
<1>3. ASSUME NEW u \in Names, Delete(u) \/ LocalDelete(u) PROVE TInv'
  <2>1. Gone(u) /\ locked # u /\ locked' = locked /\ incoming' = incoming /\ file' = file
    BY <1>3, AgentAssumption DEF Delete, LocalDelete
  <2>2. AgentsTyped' /\ PositionsInside' /\ \A v \in Names \ {u} : partBy'[v] = partBy[v]
    BY <2>1, GoneTyped
  <2>3. locked # NoName => locked \in Names
    BY DEF IInv, TransferTyped, InUse
  <2>4. LockedIsPart'
    BY <2>1, <2>2, <2>3 DEF LockedIsPart
  <2> QED
    BY <1>0, <2>2, <2>4
<1>4. ASSUME NEW u \in Names, NEW d \in Documents, NEW m \in {"PUT", "POST"}, Begin(u, d, m)
      PROVE  TInv'
  <2>1. /\ UNCHANGED <<agent, file, locked, whole, partBy>>
        /\ incoming' = [uri |-> u, doc |-> d, method |-> m, sent |-> 0]
    BY <1>4 DEF Begin
  <2>2. SentAreBlocks'
    <3>1. LastBlock(d) \in Nat
      BY AgentAssumption DEF LastBlock
    <3> QED
      BY <2>1, <3>1 DEF SentAreBlocks
  <2> QED
    BY <1>0, <2>1, <2>2 DEF AgentsTyped, LockedIsPart, PositionsInside
<1> QED
  BY <1>1, <1>2, <1>3, <1>4

LEMMA LocalResultTyped ==
  ASSUME TInv, NEW u \in Names, CanHave(u), NEW d \in Documents, NEW bad
  PROVE  /\ LocalResult(u, d, bad) \in Writes
         /\ LocalResult(u, d, bad).ok => Inside(LocalResult(u, d, bad).agt)
<1>1. agent[u] \in Agents /\ file[FileFor(u)] \in Seq(Symbols)
  <2>1. FileFor(u) \in Slots
    BY FileIsOwn DEF TInv
  <2> QED
    BY <2>1 DEF TInv, AgentsTyped
<1>2. PICK f : LocalSteps(f, u, d, bad) /\ LocalResult(u, d, bad) = f[LastBlock(d)]
  BY <1>1, LocalResultIs
<1> PICK N : N = LastBlock(d)
  OBVIOUS
<1>3. N \in Nat
  BY AgentAssumption DEF LastBlock
<1>4. /\ f \in [-1 .. N -> Writes]
      /\ \A n \in -1 .. N - 1 : f[n + 1] = Then(f[n], d, n + 1, bad)
  BY <1>2 DEF LocalSteps
<1> DEFINE Good == {n \in -1 .. N : n # -1 /\ f[n].ok => Inside(f[n].agt)}
<1>5. -1 \in Good /\ -1 \in Int /\ N \in Int
  BY <1>3
<1>6. ASSUME NEW n \in -1 .. N - 1, n \in Good PROVE n + 1 \in Good
  <2>1. n + 1 \in 0 .. N /\ n + 1 \in -1 .. N /\ f[n] \in Writes
    BY <1>3, <1>4
  <2> PICK v, w, m : v = f[n] /\ m = n + 1 /\ w = Write(v.agt, v.file, d, m, m = bad)
    OBVIOUS
  <2>2. (Then(v, d, m, bad).ok <=> w.ok /\ v.ok) /\ Then(v, d, m, bad).agt = w.agt
    BY <2>1, ThenIs
  <2>3. v.agt \in Agents /\ v.file \in Seq(Symbols) /\ (m = bad) \in BOOLEAN
    BY <2>1 DEF Writes
  <2>4. SUFFICES ASSUME f[m].ok PROVE Inside(f[m].agt)
    BY <2>1
  <2>5. v.ok /\ w.ok /\ f[m].agt = w.agt
    BY <2>2, <2>4, <1>4
  <2>6. m # 0 => Inside(v.agt)
    BY <1>6, <2>5
  <2>7. WrittenAfter(w, First(v.agt, m), Len(Blocks[d][m]))
    BY <2>1, <2>3, <2>6, WriteInside
  <2> QED
    BY <2>5, <2>7 DEF WrittenAfter
<1>7. N \in Good
  <2>1. N \in -1 .. N
    BY <1>3
  <2> HIDE DEF Good
  <2> QED
    BY <1>5, <1>6, <2>1, CountingUp
<1>8. f[N] \in Writes /\ (f[N].ok => Inside(f[N].agt))
  BY <1>3, <1>4, <1>7
<1> QED
  BY <1>2, <1>8

LEMMA LocalWriteTypes ==
  ASSUME TInv, NEW u \in Names, NEW d \in LocalDocuments, LocalWrite(u, d)
  PROVE  TInv'
<1> USE DEF TInv
<1>0. IInv' /\ d \in Documents
  BY LocalWriteKeeps, AgentAssumption
<1>1. PICK bad : \E w \in {LocalResult(u, d, bad)} :
        /\ Has(u, FileFor(u), w.agt, w.file)
        /\ whole' = [whole EXCEPT ![u] = IF w.ok THEN d ELSE NoDocument]
        /\ partBy' = [partBy EXCEPT ![u] = IF w.ok THEN "none" ELSE "agent"]
  BY DEF LocalWrite
<1> PICK w : w = LocalResult(u, d, bad)
  OBVIOUS
<1>2. CanHave(u) /\ locked = NoName /\ locked' = locked /\ incoming' = incoming
  BY DEF LocalWrite
<1>3. w \in Writes /\ (w.ok => Inside(w.agt))
  BY <1>0, <1>2, LocalResultTyped
<1>4. w.agt \in Agents /\ w.file \in Seq(Symbols)
  BY <1>3 DEF Writes
<1>5. SentAreBlocks'
  BY <1>2 DEF AgentsTyped, SentAreBlocks
<1> PICK e, p : /\ e = (IF w.ok THEN d ELSE NoDocument) /\ e \in Documents \cup {NoDocument}
                /\ p = (IF w.ok THEN "none" ELSE "agent") /\ p \in {"none", "request", "agent"}
  BY <1>0
<1>6. /\ Has(u, FileFor(u), w.agt, w.file)
      /\ whole' = [whole EXCEPT ![u] = e] /\ partBy' = [partBy EXCEPT ![u] = p]
  BY <1>1
<1>7. e # NoDocument \/ p = "request" => Inside(w.agt)
  BY <1>3
<1>8. AgentsTyped' /\ PositionsInside'
  BY <1>2, <1>4, <1>5, <1>6, <1>7, HasTyped
<1>9. LockedIsPart'
  BY <1>2 DEF LockedIsPart
<1> QED
  BY <1>0, <1>8, <1>9

LEMMA NextTypes == TInv /\ [Next]_vars => TInv'
<1> SUFFICES ASSUME TInv, [Next]_vars PROVE TInv'
  OBVIOUS
<1>1. CASE \E u \in Names, d \in Documents, m \in {"PUT", "POST"} : Begin(u, d, m)
  BY <1>1, RequestTypes
<1>2. CASE incoming # NoTransfer /\ \E n \in 0 .. incoming.sent : Block(n)
  BY <1>2, BlockTypes
<1>3. CASE OtherRequest \/ Watchdog \/ \E u \in Names : Delete(u) \/ LocalDelete(u)
  BY <1>3, RequestTypes
<1>4. CASE \E u \in Names, d \in LocalDocuments : LocalWrite(u, d)
  BY <1>4, LocalWriteTypes
<1>5. CASE UNCHANGED vars
  <2>1. IInv'
    BY <1>5, NextKeeps DEF TInv
  <2> QED
    BY <1>5, <2>1 DEF vars, TInv, AgentsTyped, SentAreBlocks, LockedIsPart, PositionsInside
<1> QED
  BY <1>1, <1>2, <1>3, <1>4, <1>5 DEF Next

LEMMA TypesSound == Spec => []TInv
<1>1. Init => TInv
  BY InitTInv
<1>2. TInv /\ [Next]_vars => TInv'
  BY NextTypes
<1> QED
  BY <1>1, <1>2, PTL DEF Spec

(* The positions of a key are inside of what was written to the agent,     *)
(* whatever comes between its blocks (root-agent.c:150-205).               *)
THEOREM AgentTypes == Spec => []TypeOK
<1>1. TInv => TypeOK
  <2> SUFFICES ASSUME TInv PROVE TypeOK
    OBVIOUS
  <2>1. memoryIndex \in [Names -> Slots \cup {NoAgent}] /\ memory \subseteq Slots
        /\ locked \in Names \cup {NoName}
    BY DEF TInv, IInv, FilesTyped, TransferTyped, InUse
  <2>2. ASSUME NEW u \in Names, NEW k \in Keys
        PROVE  /\ agent[u].patternIndex[k] \in 0 .. Len(agent_patterns[k])
               /\ agent[u].fileIndex[k] \in Nat
               /\ whole[u] # NoDocument => agent[u].fileIndex[k] < agent[u].size
    <3>1. agent[u] \in Agents /\ (whole[u] # NoDocument => Inside(agent[u]))
      BY DEF TInv, AgentsTyped, PositionsInside
    <3> PICK a : a = agent[u]
      OBVIOUS
    <3>2. a.patternIndex[k] \in 0 .. 5 /\ a.fileIndex[k] \in Nat /\ Len(agent_patterns[k]) = 5
      BY <3>1, PatternsAre DEF Agents
    <3> QED
      BY <3>1, <3>2 DEF Inside
  <2>3. /\ whole \in [Names -> Documents \cup {NoDocument}]
        /\ partBy \in [Names -> {"none", "request", "agent"}]
    BY DEF TInv, AgentsTyped
  <2> QED
    BY <2>1, <2>2, <2>3 DEF TypeOK
<1> QED
  BY <1>1, TypesSound, PTL

-----------------------------------------------------------------------------
(* Quotes and brackets, counted character by character.                    *)

LEMMA CountNext ==
  ASSUME NEW S, IsFiniteSet(S), NEW x, NEW T, T = S \cup {x}
  PROVE  IsFiniteSet(T) /\ Cardinality(T) = IF x \in S THEN Cardinality(S) ELSE Cardinality(S) + 1
  BY FS_AddElement

LEMMA QuotesNext ==
  ASSUME NEW d, NEW m \in Nat
  PROVE  /\ Quotes(d, m) \in Nat /\ Quotes(d, 0) = 0
         /\ Quotes(d, m + 1) = IF d[m + 1] = "q" THEN Quotes(d, m) + 1 ELSE Quotes(d, m)
<1> DEFINE Upto(n) == {j \in 1 .. n : d[j] = "q"}
<1>1. \A n \in Nat : IsFiniteSet(Upto(n))
  <2>1. ASSUME NEW n \in Nat PROVE IsFiniteSet(Upto(n))
    <3>1. Upto(n) \subseteq 1 .. n /\ IsFiniteSet(1 .. n)
      BY FS_Interval
    <3> QED
      BY <3>1, FS_Subset
  <2> QED
    BY <2>1
<1>2. \A n \in Nat : Quotes(d, n) = Cardinality(Upto(n))
  BY DEF Quotes
<1>3. Upto(0) = {}
  OBVIOUS
<1>4. Quotes(d, 0) = 0 /\ Quotes(d, m) \in Nat
  <2>1. IsFiniteSet(Upto(m)) /\ Quotes(d, m) = Cardinality(Upto(m)) /\ Quotes(d, 0) = Cardinality({})
    BY <1>1, <1>2, <1>3
  <2> HIDE DEF Upto
  <2> QED
    BY <2>1, FS_EmptySet, FS_CardinalityType
<1>5. CASE d[m + 1] = "q"
  <2>1. Upto(m + 1) = Upto(m) \cup {m + 1} /\ m + 1 \notin Upto(m)
    BY <1>5
  <2> HIDE DEF Upto
  <2>2. Cardinality(Upto(m + 1)) = Cardinality(Upto(m)) + 1
    BY <1>1, <2>1, CountNext
  <2> QED
    BY <1>2, <1>4, <1>5, <2>2
<1>6. CASE d[m + 1] # "q"
  <2>1. Upto(m + 1) = Upto(m)
    BY <1>6
  <2> HIDE DEF Upto
  <2> QED
    BY <1>2, <1>4, <1>6, <2>1
<1> QED
  BY <1>5, <1>6

(* How many of the first i characters are in S and not in a text.          *)
Among(d, S, i) == {j \in Outside(d, S) : j <= i}

LEMMA AmongNext ==
  ASSUME NEW d \in Documents, NEW S, NEW m \in Nat, m < Len(d)
  PROVE  /\ IsFiniteSet(Among(d, S, m)) /\ Cardinality(Among(d, S, m)) \in Nat
         /\ Cardinality(Among(d, S, 0)) = 0
         /\ Cardinality(Among(d, S, m + 1)) =
              IF d[m + 1] \in S /\ Quotes(d, m + 1) % 2 = 0 THEN Cardinality(Among(d, S, m)) + 1
              ELSE Cardinality(Among(d, S, m))
<1>0. Len(d) \in Nat /\ DOMAIN d = 1 .. Len(d)
  BY AgentAssumption
<1>1. \A n \in Nat : IsFiniteSet(Among(d, S, n))
  <2>1. ASSUME NEW n \in Nat PROVE IsFiniteSet(Among(d, S, n))
    <3>1. Among(d, S, n) \subseteq 1 .. Len(d) /\ IsFiniteSet(1 .. Len(d))
      BY <1>0, FS_Interval DEF Among, Outside
    <3> QED
      BY <3>1, FS_Subset
  <2> QED
    BY <2>1
<1>2. Among(d, S, 0) = {}
  BY <1>0 DEF Among, Outside
<1>3. Cardinality(Among(d, S, 0)) = 0 /\ Cardinality(Among(d, S, m)) \in Nat
  BY <1>1, <1>2, FS_EmptySet, FS_CardinalityType
<1>4. CASE d[m + 1] \in S /\ Quotes(d, m + 1) % 2 = 0
  <2>1. m + 1 \in Outside(d, S)
    BY <1>0, <1>4 DEF Outside
  <2>2. Outside(d, S) \subseteq Nat
    BY <1>0 DEF Outside
  <2>3. Among(d, S, m + 1) = Among(d, S, m) \cup {m + 1} /\ m + 1 \notin Among(d, S, m)
    BY <2>1, <2>2 DEF Among
  <2>4. Cardinality(Among(d, S, m + 1)) = Cardinality(Among(d, S, m)) + 1
    BY <1>1, <2>3, CountNext
  <2> QED
    BY <1>1, <1>3, <1>4, <2>4
<1>5. CASE ~(d[m + 1] \in S /\ Quotes(d, m + 1) % 2 = 0)
  <2>1. m + 1 \notin Outside(d, S)
    BY <1>0, <1>5 DEF Outside
  <2>2. Outside(d, S) \subseteq Nat
    BY <1>0 DEF Outside
  <2>3. Among(d, S, m + 1) = Among(d, S, m)
    BY <2>1, <2>2 DEF Among
  <2> QED
    BY <1>1, <1>3, <1>5, <2>3
<1> QED
  BY <1>4, <1>5

LEMMA OpenedNext ==
  ASSUME NEW d \in Documents, NEW c, NEW m \in Nat, m < Len(d)
  PROVE  /\ Opened(d, c, m) \in Nat /\ Opened(d, c, 0) = 0
         /\ Opened(d, c, m + 1) = IF d[m + 1] = c /\ Quotes(d, m + 1) % 2 = 0
                                  THEN Opened(d, c, m) + 1 ELSE Opened(d, c, m)
<1>1. \A n : Opened(d, c, n) = Cardinality(Among(d, {c}, n))
  BY DEF Opened, Among
<1> PICK S : S = {c}
  OBVIOUS
<1>2. d[m + 1] \in S <=> d[m + 1] = c
  OBVIOUS
<1> QED
  BY <1>1, <1>2, AmongNext

(* What is open is braces and brackets.                                    *)
LEMMA DepthIs ==
  ASSUME NEW d \in Documents, NEW m \in 0 .. Len(d)
  PROVE  /\ Opened(d, "{", m) \in Nat /\ Opened(d, "}", m) \in Nat
         /\ Opened(d, "[", m) \in Nat /\ Opened(d, "]", m) \in Nat
         /\ Depth(d, m) = (Opened(d, "{", m) - Opened(d, "}", m)) + (Opened(d, "[", m) - Opened(d, "]", m))
<1>0. Len(d) \in Nat /\ DOMAIN d = 1 .. Len(d)
  BY AgentAssumption
<1>1. ASSUME NEW S PROVE IsFiniteSet(Among(d, S, m)) /\ Cardinality(Among(d, S, m)) \in Nat
  <2>1. Among(d, S, m) \subseteq 1 .. Len(d) /\ IsFiniteSet(1 .. Len(d))
    BY <1>0, FS_Interval DEF Among, Outside
  <2>2. IsFiniteSet(Among(d, S, m))
    BY <2>1, FS_Subset
  <2> QED
    BY <2>2, FS_CardinalityType
<1>2. ASSUME NEW c, NEW e, c # e
      PROVE  Cardinality(Among(d, {c, e}, m)) = Opened(d, c, m) + Opened(d, e, m)
  <2> PICK A, B, U : A = Among(d, {c}, m) /\ B = Among(d, {e}, m) /\ U = Among(d, {c, e}, m)
    OBVIOUS
  <2>1. U = A \cup B /\ A \cap B = {}
    BY <1>2 DEF Among, Outside
  <2>2. IsFiniteSet(A) /\ IsFiniteSet(B) /\ Cardinality(A) \in Nat /\ Cardinality(B) \in Nat
    BY <1>1
  <2>3. Cardinality(A \cap B) = 0
    BY <2>1, FS_EmptySet
  <2>4. Cardinality(A \cup B) = Cardinality(A) + Cardinality(B) - Cardinality(A \cap B)
    BY <2>2, FS_Union
  <2>7. Cardinality(U) = Cardinality(A) + Cardinality(B)
    <3> PICK i, k : i = Cardinality(A) /\ k = Cardinality(B)
      OBVIOUS
    <3>1. Cardinality(U) = i + k - 0
      BY <2>1, <2>3, <2>4
    <3>2. i \in Nat /\ k \in Nat
      BY <2>2
    <3> QED
      BY <3>1, <3>2
  <2>8. Opened(d, c, m) = Cardinality(A) /\ Opened(d, e, m) = Cardinality(B)
    BY DEF Opened, Among
  <2> QED
    BY <2>7, <2>8
<1>3. ASSUME NEW c PROVE Opened(d, c, m) \in Nat
  <2> PICK A : A = Among(d, {c}, m)
    OBVIOUS
  <2>1. Opened(d, c, m) = Cardinality(A)
    BY DEF Opened, Among
  <2> QED
    BY <1>1, <2>1
<1>4. PICK a, b, x, y : /\ a = Opened(d, "{", m) /\ b = Opened(d, "[", m)
                        /\ x = Opened(d, "}", m) /\ y = Opened(d, "]", m)
  OBVIOUS
<1>5. PICK p, r, t : /\ p = Cardinality(Among(d, {"{", "["}, m)) /\ r = Cardinality(Among(d, {"}", "]"}, m))
                     /\ t = Depth(d, m)
  OBVIOUS
<1>6. t = p - r
  BY <1>5 DEF Depth, Among
<1>7. p = a + b /\ r = x + y
  BY <1>2, <1>4, <1>5
<1>8. a \in Nat /\ b \in Nat /\ x \in Nat /\ y \in Nat
  BY <1>3, <1>4
<1>9. t = (a - x) + (b - y)
  BY <1>6, <1>7, <1>8
<1> QED
  BY <1>4, <1>5, <1>8, <1>9

-----------------------------------------------------------------------------
(* What an agent is when the first m characters of d have gone through it. *)

ParserAt(d, m) ==
  [obj |-> Opened(d, "{", m) - Opened(d, "}", m), arr |-> Opened(d, "[", m) - Opened(d, "]", m),
   str |-> Quotes(d, m) % 2 = 1]

(* The first n characters of k's pattern stand at i.                       *)
Stands(d, k, i, n) ==
  i >= 1 /\ i + n <= Len(d) + 1 /\ \A j \in 1 .. n : d[i - 1 + j] = agent_patterns[k][j]

(* The places whose last character is among the first m.                   *)
Ended(d, k, m) == {i \in Places[d][k] : i + 4 <= m}

(* The g characters of k's pattern that were matched stand before m.       *)
Matched(d, k, m, g) == g # 0 => Stands(d, k, m - g + 1, g)

Follows(d, i) == d[i] \in {"{", ","}

NotMissed(d, k, m, g) ==
  \A h \in 1 .. 5 : m - h >= 1 /\ Stands(d, k, m - h + 1, h) /\ Follows(d, m - h) => g = h

MatchesStand(a, d, m) == \A k \in Keys : Matched(d, k, m, a.patternIndex[k])

NoMatchIsMissed(a, d, m) == \A k \in Keys : NotMissed(d, k, m, a.patternIndex[k])

(* v is the position noted for the only place of k there is so far.        *)
Noted(d, k, m, v) ==
  /\ v = IF Ended(d, k, m) = {} THEN 0 ELSE Least(Ended(d, k, m)) + 3
  /\ \A i, j \in Ended(d, k, m) : i = j

PlacesNoted(a, d, m) == \A k \in Keys : Noted(d, k, m, a.fileIndex[k])

Fits(a, d, m) ==
  /\ ~a.twice /\ a.parser = ParserAt(d, m)
  /\ MatchesStand(a, d, m) /\ NoMatchIsMissed(a, d, m) /\ PlacesNoted(a, d, m)

Holds(f, d, m) == Len(f) >= m /\ \A i \in 1 .. m : f[i] = d[i]

Ready(a, f, d, m) == a.size = m /\ Fits(a, d, m) /\ Holds(f, d, m)

WholesAreReady ==
  \A u \in Names : whole[u] # NoDocument =>
    u \in InUse /\ Ready(agent[u], file[memoryIndex[u]], whole[u], Len(whole[u]))

LEMMA ParserStarts ==
  ASSUME NEW d \in Documents
  PROVE  ParserAt(d, 0) = CleanParser
<1>1. 0 \in Nat /\ 0 < Len(d)
  BY AgentAssumption
<1>2. /\ Opened(d, "{", 0) = 0 /\ Opened(d, "}", 0) = 0 /\ Opened(d, "[", 0) = 0
      /\ Opened(d, "]", 0) = 0 /\ Quotes(d, 0) = 0
  BY <1>1, OpenedNext, QuotesNext
<1>3. 0 - 0 = 0 /\ ~(0 % 2 = 1)
  OBVIOUS
<1>4. ParserAt(d, 0) = [obj |-> 0 - 0, arr |-> 0 - 0, str |-> 0 % 2 = 1]
  BY <1>2, Zenon DEF ParserAt
<1>5. [obj |-> 0 - 0, arr |-> 0 - 0, str |-> 0 % 2 = 1] = [obj |-> 0, arr |-> 0, str |-> FALSE]
  BY <1>3
<1> QED
  BY <1>4, <1>5, Zenon DEF CleanParser

LEMMA ParserInRange ==
  ASSUME NEW d \in Documents, Compact(d), NEW m \in 0 .. Len(d)
  PROVE  /\ ParserAt(d, m) \in Counts
         /\ ParserAt(d, m).obj + ParserAt(d, m).arr = Depth(d, m)
<1>1. PICK o, p, s, t : /\ o = Opened(d, "{", m) /\ p = Opened(d, "}", m)
                        /\ s = Opened(d, "[", m) /\ t = Opened(d, "]", m)
  OBVIOUS
<1>2. /\ o \in Nat /\ p \in Nat /\ s \in Nat /\ t \in Nat
      /\ Depth(d, m) = (o - p) + (s - t)
  BY <1>1, DepthIs
<1>3. p <= o /\ t <= s
  <2>1. CASE m = 0
    <3>1. 0 \in Nat /\ 0 < Len(d)
      BY AgentAssumption
    <3>2. p = 0 /\ t = 0
      BY <1>1, <2>1, <3>1, OpenedNext
    <3> QED
      BY <1>2, <3>2
  <2>2. CASE m # 0
    <3>1. m \in DOMAIN d
      BY <2>2, AgentAssumption
    <3>2. /\ Opened(d, "}", m) <= Opened(d, "{", m) /\ Opened(d, "]", m) <= Opened(d, "[", m)
      BY <3>1, Zenon DEF Compact, BracketsClose
    <3> QED
      BY <1>1, <3>2
  <2> QED
    BY <2>1, <2>2
<1>4. o - p \in Nat /\ s - t \in Nat /\ (Quotes(d, m) % 2 = 1) \in BOOLEAN
  BY <1>2, <1>3
<1>5. ParserAt(d, m) = [obj |-> o - p, arr |-> s - t, str |-> Quotes(d, m) % 2 = 1]
  BY <1>1 DEF ParserAt
<1> QED
  BY <1>2, <1>4, <1>5 DEF Counts

(* The parser counts like Depth and Quotes do.                             *)
LEMMA ParserNext ==
  ASSUME NEW d \in Documents, Compact(d), NEW m \in Nat, m < Len(d), NEW c, c = d[m + 1]
  PROVE  JSONnParse(ParserAt(d, m), c) = ParserAt(d, m + 1)
<1>1. PICK o, p, s, t, q : /\ o = Opened(d, "{", m) /\ p = Opened(d, "}", m) /\ q = Quotes(d, m)
                           /\ s = Opened(d, "[", m) /\ t = Opened(d, "]", m)
  OBVIOUS
<1>2. PICK o1, p1, s1, t1, q1 :
        /\ o1 = Opened(d, "{", m + 1) /\ p1 = Opened(d, "}", m + 1) /\ q1 = Quotes(d, m + 1)
        /\ s1 = Opened(d, "[", m + 1) /\ t1 = Opened(d, "]", m + 1)
  OBVIOUS
<1>3. q \in Nat /\ q1 = IF c = "q" THEN q + 1 ELSE q
  BY <1>1, <1>2, QuotesNext
<1>4. /\ o1 = IF c = "{" /\ q1 % 2 = 0 THEN o + 1 ELSE o
      /\ p1 = IF c = "}" /\ q1 % 2 = 0 THEN p + 1 ELSE p
      /\ s1 = IF c = "[" /\ q1 % 2 = 0 THEN s + 1 ELSE s
      /\ t1 = IF c = "]" /\ q1 % 2 = 0 THEN t + 1 ELSE t
  <2>1. \A e \in {"{", "}", "[", "]"} :
          Opened(d, e, m + 1) = IF d[m + 1] = e /\ Quotes(d, m + 1) % 2 = 0
                                THEN Opened(d, e, m) + 1 ELSE Opened(d, e, m)
    BY OpenedNext
  <2> QED
    BY <1>1, <1>2, <2>1
<1>5. /\ o \in Nat /\ p \in Nat /\ s \in Nat /\ t \in Nat
  BY <1>1, OpenedNext
<1>6. p1 <= o1 /\ t1 <= s1
  <2>1. m + 1 \in DOMAIN d
    BY AgentAssumption
  <2>2. /\ Opened(d, "}", m + 1) <= Opened(d, "{", m + 1)
        /\ Opened(d, "]", m + 1) <= Opened(d, "[", m + 1)
    BY <2>1, Zenon DEF Compact, BracketsClose
  <2> QED
    BY <1>2, <2>2
<1>7. PICK a : a = ParserAt(d, m)
  OBVIOUS
<1>8. a = [obj |-> o - p, arr |-> s - t, str |-> q % 2 = 1]
  BY <1>1, <1>7 DEF ParserAt
<1>9. ParserAt(d, m + 1) = [obj |-> o1 - p1, arr |-> s1 - t1, str |-> q1 % 2 = 1]
  BY <1>2 DEF ParserAt
<1>0. a.str <=> q % 2 = 1
  BY <1>8
<1>10. CASE a.str /\ c # "q"
  <2>1. q % 2 = 1 /\ q1 = q /\ ~(q1 % 2 = 0)
    <3>1. q % 2 = 1 /\ q1 = q
      BY <1>0, <1>3, <1>10
    <3> QED
      BY <3>1
  <2>2. o1 = o /\ p1 = p /\ s1 = s /\ t1 = t
    BY <1>4, <2>1
  <2>3. JSONnParse(a, c) = a
    BY <1>10 DEF JSONnParse
  <2> QED
    BY <1>7, <1>8, <1>9, <2>1, <2>2, <2>3
<1>11. CASE c = "q"
  <2>1. q1 = q + 1 /\ o1 = o /\ p1 = p /\ s1 = s /\ t1 = t
    BY <1>3, <1>4, <1>11
  <2>2. JSONnParse(a, c) = [a EXCEPT !.str = ~@]
    BY <1>11 DEF JSONnParse
  <2>3. JSONnParse(a, c) = [obj |-> o - p, arr |-> s - t, str |-> ~(q % 2 = 1)]
    BY <1>8, <2>2
  <2>4. ~(q % 2 = 1) <=> q1 % 2 = 1
    BY <1>3, <2>1
  <2> QED
    BY <1>7, <1>9, <2>1, <2>3, <2>4
<1>12. CASE ~a.str /\ c # "q"
  <2>1. ~(q % 2 = 1) /\ q1 % 2 = 0 /\ q1 = q
    BY <1>0, <1>3, <1>12
  <2>2. CASE c = "["
    <3>1. JSONnParse(a, c) = [a EXCEPT !.arr = @ + 1]
      BY <1>12, <2>2 DEF JSONnParse
    <3>2. JSONnParse(a, c) = [obj |-> o - p, arr |-> s - t + 1, str |-> q % 2 = 1]
      BY <1>8, <3>1
    <3>3. o1 = o /\ p1 = p /\ s1 = s + 1 /\ t1 = t
      BY <1>4, <2>1, <2>2
    <3> QED
      BY <1>5, <1>7, <1>9, <2>1, <3>2, <3>3
  <2>3. CASE c = "]"
    <3>1. JSONnParse(a, c) = [a EXCEPT !.arr = Less(@)]
      BY <1>12, <2>3 DEF JSONnParse
    <3>2. JSONnParse(a, c) = [obj |-> o - p, arr |-> Less(s - t), str |-> q % 2 = 1]
      BY <1>8, <3>1
    <3>3. o1 = o /\ p1 = p /\ s1 = s /\ t1 = t + 1
      BY <1>4, <2>1, <2>3
    <3>4. Less(s - t) = s1 - t1
      BY <1>5, <1>6, <3>3 DEF Less
    <3> QED
      BY <1>7, <1>9, <2>1, <3>2, <3>3, <3>4
  <2>4. CASE c = "{"
    <3>1. JSONnParse(a, c) = [a EXCEPT !.obj = @ + 1]
      BY <1>12, <2>4 DEF JSONnParse
    <3>2. JSONnParse(a, c) = [obj |-> o - p + 1, arr |-> s - t, str |-> q % 2 = 1]
      BY <1>8, <3>1
    <3>3. o1 = o + 1 /\ p1 = p /\ s1 = s /\ t1 = t
      BY <1>4, <2>1, <2>4
    <3> QED
      BY <1>5, <1>7, <1>9, <2>1, <3>2, <3>3
  <2>5. CASE c = "}"
    <3>1. JSONnParse(a, c) = [a EXCEPT !.obj = Less(@)]
      BY <1>12, <2>5 DEF JSONnParse
    <3>2. JSONnParse(a, c) = [obj |-> Less(o - p), arr |-> s - t, str |-> q % 2 = 1]
      BY <1>8, <3>1
    <3>3. o1 = o /\ p1 = p + 1 /\ s1 = s /\ t1 = t
      BY <1>4, <2>1, <2>5
    <3>4. Less(o - p) = o1 - p1
      BY <1>5, <1>6, <3>3 DEF Less
    <3> QED
      BY <1>7, <1>9, <2>1, <3>2, <3>3, <3>4
  <2>6. CASE c \notin {"[", "]", "{", "}"}
    <3>1. JSONnParse(a, c) = a
      BY <1>12, <2>6 DEF JSONnParse
    <3>2. o1 = o /\ p1 = p /\ s1 = s /\ t1 = t
      BY <1>4, <2>6
    <3> QED
      BY <1>7, <1>8, <1>9, <2>1, <3>1, <3>2
  <2> QED
    BY <2>2, <2>3, <2>4, <2>5, <2>6
<1> QED
  BY <1>10, <1>11, <1>12

-----------------------------------------------------------------------------
(* The search for the keys.                                                *)

(* A pattern is five characters.                                           *)
LEMMA StandsIs ==
  ASSUME NEW d, NEW k \in Keys, NEW i \in Int, Stands(d, k, i, 4)
  PROVE  /\ i >= 1 /\ i + 4 <= Len(d) + 1
         /\ d[i] = "q" /\ d[i + 1] = k /\ d[i + 2] = "q" /\ d[i + 3] = ":"
<1>1. \A j \in 1 .. 4 : d[i - 1 + j] = agent_patterns[k][j]
  BY Zenon DEF Stands
<1>2. 1 \in 1 .. 4 /\ 2 \in 1 .. 4 /\ 3 \in 1 .. 4 /\ 4 \in 1 .. 4
  OBVIOUS
<1>3. i - 1 + 1 = i /\ i - 1 + 2 = i + 1 /\ i - 1 + 3 = i + 2 /\ i - 1 + 4 = i + 3
  OBVIOUS
<1>4. /\ d[i - 1 + 1] = agent_patterns[k][1] /\ d[i - 1 + 2] = agent_patterns[k][2]
      /\ d[i - 1 + 3] = agent_patterns[k][3] /\ d[i - 1 + 4] = agent_patterns[k][4]
  BY <1>1, <1>2, Zenon
<1>5. i >= 1 /\ i + 4 <= Len(d) + 1
  BY Zenon DEF Stands
<1> QED
  BY <1>3, <1>4, <1>5, PatternsAre

LEMMA DocumentIs ==
  ASSUME NEW d \in Documents
  PROVE  d \in Seq(STRING) /\ Len(d) \in Nat /\ Len(d) >= 1 /\ DOMAIN d = 1 .. Len(d)
  BY AgentAssumption

LEMMA BelowLength ==
  ASSUME NEW L \in Nat, NEW m \in Nat, m < L
  PROVE  m \in 0 .. L /\ m + 1 \in 0 .. L
  OBVIOUS

LEMMA NoBracketOpens ==
  ASSUME NEW d \in Documents, NEW m \in Nat, m < Len(d), d[m + 1] \notin {"{", "}", "[", "]"}
  PROVE  Depth(d, m + 1) = Depth(d, m)
<1>1. m \in 0 .. Len(d) /\ m + 1 \in 0 .. Len(d)
  BY DocumentIs, BelowLength
<1>2. /\ Opened(d, "{", m + 1) = Opened(d, "{", m) /\ Opened(d, "}", m + 1) = Opened(d, "}", m)
      /\ Opened(d, "[", m + 1) = Opened(d, "[", m) /\ Opened(d, "]", m + 1) = Opened(d, "]", m)
  BY OpenedNext
<1>3. /\ Depth(d, m) = (Opened(d, "{", m) - Opened(d, "}", m)) + (Opened(d, "[", m) - Opened(d, "]", m))
      /\ Depth(d, m + 1) = (Opened(d, "{", m + 1) - Opened(d, "}", m + 1))
                             + (Opened(d, "[", m + 1) - Opened(d, "]", m + 1))
  BY <1>1, DepthIs
<1> QED
  BY <1>2, <1>3

(* After a key and its colon: outside of the text, as deep as before.      *)
LEMMA KeyRun ==
  ASSUME NEW d \in Documents, NEW k \in Keys, NEW i \in Int, Stands(d, k, i, 4)
  PROVE  /\ Quotes(d, i) \in Nat /\ Quotes(d, i + 3) = Quotes(d, i) + 1
         /\ Depth(d, i + 3) = Depth(d, i)
<1>1. /\ i >= 1 /\ i + 4 <= Len(d) + 1
      /\ d[i] = "q" /\ d[i + 1] = k /\ d[i + 2] = "q" /\ d[i + 3] = ":"
  BY StandsIs
<1>2. Len(d) \in Nat
  BY AgentAssumption
<1>3. /\ i \in Nat /\ i + 1 \in Nat /\ i + 2 \in Nat /\ i < Len(d) /\ i + 1 < Len(d) /\ i + 2 < Len(d)
      /\ (i + 1) + 1 = i + 2 /\ (i + 2) + 1 = i + 3
  BY <1>1, <1>2
<1>4. d[i + 1] \notin {"{", "}", "[", "]"} /\ d[i + 1] # "q"
  BY <1>1, PatternsAre
<1>5. /\ Quotes(d, i) \in Nat /\ Quotes(d, i + 1) = Quotes(d, i)
      /\ Quotes(d, i + 2) = Quotes(d, i + 1) + 1 /\ Quotes(d, i + 3) = Quotes(d, i + 2)
  <2>1. Quotes(d, i) \in Nat /\ Quotes(d, i + 1) = Quotes(d, i)
    BY <1>3, <1>4, QuotesNext
  <2>2. Quotes(d, i + 2) = Quotes(d, i + 1) + 1
    BY <1>1, <1>3, QuotesNext
  <2>3. Quotes(d, i + 3) = Quotes(d, i + 2)
    <3>1. d[(i + 2) + 1] # "q"
      BY <1>1, <1>3
    <3> QED
      BY <1>3, <3>1, QuotesNext
  <2> QED
    BY <2>1, <2>2, <2>3
<1>6. Depth(d, i + 1) = Depth(d, i)
  BY <1>3, <1>4, NoBracketOpens
<1>7. Depth(d, i + 2) = Depth(d, i + 1)
  <2>1. d[(i + 1) + 1] \notin {"{", "}", "[", "]"}
    BY <1>1, <1>3
  <2>2. Depth(d, (i + 1) + 1) = Depth(d, i + 1)
    BY <1>3, <2>1, NoBracketOpens
  <2> QED
    BY <1>3, <2>2
<1>8. Depth(d, i + 3) = Depth(d, i + 2)
  <2>1. d[(i + 2) + 1] \notin {"{", "}", "[", "]"}
    BY <1>1, <1>3
  <2>2. Depth(d, (i + 2) + 1) = Depth(d, i + 2)
    BY <1>3, <2>1, NoBracketOpens
  <2> QED
    BY <1>3, <2>2
<1> QED
  BY <1>5, <1>6, <1>7, <1>8

LEMMA DepthTyped ==
  ASSUME NEW d \in Documents, NEW m \in 0 .. Len(d)
  PROVE  Depth(d, m) \in Int
<1>1. PICK o, p, b, t, D : /\ o = Opened(d, "{", m) /\ p = Opened(d, "}", m)
                           /\ b = Opened(d, "[", m) /\ t = Opened(d, "]", m) /\ D = Depth(d, m)
  OBVIOUS
<1>2. o \in Nat /\ p \in Nat /\ b \in Nat /\ t \in Nat /\ D = (o - p) + (b - t)
  BY <1>1, DepthIs
<1>3. D \in Int
  BY <1>2
<1> QED
  BY <1>1, <1>3

LEMMA KeyIsQuoted ==
  ASSUME NEW d \in Documents, Compact(d), NEW k \in Keys, NEW i \in Int, Stands(d, k, i, 4)
  PROVE  i > 1 /\ d[i - 1] \in {"{", ","} /\ Quotes(d, i) % 2 = 1
<1>1. Len(d) \in Nat /\ DOMAIN d = 1 .. Len(d)
  BY AgentAssumption
<1>2. i >= 1 /\ i + 4 <= Len(d) + 1 /\ \A j \in 1 .. 4 : d[i - 1 + j] = agent_patterns[k][j]
  BY Zenon DEF Stands
<1>3. i \in DOMAIN d /\ \A j \in 1 .. 4 : i - 1 + j \in DOMAIN d
  BY <1>1, <1>2
<1> QED
  BY <1>2, <1>3, Zenon DEF Compact, KeysFollow

(* A place of a key is its pattern in the outermost braces.                *)
LEMMA PlaceIs ==
  ASSUME NEW d \in Documents, NEW k \in Keys, NEW i \in Int
  PROVE  i \in Places[d][k] <=> /\ Stands(d, k, i, 5)
                                /\ Depth(d, i) = 1 /\ Quotes(d, i) % 2 = 1
<1>1. d \in Seq(STRING) /\ Len(d) \in Nat /\ Len(agent_patterns[k]) = 5
  BY AgentAssumption, PatternsAre
<1>2. Places[d][k] = {j \in 1 .. Len(d) - 5 + 1 :
                        /\ SubSeq(d, j, j + 5 - 1) = agent_patterns[k]
                        /\ Depth(d, j) = 1 /\ Quotes(d, j) % 2 = 1}
  BY <1>1 DEF Places
<1>3. ASSUME i \in 1 .. Len(d) - 5 + 1
      PROVE  SubSeq(d, i, i + 5 - 1) = agent_patterns[k] <=> Stands(d, k, i, 5)
  <2>1. i - 1 \in Nat /\ i + 4 \in Nat /\ i - 1 <= i + 4 /\ i + 4 <= Len(d) /\ (i - 1) + 1 = i
        /\ (i + 4) - (i - 1) = 5 /\ i + 5 - 1 = i + 4
    BY <1>1, <1>3
  <2>2. PICK p, q : p = SubSeq(d, i, i + 4) /\ q = agent_patterns[k]
    OBVIOUS
  <2>3. /\ p \in Seq(STRING) /\ Len(p) = 5
        /\ \A j \in 1 .. 5 : p[j] = d[i - 1 + j]
    BY <1>1, <2>1, <2>2, PartIs
  <2>4. DOMAIN q = 1 .. 5 /\ q = [j \in 1 .. 5 |-> q[j]]
    BY <2>2 DEF agent_patterns
  <2>5. p = [j \in 1 .. 5 |-> p[j]]
    BY <2>3
  <2>6. p = q <=> \A j \in 1 .. 5 : p[j] = q[j]
    <3>1. ASSUME \A j \in 1 .. 5 : p[j] = q[j] PROVE p = q
      <4>1. [j \in 1 .. 5 |-> p[j]] = [j \in 1 .. 5 |-> q[j]]
        BY <3>1, Zenon
      <4> QED
        BY <2>4, <2>5, <4>1, Zenon
    <3> QED
      BY <3>1, Zenon
  <2>7. Stands(d, k, i, 5) <=> \A j \in 1 .. 5 : p[j] = q[j]
    BY <1>1, <1>3, <2>2, <2>3 DEF Stands
  <2> QED
    BY <2>1, <2>2, <2>6, <2>7
<1>4. Stands(d, k, i, 5) => i \in 1 .. Len(d) - 5 + 1
  BY <1>1 DEF Stands
<1> QED
  BY <1>2, <1>3, <1>4

LEMMA BracketOpens ==
  ASSUME NEW d \in Documents, NEW m \in Nat, m < Len(d), d[m + 1] = "[", Quotes(d, m) % 2 = 0
  PROVE  Depth(d, m + 1) = Depth(d, m) + 1
<1>1. m \in 0 .. Len(d) /\ m + 1 \in 0 .. Len(d)
  BY DocumentIs, BelowLength
<1>2. Quotes(d, m + 1) % 2 = 0
  BY QuotesNext
<1>3. /\ Opened(d, "{", m + 1) = Opened(d, "{", m) /\ Opened(d, "}", m + 1) = Opened(d, "}", m)
      /\ Opened(d, "[", m + 1) = Opened(d, "[", m) + 1 /\ Opened(d, "]", m + 1) = Opened(d, "]", m)
      /\ Opened(d, "{", m) \in Nat /\ Opened(d, "}", m) \in Nat
      /\ Opened(d, "[", m) \in Nat /\ Opened(d, "]", m) \in Nat
  BY <1>2, OpenedNext
<1>4. /\ Depth(d, m) = (Opened(d, "{", m) - Opened(d, "}", m)) + (Opened(d, "[", m) - Opened(d, "]", m))
      /\ Depth(d, m + 1) = (Opened(d, "{", m + 1) - Opened(d, "}", m + 1))
                             + (Opened(d, "[", m + 1) - Opened(d, "]", m + 1))
  BY <1>1, DepthIs
<1>5. PICK o, p, b, t : /\ o = Opened(d, "{", m) /\ p = Opened(d, "}", m)
                        /\ b = Opened(d, "[", m) /\ t = Opened(d, "]", m)
  OBVIOUS
<1>6. o \in Nat /\ p \in Nat /\ b \in Nat /\ t \in Nat
  BY <1>3, <1>5
<1>7. ((o - p) + ((b + 1) - t)) = ((o - p) + (b - t)) + 1
  BY <1>6
<1>8. Depth(d, m) = (o - p) + (b - t) /\ Depth(d, m + 1) = (o - p) + ((b + 1) - t)
  BY <1>3, <1>4, <1>5, Zenon
<1> QED
  BY <1>7, <1>8, Zenon

(* What follows a key of the outermost braces is not content to the        *)
(* parser, what follows one further inside is.                             *)
LEMMA ContentIs ==
  ASSUME NEW d \in Documents, Compact(d), NEW k \in Keys, NEW i \in Int, Stands(d, k, i, 4),
         NEW c, i + 3 < Len(d), c = d[(i + 3) + 1], c = agent_patterns[k][5]
  PROVE  ~IsContent(ParserAt(d, i + 3), c, 1) <=> Depth(d, i) = 1
<1>1. PICK p, D : p = ParserAt(d, i + 3) /\ D = Depth(d, i)
  OBVIOUS
<1>2. i >= 1 /\ i + 3 \in Nat
  BY StandsIs
<1>3. Quotes(d, i + 3) % 2 = 0 /\ Depth(d, i + 3) = D
  <2>1. Quotes(d, i) \in Nat /\ Quotes(d, i + 3) = Quotes(d, i) + 1 /\ Quotes(d, i) % 2 = 1
    BY KeyRun, KeyIsQuoted
  <2>2. Depth(d, i + 3) = D
    BY <1>1, KeyRun
  <2> QED
    BY <2>1, <2>2
<1>4. ~p.str
  <2>1. ~(Quotes(d, i + 3) % 2 = 1)
    BY <1>3
  <2>2. p.str <=> Quotes(d, i + 3) % 2 = 1
    BY <1>1 DEF ParserAt
  <2> QED
    BY <2>1, <2>2
<1>5. D \in Int /\ D >= 1
  <2>1. i + 3 \in DOMAIN d /\ i + 3 # Len(d) /\ i + 3 \in 0 .. Len(d)
    BY <1>2, DocumentIs
  <2>2. Depth(d, i + 3) >= 1
    <3>1. \A n \in DOMAIN d : n # Len(d) => Depth(d, n) >= 1
      BY Zenon DEF Compact, BracketsClose
    <3> QED
      BY <2>1, <3>1, Zenon
  <2>3. Depth(d, i + 3) \in Int
    BY <2>1, DepthTyped
  <2> QED
    BY <1>3, <2>2, <2>3
<1>6. DepthAfter(p, c) = Depth(d, (i + 3) + 1)
  <2>1. JSONnParse(p, c) = ParserAt(d, (i + 3) + 1)
    BY <1>1, <1>2, ParserNext
  <2>2. (i + 3) + 1 \in 0 .. Len(d)
    BY <1>2, DocumentIs, BelowLength
  <2>3. ParserAt(d, (i + 3) + 1).obj + ParserAt(d, (i + 3) + 1).arr = Depth(d, (i + 3) + 1)
    BY <2>2, ParserInRange
  <2> QED
    BY <2>1, <2>3 DEF DepthAfter
<1>7. CASE c = "q"
  <2>1. DepthAfter(p, c) = D
    <3>1. d[(i + 3) + 1] \notin {"{", "}", "[", "]"}
      BY <1>7
    <3>2. Depth(d, (i + 3) + 1) = Depth(d, i + 3)
      BY <1>2, <3>1, NoBracketOpens
    <3> QED
      BY <1>3, <1>6, <3>2
  <2>2. IsContent(p, c, 1) <=> D > 1
    BY <1>4, <1>7, <2>1 DEF IsContent
  <2> QED
    BY <1>1, <1>5, <2>2
<1>8. CASE c = "["
  <2>1. DepthAfter(p, c) = D + 1
    <3>1. Depth(d, (i + 3) + 1) = Depth(d, i + 3) + 1
      BY <1>2, <1>3, <1>8, BracketOpens
    <3> QED
      BY <1>3, <1>6, <3>1
  <2>2. IsContent(p, c, 1) <=> ~(D + 1 = 1 + 1)
    BY <1>4, <1>5, <1>8, <2>1 DEF IsContent
  <2> QED
    BY <1>1, <1>5, <2>2
<1>9. c = "q" \/ c = "["
  BY PatternsAre
<1> QED
  BY <1>7, <1>8, <1>9

(* A pattern grows by a character.                                         *)
LEMMA StandsNext ==
  ASSUME NEW d \in Documents, NEW k \in Keys, NEW i \in Int, NEW n \in 1 .. 4
  PROVE  Stands(d, k, i, n + 1) <=> /\ Stands(d, k, i, n)
                                    /\ i + n <= Len(d) /\ d[i + n] = agent_patterns[k][n + 1]
<1>1. Len(d) \in Nat /\ n \in Nat
  BY DocumentIs
<1>2. i - 1 + (n + 1) = i + n /\ n + 1 \in 1 .. n + 1 /\ 1 .. n \subseteq 1 .. n + 1
      /\ \A j \in 1 .. n + 1 : j \in 1 .. n \/ j = n + 1
  BY <1>1
<1>3. (i + (n + 1) <= Len(d) + 1 <=> i + n <= Len(d)) /\ (i + n <= Len(d) => i + n <= Len(d) + 1)
  BY <1>1
<1>4. (\A j \in 1 .. n + 1 : d[i - 1 + j] = agent_patterns[k][j]) <=>
        /\ \A j \in 1 .. n : d[i - 1 + j] = agent_patterns[k][j]
        /\ d[i + n] = agent_patterns[k][n + 1]
  BY <1>2, Zenon
<1> QED
  BY <1>3, <1>4, Zenon DEF Stands

(* The keys found with a character are those that end there.               *)
LEMMA FoundIs ==
  ASSUME NEW d \in Documents, Compact(d), NEW m \in Nat, m < Len(d),
         NEW a \in Agents, Fits(a, d, m), NEW c, c = d[m + 1], NEW k \in Keys
  PROVE  k \in Found(a, c) <=> m - 3 \in Places[d][k]
<1>1. PICK i, h : i = m - 3 /\ h = a.patternIndex[k]
  OBVIOUS
<1>2. /\ i \in Int /\ i + 3 = m /\ i + 4 = m + 1 /\ h \in 0 .. 5 /\ Len(d) \in Nat /\ i + 4 <= Len(d)
      /\ Len(agent_patterns[k]) = 5
  <2>1. h \in 0 .. 5 /\ Len(d) \in Nat /\ Len(agent_patterns[k]) = 5
    BY <1>1, DocumentIs, PatternsAre DEF Agents
  <2> QED
    BY <1>1, <2>1
<1>3. NextMatch(k, h, c) = 5 <=> h = 4 /\ c = agent_patterns[k][5]
  <2>1. h = 4 => h + 1 = 5
    OBVIOUS
  <2>2. NextMatch(k, h, c) = IF h < 5 /\ c = agent_patterns[k][h + 1] THEN h + 1 ELSE 0
    BY <1>2 DEF NextMatch
  <2>3. CASE h = 4
    BY <2>1, <2>2, <2>3
  <2>4. CASE h # 4
    BY <1>2, <2>2, <2>4
  <2> QED
    BY <2>3, <2>4
<1>4. h = 4 <=> Stands(d, k, i, 4)
  <2>1. ASSUME h = 4 PROVE Stands(d, k, i, 4)
    <3>1. \A l \in Keys : a.patternIndex[l] # 0 =>
                           Stands(d, l, m - a.patternIndex[l] + 1, a.patternIndex[l])
      BY Zenon DEF Fits, MatchesStand, Matched
    <3>4. h # 0
      BY <2>1
    <3>3. Stands(d, k, m - h + 1, h)
      BY <1>1, <3>1, <3>4, Zenon
    <3>2. m - h + 1 = i
      BY <1>1, <2>1
    <3> QED
      BY <2>1, <3>2, <3>3
  <2>2. ASSUME Stands(d, k, i, 4) PROVE h = 4
    <3>1. i > 1 /\ d[i - 1] \in {"{", ","}
      BY <1>2, <2>2, KeyIsQuoted
    <3>2. m - 4 >= 1 /\ m - 4 + 1 = i /\ m - 4 = i - 1 /\ 4 \in 1 .. 5
      <4>1. i > 1
        BY <3>1
      <4> QED
        BY <1>1, <1>2, <4>1
    <3>3. \A g \in 1 .. 5 : m - g >= 1 /\ Stands(d, k, m - g + 1, g) /\ d[m - g] \in {"{", ","}
                             => a.patternIndex[k] = g
      BY Zenon DEF Fits, NoMatchIsMissed, NotMissed, Follows
    <3> QED
      BY <1>1, <2>2, <3>1, <3>2, <3>3
  <2> QED
    BY <2>1, <2>2
<1>5. Stands(d, k, i, 5) <=> Stands(d, k, i, 4) /\ c = agent_patterns[k][5]
  <2>1. 4 \in 1 .. 4 /\ 4 + 1 = 5
    OBVIOUS
  <2> QED
    BY <1>2, <2>1, StandsNext
<1>6. ASSUME Stands(d, k, i, 4), c = agent_patterns[k][5]
      PROVE  (~IsContent(a.parser, c, 1) <=> Depth(d, i) = 1) /\ Quotes(d, i) % 2 = 1
  <2>1. a.parser = ParserAt(d, i + 3)
    BY <1>2 DEF Fits
  <2>2. i + 3 < Len(d) /\ c = d[(i + 3) + 1]
    BY <1>2
  <2> QED
    BY <1>2, <1>6, <2>1, <2>2, ContentIs, KeyIsQuoted
<1>7. k \in Found(a, c) <=> NextMatch(k, h, c) = 5 /\ ~IsContent(a.parser, c, 1)
  BY <1>1 DEF Found
<1>8. i \in Places[d][k] <=> Stands(d, k, i, 5) /\ Depth(d, i) = 1 /\ Quotes(d, i) % 2 = 1
  BY <1>2, PlaceIs
<1> QED
  BY <1>1, <1>3, <1>4, <1>5, <1>6, <1>7, <1>8, Zenon

LEMMA EndedNext ==
  ASSUME NEW d \in Documents, NEW k \in Keys, NEW m \in Nat
  PROVE  /\ Ended(d, k, m) \subseteq Places[d][k] /\ \A i \in Ended(d, k, m) : i \in Nat /\ i >= 1 /\ i <= m - 4
         /\ Ended(d, k, m + 1) = Ended(d, k, m) \cup ({m - 3} \cap Places[d][k])
<1>1. \A i \in Places[d][k] : i \in Nat /\ i >= 1
  <2>1. Len(d) \in Nat /\ Len(agent_patterns[k]) = 5
    BY DocumentIs, PatternsAre
  <2>2. Places[d][k] \subseteq 1 .. Len(d) - 5 + 1
    BY <2>1 DEF Places
  <2> QED
    BY <2>1, <2>2
<1>2. PICK P : P = Places[d][k]
  OBVIOUS
<1>3. /\ Ended(d, k, m) = {i \in P : i + 4 <= m}
      /\ Ended(d, k, m + 1) = {i \in P : i + 4 <= m + 1}
  BY <1>2 DEF Ended
<1>4. \A i \in P : i \in Nat /\ i >= 1
  BY <1>1, <1>2
<1>5. \A i \in P : (i + 4 <= m => i <= m - 4) /\ (i + 4 <= m + 1 <=> (i + 4 <= m \/ i = m - 3))
  BY <1>4
<1> QED
  BY <1>2, <1>3, <1>4, <1>5

(* An agent is made, or made anew, at the first block.                     *)
LEMMA FitsFirst ==
  ASSUME NEW d \in Documents
  PROVE  Fits(NewAgent, d, 0)
<1>1. ~NewAgent.twice /\ NewAgent.parser = ParserAt(d, 0)
  BY ParserStarts DEF NewAgent
<1>2. MatchesStand(NewAgent, d, 0)
  BY DEF MatchesStand, Matched, NewAgent
<1>3. NoMatchIsMissed(NewAgent, d, 0)
  <2>1. \A h \in 1 .. 5 : ~(0 - h >= 1)
    OBVIOUS
  <2> QED
    BY <2>1, Zenon DEF NoMatchIsMissed, NotMissed
<1>4. PlacesNoted(NewAgent, d, 0)
  <2>1. ASSUME NEW k \in Keys PROVE Ended(d, k, 0) = {}
    <3>1. 0 \in Nat /\ ~\E i \in Nat : i >= 1 /\ i <= 0 - 4
      OBVIOUS
    <3> QED
      BY <3>1, EndedNext
  <2>2. \A k \in Keys : NewAgent.fileIndex[k] = 0
    BY DEF NewAgent
  <2> QED
    BY <2>1, <2>2 DEF PlacesNoted, Noted
<1> QED
  BY <1>1, <1>2, <1>3, <1>4 DEF Fits

LEMMA MatchesNext ==
  ASSUME NEW d \in Documents, NEW m \in Nat, m < Len(d), NEW k \in Keys, NEW g \in 0 .. 5,
         Matched(d, k, m, g),
         NEW h, h = NextMatch(k, g, d[m + 1])
  PROVE  Matched(d, k, m + 1, h)
<1>0. SUFFICES ASSUME h # 0 PROVE Stands(d, k, (m + 1) - h + 1, h)
  BY Zenon DEF Matched
<1>1. Len(agent_patterns[k]) = 5 /\ Len(d) \in Nat
  BY PatternsAre, DocumentIs
<1>2. g < 5 /\ d[m + 1] = agent_patterns[k][g + 1] /\ h = g + 1
  BY <1>0, <1>1 DEF NextMatch
<1>3. CASE g = 0
  <2>1. h = 1 /\ (m + 1) - h + 1 = m + 1 /\ m + 1 >= 1 /\ (m + 1) + 1 <= Len(d) + 1
    BY <1>1, <1>2, <1>3
  <2>2. \A j \in 1 .. 1 : (m + 1) - 1 + j = m + 1 /\ j = 1
    OBVIOUS
  <2>3. d[m + 1] = agent_patterns[k][1]
    BY <1>2, <1>3
  <2>4. \A j \in 1 .. 1 : d[(m + 1) - 1 + j] = agent_patterns[k][j]
    BY <2>2, <2>3, Zenon
  <2>5. Stands(d, k, m + 1, 1)
    BY <2>1, <2>4, Zenon DEF Stands
  <2> QED
    BY <2>1, <2>5, Zenon
<1>4. CASE g # 0
  <2>1. PICK i : i = m - g + 1
    OBVIOUS
  <2>2. i \in Int /\ i + g = m + 1 /\ g \in 1 .. 4 /\ i + g <= Len(d) /\ (m + 1) - h + 1 = i
    BY <1>1, <1>2, <1>4, <2>1
  <2>3. Stands(d, k, i, g) /\ d[i + g] = agent_patterns[k][g + 1]
    <3>1. Stands(d, k, m - g + 1, g)
      BY <1>4, Zenon DEF Matched
    <3> QED
      BY <1>2, <2>1, <2>2, <3>1
  <2>4. Stands(d, k, i, g + 1)
    BY <2>2, <2>3, StandsNext
  <2> QED
    BY <1>2, <2>2, <2>4, Zenon
<1> QED
  BY <1>3, <1>4

LEMMA StartsNext ==
  ASSUME NEW d \in Documents, NEW m \in Nat, m < Len(d), NEW k \in Keys, NEW g \in 0 .. 5,
         Matched(d, k, m, g), NotMissed(d, k, m, g)
  PROVE  NotMissed(d, k, m + 1, NextMatch(k, g, d[m + 1]))
<1>1. Len(agent_patterns[k]) = 5 /\ Len(d) \in Nat
  BY PatternsAre, DocumentIs
<1>2. ASSUME Stands(d, k, m + 1, 1), Follows(d, m)
      PROVE  NextMatch(k, g, d[m + 1]) = 1
  <2>1. d[m + 1] = agent_patterns[k][1]
    <3>1. 1 \in 1 .. 1 /\ (m + 1) - 1 + 1 = m + 1
      OBVIOUS
    <3>2. \A j \in 1 .. 1 : d[(m + 1) - 1 + j] = agent_patterns[k][j]
      BY <1>2, Zenon DEF Stands
    <3>3. d[(m + 1) - 1 + 1] = agent_patterns[k][1]
      BY <3>1, <3>2, Zenon
    <3> QED
      BY <3>1, <3>3
  <2>2. g = 0
    <3>1. SUFFICES ASSUME g # 0 PROVE FALSE
      OBVIOUS
    <3>2. PICK i : i = m - g + 1
      OBVIOUS
    <3>3. g \in 1 .. g /\ i - 1 + g = m
      BY <3>1, <3>2
    <3>4. Stands(d, k, i, g)
      BY <3>1, <3>2, Zenon DEF Matched
    <3>5. d[i - 1 + g] = agent_patterns[k][g]
      BY <3>3, <3>4, Zenon DEF Stands
    <3>6. g = 1 \/ g = 2 \/ g = 3 \/ g = 4 \/ g = 5
      BY <3>1
    <3>7. agent_patterns[k][g] \notin {"{", ","}
      BY <3>6, PatternsAre
    <3> QED
      BY <1>2, <3>3, <3>5, <3>7 DEF Follows
  <2>3. NextMatch(k, g, d[m + 1]) = IF 0 < 5 /\ d[m + 1] = agent_patterns[k][0 + 1] THEN 0 + 1 ELSE 0
    BY <1>1, <2>2 DEF NextMatch
  <2> QED
    BY <2>1, <2>3
<1>3. ASSUME NEW n \in 1 .. 4, Stands(d, k, m - n + 1, n + 1), m - n >= 1, Follows(d, m - n)
      PROVE  NextMatch(k, g, d[m + 1]) = n + 1
  <2>1. PICK i : i = m - n + 1
    OBVIOUS
  <2>2. i \in Int /\ i + n = m + 1 /\ n \in 1 .. 5
    BY <2>1
  <2>3. Stands(d, k, i, n) /\ d[i + n] = agent_patterns[k][n + 1]
    BY <1>3, <2>1, <2>2, StandsNext
  <2>4. g = n
    BY <1>3, <2>1, <2>2, <2>3, Zenon DEF NotMissed
  <2>5. g < 5 /\ d[m + 1] = agent_patterns[k][g + 1]
    BY <2>2, <2>3, <2>4
  <2> QED
    BY <1>1, <2>4, <2>5 DEF NextMatch
<1>4. SUFFICES ASSUME NEW h \in 1 .. 5, (m + 1) - h >= 1, Stands(d, k, (m + 1) - h + 1, h),
                      Follows(d, (m + 1) - h)
               PROVE  NextMatch(k, g, d[m + 1]) = h
  BY Zenon DEF NotMissed
<1>5. CASE h = 1
  <2>1. (m + 1) - h = m /\ (m + 1) - h + 1 = m + 1
    BY <1>5
  <2> QED
    BY <1>2, <1>4, <1>5, <2>1
<1>6. CASE h # 1
  <2>1. PICK n : n = h - 1
    OBVIOUS
  <2>2. n \in 1 .. 4 /\ h = n + 1 /\ (m + 1) - h = m - n /\ (m + 1) - h + 1 = m - n + 1
    BY <1>6, <2>1
  <2> QED
    BY <1>3, <1>4, <2>2
<1> QED
  BY <1>5, <1>6

LEMMA MoreThanOne ==
  ASSUME NEW S, IsFiniteSet(S), NEW x \in S, NEW y \in S, x # y
  PROVE  Cardinality(S) > 1
<1>1. IsFiniteSet({x}) /\ Cardinality({x}) = 1
  BY FS_Singleton
<1>2. {x, y} = {x} \cup {y} /\ y \notin {x} /\ {x, y} \subseteq S
  OBVIOUS
<1>3. Cardinality({x, y}) = 2
  <2>1. Cardinality({x, y}) = Cardinality({x}) + 1
    BY <1>1, <1>2, CountNext
  <2> QED
    BY <1>1, <2>1
<1>4. Cardinality({x, y}) <= Cardinality(S)
  BY <1>2, FS_Subset
<1>5. Cardinality(S) \in Nat
  BY FS_CardinalityType
<1> QED
  BY <1>3, <1>4, <1>5

LEMMA PlacesAreFew ==
  ASSUME NEW d \in Documents, NEW k \in Keys
  PROVE  IsFiniteSet(Places[d][k]) /\ Places[d][k] \subseteq 1 .. Len(d) - 4
<1>1. Len(d) \in Nat /\ Len(agent_patterns[k]) = 5
  BY DocumentIs, PatternsAre
<1>2. Places[d][k] \subseteq 1 .. Len(d) - 4
  <2>1. Places[d][k] \subseteq 1 .. Len(d) - 5 + 1
    BY <1>1 DEF Places
  <2> QED
    BY <1>1, <2>1
<1>3. IsFiniteSet(1 .. Len(d) - 4)
  BY <1>1, FS_Interval
<1> QED
  BY <1>2, <1>3, FS_Subset

LEMMA NotedNext ==
  ASSUME NEW d \in Documents, NEW k \in Keys, NEW m \in Nat, NEW v, Noted(d, k, m, v)
  PROVE  /\ m - 3 \notin Places[d][k] => Noted(d, k, m + 1, v)
         /\ m - 3 \in Places[d][k] /\ v = 0 => Noted(d, k, m + 1, m)
         /\ m - 3 \in Places[d][k] /\ v # 0 => Cardinality(Places[d][k]) > 1
<1>1. PICK E, P, F : E = Ended(d, k, m) /\ P = Places[d][k] /\ F = Ended(d, k, m + 1)
  OBVIOUS
<1>2. /\ E \subseteq P /\ \A i \in E : i \in Nat /\ i >= 1 /\ i <= m - 4
      /\ F = E \cup ({m - 3} \cap P)
  BY <1>1, EndedNext
<1>3. v = (IF E = {} THEN 0 ELSE Least(E) + 3) /\ \A i, j \in E : i = j
  BY <1>1 DEF Noted
<1>4. ASSUME m - 3 \notin P PROVE Noted(d, k, m + 1, v)
  <2>1. F = E
    BY <1>2, <1>4
  <2> QED
    BY <1>1, <1>3, <2>1 DEF Noted
<1>5. ASSUME m - 3 \in P, v = 0 PROVE Noted(d, k, m + 1, m)
  <2>1. E = {}
    <3>1. SUFFICES ASSUME E # {} PROVE FALSE
      OBVIOUS
    <3>2. PICK l : l = Least(E)
      OBVIOUS
    <3>3. l \in E
      <4>1. E \in SUBSET Nat
        BY <1>2
      <4> QED
        BY <3>1, <3>2, <4>1, LeastIs
    <3>4. l \in Nat /\ v = l + 3
      BY <1>2, <1>3, <3>1, <3>2, <3>3
    <3> QED
      BY <1>5, <3>4
  <2>2. F = {m - 3}
    BY <1>2, <1>5, <2>1
  <2>3. m - 3 \in Nat
    BY <1>1, <1>5, PlacesAreFew, DocumentIs
  <2>4. Least(F) = m - 3
    <3>1. F \in SUBSET Nat /\ F # {}
      BY <2>2, <2>3
    <3>2. Least(F) \in F
      BY <3>1, LeastIs
    <3> QED
      BY <2>2, <3>2
  <2>5. m = IF F = {} THEN 0 ELSE Least(F) + 3
    BY <2>2, <2>4
  <2>6. \A i, j \in F : i = j
    BY <2>2
  <2> QED
    BY <1>1, <2>5, <2>6, Zenon DEF Noted
<1>6. ASSUME m - 3 \in P, v # 0 PROVE Cardinality(P) > 1
  <2>1. PICK i \in E : TRUE
    BY <1>3, <1>6
  <2>2. i # m - 3 /\ i \in P
    BY <1>2, <2>1
  <2> QED
    BY <1>1, <1>6, <2>2, PlacesAreFew, MoreThanOne
<1> QED
  BY <1>1, <1>4, <1>5, <1>6

FitsOrTwice(a, d, m) == (a.twice /\ Twice(d)) \/ Fits(a, d, m)

(* A character of the document goes through the agent.                     *)
LEMMA FeedFits ==
  ASSUME NEW d \in Documents, Compact(d), NEW m \in Nat, m < Len(d),
         NEW a \in Agents, Fits(a, d, m), NEW i \in Nat, a.size + i = m
  PROVE  FitsOrTwice(Feed(a, d[m + 1], i), d, m + 1)
<1>1. PICK c, b : c = d[m + 1] /\ b = Feed(a, c, i)
  OBVIOUS
<1>2. /\ ~a.twice /\ a.parser = ParserAt(d, m)
      /\ \A k \in Keys : /\ Matched(d, k, m, a.patternIndex[k]) /\ NotMissed(d, k, m, a.patternIndex[k])
                         /\ Noted(d, k, m, a.fileIndex[k])
  BY Zenon DEF Fits, MatchesStand, NoMatchIsMissed, PlacesNoted
<1>3. /\ b.twice <=> Again(a, c) # {}
      /\ b.parser = JSONnParse(a.parser, c)
      /\ \A k \in Keys : b.fileIndex[k] =
           IF k \in Found(a, c) \ Again(a, c) THEN a.size + i ELSE a.fileIndex[k]
      /\ Again(a, c) = {} => \A k \in Keys : b.patternIndex[k] = NextMatch(k, a.patternIndex[k], c)
  BY <1>1, <1>2, FeedIs
<1>4. \A k \in Keys : k \in Found(a, c) <=> m - 3 \in Places[d][k]
  BY <1>1, FoundIs
<1>5. CASE Again(a, c) # {}
  <2>1. PICK k \in Keys : k \in Found(a, c) /\ a.fileIndex[k] # 0
    BY <1>5 DEF Again, Found
  <2>2. Cardinality(Places[d][k]) > 1
    BY <1>2, <1>4, <2>1, NotedNext
  <2> QED
    BY <1>1, <1>3, <1>5, <2>2 DEF Twice, FitsOrTwice
<1>6. CASE Again(a, c) = {}
  <2>1. ~b.twice /\ b.parser = ParserAt(d, m + 1)
    BY <1>1, <1>2, <1>3, <1>6, ParserNext
  <2>2. ASSUME NEW k \in Keys
        PROVE  /\ Matched(d, k, m + 1, b.patternIndex[k])
               /\ NotMissed(d, k, m + 1, b.patternIndex[k])
               /\ Noted(d, k, m + 1, b.fileIndex[k])
    <3>1. PICK g : g = a.patternIndex[k] /\ g \in 0 .. 5
      BY DEF Agents
    <3>2. PICK h : h = b.patternIndex[k] /\ h = NextMatch(k, g, d[m + 1])
      BY <1>1, <1>3, <1>6, <3>1
    <3>3. Matched(d, k, m, g) /\ NotMissed(d, k, m, g)
      BY <1>2, <3>1
    <3>4. Matched(d, k, m + 1, h) /\ NotMissed(d, k, m + 1, h)
      BY <3>1, <3>2, <3>3, MatchesNext, StartsNext
    <3>5. CASE k \in Found(a, c)
      <4>1. a.fileIndex[k] = 0
        BY <1>6, <3>5 DEF Again
      <4>2. b.fileIndex[k] = m
        BY <1>3, <1>6, <3>5
      <4> QED
        BY <1>2, <1>4, <3>2, <3>4, <3>5, <4>1, <4>2, NotedNext
    <3>6. CASE k \notin Found(a, c)
      <4>1. b.fileIndex[k] = a.fileIndex[k]
        BY <1>3, <3>6
      <4> QED
        BY <1>2, <1>4, <3>2, <3>4, <3>6, <4>1, NotedNext
    <3> QED
      BY <3>5, <3>6
  <2>3. Fits(b, d, m + 1)
    BY <2>1, <2>2, Zenon DEF Fits, MatchesStand, NoMatchIsMissed, PlacesNoted
  <2> QED
    BY <1>1, <2>3 DEF FitsOrTwice
<1> QED
  BY <1>5, <1>6

(* block is what follows in d after m characters.                          *)
Continues(d, block, m) ==
  /\ Len(block) \in Nat /\ m + Len(block) <= Len(d)
  /\ \A i \in 1 .. Len(block) : block[i] = d[m + i]

(* A block goes through the agent.                                         *)
LEMMA AnalysedFits ==
  ASSUME NEW d \in Documents, Compact(d), NEW agt \in Agents, NEW n, NEW block,
         NEW m \in Nat, Continues(d, block, m),
         First(agt, n).size = m, Fits(First(agt, n), d, m)
  PROVE  /\ Analysed(agt, block, n) \in Agents /\ Analysed(agt, block, n).size = m
         /\ FitsOrTwice(Analysed(agt, block, n), d, m + Len(block))
<1>0. /\ Len(block) \in Nat /\ m + Len(block) <= Len(d)
      /\ \A i \in 1 .. Len(block) : block[i] = d[m + i]
  BY DEF Continues
<1>1. PICK f : Feeds(f, First(agt, n), block) /\ Analysed(agt, block, n) = f[Len(block)]
  BY <1>0, AnalysedFeeds
<1>2. PICK N, first : N = Len(block) /\ first = First(agt, n)
  OBVIOUS
<1>3. /\ f \in [0 .. N -> Agents] /\ f[0] = first
      /\ \A i \in 0 .. N - 1 : f[i + 1] = Feed(f[i], block[i + 1], i)
  BY <1>1, <1>2, Zenon DEF Feeds
<1>4. first.size = m /\ Fits(first, d, m) /\ N \in Nat /\ m + N <= Len(d) /\ Len(d) \in Nat
  BY <1>0, <1>2, DocumentIs
<1> DEFINE Fine(i) == f[i].size = m /\ FitsOrTwice(f[i], d, m + i)
           Good == {i \in 0 .. N : Fine(i)}
<1>5. 0 \in Good /\ 0 \in Int /\ N \in Int
  <2>1. m + 0 = m /\ 0 \in 0 .. N /\ N \in Int
    BY <1>4
  <2>2. FitsOrTwice(f[0], d, m + 0)
    BY <1>3, <1>4, <2>1 DEF FitsOrTwice
  <2> QED
    BY <1>3, <1>4, <2>1, <2>2
<1>6. ASSUME NEW i \in 0 .. N - 1, i \in Good PROVE i + 1 \in Good
  <2>1. /\ i \in Nat /\ i + 1 \in 0 .. N /\ i + 1 \in 1 .. N /\ m + i \in Nat /\ m + i < Len(d)
        /\ (m + i) + 1 = m + (i + 1)
    BY <1>4
  <2>2. f[i] \in Agents /\ f[i].size = m /\ FitsOrTwice(f[i], d, m + i)
    BY <1>3, <1>6, <2>1
  <2>3. PICK a, b, p : a = f[i] /\ b = f[i + 1] /\ p = m + i
    OBVIOUS
  <2>4. b = Feed(a, d[p + 1], i)
    <3>1. b = Feed(a, block[i + 1], i)
      BY <1>3, <2>3
    <3>2. block[i + 1] = d[m + (i + 1)]
      BY <1>0, <1>2, <2>1
    <3> QED
      BY <2>1, <2>3, <3>1, <3>2
  <2>5. CASE a.twice /\ Twice(d)
    <3>1. b = a
      BY <2>4, <2>5 DEF Feed
    <3> QED
      BY <2>1, <2>2, <2>3, <2>5, <3>1 DEF FitsOrTwice
  <2>6. CASE Fits(a, d, p)
    <3>1. a \in Agents /\ a.size = m /\ p \in Nat /\ p < Len(d) /\ a.size + i = p /\ i \in Nat
      BY <2>1, <2>2, <2>3
    <3>2. FitsOrTwice(b, d, p + 1)
      BY <2>4, <2>6, <3>1, FeedFits
    <3>3. b.size = m
      BY <2>4, <3>1, FeedTyped
    <3> QED
      BY <2>1, <2>3, <3>2, <3>3
  <2> QED
    BY <2>2, <2>3, <2>5, <2>6 DEF FitsOrTwice
<1>7. N \in Good
  <2>1. N \in 0 .. N
    BY <1>4
  <2> HIDE DEF Good
  <2> QED
    BY <2>1, <1>5, <1>6, CountingUp
<1>8. f[N] \in Agents
  BY <1>3, <1>4
<1> QED
  BY <1>1, <1>2, <1>7, <1>8

LEMMA ResizedFits ==
  ASSUME NEW a \in Agents, NEW d, NEW m, Fits(a, d, m), NEW s \in Nat
  PROVE  [a EXCEPT !.size = s].size = s /\ Fits([a EXCEPT !.size = s], d, m)
<1>1. PICK b : b = [a EXCEPT !.size = s]
  OBVIOUS
<1>2. /\ b.size = s /\ b.twice = a.twice /\ b.parser = a.parser
      /\ b.patternIndex = a.patternIndex /\ b.fileIndex = a.fileIndex
  BY <1>1 DEF Agents
<1>3. Fits(b, d, m)
  BY <1>2 DEF Fits, MatchesStand, NoMatchIsMissed, PlacesNoted
<1> QED
  BY <1>1, <1>2, <1>3

LEMMA OverwrittenHolds ==
  ASSUME NEW d \in Documents, NEW n \in 0 .. LastBlock(d), NEW old \in Seq(Symbols),
         Holds(old, d, n * BlockSize)
  PROVE  Holds(Overwritten(old, n * BlockSize, Blocks[d][n]), d, BlockEnd(d, n))
<1>1. PICK s, e, block, f : /\ s = n * BlockSize /\ e = BlockEnd(d, n) /\ block = Blocks[d][n]
                            /\ f = Overwritten(old, n * BlockSize, Blocks[d][n])
  OBVIOUS
<1>2. /\ s \in Nat /\ e \in Nat /\ s < e /\ Len(block) = e - s
      /\ \A i \in 1 .. e - s : block[i] = d[s + i]
  BY <1>1, BlockSpan
<1>3. block \in Seq(Symbols)
  BY <1>1, BlockTyped
<1>4. /\ Len(f) = IF s + Len(block) > Len(old) THEN s + Len(block) ELSE Len(old)
      /\ \A i \in 1 .. Len(f) : f[i] =
           IF i > s /\ i <= s + Len(block) THEN block[i - s]
           ELSE IF i <= Len(old) THEN old[i] ELSE "gap"
  <2>1. f = Overwritten(old, s, block) /\ s \in Nat
    BY <1>1, <1>2
  <2> QED
    BY <1>3, <2>1, OverwrittenIs, Zenon
<1>5. Len(old) \in Nat /\ Len(old) >= s /\ \A i \in 1 .. s : old[i] = d[i]
  BY <1>1 DEF Holds
<1>6. s + Len(block) = e /\ Len(f) \in Nat /\ Len(f) >= e
  BY <1>2, <1>4, <1>5
<1>7. ASSUME NEW i \in 1 .. e PROVE f[i] = d[i]
  <2>1. i \in 1 .. Len(f)
    BY <1>2, <1>6
  <2>2. CASE i > s
    <3>1. i - s \in 1 .. e - s /\ s + (i - s) = i
      BY <1>2, <2>2
    <3>2. f[i] = block[i - s]
      BY <1>2, <1>4, <1>6, <2>1, <2>2
    <3> QED
      BY <1>2, <3>1, <3>2
  <2>3. CASE ~(i > s)
    <3>1. i \in 1 .. s /\ i <= Len(old)
      BY <1>2, <1>5, <2>3
    <3>2. f[i] = old[i]
      BY <1>4, <2>1, <2>3, <3>1
    <3> QED
      BY <1>5, <3>1, <3>2
  <2> QED
    BY <2>2, <2>3
<1> QED
  BY <1>1, <1>6, <1>7 DEF Holds

(* A block that follows what is there already.                             *)
LEMMA WriteReady ==
  ASSUME NEW d \in Documents, Compact(d), NEW agt \in Agents, NEW old \in Seq(Symbols),
         NEW n \in 0 .. LastBlock(d), NEW fails \in BOOLEAN,
         n # 0 => Ready(agt, old, d, n * BlockSize)
  PROVE  LET w == Write(agt, old, d, n, fails)
         IN /\ w.ok => Ready(w.agt, w.file, d, BlockEnd(d, n))
            /\ ~w.ok => fails \/ Twice(d)
<1>1. PICK w, a, block, first, s, e :
        /\ w = Write(agt, old, d, n, fails) /\ a = Analysed(agt, Blocks[d][n], n)
        /\ block = Blocks[d][n] /\ first = First(agt, n)
        /\ s = n * BlockSize /\ e = BlockEnd(d, n)
  OBVIOUS
<1>2. /\ s \in Nat /\ e \in Nat /\ s < e /\ e <= Len(d) /\ Len(block) = e - s
      /\ \A i \in 1 .. e - s : block[i] = d[s + i]
  BY <1>1, BlockSpan
<1>3. Len(block) \in Nat /\ s + Len(block) = e
  BY <1>2
<1>4. first.size = s /\ Fits(first, d, s) /\ Holds(old, d, s)
  <2>1. CASE n = 0
    <3>1. first = NewAgent /\ s = 0
      BY <1>1, <2>1, AgentAssumption DEF First, root_agent_reset
    <3>2. NewAgent.size = 0
      BY DEF NewAgent
    <3>3. Holds(old, d, 0)
      BY DEF Holds
    <3> QED
      BY <3>1, <3>2, <3>3, FitsFirst
  <2>2. CASE n # 0
    <3>1. agt.size = s /\ Fits(agt, d, s) /\ Holds(old, d, s)
      BY <1>1, <2>2 DEF Ready
    <3>2. agt.twice = FALSE
      BY <3>1 DEF Fits, Agents
    <3>3. first = [agt EXCEPT !.twice = FALSE]
      BY <1>1, <2>2 DEF First
    <3>4. first = agt
      BY <3>2, <3>3 DEF Agents
    <3> QED
      BY <3>1, <3>4
  <2> QED
    BY <2>1, <2>2
<1>5. a \in Agents /\ a.size = s /\ FitsOrTwice(a, d, e)
  <2>1. Continues(d, block, s)
    BY <1>2, <1>3 DEF Continues
  <2>2. /\ Analysed(agt, block, n) \in Agents /\ Analysed(agt, block, n).size = s
        /\ FitsOrTwice(Analysed(agt, block, n), d, s + Len(block))
    <3>1. First(agt, n).size = s /\ Fits(First(agt, n), d, s) /\ s \in Nat
      BY <1>1, <1>2, <1>4, Zenon
    <3> QED
      BY <2>1, <3>1, AnalysedFits
  <2> QED
    BY <1>1, <1>3, <2>2
<1>6. /\ w.ok <=> ~fails /\ ~a.twice
      /\ w.ok => w.agt = [a EXCEPT !.size = @ + Len(block)] /\ w.file = Overwritten(old, s, block)
  BY <1>1, WriteIs
<1>7. ASSUME w.ok PROVE Ready(w.agt, w.file, d, e)
  <2>1. Fits(a, d, e)
    BY <1>5, <1>6, <1>7 DEF FitsOrTwice
  <2>2. w.agt = [a EXCEPT !.size = e]
    <3>1. a.size + Len(block) = e
      BY <1>3, <1>5
    <3> QED
      BY <1>6, <1>7, <3>1
  <2>3. w.agt.size = e /\ Fits(w.agt, d, e)
    BY <1>2, <1>5, <2>1, <2>2, ResizedFits
  <2>4. Holds(w.file, d, e)
    BY <1>1, <1>4, <1>6, <1>7, OverwrittenHolds
  <2> QED
    BY <2>3, <2>4 DEF Ready
<1>8. ASSUME ~w.ok PROVE fails \/ Twice(d)
  BY <1>5, <1>6, <1>8 DEF FitsOrTwice, Fits
<1> QED
  BY <1>1, <1>7, <1>8

LEMMA LocalResultReady ==
  ASSUME TInv, NEW u \in Names, CanHave(u), NEW d \in Documents, Compact(d), NEW bad
  PROVE  LocalResult(u, d, bad).ok =>
           Ready(LocalResult(u, d, bad).agt, LocalResult(u, d, bad).file, d, Len(d))
<1>1. agent[u] \in Agents /\ file[FileFor(u)] \in Seq(Symbols)
  <2>1. FileFor(u) \in Slots
    BY FileIsOwn DEF TInv
  <2> QED
    BY <2>1 DEF TInv, AgentsTyped
<1>2. PICK f : LocalSteps(f, u, d, bad) /\ LocalResult(u, d, bad) = f[LastBlock(d)]
  BY <1>1, LocalResultIs
<1>3. PICK N : N = LastBlock(d)
  OBVIOUS
<1>4. N \in Nat
  BY <1>3, AgentAssumption DEF LastBlock
<1>5. /\ f \in [-1 .. N -> Writes]
      /\ \A n \in -1 .. N - 1 : f[n + 1] = Then(f[n], d, n + 1, bad)
  BY <1>2, <1>3 DEF LocalSteps
<1> DEFINE Fine(n) == n # -1 /\ f[n].ok => Ready(f[n].agt, f[n].file, d, BlockEnd(d, n))
           Good == {n \in -1 .. N : Fine(n)}
<1>6. -1 \in Good /\ -1 \in Int /\ N \in Int
  BY <1>4
<1>7. ASSUME NEW n \in -1 .. N - 1, n \in Good PROVE n + 1 \in Good
  <2>1. PICK v, w, m : v = f[n] /\ m = n + 1 /\ w = Write(v.agt, v.file, d, m, m = bad)
    OBVIOUS
  <2>2. m \in 0 .. N /\ m \in -1 .. N /\ v \in Writes
    BY <1>4, <1>5, <2>1
  <2>3. v.agt \in Agents /\ v.file \in Seq(Symbols) /\ (m = bad) \in BOOLEAN
    BY <2>2 DEF Writes
  <2>4. f[m] = Then(v, d, m, bad)
    BY <1>5, <2>1
  <2>5. (f[m].ok <=> w.ok /\ v.ok) /\ f[m].agt = w.agt /\ f[m].file = w.file
    <3>1. m \in 0 .. LastBlock(d)
      BY <1>3, <2>2
    <3>2. /\ Then(v, d, m, bad).ok <=> Write(v.agt, v.file, d, m, m = bad).ok /\ v.ok
          /\ Then(v, d, m, bad).agt = Write(v.agt, v.file, d, m, m = bad).agt
          /\ Then(v, d, m, bad).file = Write(v.agt, v.file, d, m, m = bad).file
      BY <2>2, <3>1, ThenIs
    <3> QED
      BY <2>1, <2>4, <3>2
  <2>6. SUFFICES ASSUME f[m].ok PROVE Ready(f[m].agt, f[m].file, d, BlockEnd(d, m))
    BY <2>1, <2>2
  <2>7. m # 0 => Ready(v.agt, v.file, d, m * BlockSize)
    <3>1. SUFFICES ASSUME m # 0 PROVE Ready(v.agt, v.file, d, m * BlockSize)
      OBVIOUS
    <3>2. n # -1 /\ n \in 0 .. N /\ n < N
      BY <1>4, <2>1, <2>2, <3>1
    <3>3. Ready(v.agt, v.file, d, BlockEnd(d, n))
      BY <1>7, <2>1, <2>5, <2>6, <3>2
    <3>4. BlockEnd(d, n) = (n + 1) * BlockSize
      BY <1>3, <3>2, BlockIs
    <3> QED
      BY <2>1, <3>3, <3>4
  <2>8. w.ok /\ Ready(w.agt, w.file, d, BlockEnd(d, m))
    BY <1>3, <2>1, <2>2, <2>3, <2>5, <2>6, <2>7, WriteReady
  <2> QED
    BY <2>5, <2>8
<1>8. N \in Good
  <2>1. N \in -1 .. N
    BY <1>4
  <2> HIDE DEF Good
  <2> QED
    BY <1>6, <1>7, <2>1, CountingUp
<1>9. BlockEnd(d, N) = Len(d) /\ N # -1
  BY <1>3, <1>4 DEF BlockEnd
<1> QED
  BY <1>2, <1>3, <1>8, <1>9

-----------------------------------------------------------------------------
(* The invariant: what is whole has gone through its agent, and of what is *)
(* on the way the blocks up to the last one taken have, in order, as long  *)
(* as no other request comes between them.                                 *)

UnderWay == incoming # NoTransfer /\ incoming.sent # 0 /\ locked = incoming.uri

PartIsReady ==
  UnderWay =>
    /\ count \in 0 .. LastBlock(incoming.doc) - 1
    /\ Ready(agent[locked], file[memoryIndex[locked]], incoming.doc, (count + 1) * BlockSize)

PInv == TInv /\ WholesAreReady /\ PartIsReady

LEMMA InitPInv == Init => PInv
<1> SUFFICES ASSUME Init PROVE PInv
  OBVIOUS
<1>1. TInv
  BY InitTInv
<1>2. incoming = NoTransfer /\ \A u \in Names : whole[u] = NoDocument
  BY DEF Init
<1> QED
  BY <1>1, <1>2 DEF PInv, WholesAreReady, PartIsReady, UnderWay

LEMMA GoneReady ==
  ASSUME TInv, WholesAreReady, NEW u \in Names, Gone(u), file' = file
  PROVE  WholesAreReady'
<1> USE DEF TInv
<1>1. \A v \in Names \ {u} : memoryIndex'[v] = memoryIndex[v] /\ agent'[v] = agent[v] /\ whole'[v] = whole[v]
  BY DEF Gone, root_agent_free, IInv, FilesTyped, AgentsTyped
<1>2. whole'[u] = NoDocument
  BY DEF Gone, AgentsTyped
<1>3. ASSUME NEW v \in Names, whole'[v] # NoDocument
      PROVE  (v \in InUse)' /\ Ready(agent'[v], file'[memoryIndex'[v]], whole'[v], Len(whole'[v]))
  <2>1. v \in Names \ {u}
    BY <1>2, <1>3
  <2>2. memoryIndex'[v] = memoryIndex[v] /\ agent'[v] = agent[v] /\ whole'[v] = whole[v]
    BY <1>1, <2>1
  <2>3. v \in InUse /\ Ready(agent[v], file[memoryIndex[v]], whole[v], Len(whole[v]))
    BY <1>3, <2>2 DEF WholesAreReady
  <2> QED
    BY <2>2, <2>3 DEF InUse
<1> QED
  BY <1>3 DEF WholesAreReady

LEMMA HasReady ==
  ASSUME TInv, WholesAreReady, NEW u \in Names, CanHave(u),
         NEW a, NEW content, Has(u, FileFor(u), a, content),
         NEW d, whole' = [whole EXCEPT ![u] = d],
         d # NoDocument => Ready(a, content, d, Len(d))
  PROVE  /\ WholesAreReady'
         /\ agent'[u] = a /\ file'[memoryIndex'[u]] = content
<1> USE DEF TInv
<1>1. FileFor(u) \in Slots /\ \A v \in InUse \ {u} : memoryIndex[v] # FileFor(u)
  BY FileIsOwn
<1>2. PICK f : f = FileFor(u)
  OBVIOUS
<1>3. /\ \A v \in Names : memoryIndex'[v] = IF v = u THEN f ELSE memoryIndex[v]
      /\ \A v \in Names : agent'[v] = IF v = u THEN a ELSE agent[v]
      /\ \A v \in Names : whole'[v] = IF v = u THEN d ELSE whole[v]
      /\ \A s \in Slots : file'[s] = IF s = f THEN content ELSE file[s]
  BY <1>2 DEF Has, IInv, FilesTyped, AgentsTyped
<1>4. agent'[u] = a /\ memoryIndex'[u] = f /\ file'[f] = content
  BY <1>1, <1>2, <1>3
<1>5. f # NoAgent
  BY <1>1, <1>2, AgentAssumption
<1>6. ASSUME NEW v \in Names, whole'[v] # NoDocument
      PROVE  (v \in InUse)' /\ Ready(agent'[v], file'[memoryIndex'[v]], whole'[v], Len(whole'[v]))
  <2>1. CASE v = u
    <3>1. whole'[v] = d
      BY <1>3, <2>1
    <3>2. Ready(a, content, d, Len(d))
      BY <1>6, <3>1
    <3> QED
      BY <1>4, <1>5, <2>1, <3>1, <3>2 DEF InUse
  <2>2. CASE v # u
    <3>1. memoryIndex'[v] = memoryIndex[v] /\ agent'[v] = agent[v] /\ whole'[v] = whole[v]
      BY <1>3, <2>2
    <3>2. v \in InUse /\ Ready(agent[v], file[memoryIndex[v]], whole[v], Len(whole[v]))
      BY <1>6, <3>1 DEF WholesAreReady
    <3>3. memoryIndex[v] # f /\ memoryIndex[v] \in Slots
      BY <1>1, <1>2, <2>2, <3>2 DEF InUse, IInv, FilesTyped
    <3>4. file'[memoryIndex'[v]] = file[memoryIndex[v]]
      BY <1>3, <3>1, <3>3
    <3> QED
      BY <3>1, <3>2, <3>4 DEF InUse
  <2> QED
    BY <2>1, <2>2
<1>7. WholesAreReady'
  BY <1>6 DEF WholesAreReady
<1> QED
  BY <1>4, <1>7

(* A block that is taken follows the blocks before it.                     *)
LEMMA TakenFollows ==
  ASSUME PInv, incoming # NoTransfer, NEW n \in 0 .. incoming.sent, Takes(n)
  PROVE  /\ agent[incoming.uri] \in Agents /\ file[FileFor(incoming.uri)] \in Seq(Symbols)
         /\ n # 0 => Ready(agent[incoming.uri], file[FileFor(incoming.uri)], incoming.doc, n * BlockSize)
<1> USE DEF PInv
<1>1. incoming.uri \in Names /\ CanHave(incoming.uri)
  BY ResultIs
<1>2. agent[incoming.uri] \in Agents /\ file[FileFor(incoming.uri)] \in Seq(Symbols)
  <2>1. FileFor(incoming.uri) \in Slots
    BY <1>1, FileIsOwn DEF TInv
  <2> QED
    BY <1>1, <2>1 DEF TInv, AgentsTyped
<1>3. ASSUME n # 0
      PROVE  Ready(agent[incoming.uri], file[FileFor(incoming.uri)], incoming.doc, n * BlockSize)
  <2>1. locked = incoming.uri /\ n # count /\ n - count \in {0, 1}
    BY <1>3 DEF Takes, Cancels
  <2>2. locked \in InUse /\ incoming.sent \in Nat
    BY <1>1, <2>1, AgentAssumption DEF TInv, IInv, TransferTyped
  <2>3. incoming.sent # 0
    BY <1>3, <2>2
  <2>4. PICK c : c = count
    OBVIOUS
  <2>5. /\ c \in 0 .. LastBlock(incoming.doc) - 1
        /\ Ready(agent[locked], file[memoryIndex[locked]], incoming.doc, (c + 1) * BlockSize)
    BY <2>1, <2>3, <2>4 DEF PartIsReady, UnderWay
  <2>6. c + 1 = n
    <3>1. c \in Int
      BY <2>5
    <3>2. n \in Int /\ n # c /\ n - c \in {0, 1}
      BY <2>1, <2>2, <2>4
    <3> QED
      BY <3>1, <3>2
  <2>7. FileFor(incoming.uri) = memoryIndex[incoming.uri]
    BY <2>1, <2>2 DEF FileFor
  <2> QED
    BY <2>1, <2>5, <2>6, <2>7
<1> QED
  BY <1>2, <1>3

LEMMA NothingLocked ==
  ASSUME TInv, locked' = NoName, incoming' = incoming
  PROVE  PartIsReady'
<1>1. incoming # NoTransfer => incoming.uri \in Names
  BY DEF TInv, IInv, TransferTyped
<1> QED
  BY <1>1, AgentAssumption DEF PartIsReady, UnderWay

LEMMA BlockReady ==
  ASSUME WellWritten, PInv, incoming # NoTransfer, NEW n \in 0 .. incoming.sent, Block(n)
  PROVE  PInv'
<1> USE DEF PInv
<1>0. TInv'
  BY BlockTypes
<1>1. CASE Cancel(n)
  <2>1. Gone(incoming.uri) /\ locked' = NoName /\ incoming' = incoming /\ file' = file
    BY <1>1 DEF Cancel
  <2>2. incoming.uri \in Names
    BY DEF TInv, IInv, TransferTyped
  <2> QED
    BY <1>0, <2>1, <2>2, GoneReady, NothingLocked
<1>2. CASE NoPlace
  <2>1. UNCHANGED <<memoryIndex, agent, file, incoming, locked, whole>> /\ locked = NoName
    BY <1>2 DEF NoPlace
  <2>2. WholesAreReady'
    BY <2>1 DEF WholesAreReady, InUse
  <2> QED
    BY <1>0, <2>1, <2>2, NothingLocked
<1>3. CASE PutBlock(n)
  <2>1. Takes(n) /\ count' = n
        /\ \E fails \in BOOLEAN : \E w \in {Result(n, fails)} : Stored(n, w) \/ Refused(w)
    BY <1>3 DEF PutBlock, Fails
  <2>2. PICK fails, w : /\ fails \in BOOLEAN /\ w = Result(n, fails)
                         /\ (Stored(n, w) \/ Refused(w))
    BY <2>1
  <2>3. PICK u, d : u = incoming.uri /\ d = incoming.doc
    OBVIOUS
  <2>4. /\ u \in Names /\ CanHave(u) /\ d \in Documents /\ n \in 0 .. LastBlock(d)
    BY <2>1, <2>3, ResultIs
  <2>5. CASE Refused(w)
    <3>1. Gone(incoming.uri) /\ locked' = NoName /\ incoming' = incoming /\ file' = file
      BY <2>5 DEF Refused
    <3> QED
      BY <1>0, <2>3, <2>4, <3>1, GoneReady, NothingLocked
  <2>6. CASE Stored(n, w)
    <3>1. Ready(w.agt, w.file, d, BlockEnd(d, n))
      <4>1. /\ agent[u] \in Agents /\ file[FileFor(u)] \in Seq(Symbols)
            /\ n # 0 => Ready(agent[u], file[FileFor(u)], d, n * BlockSize)
        BY <2>1, <2>3, TakenFollows
      <4>2. w = Write(agent[u], file[FileFor(u)], d, n, fails)
        BY <2>2, <2>3 DEF Result
      <4>3. w.ok /\ Compact(d)
        BY <2>4, <2>6 DEF Stored, WellWritten
      <4> QED
        BY <2>2, <2>4, <4>1, <4>2, <4>3, WriteReady
    <3>2. PICK more \in BOOLEAN :
            /\ more <=> n < LastBlock(d)
            /\ Has(u, FileFor(u), w.agt, w.file)
            /\ locked' = IF more THEN u ELSE NoName
            /\ incoming' = [incoming EXCEPT !.sent = IF more /\ n = @ THEN @ + 1 ELSE @]
            /\ whole' = [whole EXCEPT ![u] = IF more THEN NoDocument ELSE d]
      <4> DEFINE more == n < LastBlock(incoming.doc)
      <4>1. more \in BOOLEAN
        OBVIOUS
      <4> QED
        BY <2>3, <2>6, <4>1 DEF Stored
    <3>3. CASE more
      <4>1. whole' = [whole EXCEPT ![u] = NoDocument] /\ locked' = u
        BY <3>2, <3>3
      <4>2. WholesAreReady' /\ agent'[u] = w.agt /\ file'[memoryIndex'[u]] = w.file
        <5>1. /\ NoDocument # NoDocument => Ready(w.agt, w.file, NoDocument, Len(NoDocument))
              /\ u \in Names /\ CanHave(u) /\ Has(u, FileFor(u), w.agt, w.file)
          BY <2>4, <3>2, Zenon
        <5> QED
          BY <4>1, <5>1, HasReady, Zenon
      <4>3. incoming'.doc = d
        <5>1. PICK k : incoming' = [incoming EXCEPT !.sent = k]
          BY <3>2
        <5>2. incoming = [uri |-> u, doc |-> d, method |-> incoming.method, sent |-> incoming.sent]
          BY <2>3 DEF TInv, IInv, TransferTyped
        <5> QED
          BY <5>1, <5>2
      <4>4. BlockEnd(d, n) = (n + 1) * BlockSize /\ n \in 0 .. LastBlock(d) - 1
        BY <2>4, <3>2, <3>3, BlockIs
      <4>5. Ready(w.agt, w.file, d, (n + 1) * BlockSize)
        BY <3>1, <4>4
      <4>6. PartIsReady'
        BY <2>1, <4>1, <4>2, <4>3, <4>4, <4>5, Zenon DEF PartIsReady
      <4> QED
        BY <1>0, <4>2, <4>6
    <3>4. CASE ~more
      <4>1. whole' = [whole EXCEPT ![u] = d] /\ locked' = NoName
        BY <3>2, <3>4
      <4>2. incoming' = incoming
        <5>1. incoming' = [incoming EXCEPT !.sent = incoming.sent]
          BY <3>2, <3>4
        <5>2. incoming = [uri |-> u, doc |-> d, method |-> incoming.method, sent |-> incoming.sent]
          BY <2>3 DEF TInv, IInv, TransferTyped
        <5> QED
          BY <5>1, <5>2
      <4>3. BlockEnd(d, n) = Len(d)
        <5>1. LastBlock(d) \in Nat
          BY <2>4, BlockIs
        <5>2. n = LastBlock(d)
          BY <2>4, <3>2, <3>4, <5>1
        <5> QED
          BY <5>2 DEF BlockEnd
      <4>4. Ready(w.agt, w.file, d, Len(d))
        BY <3>1, <4>3
      <4>5. WholesAreReady'
        BY <2>4, <3>2, <4>1, <4>4, HasReady
      <4> QED
        BY <1>0, <4>1, <4>2, <4>5, NothingLocked
    <3> QED
      BY <3>3, <3>4
  <2> QED
    BY <2>2, <2>5, <2>6
<1> QED
  BY <1>1, <1>2, <1>3 DEF Block

LEMMA RequestReady ==
  ASSUME ~Others, PInv,
         \/ OtherRequest \/ Watchdog
         \/ \E u \in Names : Delete(u) \/ LocalDelete(u)
         \/ \E u \in Names, d \in Documents, m \in {"PUT", "POST"} : Begin(u, d, m)
  PROVE  PInv'
<1> USE DEF PInv
<1>0. TInv'
  BY RequestTypes
<1>1. CASE OtherRequest
  <2>1. UNCHANGED <<memoryIndex, agent, file, incoming, locked, whole>> /\ locked = NoName
    BY <1>1 DEF OtherRequest
  <2>2. WholesAreReady'
    BY <2>1 DEF WholesAreReady, InUse
  <2> QED
    BY <1>0, <2>1, <2>2, NothingLocked
<1>2. CASE Watchdog
  <2>1. locked \in Names /\ Gone(locked) /\ locked' = NoName /\ incoming' = incoming /\ file' = file
    BY <1>2 DEF Watchdog, TInv, IInv, TransferTyped, InUse
  <2> QED
    BY <1>0, <2>1, GoneReady, NothingLocked
<1>3. ASSUME NEW u \in Names, Delete(u) \/ LocalDelete(u) PROVE PInv'
  <2>1. Gone(u) /\ locked' = NoName /\ incoming' = incoming /\ file' = file
    BY <1>3 DEF Delete, LocalDelete
  <2> QED
    BY <1>0, <2>1, GoneReady, NothingLocked
<1>4. ASSUME NEW u \in Names, NEW d \in Documents, NEW m \in {"PUT", "POST"}, Begin(u, d, m)
      PROVE  PInv'
  <2>1. /\ UNCHANGED <<memoryIndex, agent, file, whole>>
        /\ incoming' = [uri |-> u, doc |-> d, method |-> m, sent |-> 0]
    BY <1>4 DEF Begin
  <2>2. WholesAreReady'
    BY <2>1 DEF WholesAreReady, InUse
  <2>3. PartIsReady'
    BY <2>1 DEF PartIsReady, UnderWay
  <2> QED
    BY <1>0, <2>2, <2>3
<1> QED
  BY <1>1, <1>2, <1>3, <1>4

LEMMA LocalWriteReady ==
  ASSUME WellWritten, PInv, NEW u \in Names, NEW d \in LocalDocuments, LocalWrite(u, d)
  PROVE  PInv'
<1> USE DEF PInv
<1>0. TInv' /\ d \in Documents
  BY LocalWriteTypes, AgentAssumption
<1>1. PICK bad, w : /\ w = LocalResult(u, d, bad)
                    /\ Has(u, FileFor(u), w.agt, w.file)
                    /\ whole' = [whole EXCEPT ![u] = IF w.ok THEN d ELSE NoDocument]
  BY DEF LocalWrite
<1>2. CanHave(u) /\ locked' = NoName /\ incoming' = incoming
  BY DEF LocalWrite
<1>3. PICK e : e = IF w.ok THEN d ELSE NoDocument
  OBVIOUS
<1>4. e # NoDocument => Ready(w.agt, w.file, e, Len(e))
  <2>1. Compact(d)
    BY <1>0 DEF WellWritten
  <2> QED
    BY <1>0, <1>1, <1>2, <1>3, <2>1, LocalResultReady
<1>5. WholesAreReady'
  <2>1. whole' = [whole EXCEPT ![u] = e] /\ Has(u, FileFor(u), w.agt, w.file)
    BY <1>1, <1>3
  <2> QED
    BY <1>2, <1>4, <2>1, HasReady
<1> QED
  BY <1>0, <1>2, <1>5, NothingLocked

LEMMA NextReady ==
  ASSUME WellWritten, ~Others
  PROVE  PInv /\ [Next]_vars => PInv'
<1> SUFFICES ASSUME PInv, [Next]_vars PROVE PInv'
  OBVIOUS
<1>1. CASE \E u \in Names, d \in Documents, m \in {"PUT", "POST"} : Begin(u, d, m)
  BY <1>1, RequestReady
<1>2. CASE incoming # NoTransfer /\ \E n \in 0 .. incoming.sent : Block(n)
  BY <1>2, BlockReady
<1>3. CASE OtherRequest \/ Watchdog \/ \E u \in Names : Delete(u) \/ LocalDelete(u)
  BY <1>3, RequestReady
<1>4. CASE \E u \in Names, d \in LocalDocuments : LocalWrite(u, d)
  BY <1>4, LocalWriteReady
<1>5. CASE UNCHANGED vars
  <2>1. TInv'
    BY <1>5, NextTypes DEF PInv
  <2> QED
    BY <1>5, <2>1 DEF vars, PInv, WholesAreReady, PartIsReady, UnderWay, InUse
<1> QED
  BY <1>1, <1>2, <1>3, <1>4, <1>5 DEF Next

LEMMA ReadySound ==
  ASSUME WellWritten, ~Others
  PROVE  Spec => []PInv
<1>1. Init => PInv
  BY InitPInv
<1>2. PInv /\ [Next]_vars => PInv'
  BY NextReady
<1> QED
  BY <1>1, <1>2, PTL DEF Spec

(* A document that is whole has each key once at most, and its position is *)
(* that of its only place.                                                 *)
LEMMA WholeIsMeant ==
  ASSUME NEW d \in Documents, NEW a, Fits(a, d, Len(d)), NEW k \in Keys
  PROVE  /\ a.fileIndex[k] = Meant[d][k]
         /\ Places[d][k] # {} => /\ Least(Places[d][k]) \in Places[d][k]
                                 /\ Meant[d][k] = Least(Places[d][k]) + 3
         /\ \A i, j \in Places[d][k] : i = j
<1>1. PICK P : P = Places[d][k]
  OBVIOUS
<1>2. Len(d) \in Nat /\ P \subseteq 1 .. Len(d) - 4
  BY <1>1, DocumentIs, PlacesAreFew
<1>3. Ended(d, k, Len(d)) = P
  <2>1. \A i \in P : i + 4 <= Len(d)
    BY <1>2
  <2> QED
    BY <1>1, <2>1 DEF Ended
<1>4. /\ a.fileIndex[k] = IF P = {} THEN 0 ELSE Least(P) + 3
      /\ \A i, j \in P : i = j
  BY <1>3 DEF Fits, PlacesNoted, Noted
<1>5. P # {} => Least(P) \in P
  <2>1. P \in SUBSET Nat
    BY <1>2
  <2> QED
    BY <2>1, LeastIs
<1>6. Meant[d][k] = IF P = {} THEN 0 ELSE Least(P) + 3
  <2>1. Meant[d][k] = IF P = {} THEN 0 ELSE Least(P) + Len(agent_patterns[k]) - 2
    BY <1>1 DEF Meant
  <2>2. Len(agent_patterns[k]) = 5
    BY PatternsAre
  <2>3. P # {} => Least(P) + 5 - 2 = Least(P) + 3
    BY <1>2, <1>5
  <2> QED
    BY <2>1, <2>2, <2>3
<1> QED
  BY <1>1, <1>4, <1>5, <1>6

(* "startIndex is already saved in agent structure" (root-agent.c:288):    *)
(* however a document is cut into blocks, and whatever the agent was       *)
(* before, its parser and the search for the keys note the positions that  *)
(* the keys have in the document.                                          *)
THEOREM PositionsForEver ==
  ASSUME WellWritten, ~Others
  PROVE  Spec => []PositionsAreMeant
<1>1. PInv => PositionsAreMeant
  <2> SUFFICES ASSUME PInv, NEW u \in InUse, whole[u] # NoDocument, NEW k \in Keys
               PROVE  agent[u].fileIndex[k] = Meant[whole[u]][k]
    BY DEF PositionsAreMeant
  <2>1. u \in Names /\ whole[u] \in Documents
    BY DEF InUse, PInv, TInv, AgentsTyped
  <2>2. Fits(agent[u], whole[u], Len(whole[u]))
    BY <2>1 DEF PInv, WholesAreReady, Ready
  <2> QED
    BY <2>1, <2>2, WholeIsMeant
<1> QED
  BY <1>1, ReadySound, PTL

(* "Not the first time we match this pattern" (root-agent.c:172): the      *)
(* analysis refuses a block for a key that the document has twice, never   *)
(* for what the agent was before or for where the blocks are cut.          *)
THEOREM OnlyTwiceForEver ==
  ASSUME WellWritten, ~Others
  PROVE  Spec => []OnlyTwiceIsRefused
<1>1. PInv => OnlyTwiceIsRefused
  <2> SUFFICES ASSUME PInv, incoming # NoTransfer, NEW n \in 0 .. incoming.sent, Takes(n),
                      ~Result(n, FALSE).ok
               PROVE  Twice(incoming.doc)
    BY Zenon DEF OnlyTwiceIsRefused
  <2>1. PICK u, d, old, a : u = incoming.uri /\ d = incoming.doc /\ old = file[FileFor(u)] /\ a = agent[u]
    OBVIOUS
  <2>2. d \in Documents /\ n \in 0 .. LastBlock(d) /\ FALSE \in BOOLEAN
    BY <2>1, ResultIs DEF PInv
  <2>3. /\ a \in Agents /\ old \in Seq(Symbols)
        /\ n # 0 => Ready(a, old, d, n * BlockSize)
    BY <2>1, TakenFollows
  <2>4. ~Write(a, old, d, n, FALSE).ok
    BY <2>1 DEF Result
  <2>5. Compact(d)
    BY <2>2 DEF WellWritten
  <2> QED
    BY <2>1, <2>2, <2>3, <2>4, <2>5, WriteReady
<1> QED
  BY <1>1, ReadySound, PTL

-----------------------------------------------------------------------------
(* What is read between the positions.                                     *)

LEMMA DocumentSymbols ==
  ASSUME NEW d \in Documents
  PROVE  d \in Seq(Symbols)
<1>1. d \in Seq(STRING)
  BY DocumentIs
<1>2. Len(d) \in Nat /\ d \in [1 .. Len(d) -> STRING]
  BY <1>1
<1>3. d \in [1 .. Len(d) -> Symbols]
  BY <1>2 DEF Symbols
<1> QED
  BY <1>2, <1>3

(* A part of what holds the document is that part of the document.         *)
LEMMA HeldPart ==
  ASSUME NEW d \in Documents, NEW f \in Seq(Symbols), Holds(f, d, Len(d)),
         NEW a \in Nat, NEW b \in Nat, a <= b, b <= Len(d)
  PROVE  SubSeq(f, a + 1, b) = SubSeq(d, a + 1, b)
<1>1. /\ Len(f) \in Nat /\ Len(d) \in Nat /\ Len(f) >= Len(d) /\ b <= Len(f)
      /\ \A i \in 1 .. Len(d) : f[i] = d[i]
  BY DocumentIs DEF Holds
<1>2. PICK s, t : s = SubSeq(f, a + 1, b) /\ t = SubSeq(d, a + 1, b)
  OBVIOUS
<1>3. /\ s \in Seq(Symbols) /\ Len(s) = b - a
      /\ \A i \in 1 .. b - a : s[i] = f[a + i]
  BY <1>1, <1>2, PartIs
<1>4. /\ t \in Seq(Symbols) /\ Len(t) = b - a
      /\ \A i \in 1 .. b - a : t[i] = d[a + i]
  BY <1>2, DocumentSymbols, PartIs
<1>5. \A i \in 1 .. Len(s) : s[i] = t[i]
  BY <1>1, <1>3, <1>4
<1>6. s = t
  BY <1>3, <1>4, <1>5, SeqEqual
<1> QED
  BY <1>2, <1>6

Closing(k) == IF k \in {"POST", "TARGET"} THEN "]" ELSE "q"

Closings(d, k, p) == {i \in DOMAIN d : i > p + 4 /\ Depth(d, i) = 1 /\ d[i] = Closing(k)}

(* Where the value of the key at p ends.                                   *)
LEMMA ValueEndIs ==
  ASSUME NEW d \in Documents, NEW k \in Keys, NEW p \in Nat, Meant[d][k] = p + 3,
         NEW e \in Nat, e > p + 4, e <= Len(d), Depth(d, e) = 1, d[e] = Closing(k)
  PROVE  /\ ValueEnd[d][k] + 1 \in Closings(d, k, p)
         /\ \A i \in Closings(d, k, p) : ValueEnd[d][k] + 1 <= i
         /\ ValueEnd[d][k] \in Nat /\ ValueEnd[d][k] >= p + 4 /\ ValueEnd[d][k] < e
<1>1. PICK C, v : C = Closings(d, k, p) /\ v = Least(C)
  OBVIOUS
<1>2. Len(d) \in Nat /\ DOMAIN d = 1 .. Len(d)
  BY DocumentIs
<1>3. C \in SUBSET Nat /\ e \in C
  BY <1>1, <1>2 DEF Closings
<1>4. v \in C /\ \A i \in C : v <= i
  BY <1>1, <1>3, LeastIs
<1>5. v \in Nat /\ v > p + 4 /\ v <= e
  BY <1>1, <1>3, <1>4 DEF Closings
<1>6. ValueEnd[d][k] = v - 1
  <2>1. (p + 3) + 1 = p + 4
    OBVIOUS
  <2>2. ValueEnd[d][k] =
          Least({i \in DOMAIN d : /\ i > (p + 3) + 1 /\ Depth(d, i) = 1
                                  /\ d[i] = IF k \in {"POST", "TARGET"} THEN "]" ELSE "q"}) - 1
    BY DEF ValueEnd
  <2> QED
    BY <1>1, <2>1, <2>2, Zenon DEF Closings, Closing
<1>7. v - 1 \in Nat /\ (v - 1) + 1 = v /\ v - 1 >= p + 4 /\ v - 1 < e
  BY <1>5
<1> QED
  BY <1>1, <1>4, <1>6, <1>7

(* The position of each key before which another may stop.                 *)
LEMMA SliceIs ==
  ASSUME NEW d \in Documents, Closed(d), NEW a \in Agents, Fits(a, d, Len(d)), a.size = Len(d),
         NEW k \in Keys, Places[d][k] # {}
  PROVE  LET slice == root_agent_regex(a, k)
         IN \E p, e \in Nat :
              /\ p \in Places[d][k] /\ Meant[d][k] = p + 3
              /\ e > p + 4 /\ e <= Len(d) /\ Depth(d, e) = 1 /\ d[e] = Closing(k)
              /\ slice.start = p + 3 /\ slice.stop \in e .. Len(d)
              /\ \A l \in Keys : \A i \in Places[d][l] : i - 1 \notin slice.start .. slice.stop
<1>1. PICK p : p = Least(Places[d][k])
  OBVIOUS
<1>2. p \in Places[d][k] /\ Meant[d][k] = p + 3 /\ a.fileIndex[k] = p + 3
  BY <1>1, WholeIsMeant
<1>3. Len(d) \in Nat /\ p \in Nat /\ p >= 1 /\ p <= Len(d) - 4
  BY <1>2, DocumentIs, PlacesAreFew
<1>4. PICK e \in p + 5 .. Len(d) :
        /\ Depth(d, e) = 1 /\ d[e] = Closing(k)
        /\ \A l \in Keys : \A i \in Places[d][l] : i \notin p + 1 .. e + 1
  BY <1>2, Zenon DEF Closed, Closing
<1>5. e \in Nat /\ e > p + 4 /\ e <= Len(d)
  BY <1>3, <1>4
<1>6. PICK S : S = {Len(d)} \cup {t \in {a.fileIndex[l] - 5 : l \in Keys} : t > p + 3}
  OBVIOUS
<1>7. PICK stop : stop = Least(S)
  OBVIOUS
<1>8. root_agent_regex(a, k) = [start |-> p + 3, stop |-> stop]
  <2>1. \A l \in Keys : Len(agent_patterns[l]) = 5
    BY PatternsAre
  <2>2. {a.fileIndex[l] - Len(agent_patterns[l]) : l \in Keys} = {a.fileIndex[l] - 5 : l \in Keys}
    BY <2>1
  <2> QED
    BY <1>2, <1>6, <1>7, <2>2 DEF root_agent_regex
<1>9. \A l \in Keys : a.fileIndex[l] \in Nat
  BY DEF Agents
<1>10. \A l \in Keys : \A i \in Places[d][l] : i \in Nat /\ a.fileIndex[l] = i + 3
  <2>1. ASSUME NEW l \in Keys, NEW i \in Places[d][l] PROVE i \in Nat /\ a.fileIndex[l] = i + 3
    <3>1. a.fileIndex[l] = Least(Places[d][l]) + 3 /\ Least(Places[d][l]) = i
      BY <2>1, WholeIsMeant
    <3>2. i \in Nat
      BY <1>3, <2>1, PlacesAreFew
    <3> QED
      BY <3>1, <3>2
  <2> QED
    BY <2>1
<1>11. S \in SUBSET Nat /\ Len(d) \in S
  <2>1. ASSUME NEW t \in S PROVE t \in Nat
    <3>1. CASE t = Len(d)
      BY <1>3, <3>1
    <3>2. CASE t # Len(d)
      <4>1. t > p + 3 /\ \E l \in Keys : t = a.fileIndex[l] - 5
        BY <1>6, <2>1, <3>2
      <4> QED
        BY <1>3, <1>9, <4>1
    <3> QED
      BY <3>1, <3>2
  <2> QED
    BY <1>6, <2>1
<1>12. stop \in S /\ \A t \in S : stop <= t
  BY <1>7, <1>11, LeastIs
<1>13. stop \in Nat /\ stop <= Len(d)
  BY <1>11, <1>12
<1>14. stop >= e
  <2>1. CASE stop = Len(d)
    BY <1>3, <1>5, <2>1
  <2>2. CASE stop # Len(d)
    <3>1. PICK l \in Keys : stop = a.fileIndex[l] - 5 /\ stop > p + 3
      BY <1>6, <1>12, <2>2
    <3>2. a.fileIndex[l] # 0
      BY <1>3, <3>1
    <3>3. Places[d][l] # {}
      BY <3>2, WholeIsMeant DEF Meant
    <3>4. PICK i \in Places[d][l] : TRUE
      BY <3>3
    <3>5. i \in Nat /\ stop = (i + 3) - 5
      BY <1>10, <3>1, <3>4
    <3>6. i \notin p + 1 .. e + 1
      BY <1>4, <3>4
    <3> QED
      BY <1>3, <1>5, <3>1, <3>5, <3>6
  <2> QED
    BY <2>1, <2>2
<1>15. ASSUME NEW l \in Keys, NEW i \in Places[d][l] PROVE i - 1 \notin p + 3 .. stop
  <2>1. SUFFICES ASSUME i - 1 \in p + 3 .. stop PROVE FALSE
    OBVIOUS
  <2>2. i \in Nat /\ a.fileIndex[l] = i + 3 /\ i \notin p + 1 .. e + 1
    BY <1>4, <1>10, <1>15
  <2>3. i > e + 1
    BY <1>3, <1>5, <2>1, <2>2
  <2>4. a.fileIndex[l] - 5 = i - 2 /\ i - 2 > p + 3
    BY <1>3, <1>5, <2>2, <2>3
  <2>5. i - 2 \in S
    BY <1>6, <2>4
  <2>6. stop <= i - 2
    BY <1>12, <2>5
  <2> QED
    BY <1>13, <2>1, <2>2, <2>6
<1>16. PICK r : r = root_agent_regex(a, k)
  OBVIOUS
<1>17. r.start = p + 3 /\ r.stop = stop
  BY <1>8, <1>16
<1>18. stop \in e .. Len(d)
  BY <1>3, <1>5, <1>13, <1>14
<1> QED
  BY <1>2, <1>3, <1>4, <1>5, <1>15, <1>16, <1>17, <1>18, Zenon

(* What an invariant says of an agent that is whole.                       *)
LEMMA WholeIs ==
  ASSUME WellWritten, PInv, NEW u \in InUse, whole[u] # NoDocument
  PROVE  /\ whole[u] \in Documents /\ Compact(whole[u]) /\ Closed(whole[u])
         /\ agent[u] \in Agents /\ agent[u].size = Len(whole[u])
         /\ Fits(agent[u], whole[u], Len(whole[u]))
         /\ file[memoryIndex[u]] \in Seq(Symbols)
         /\ Holds(file[memoryIndex[u]], whole[u], Len(whole[u]))
<1> USE DEF PInv
<1>1. u \in Names /\ memoryIndex[u] \in Slots
  BY DEF InUse, TInv, IInv, FilesTyped
<1>2. whole[u] \in Documents /\ agent[u] \in Agents /\ file[memoryIndex[u]] \in Seq(Symbols)
  BY <1>1 DEF TInv, AgentsTyped
<1>3. Ready(agent[u], file[memoryIndex[u]], whole[u], Len(whole[u]))
  BY <1>1 DEF WholesAreReady
<1>4. Compact(whole[u]) /\ Closed(whole[u])
  BY <1>2 DEF WellWritten
<1> QED
  BY <1>2, <1>3, <1>4 DEF Ready

(* "Compute stopIndex" (root-agent.c:288): between the positions that the  *)
(* client is given there is the value of the key, whole, no other key, and *)
(* nothing of a longer document that the file had before.                  *)
THEOREM SlicesForEver ==
  ASSUME WellWritten, ~Others
  PROVE  Spec => []SlicesAreOwn
<1>1. PInv => SlicesAreOwn
  <2> SUFFICES ASSUME PInv, NEW u \in InUse, whole[u] # NoDocument
               PROVE  LET d == whole[u]
                          f == file[memoryIndex[u]]
                      IN /\ SubSeq(f, 1, Len(d)) = d
                         /\ \A k \in Keys \ {"NAME"} : Places[d][k] # {} =>
                              \E slice \in {root_agent_regex(agent[u], k)} :
                                /\ slice.start < ValueEnd[d][k] /\ ValueEnd[d][k] < slice.stop
                                /\ slice.stop <= Len(d)
                                /\ \A l \in Keys : \A i \in Places[d][l] : i - 1 \notin slice.start .. slice.stop
    BY Zenon DEF SlicesAreOwn
  <2>1. PICK d, f, a : d = whole[u] /\ f = file[memoryIndex[u]] /\ a = agent[u]
    OBVIOUS
  <2>2. /\ d \in Documents /\ Closed(d) /\ a \in Agents /\ a.size = Len(d) /\ Fits(a, d, Len(d))
        /\ f \in Seq(Symbols) /\ Holds(f, d, Len(d))
    BY <2>1, WholeIs
  <2>3. SubSeq(f, 1, Len(d)) = d
    <3>1. Len(d) \in Nat /\ 0 \in Nat /\ 0 <= Len(d) /\ Len(d) <= Len(d) /\ 0 + 1 = 1
      BY <2>2, DocumentIs
    <3>2. SubSeq(f, 0 + 1, Len(d)) = SubSeq(d, 0 + 1, Len(d))
      BY <2>2, <3>1, HeldPart, Zenon
    <3>3. SubSeq(d, 1, Len(d)) = d
      BY <2>2, DocumentSymbols
    <3> QED
      BY <3>1, <3>2, <3>3
  <2>4. ASSUME NEW k \in Keys, Places[d][k] # {}
        PROVE  \E slice \in {root_agent_regex(a, k)} :
                 /\ slice.start < ValueEnd[d][k] /\ ValueEnd[d][k] < slice.stop
                 /\ slice.stop <= Len(d)
                 /\ \A l \in Keys : \A i \in Places[d][l] : i - 1 \notin slice.start .. slice.stop
    <3>1. PICK slice : slice = root_agent_regex(a, k)
      OBVIOUS
    <3>2. PICK p, e \in Nat :
            /\ Meant[d][k] = p + 3
            /\ e > p + 4 /\ e <= Len(d) /\ Depth(d, e) = 1 /\ d[e] = Closing(k)
            /\ slice.start = p + 3 /\ slice.stop \in e .. Len(d)
            /\ \A l \in Keys : \A i \in Places[d][l] : i - 1 \notin slice.start .. slice.stop
      BY <2>2, <2>4, <3>1, SliceIs
    <3>3. ValueEnd[d][k] \in Nat /\ ValueEnd[d][k] >= p + 4 /\ ValueEnd[d][k] < e
      BY <2>2, <3>2, ValueEndIs
    <3>4. Len(d) \in Nat
      BY <2>2, DocumentIs
    <3>5. slice.start < ValueEnd[d][k] /\ ValueEnd[d][k] < slice.stop /\ slice.stop <= Len(d)
      BY <3>2, <3>3, <3>4
    <3> QED
      BY <3>1, <3>2, <3>5
  <2> QED
    BY <2>1, <2>3, <2>4, Zenon
<1> QED
  BY <1>1, ReadySound, PTL

-----------------------------------------------------------------------------
(* The reader of PRE (emma-client.c:215).                                  *)

(* What the reader has at i, if rest is what it has a block further on.    *)
Reading(f, stop, rest, i) ==
  IF i >= stop THEN <<>>
  ELSE LET block == root_agent_read(f, BlockSize, i)
           quotes == {j \in 1 .. Len(block) : block[j] = "q"}
       IN IF quotes # {} THEN SubSeq(block, 1, Least(quotes) - 1)
          ELSE IF Len(block) < BlockSize THEN block
          ELSE block \o rest

IsText(g, f, stop) == g = [i \in Nat |-> Reading(f, stop, g[i + BlockSize], i)]

LEMMA ReadIs ==
  ASSUME NEW f \in Seq(Symbols), NEW i \in Nat, i <= Len(f)
  PROVE  \E b \in Nat :
           /\ b = IF i + BlockSize < Len(f) THEN i + BlockSize ELSE Len(f)
           /\ b >= i /\ b <= Len(f)
           /\ root_agent_read(f, BlockSize, i) \in Seq(Symbols)
           /\ Len(root_agent_read(f, BlockSize, i)) = b - i
           /\ \A j \in 1 .. b - i : root_agent_read(f, BlockSize, i)[j] = f[i + j]
<1>1. PICK b : b = IF i + BlockSize < Len(f) THEN i + BlockSize ELSE Len(f)
  OBVIOUS
<1>2. BlockSize \in Nat /\ Len(f) \in Nat
  BY AgentAssumption
<1>3. b \in Nat /\ b >= i /\ b <= Len(f)
  BY <1>1, <1>2
<1>4. root_agent_read(f, BlockSize, i) = SubSeq(f, i + 1, b)
  BY <1>1 DEF root_agent_read
<1>5. /\ SubSeq(f, i + 1, b) \in Seq(Symbols) /\ Len(SubSeq(f, i + 1, b)) = b - i
      /\ \A j \in 1 .. b - i : SubSeq(f, i + 1, b)[j] = f[i + j]
  BY <1>3, PartIs
<1> QED
  BY <1>1, <1>3, <1>4, <1>5

LEMMA ReadingTyped ==
  ASSUME NEW f \in Seq(Symbols), NEW stop \in Nat, stop <= Len(f), NEW rest \in Seq(Symbols), NEW i \in Nat
  PROVE  Reading(f, stop, rest, i) \in Seq(Symbols)
<1>1. CASE i >= stop
  <2>1. Reading(f, stop, rest, i) = <<>>
    BY <1>1 DEF Reading
  <2> QED
    BY <2>1
<1>2. CASE ~(i >= stop)
  <2>1. PICK block : block = root_agent_read(f, BlockSize, i)
    OBVIOUS
  <2>2. i <= Len(f)
    BY <1>2
  <2>3. block \in Seq(Symbols) /\ Len(block) \in Nat
    BY <2>1, <2>2, ReadIs
  <2>4. PICK quotes : quotes = {j \in 1 .. Len(block) : block[j] = "q"}
    OBVIOUS
  <2>5. Reading(f, stop, rest, i) = IF quotes # {} THEN SubSeq(block, 1, Least(quotes) - 1)
                                    ELSE IF Len(block) < BlockSize THEN block ELSE block \o rest
    BY <1>2, <2>1, <2>4 DEF Reading
  <2>6. CASE quotes # {}
    <3>1. quotes \in SUBSET Nat
      BY <2>3, <2>4
    <3>2. Least(quotes) \in quotes
      BY <2>6, <3>1, LeastIs
    <3>3. PICK l : l = Least(quotes) - 1
      OBVIOUS
    <3>4. l \in Nat /\ 0 <= l /\ l <= Len(block) /\ 0 \in Nat /\ 0 + 1 = 1
      BY <2>3, <2>4, <3>2, <3>3
    <3>5. SubSeq(block, 0 + 1, l) \in Seq(Symbols)
      BY <2>3, <3>4, PartIs, Zenon
    <3>6. Reading(f, stop, rest, i) = SubSeq(block, 1, l)
      BY <2>5, <2>6, <3>3
    <3> QED
      BY <3>4, <3>5, <3>6
  <2>7. CASE quotes = {}
    <3>1. block \o rest \in Seq(Symbols)
      BY <2>3, ConcatProperties
    <3> QED
      BY <2>3, <2>5, <2>7, <3>1
  <2> QED
    BY <2>6, <2>7
<1> QED
  BY <1>1, <1>2

(* The reader comes to an end: what it has where it stops decides what it  *)
(* has a block before, down to the start of the file.                      *)
LEMMA TextExists ==
  ASSUME NEW f \in Seq(Symbols), NEW stop \in Nat, stop <= Len(f)
  PROVE  \E g \in [Nat -> Seq(Symbols)] : IsText(g, f, stop)
<1>1. PICK S : S = [Nat -> Seq(Symbols)]
  OBVIOUS
<1>2. BlockSize \in Nat /\ BlockSize >= 1
  BY AgentAssumption
<1> DEFINE next(r) == [i \in Nat |-> Reading(f, stop, r[i + BlockSize], i)]
           first == [i \in Nat |-> <<>>]
           step == [n \in 1 .. stop + 1 |-> [r \in S |-> next(r)]]
<1>3. ASSUME NEW r \in S PROVE next(r) \in S
  <2>1. ASSUME NEW i \in Nat PROVE Reading(f, stop, r[i + BlockSize], i) \in Seq(Symbols)
    <3>1. r[i + BlockSize] \in Seq(Symbols)
      <4>1. i + BlockSize \in Nat
        BY <1>2
      <4> QED
        BY <1>1, <4>1
    <3> QED
      BY <3>1, ReadingTyped
  <2> QED
    BY <1>1, <2>1
<1>4. first \in S
  <2>1. <<>> \in Seq(Symbols)
    OBVIOUS
  <2> QED
    BY <1>1, <2>1
<1>5. ASSUME NEW n \in 0 .. stop, NEW r \in S PROVE step[n + 1][r] = next(r)
  <2>1. n + 1 \in 1 .. stop + 1
    OBVIOUS
  <2> QED
    BY <2>1
<1>6. PICK g : Goes(g, 0, stop + 1, S, first, step)
  <2>1. \A n \in 0 .. (stop + 1) - 1 : \A r \in S : step[n + 1][r] \in S
    <3>1. (stop + 1) - 1 = stop
      OBVIOUS
    <3> HIDE DEF step, next
    <3> QED
      BY <1>3, <1>5, <3>1
  <2>2. 0 \in Int /\ stop + 1 \in Int /\ 0 <= stop + 1
    OBVIOUS
  <2> HIDE DEF step, first
  <2> QED
    BY <1>4, <2>1, <2>2, StepsExist
<1>7. /\ g \in [0 .. stop + 1 -> S] /\ g[0] = first
      /\ \A n \in 0 .. stop : g[n + 1] = next(g[n])
  <2>1. /\ g \in [0 .. stop + 1 -> S] /\ g[0] = first
        /\ \A n \in 0 .. (stop + 1) - 1 : g[n + 1] = step[n + 1][g[n]]
    BY <1>6, Zenon DEF Goes
  <2>2. (stop + 1) - 1 = stop /\ \A n \in 0 .. stop : n \in 0 .. stop + 1
    OBVIOUS
  <2> HIDE DEF step, next, first
  <2> QED
    BY <1>5, <2>1, <2>2
<1>8. ASSUME NEW n \in 0 .. stop, NEW i \in Nat
      PROVE  g[n + 1][i] = Reading(f, stop, g[n][i + BlockSize], i)
  BY <1>7
<1> HIDE DEF next, step
<1> DEFINE Good == {n \in 0 .. stop : \A i \in Nat : i >= stop - n => g[n + 1][i] = g[n][i]}
<1>9. 0 \in Good /\ 0 \in Int /\ stop \in Int
  <2>1. 0 \in 0 .. stop /\ 0 + 1 = 1 /\ stop - 0 = stop
    OBVIOUS
  <2>2. ASSUME NEW i \in Nat, i >= stop PROVE g[1][i] = g[0][i]
    <3>1. g[0][i] = <<>>
      BY <1>7
    <3>2. g[0 + 1][i] = Reading(f, stop, g[0][i + BlockSize], i)
      BY <1>8, <2>1
    <3>3. g[1][i] = <<>>
      BY <2>1, <2>2, <3>2 DEF Reading
    <3> QED
      BY <3>1, <3>3
  <2> QED
    BY <2>1, <2>2
<1>10. ASSUME NEW n \in 0 .. stop - 1, n \in Good PROVE n + 1 \in Good
  <2>1. n \in 0 .. stop /\ n + 1 \in 0 .. stop
    OBVIOUS
  <2>2. ASSUME NEW i \in Nat, i >= stop - (n + 1) PROVE g[(n + 1) + 1][i] = g[n + 1][i]
    <3>1. i + BlockSize \in Nat /\ i + BlockSize >= stop - n
      BY <1>2, <2>2
    <3>2. g[n + 1][i + BlockSize] = g[n][i + BlockSize]
      BY <1>10, <3>1
    <3>3. /\ g[n + 1][i] = Reading(f, stop, g[n][i + BlockSize], i)
          /\ g[(n + 1) + 1][i] = Reading(f, stop, g[n + 1][i + BlockSize], i)
      BY <1>8, <2>1
    <3> QED
      BY <3>2, <3>3, Zenon
  <2> QED
    BY <2>1, <2>2
<1>11. \A i \in Nat : g[stop + 1][i] = g[stop][i]
  <2>1. stop \in 0 .. stop
    OBVIOUS
  <2>2. stop \in Good
    <3> HIDE DEF Good
    <3> QED
      BY <1>9, <1>10, <2>1, CountingUp
  <2>3. \A i \in Nat : i >= stop - stop
    OBVIOUS
  <2> QED
    BY <2>2, <2>3
<1>12. PICK h : h = g[stop]
  OBVIOUS
<1>13. h \in [Nat -> Seq(Symbols)]
  <2>1. stop \in 0 .. stop + 1
    OBVIOUS
  <2> QED
    BY <1>1, <1>7, <1>12, <2>1
<1>14. \A i \in Nat : h[i] = Reading(f, stop, h[i + BlockSize], i)
  <2>1. stop \in 0 .. stop
    OBVIOUS
  <2> QED
    BY <1>8, <1>11, <1>12, <2>1
<1>15. h = [i \in Nat |-> Reading(f, stop, h[i + BlockSize], i)]
  <2>1. h = [i \in Nat |-> h[i]]
    BY <1>13
  <2>2. [i \in Nat |-> h[i]] = [i \in Nat |-> Reading(f, stop, h[i + BlockSize], i)]
    BY <1>14, Zenon
  <2> QED
    BY <2>1, <2>2, Zenon
<1> QED
  BY <1>13, <1>15, Zenon DEF IsText

(* g[i] is what a reader at i of f has read; the text of a key at p of d   *)
(* ends before v; rest is what is left of that text a block after i.       *)
IsReader(g, f, stop) == \A i \in Nat : g[i] = Reading(f, stop, g[i + BlockSize], i)
TextEnds(d, p, v) == v <= Len(d) /\ d[v] = "q" /\ \A i \in p + 5 .. v - 1 : d[i] # "q"
IsRest(d, v, i, rest) == i + BlockSize < v => rest = SubSeq(d, i + BlockSize + 1, v - 1)

LEMMA ReadPreIs ==
  ASSUME NEW f \in Seq(Symbols), NEW a, NEW start \in Nat, NEW stop \in Nat, stop <= Len(f),
         root_agent_regex(a, "PRE").start = start, root_agent_regex(a, "PRE").stop = stop
  PROVE  \E g : ReadPre(a, f) = g[start + 1] /\ IsReader(g, f, stop)
<1> DEFINE g == CHOOSE h : IsText(h, f, root_agent_regex(a, "PRE").stop)
<1>1. IsText(g, f, stop)
  BY TextExists
<1>2. ReadPre(a, f) = g[root_agent_regex(a, "PRE").start + 1]
  BY Zenon DEF ReadPre, PreFrom, IsText, Reading
<1> HIDE DEF g
<1>3. g = [i \in Nat |-> Reading(f, stop, g[i + BlockSize], i)]
  BY <1>1, Zenon DEF IsText
<1>4. \A i \in Nat : g[i] = Reading(f, stop, g[i + BlockSize], i)
  BY <1>3, Zenon
<1>5. IsReader(g, f, stop)
  BY <1>4, Zenon DEF IsReader
<1> QED
  BY <1>2, <1>5, Zenon

(* Nothing is opened or closed in a text.                                  *)
LEMMA InTextIsFlat ==
  ASSUME NEW d \in Documents, NEW m \in Nat, m < Len(d), Quotes(d, m + 1) % 2 = 1
  PROVE  Depth(d, m + 1) = Depth(d, m)
<1>1. m \in 0 .. Len(d) /\ m + 1 \in 0 .. Len(d)
  BY DocumentIs, BelowLength
<1>2. ~(Quotes(d, m + 1) % 2 = 0)
  OBVIOUS
<1>3. /\ Opened(d, "{", m + 1) = Opened(d, "{", m) /\ Opened(d, "}", m + 1) = Opened(d, "}", m)
      /\ Opened(d, "[", m + 1) = Opened(d, "[", m) /\ Opened(d, "]", m + 1) = Opened(d, "]", m)
  BY <1>2, OpenedNext
<1>4. /\ Depth(d, m) = (Opened(d, "{", m) - Opened(d, "}", m)) + (Opened(d, "[", m) - Opened(d, "]", m))
      /\ Depth(d, m + 1) = (Opened(d, "{", m + 1) - Opened(d, "}", m + 1))
                             + (Opened(d, "[", m + 1) - Opened(d, "]", m + 1))
  BY <1>1, DepthIs
<1> QED
  BY <1>3, <1>4

(* The text of PRE has no quote before the one that ends it.               *)
LEMMA TextHasNoQuote ==
  ASSUME NEW d \in Documents, Compact(d), NEW p \in Nat, p \in Places[d]["PRE"], "PRE" \in Keys,
         NEW v \in Closings(d, "PRE", p), \A i \in Closings(d, "PRE", p) : v <= i
  PROVE  \A i \in p + 5 .. v - 1 : d[i] # "q"
<1>1. Len(d) \in Nat /\ DOMAIN d = 1 .. Len(d)
  BY DocumentIs
<1>2. v \in Nat /\ v > p + 4 /\ v <= Len(d)
  BY <1>1 DEF Closings
<1>3. Stands(d, "PRE", p, 5) /\ Depth(d, p) = 1 /\ Quotes(d, p) % 2 = 1
  BY PlaceIs
<1>4. Stands(d, "PRE", p, 4) /\ d[p + 4] = "q"
  <2>1. 4 \in 1 .. 4 /\ 4 + 1 = 5 /\ p \in Int
    OBVIOUS
  <2>2. Stands(d, "PRE", p, 4) /\ d[p + 4] = agent_patterns["PRE"][5]
    BY <1>3, <2>1, StandsNext
  <2> QED
    BY <2>2, PatternsAre
<1>5. Quotes(d, p) \in Nat /\ Quotes(d, p + 3) = Quotes(d, p) + 1 /\ Depth(d, p + 3) = Depth(d, p)
  BY <1>4, KeyRun
<1>6. Quotes(d, p + 4) % 2 = 1 /\ Depth(d, p + 4) = 1
  <2>1. p + 3 \in Nat /\ p + 3 < Len(d) /\ (p + 3) + 1 = p + 4
    BY <1>1, <1>2
  <2>2. Quotes(d, p + 4) = Quotes(d, p + 3) + 1
    BY <1>4, <2>1, QuotesNext
  <2>3. Quotes(d, p + 4) % 2 = 1
    BY <1>3, <1>5, <2>2
  <2>4. Depth(d, p + 4) = Depth(d, p + 3)
    BY <2>1, <2>3, InTextIsFlat
  <2> QED
    BY <1>3, <1>5, <2>3, <2>4
<1> DEFINE Fine(i) == Quotes(d, i) % 2 = 1 /\ Depth(d, i) = 1 /\ (i = p + 4 \/ d[i] # "q")
           Good == {i \in Int : Fine(i)}
<1>7. p + 4 \in Good /\ p + 4 \in Int /\ v - 1 \in Int
  BY <1>2, <1>6
<1>8. ASSUME NEW i \in p + 4 .. (v - 1) - 1, i \in Good PROVE i + 1 \in Good
  <2>1. i \in Nat /\ i < Len(d) /\ i + 1 \in 1 .. Len(d) /\ i + 1 > p + 4 /\ i + 1 < v
    BY <1>1, <1>2
  <2>2. Quotes(d, i) % 2 = 1 /\ Depth(d, i) = 1
    BY <1>8
  <2>3. /\ Quotes(d, i) \in Nat
        /\ Quotes(d, i + 1) = IF d[i + 1] = "q" THEN Quotes(d, i) + 1 ELSE Quotes(d, i)
    BY <2>1, QuotesNext
  <2>4. d[i + 1] # "q"
    <3>1. SUFFICES ASSUME d[i + 1] = "q" PROVE FALSE
      OBVIOUS
    <3>2. d[i + 1] \notin {"{", "}", "[", "]"}
      BY <3>1
    <3>3. Depth(d, i + 1) = Depth(d, i)
      BY <2>1, <3>2, NoBracketOpens
    <3>4. Closing("PRE") = "q"
      BY DEF Closing
    <3>5. i + 1 \in Closings(d, "PRE", p)
      BY <1>1, <2>1, <2>2, <3>1, <3>3, <3>4 DEF Closings
    <3>6. v <= i + 1
      BY <3>5
    <3> QED
      BY <1>2, <2>1, <3>6
  <2>5. Quotes(d, i + 1) % 2 = 1
    BY <2>2, <2>3, <2>4
  <2>6. Depth(d, i + 1) = 1
    BY <2>1, <2>2, <2>5, InTextIsFlat
  <2> QED
    BY <2>1, <2>4, <2>5, <2>6
<1>9. \A i \in p + 4 .. v - 1 : i \in Good
  <2> HIDE DEF Good
  <2> QED
    BY <1>7, <1>8, CountingUp
<1>10. ASSUME NEW i \in p + 5 .. v - 1 PROVE d[i] # "q"
  <2>1. i \in p + 4 .. v - 1 /\ i # p + 4
    BY <1>2
  <2> QED
    BY <1>9, <2>1
<1> QED
  BY <1>10

LEMMA PartsJoin ==
  ASSUME NEW d \in Seq(Symbols), NEW a \in Nat, NEW b \in Nat, NEW e \in Nat, a <= b, b <= e, e <= Len(d)
  PROVE  SubSeq(d, a + 1, b) \o SubSeq(d, b + 1, e) = SubSeq(d, a + 1, e)
<1>1. PICK x, y, z : x = SubSeq(d, a + 1, b) /\ y = SubSeq(d, b + 1, e) /\ z = SubSeq(d, a + 1, e)
  OBVIOUS
<1>2. x \in Seq(Symbols) /\ Len(x) = b - a /\ \A i \in 1 .. b - a : x[i] = d[a + i]
  <2>1. b <= Len(d)
    OBVIOUS
  <2> QED
    BY <1>1, <2>1, PartIs
<1>3. y \in Seq(Symbols) /\ Len(y) = e - b /\ \A i \in 1 .. e - b : y[i] = d[b + i]
  BY <1>1, PartIs
<1>4. z \in Seq(Symbols) /\ Len(z) = e - a /\ \A i \in 1 .. e - a : z[i] = d[a + i]
  <2>1. a <= e
    OBVIOUS
  <2> QED
    BY <1>1, <2>1, PartIs
<1>5. PICK w : w = x \o y
  OBVIOUS
<1>6. /\ w \in Seq(Symbols) /\ Len(w) = Len(x) + Len(y)
      /\ \A i \in 1 .. Len(x) + Len(y) : w[i] = IF i <= Len(x) THEN x[i] ELSE y[i - Len(x)]
  BY <1>2, <1>3, <1>5, ConcatProperties
<1>7. Len(w) = e - a
  BY <1>2, <1>3, <1>6
<1>8. ASSUME NEW i \in 1 .. e - a PROVE w[i] = z[i]
  <2>1. i \in 1 .. Len(x) + Len(y)
    BY <1>6, <1>7
  <2>2. CASE i <= b - a
    <3>1. i \in 1 .. b - a /\ w[i] = x[i]
      BY <1>2, <1>6, <2>1, <2>2
    <3> QED
      BY <1>2, <1>4, <3>1
  <2>3. CASE ~(i <= b - a)
    <3>1. i - (b - a) \in 1 .. e - b /\ b + (i - (b - a)) = a + i
      BY <2>3
    <3>2. w[i] = y[i - (b - a)]
      BY <1>2, <1>6, <2>1, <2>3
    <3> QED
      BY <1>3, <1>4, <3>1, <3>2
  <2> QED
    BY <2>2, <2>3
<1>9. w = z
  BY <1>4, <1>6, <1>7, <1>8, SeqEqual
<1> QED
  BY <1>1, <1>5, <1>9

(* The text that ends before v, a block at a time.                         *)
LEMMA ReadingIs ==
  ASSUME NEW d \in Documents, NEW f \in Seq(Symbols), Holds(f, d, Len(d)),
         NEW p \in Nat, NEW v \in Nat, TextEnds(d, p, v), NEW stop \in Nat, v <= stop,
         NEW i \in Nat, i >= p + 4, i < v, NEW rest, IsRest(d, v, i, rest)
  PROVE  Reading(f, stop, rest, i) = SubSeq(d, i + 1, v - 1)
<1>1. PICK block : block = root_agent_read(f, BlockSize, i)
  OBVIOUS
<1>2. /\ Len(f) \in Nat /\ Len(d) \in Nat /\ Len(f) >= Len(d) /\ BlockSize \in Nat /\ BlockSize >= 1
      /\ \A j \in 1 .. Len(d) : f[j] = d[j]
  BY DocumentIs, AgentAssumption DEF Holds
<1>3. /\ v <= Len(d) /\ d[v] = "q" /\ \A j \in p + 5 .. v - 1 : d[j] # "q"
      /\ i + BlockSize < v => rest = SubSeq(d, i + BlockSize + 1, v - 1)
  BY Zenon DEF TextEnds, IsRest
<1>4. i <= Len(f) /\ ~(i >= stop)
  BY <1>2, <1>3
<1>5. PICK b \in Nat :
        /\ b = IF i + BlockSize < Len(f) THEN i + BlockSize ELSE Len(f)
        /\ b >= i /\ b <= Len(f)
        /\ block \in Seq(Symbols) /\ Len(block) = b - i
        /\ \A j \in 1 .. b - i : block[j] = f[i + j]
  BY <1>1, <1>4, ReadIs
<1>6. PICK quotes : quotes = {j \in 1 .. Len(block) : block[j] = "q"}
  OBVIOUS
<1>7. Reading(f, stop, rest, i) = IF quotes # {} THEN SubSeq(block, 1, Least(quotes) - 1)
                                  ELSE IF Len(block) < BlockSize THEN block ELSE block \o rest
  BY <1>1, <1>4, <1>6 DEF Reading
<1>8. ASSUME NEW j \in 1 .. b - i, i + j <= v PROVE block[j] = d[i + j]
  <2>1. i + j \in 1 .. Len(d)
    BY <1>2, <1>8, <1>3
  <2> QED
    BY <1>2, <1>5, <2>1
<1>9. ASSUME NEW j \in 1 .. b - i, i + j < v PROVE j \notin quotes
  <2>1. i + j \in p + 5 .. v - 1 /\ i + j <= v
    BY <1>9
  <2> QED
    BY <1>6, <1>8, <1>3, <2>1
<1>10. CASE v <= b
  <2>1. v - i \in 1 .. b - i /\ i + (v - i) = v
    BY <1>10
  <2>2. v - i \in quotes
    <3>1. block[v - i] = d[i + (v - i)]
      BY <1>8, <2>1
    <3> QED
      BY <1>5, <1>6, <1>3, <2>1, <3>1
  <2>3. PICK l : l = Least(quotes)
    OBVIOUS
  <2>4. l \in quotes /\ l <= v - i
    <3>1. quotes \in SUBSET Nat
      BY <1>5, <1>6
    <3> QED
      BY <2>2, <2>3, <3>1, LeastIs
  <2>5. l = v - i
    <3>1. l \in 1 .. b - i
      BY <1>5, <1>6, <2>4
    <3>2. ~(i + l < v)
      BY <1>9, <2>4, <3>1
    <3> QED
      BY <2>4, <3>1, <3>2
  <2>6. PICK w, x, y : w = v - 1 /\ x = SubSeq(block, 1, w - i) /\ y = SubSeq(d, i + 1, w)
    OBVIOUS
  <2>7. Reading(f, stop, rest, i) = x
    <3>1. l - 1 = w - i
      BY <2>5, <2>6
    <3> QED
      BY <1>7, <2>2, <2>3, <2>6, <3>1
  <2>8. w \in Nat /\ i <= w /\ w <= Len(d) /\ w - i \in Nat /\ w - i <= Len(block)
    BY <1>2, <1>5, <1>10, <1>3, <2>6
  <2>9. x \in Seq(Symbols) /\ Len(x) = w - i /\ \A j \in 1 .. w - i : x[j] = block[j]
    <3>1. 0 \in Nat /\ 0 <= w - i /\ 0 + 1 = 1 /\ (w - i) - 0 = w - i /\ \A j \in 1 .. w - i : 0 + j = j
      BY <2>8
    <3>2. PICK k : k = w - i
      OBVIOUS
    <3>3. block \in Seq(Symbols) /\ 0 \in Nat /\ k \in Nat /\ 0 <= k /\ k <= Len(block)
      BY <1>5, <2>8, <3>1, <3>2
    <3>4. /\ SubSeq(block, 0 + 1, k) \in Seq(Symbols) /\ Len(SubSeq(block, 0 + 1, k)) = k - 0
          /\ \A j \in 1 .. k - 0 : SubSeq(block, 0 + 1, k)[j] = block[0 + j]
      BY <3>3, PartIs
    <3> QED
      BY <2>6, <3>1, <3>2, <3>4
  <2>10. y \in Seq(Symbols) /\ Len(y) = w - i /\ \A j \in 1 .. w - i : y[j] = d[i + j]
    <3>1. d \in Seq(Symbols)
      BY DocumentSymbols
    <3>2. /\ SubSeq(d, i + 1, w) \in Seq(Symbols) /\ Len(SubSeq(d, i + 1, w)) = w - i
          /\ \A j \in 1 .. w - i : SubSeq(d, i + 1, w)[j] = d[i + j]
      BY <2>8, <3>1, PartIs
    <3> QED
      BY <2>6, <3>2
  <2>11. ASSUME NEW j \in 1 .. w - i PROVE x[j] = y[j]
    <3>1. j \in 1 .. b - i /\ i + j <= v
      BY <1>10, <2>6, <2>8
    <3> QED
      BY <1>8, <2>9, <2>10, <3>1
  <2>12. x = y
    BY <2>9, <2>10, <2>11, SeqEqual
  <2> QED
    BY <2>6, <2>7, <2>12
<1>11. CASE ~(v <= b)
  <2>1. b = i + BlockSize /\ b < v /\ Len(block) = BlockSize
    BY <1>2, <1>5, <1>11, <1>3
  <2>2. quotes = {}
    <3>1. SUFFICES ASSUME NEW j \in quotes PROVE FALSE
      OBVIOUS
    <3>2. j \in 1 .. b - i /\ i + j < v
      BY <1>5, <1>6, <2>1
    <3> QED
      BY <1>9, <3>2
  <2>3. Reading(f, stop, rest, i) = block \o rest
    BY <1>2, <1>7, <2>1, <2>2
  <2>4. PICK w : w = v - 1
    OBVIOUS
  <2>5. w \in Nat /\ i <= b /\ b <= w /\ w <= Len(d) /\ b <= Len(d)
    BY <1>2, <1>5, <1>3, <2>1, <2>4
  <2>6. block = SubSeq(d, i + 1, b)
    <3>1. block = SubSeq(f, i + 1, b)
      BY <1>1, <1>5 DEF root_agent_read
    <3> QED
      BY <2>5, <3>1, HeldPart
  <2>7. rest = SubSeq(d, b + 1, w)
    BY <1>3, <2>1, <2>4
  <2>8. SubSeq(d, i + 1, b) \o SubSeq(d, b + 1, w) = SubSeq(d, i + 1, w)
    BY <2>5, DocumentSymbols, PartsJoin
  <2> QED
    BY <2>3, <2>4, <2>6, <2>7, <2>8, Zenon
<1> QED
  BY <1>10, <1>11

LEMMA TextIsRead ==
  ASSUME NEW d \in Documents, NEW f \in Seq(Symbols), Holds(f, d, Len(d)),
         NEW p \in Nat, NEW v \in Nat, p + 4 < v, TextEnds(d, p, v),
         NEW stop \in Nat, v <= stop, NEW g, IsReader(g, f, stop)
  PROVE  g[p + 4] = SubSeq(d, p + 5, v - 1)
<1>1. BlockSize \in Nat /\ BlockSize >= 1
  BY AgentAssumption
<1> DEFINE Good == {n \in 0 .. v : \A i \in Nat : i >= p + 4 /\ i < v /\ v - i <= n =>
                                     g[i] = SubSeq(d, i + 1, v - 1)}
<1>2. 0 \in Good /\ 0 \in Int /\ v \in Int
  OBVIOUS
<1>3. ASSUME NEW n \in 0 .. v - 1, n \in Good PROVE n + 1 \in Good
  <2>1. ASSUME NEW i \in Nat, i >= p + 4, i < v, v - i <= n + 1
        PROVE  g[i] = SubSeq(d, i + 1, v - 1)
    <3>1. PICK rest : rest = g[i + BlockSize]
      OBVIOUS
    <3>2. i + BlockSize < v => rest = SubSeq(d, i + BlockSize + 1, v - 1)
      <4>1. i + BlockSize \in Nat /\ i + BlockSize >= p + 4 /\ v - (i + BlockSize) <= n
        BY <1>1, <2>1
      <4> QED
        BY <1>3, <3>1, <4>1
    <3>3. i \in Nat /\ i >= p + 4 /\ i < v
      BY <2>1
    <3>4. IsRest(d, v, i, rest)
      BY <3>2, Zenon DEF IsRest
    <3>5. Reading(f, stop, rest, i) = SubSeq(d, i + 1, v - 1)
      BY <3>3, <3>4, ReadingIs
    <3>6. g[i] = Reading(f, stop, g[i + BlockSize], i)
      BY Zenon DEF IsReader
    <3> QED
      BY <3>1, <3>5, <3>6
  <2>2. n + 1 \in 0 .. v
    OBVIOUS
  <2> QED
    BY <2>1, <2>2
<1>4. v \in Good
  <2>1. v \in 0 .. v
    OBVIOUS
  <2> HIDE DEF Good
  <2> QED
    BY <1>2, <1>3, <2>1, CountingUp
<1>5. p + 4 \in Nat /\ v - (p + 4) <= v /\ (p + 4) + 1 = p + 5 /\ p + 4 >= p + 4
  OBVIOUS
<1>6. g[p + 4] = SubSeq(d, (p + 4) + 1, v - 1)
  BY <1>4, <1>5
<1> QED
  BY <1>5, <1>6

(* "Read PRE condition" (emma-client.c:215): the condition that an agent   *)
(* is run for is the text of its own PRE, up to the quote that ends it,    *)
(* whatever lies behind it in the file.                                    *)
THEOREM PreForEver ==
  ASSUME WellWritten, ~Others
  PROVE  Spec => []PreIsOwn
<1>1. PInv => PreIsOwn
  <2> SUFFICES ASSUME PInv, NEW u \in InUse, whole[u] # NoDocument, Places[whole[u]]["PRE"] # {}
               PROVE  ReadPre(agent[u], file[memoryIndex[u]]) = MeantPre(whole[u])
    BY Zenon DEF PreIsOwn
  <2>1. PICK d, f, a : d = whole[u] /\ f = file[memoryIndex[u]] /\ a = agent[u]
    OBVIOUS
  <2>2. /\ d \in Documents /\ Compact(d) /\ Closed(d)
        /\ a \in Agents /\ a.size = Len(d) /\ Fits(a, d, Len(d))
        /\ f \in Seq(Symbols) /\ Holds(f, d, Len(d))
    BY <2>1, WholeIs
  <2>3. "PRE" \in Keys
    BY PatternsAre
  <2>4. PICK slice : slice = root_agent_regex(a, "PRE")
    OBVIOUS
  <2>5. PICK p, e \in Nat :
          /\ p \in Places[d]["PRE"] /\ Meant[d]["PRE"] = p + 3
          /\ e > p + 4 /\ e <= Len(d) /\ Depth(d, e) = 1 /\ d[e] = Closing("PRE")
          /\ slice.start = p + 3 /\ slice.stop \in e .. Len(d)
    BY <2>1, <2>2, <2>3, <2>4, SliceIs
  <2>6. PICK V : V = ValueEnd[d]["PRE"]
    OBVIOUS
  <2>7. /\ V + 1 \in Closings(d, "PRE", p)
        /\ \A i \in Closings(d, "PRE", p) : V + 1 <= i
        /\ V \in Nat /\ V >= p + 4 /\ V < e
    BY <2>2, <2>3, <2>5, <2>6, ValueEndIs
  <2>8. PICK v, stop : v = V + 1 /\ stop = slice.stop
    OBVIOUS
  <2>9. /\ v \in Nat /\ p + 4 < v /\ v <= Len(d) /\ V = v - 1
        /\ stop \in Nat /\ v <= stop /\ stop <= Len(f) /\ p + 3 \in Nat /\ (p + 3) + 1 = p + 4
        /\ (p + 3) + 2 = p + 5
    <3>1. Len(d) \in Nat /\ Len(f) \in Nat /\ Len(f) >= Len(d)
      BY <2>2, DocumentIs DEF Holds
    <3> QED
      BY <2>5, <2>7, <2>8, <3>1
  <2>10. d[v] = "q"
    BY <2>7, <2>8 DEF Closings, Closing
  <2>11. \A i \in p + 5 .. v - 1 : d[i] # "q"
    BY <2>2, <2>3, <2>5, <2>7, <2>8, TextHasNoQuote
  <2>12. PICK g : ReadPre(a, f) = g[p + 4] /\ IsReader(g, f, stop)
    <3>1. PICK start : start = p + 3
      OBVIOUS
    <3>2. start \in Nat /\ start + 1 = p + 4
      BY <2>9, <3>1
    <3>3. root_agent_regex(a, "PRE").start = start /\ root_agent_regex(a, "PRE").stop = stop
      BY <2>4, <2>5, <2>8, <3>1
    <3>4. \E g : ReadPre(a, f) = g[start + 1] /\ IsReader(g, f, stop)
      BY <2>2, <2>9, <3>2, <3>3, ReadPreIs
    <3> QED
      BY <3>2, <3>4
  <2>13. g[p + 4] = SubSeq(d, p + 5, v - 1)
    <3>1. TextEnds(d, p, v)
      BY <2>9, <2>10, <2>11, Zenon DEF TextEnds
    <3> QED
      BY <2>2, <2>9, <2>12, <3>1, TextIsRead
  <2>14. MeantPre(d) = SubSeq(d, p + 5, v - 1)
    BY <2>5, <2>6, <2>9 DEF MeantPre
  <2> QED
    BY <2>1, <2>12, <2>13, <2>14, Zenon
<1> QED
  BY <1>1, ReadySound, PTL
=============================================================================
