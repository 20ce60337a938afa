---------------------------- MODULE ResourceStore ----------------------------
(***************************************************************************)
(* What the resource interface of an EMMA node (emma-resource.c) promises  *)
(* to its callers: a forest of named resources under three roots, created  *)
(* out of a fixed pool of resource blocks and of one data pool per root,   *)
(* each resource with a mutex, a last modifier and a clock time.           *)
(*                                                                         *)
(* The operators on a store record s are the functions of the interface;   *)
(* callers that make several calls in one atomic handler compose them.     *)
(* The state machine below offers the calls one at a time, in any order.   *)
(* A resource is its full name u: RootOf[u] is the root it is named under  *)
(* and Parent[u] the folder it is named in (NoUri: directly at the root).  *)
(***************************************************************************)
EXTENDS Integers, Sequences, FiniteSets

CONSTANTS
  Uris,          \* the resource names callers use
  NoUri,         \* stands for the NULL or empty name
  Parent,        \* [Uris -> Uris \cup {NoUri}]
  RootOf,        \* [Uris -> Roots]
  Boot,          \* the list of root S after start-up, head first
  Capacity,      \* [Roots -> Nat]: ROOT_AGENT_, ROOT_RESOURCE_, ROOT_SYSTEM_MAX_ALLOC
  MaxResources,  \* EMMA_MAX_RESOURCES
  Keys,          \* the process identifiers EMMA_*_ID
  Nobody,        \* EMMA_NOBODY_ID
  Times          \* the values of the clock

Roots == {"A", "L", "S"}

Elements(seq) == {seq[i] : i \in 1 .. Len(seq)}

Distinct(seq) == \A i, j \in 1 .. Len(seq) : seq[i] = seq[j] => i = j

BootUris == Elements(Boot)

ASSUME NamesAssumption ==
  /\ Parent \in [Uris -> Uris \cup {NoUri}]
  /\ RootOf \in [Uris -> Roots]
  /\ NoUri \notin Uris
  /\ Nobody \in Keys
  /\ \A u \in Uris : Parent[u] # NoUri => RootOf[Parent[u]] = RootOf[u]

ASSUME BootAssumption ==
  /\ Boot \in Seq(Uris)
  /\ Distinct(Boot)
  /\ \A u \in BootUris : RootOf[u] = "S" /\ Parent[u] = NoUri

(* EMMA_MAX_RESOURCES counts one block more per root than the data pools   *)
(* can fill (emma-conf.h), so one block is left when every pool is empty.  *)
ASSUME PoolsAssumption ==
  /\ Capacity \in [Roots -> Nat]
  /\ MaxResources \in Nat
  /\ Len(Boot) <= Capacity["S"]
  /\ Capacity["A"] + Capacity["L"] + Capacity["S"] < MaxResources

VARIABLE store

vars == <<store>>

Entry == [mutex : BOOLEAN, lastModified : Keys, clocktime : Times]

NewEntry(t) == [mutex |-> FALSE, lastModified |-> Nobody, clocktime |-> t]

-----------------------------------------------------------------------------
(* Queries.                                                                *)

Exists(s, u) == u \in DOMAIN s.tree

Children(s, u) == {c \in DOMAIN s.tree : Parent[c] = u}

Listed(s, r) == {u \in DOMAIN s.tree : RootOf[u] = r}

FolderFound(s, u) == Parent[u] = NoUri \/ Exists(s, Parent[u])

IsLocked(s, u) == Exists(s, u) /\ s.tree[u].mutex

(* The walk of get_next_resource_name_by_root lists the content of a       *)
(* folder right before the folder; a new resource is linked at the head of *)
(* its list, so it comes before everything its folder already holds.       *)
Under(p) ==
  LET under[v \in Uris] == Parent[v] = p \/ (Parent[v] # NoUri /\ under[Parent[v]])
  IN {p} \cup {v \in Uris : under[v]}

Place(seq, u) ==
  IF Parent[u] = NoUri THEN 1
  ELSE CHOOSE i \in 1 .. Len(seq) :
         /\ seq[i] \in Under(Parent[u])
         /\ \A j \in 1 .. i - 1 : seq[j] \notin Under(Parent[u])

Linked(seq, u) ==
  SubSeq(seq, 1, Place(seq, u) - 1) \o <<u>> \o SubSeq(seq, Place(seq, u), Len(seq))

Unlinked(seq, u) ==
  LET at == CHOOSE i \in 1 .. Len(seq) : seq[i] = u
  IN SubSeq(seq, 1, at - 1) \o SubSeq(seq, at + 1, Len(seq))

-----------------------------------------------------------------------------
(* Calls. The code an add or a del returns is a value of its own, since    *)
(* callers branch on it. No caller passes an unknown root or an empty name *)
(* here: codes 1 and 6 return before anything is read or changed.          *)

AddOk == 0
AddExists == 2
AddNoBlock == 3
AddRootFull == 4
AddNoFolder == 5

AddCode(s, u) ==
  IF Exists(s, u) THEN AddExists
  ELSE IF s.blocks = MaxResources THEN AddNoBlock
  ELSE IF s.slots[RootOf[u]] = Capacity[RootOf[u]] THEN AddRootFull
  ELSE IF FolderFound(s, u) THEN AddOk ELSE AddNoFolder

(* A block and a data slot taken from the pools.                           *)
Taken(s, r) == [s EXCEPT !.blocks = @ + 1, !.slots[r] = @ + 1]

(* t: the clock time a former user left in the block, which                *)
(* emma_clean_resource does not reset. With no block left the code cleans  *)
(* the NULL block; with no folder it keeps the block and the data.         *)
Add(s, u, t) ==
  LET code == AddCode(s, u)
      r == RootOf[u]
  IN CASE code = AddOk ->
            [Taken(s, r) EXCEPT
               !.tree = [v \in DOMAIN s.tree \cup {u} |->
                           IF v = u THEN NewEntry(t) ELSE s.tree[v]],
               !.order[r] = Linked(@, u)]
       [] code = AddNoFolder -> Taken(s, r)
       [] code = AddNoBlock -> [s EXCEPT !.fault = TRUE]
       [] code \in {AddExists, AddRootFull} -> s

DelOk == 0
DelNotFound == 2
DelNotEmpty == 3

DelCode(s, u) ==
  IF ~Exists(s, u) THEN DelNotFound
  ELSE IF Children(s, u) # {} THEN DelNotEmpty ELSE DelOk

(* Fault: the data slot is not given back.                                 *)
DelKeepsSlot(s, u) ==
  IF DelCode(s, u) # DelOk THEN s
  ELSE [s EXCEPT !.tree = [v \in DOMAIN s.tree \ {u} |-> s.tree[v]],
                 !.order[RootOf[u]] = Unlinked(@, u),
                 !.blocks = @ - 1]

Del(s, u) ==
  LET r == RootOf[u]
  IN IF DelCode(s, u) # DelOk THEN s
     ELSE [s EXCEPT !.tree = [v \in DOMAIN s.tree \ {u} |-> s.tree[v]],
                    !.order[r] = Unlinked(@, u),
                    !.blocks = @ - 1,
                    !.slots[r] = @ - 1]

Locks(s, u) == Exists(s, u) /\ ~s.tree[u].mutex

Lock(s, u) == IF Exists(s, u) THEN [s EXCEPT !.tree[u].mutex = TRUE] ELSE s

Release(s, u) == IF Exists(s, u) THEN [s EXCEPT !.tree[u].mutex = FALSE] ELSE s

SetLastModified(s, u, k) ==
  IF u = NoUri THEN [s EXCEPT !.lastModifier = k]
  ELSE IF Exists(s, u)
       THEN [s EXCEPT !.lastModifier = k, !.tree[u].lastModified = k]
       ELSE s

SetClocktime(s, u, t) ==
  IF Exists(s, u) THEN [s EXCEPT !.tree[u].clocktime = t] ELSE s

-----------------------------------------------------------------------------
(* The interface as a state machine.                                       *)

BootStore(entries) ==
  [tree         |-> entries,
   order        |-> [r \in Roots |-> IF r = "S" THEN Boot ELSE <<>>],
   blocks       |-> Len(Boot),
   slots        |-> [r \in Roots |-> IF r = "S" THEN Len(Boot) ELSE 0],
   lastModifier |-> Nobody,
   fault        |-> FALSE]

Init == \E t \in Times : store = BootStore([u \in BootUris |-> NewEntry(t)])

AddStep(u) == \E t \in Times : store' = Add(store, u, t)

DelStep(u) == store' = Del(store, u)

LockStep(u) == store' = Lock(store, u)

ReleaseStep(u) == store' = Release(store, u)

SetLastModifiedStep(u, k) == store' = SetLastModified(store, u, k)

SetClocktimeStep(u, t) == store' = SetClocktime(store, u, t)

Next ==
  \/ \E u \in Uris : AddStep(u) \/ DelStep(u) \/ LockStep(u) \/ ReleaseStep(u)
  \/ \E u \in Uris \cup {NoUri}, k \in Keys : SetLastModifiedStep(u, k)
  \/ \E u \in Uris, t \in Times : SetClocktimeStep(u, t)

Spec == Init /\ [][Next]_vars

-----------------------------------------------------------------------------
(* Properties.                                                             *)

Trees == UNION {[D -> Entry] : D \in SUBSET Uris}

StoreType ==
  [tree : Trees, order : [Roots -> Seq(Uris)], blocks : Nat, slots : [Roots -> Nat],
   lastModifier : Keys, fault : BOOLEAN]

(* The parts of a sound store, of a record s so that they can be asserted  *)
(* between two calls of a handler too.                                     *)

WellTyped(s) ==
  /\ s \in StoreType
  /\ \A r \in Roots : s.slots[r] <= Capacity[r]

(* A block is in use exactly when the data slot that came with it is, be   *)
(* the resource linked or not.                                             *)
BlocksAccounted(s) == s.blocks = s.slots["A"] + s.slots["L"] + s.slots["S"]

FoldersLinked(s) == \A u \in DOMAIN s.tree : FolderFound(s, u)

WalkListsAll(s) ==
  \A r \in Roots : /\ Elements(s.order[r]) = Listed(s, r)
                   /\ Distinct(s.order[r])

SlotsCover(s) ==
  \A r \in Roots : /\ IsFiniteSet(Listed(s, r))
                   /\ Cardinality(Listed(s, r)) <= s.slots[r]

Sound(s) ==
  /\ WellTyped(s)
  /\ BlocksAccounted(s)
  /\ ~s.fault
  /\ FoldersLinked(s)
  /\ WalkListsAll(s)
  /\ SlotsCover(s)

(* The store has its type, and no pool hands out more than it has.         *)
TypeOK == WellTyped(store)

(* emma_resource_add cleans the block it was given before it looks whether *)
(* it was given one (emma-resource.c:498, :501): there always is one.      *)
PoolNeverExhausted == BlocksAccounted(store) /\ ~store.fault

(* Every resource can be reached: the folder of a linked resource is       *)
(* linked, whatever was added and deleted since it was created             *)
(* (emma-resource.c:576 refuses to delete a folder that is not empty).     *)
FoldersExist == FoldersLinked(store)

(* The list a root is walked along holds each of its resources once, after *)
(* everything that was linked and unlinked (emma-resource.c:523-545,       *)
(* :582-606).                                                              *)
WalkIsComplete == WalkListsAll(store)

(* Every linked resource has a data slot of its root: del gives a slot     *)
(* back only for a resource it unlinks.                                    *)
SlotsCoverResources == SlotsCover(store)
=============================================================================
