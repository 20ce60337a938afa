----------------------------- MODULE ResourceTree -----------------------------
(***************************************************************************)
(* emma-resource.c on its data structure: resource blocks of one memb pool *)
(* linked by prev, next and subRoot below the list of each root, the data  *)
(* slots of each root's own pool, and the one iterator that every walk in  *)
(* the node shares.                                                        *)
(*                                                                         *)
(* A uri is a root and a path, a non-empty sequence of names. A block's    *)
(* address is its number: memb_alloc hands out the lowest one that is free *)
(* and leaves its content as its last user left it.                        *)
(***************************************************************************)
EXTENDS Integers, Sequences, FiniteSets

CONSTANTS
  Uris,          \* records [root |-> r, path |-> a sequence of names]
  BootNames,     \* the names of S that the node starts with, head of the list first
  Capacity,      \* [root name -> number of data slots]
  MaxResources,  \* EMMA_MAX_RESOURCES
  Keys,          \* the EMMA_ process IDs; EMMA_NOBODY_ID is 0
  Times          \* the values of the clock

RootSeq == <<"A", "L", "S">>        \* resources_roots

Roots == {RootSeq[i] : i \in 1 .. Len(RootSeq)}

Blocks == 1 .. MaxResources
NULL == 0
Links == Blocks \cup {NULL}

BootUris == {[root |-> "S", path |-> <<BootNames[i]>>] : i \in 1 .. Len(BootNames)}

ASSUME TreeAssumption ==
  /\ MaxResources \in Nat
  /\ Uris \subseteq [root : Roots, path : Seq(STRING) \ {<<>>}]
  /\ BootNames \in Seq(STRING) /\ BootUris \subseteq Uris
  /\ Capacity \in [Roots -> Nat]
  /\ Len(BootNames) <= Capacity["S"] /\ Len(BootNames) <= MaxResources
  /\ 0 \in Keys /\ 0 \in Times

VARIABLES
  used,          \* emma_resources_R: the blocks handed out
  blk,           \* the content of every block, handed out or not
  list,          \* resources_roots[r]->list
  pool,          \* the data slots handed out by each root's own pool
  lastModifier,
  it,            \* the iterator
  fault          \* a NULL block was cleaned, or a walk does not end

vars == <<used, blk, list, pool, lastModifier, it, fault>>

-----------------------------------------------------------------------------
(* Looking a uri up: emma_get_resource.                                    *)

Lowest(free) == CHOOSE b \in free : \A c \in free : b <= c

(* The first block called name on the list from first, and the block       *)
(* before it: itself if it is the first, the last one if there is none.    *)
OnList(first, name) ==
  LET scan[s \in [left : 0 .. MaxResources, previousResource : Links, resource : Links]] ==
        IF s.left = 0 \/ s.resource = NULL \/ blk[s.resource].name = name THEN s
        ELSE scan[[left             |-> s.left - 1,
                   previousResource |-> s.resource,
                   resource         |-> blk[s.resource].next]]
  IN scan[[left |-> MaxResources, previousResource |-> first, resource |-> first]]

(* The path level by level; a level that is not found ends the search, and *)
(* the folder is then only known if it was the last level.                 *)
Lookup(u) ==
  LET at[s \in [level : 1 .. Len(u.path), folder : Links, first : Links]] ==
        LET hit == OnList(s.first, u.path[s.level])
            last == s.level = Len(u.path)
        IN IF last \/ hit.resource = NULL
           THEN [folder           |-> IF last THEN s.folder ELSE NULL,
                 previousResource |-> hit.previousResource,
                 resource         |-> hit.resource]
           ELSE at[[level  |-> s.level + 1,
                    folder |-> hit.resource,
                    first  |-> blk[hit.resource].subRoot]]
  IN at[[level |-> 1, folder |-> NULL, first |-> list[u.root]]]

Resource(u) == Lookup(u).resource

-----------------------------------------------------------------------------
(* The iterator: get_next_resource_name_by_root.                           *)

Iterators == [rootTmp : 1 .. Len(RootSeq) + 1, previous : Links,
              next : Links, current : Links]

(* The iterator within a call, found telling whether the call has its      *)
(* answer.                                                                 *)
Passes == [rootTmp : 1 .. Len(RootSeq) + 1, previous : Links,
           next : Links, current : Links, found : BOOLEAN]

AtRoot(r) == [rootTmp |-> r, previous |-> NULL, next |-> NULL,
              current |-> list[RootSeq[r]]]

(* Fault: the content of a folder just left is entered again.              *)
PassNotUp(i) ==
  LET b  == blk[i.current]
      i1 == IF i.previous = b.prev
            THEN [i EXCEPT !.previous = i.current, !.next = b.subRoot] ELSE i
      i2 == IF i1.next = NULL
            THEN [i1 EXCEPT !.found = TRUE, !.previous = i.current, !.next = b.next] ELSE i1
      i3 == IF i2.next = NULL \/ i2.previous = b.next
            THEN [i2 EXCEPT !.previous = i.current, !.next = b.prev] ELSE i2
  IN [i3 EXCEPT !.current = i3.next]

(* One pass of its loop over the current block.                            *)
Pass(i) ==
  LET b  == blk[i.current]
      i1 == IF i.previous = b.prev
            THEN [i EXCEPT !.previous = i.current, !.next = b.subRoot] ELSE i
      i2 == IF i1.next = NULL \/ i1.previous = b.subRoot
            THEN [i1 EXCEPT !.found = TRUE, !.previous = i.current, !.next = b.next] ELSE i1
      i3 == IF i2.next = NULL \/ i2.previous = b.next
            THEN [i2 EXCEPT !.previous = i.current, !.next = b.prev] ELSE i2
  IN [i3 EXCEPT !.current = i3.next]

(* The loop, for as many passes as a walk that ends can need: a pass that  *)
(* does not find a resource goes down to a folder's content or up from it. *)
MaxPasses == 2 * MaxResources + 1

Stops(i) == i.current = NULL \/ i.found

Loop(i) ==
  LET run[s \in [left : 0 .. MaxPasses, pass : Passes]] ==
        IF s.left = 0 \/ Stops(s.pass) THEN s.pass
        ELSE run[[left |-> s.left - 1, pass |-> Pass(s.pass)]]
  IN run[[left |-> MaxPasses,
          pass |-> [rootTmp |-> i.rootTmp, previous |-> i.previous, next |-> i.next,
                    current |-> i.current, found |-> FALSE]]]

(* What a call answers: the block whose name it prints; NULL for the name  *)
(* of the root, at its end. The code reads the list behind the last root   *)
(* there (resources_roots[3]): a value no later call looks at.             *)
Stepped(i) ==
  LET j == Loop(i) IN
  IF j.found
  THEN [out |-> j.previous,
        it  |-> [rootTmp |-> j.rootTmp, previous |-> j.previous, next |-> j.next,
                 current |-> j.current]]
  ELSE [out |-> NULL,
        it  |-> IF j.rootTmp < Len(RootSeq) THEN AtRoot(j.rootTmp + 1)
                ELSE [rootTmp |-> Len(RootSeq) + 1, previous |-> NULL, next |-> NULL,
                      current |-> NULL]]

Ends(i) == Stops(Loop(i))

(* What the calls from i on answer before the name of the root.            *)
Meets(i) ==
  LET meet[s \in [left : 0 .. MaxResources + 1, step : [out : Links, it : Iterators]]] ==
        IF s.left = 0 \/ s.step.out = NULL THEN <<>>
        ELSE <<s.step.out>> \o meet[[left |-> s.left - 1, step |-> Stepped(s.step.it)]]
  IN meet[[left |-> MaxResources + 1, step |-> Stepped(i)]]

-----------------------------------------------------------------------------
(* Calls.                                                                  *)

NoName == ""

BlockOf(name, data, clocktime, prev, next) ==
  [name |-> name, data |-> data, mutex |-> FALSE, lastModified |-> 0,
   clocktime |-> clocktime, prev |-> prev, next |-> next, subRoot |-> NULL]

EmptyBlock == BlockOf(NoName, NULL, 0, NULL, NULL)

(* emma_clean_resource: every field but the clock time.                    *)
Cleaned(b) == BlockOf(NoName, NULL, blk[b].clocktime, NULL, NULL)

Slots(r) == 1 .. Capacity[r]

FreeBlock == Lowest(Blocks \ used)

(* Fault: the data pool is not asked what it has handed out.               *)
FirstSlot(r) == Lowest(Slots(r))

(* Fault: the slots are counted from 0, and one too many is handed out.    *)
SlotFromZero(r) == Lowest((0 .. Capacity[r]) \ pool[r])

FreeSlot(r) == Lowest(Slots(r) \ pool[r])

(* emma_resource_add on a name that is not there; l is what the lookup of  *)
(* u found. The block is cleaned before the code looks whether it got one. *)
AddNoBlock(u, l) ==
  /\ l.resource = NULL
  /\ used = Blocks
  /\ fault' = TRUE
  /\ UNCHANGED <<used, blk, list, pool, lastModifier, it>>

AddRootFull(u, l) ==
  /\ l.resource = NULL
  /\ used # Blocks
  /\ pool[u.root] = Slots(u.root)
  /\ blk' = [blk EXCEPT ![FreeBlock] = Cleaned(FreeBlock)]
  /\ UNCHANGED <<used, list, pool, lastModifier, it, fault>>

(* The block and the data are taken.                                       *)
CanTake(u, l) ==
  /\ l.resource = NULL
  /\ used # Blocks
  /\ pool[u.root] # Slots(u.root)

(* Fault: an add starts the walk under way again.                          *)
TakeResets(u) ==
  /\ used' = used \cup {FreeBlock}
  /\ pool' = [pool EXCEPT ![u.root] = @ \cup {FreeSlot(u.root)}]
  /\ it' = AtRoot(1)
  /\ UNCHANGED <<lastModifier, fault>>

Take(u) ==
  /\ used' = used \cup {FreeBlock}
  /\ pool' = [pool EXCEPT ![u.root] = @ \cup {FreeSlot(u.root)}]
  /\ UNCHANGED <<lastModifier, it, fault>>

NewBlock(u, folder, first) ==
  BlockOf(u.path[Len(u.path)], FreeSlot(u.root), blk[FreeBlock].clocktime, folder, first)

(* Fault: the former head does not point back to the new one.              *)
LinkOneWay(u, folder, first) ==
  blk' = [c \in Blocks |->
            CASE c = FreeBlock -> NewBlock(u, folder, first)
              [] c # FreeBlock /\ c = folder -> [blk[c] EXCEPT !.subRoot = FreeBlock]
              [] c \notin {FreeBlock, folder} -> blk[c]]

(* The new block becomes the head of the list that started with first.     *)
LinkBefore(u, folder, first) ==
  blk' = [c \in Blocks |->
            CASE c = FreeBlock -> NewBlock(u, folder, first)
              [] c # FreeBlock /\ c = folder -> [blk[c] EXCEPT !.subRoot = FreeBlock]
              [] c # FreeBlock /\ c = first -> [blk[c] EXCEPT !.prev = FreeBlock]
              [] c \notin {FreeBlock, folder, first} -> blk[c]]

AddInFolder(u, l) ==
  /\ CanTake(u, l)
  /\ l.folder # NULL
  /\ Take(u)
  /\ LinkBefore(u, l.folder, blk[l.folder].subRoot)
  /\ UNCHANGED list

AddAtRoot(u, l) ==
  /\ CanTake(u, l)
  /\ Len(u.path) = 1
  /\ Take(u)
  /\ LinkBefore(u, NULL, list[u.root])
  /\ list' = [list EXCEPT ![u.root] = FreeBlock]

(* Fault: the folder is not there, and only the data is given back.        *)
AddFreesData(u, l) ==
  /\ CanTake(u, l)
  /\ Len(u.path) > 1 /\ l.folder = NULL
  /\ used' = used \cup {FreeBlock}
  /\ blk' = [blk EXCEPT ![FreeBlock] = NewBlock(u, NULL, NULL)]
  /\ UNCHANGED <<list, pool, lastModifier, it, fault>>

(* The folder is not there: code 5, with the block and the data kept.      *)
AddNoFolder(u, l) ==
  /\ CanTake(u, l)
  /\ Len(u.path) > 1 /\ l.folder = NULL
  /\ Take(u)
  /\ blk' = [blk EXCEPT ![FreeBlock] = NewBlock(u, NULL, NULL)]
  /\ UNCHANGED list

Add(u, l) ==
  \/ AddNoBlock(u, l)
  \/ AddRootFull(u, l)
  \/ AddInFolder(u, l)
  \/ AddAtRoot(u, l)
  \/ AddNoFolder(u, l)

(* emma_resource_del resets the iterator first, whatever it then does.     *)
DelRefused(l) ==
  /\ l.resource # NULL => blk[l.resource].subRoot # NULL
  /\ it' = AtRoot(1)
  /\ UNCHANGED <<used, blk, list, pool, lastModifier, fault>>

(* Fault: the folder keeps pointing to what was first in it.               *)
DelNoSubRoot(u, l) ==
  LET b == l.resource
      first == l.previousResource = b
  IN /\ b # NULL
     /\ blk[b].subRoot = NULL
     /\ used' = used \ {b}
     /\ pool' = [pool EXCEPT ![u.root] = @ \ {blk[b].data}]
     /\ list' = IF first /\ l.folder = NULL
                THEN [list EXCEPT ![u.root] = blk[b].next] ELSE list
     /\ blk' = [c \in Blocks |->
                  IF ~first /\ c = l.previousResource THEN [blk[c] EXCEPT !.next = blk[b].next]
                  ELSE blk[c]]
     /\ it' = AtRoot(1)
     /\ UNCHANGED <<lastModifier, fault>>

(* The block is freed with its content as it was.                          *)
DelUnlinked(u, l) ==
  LET b == l.resource
      first == l.previousResource = b
      before == IF first THEN l.folder ELSE l.previousResource
  IN /\ b # NULL
     /\ blk[b].subRoot = NULL
     /\ used' = used \ {b}
     /\ pool' = [pool EXCEPT ![u.root] = @ \ {blk[b].data}]
     /\ list' = IF first /\ l.folder = NULL
                THEN [list EXCEPT ![u.root] = blk[b].next] ELSE list
     /\ blk' = [c \in Blocks |->
                  IF c = blk[b].next THEN [blk[c] EXCEPT !.prev = before]
                  ELSE IF c # before THEN blk[c]
                  ELSE IF first THEN [blk[c] EXCEPT !.subRoot = blk[b].next]
                  ELSE [blk[c] EXCEPT !.next = blk[b].next]]
     /\ it' = AtRoot(1)
     /\ UNCHANGED <<lastModifier, fault>>

Del(u, l) == DelRefused(l) \/ DelUnlinked(u, l)

SetField(l, new) ==
  /\ l.resource # NULL
  /\ blk' = [blk EXCEPT ![l.resource] = new]
  /\ UNCHANGED <<used, list, pool, it, fault>>

Lock(l) ==
  /\ SetField(l, [blk[l.resource] EXCEPT !.mutex = TRUE])
  /\ UNCHANGED lastModifier

Release(l) ==
  /\ SetField(l, [blk[l.resource] EXCEPT !.mutex = FALSE])
  /\ UNCHANGED lastModifier

SetLastModified(l, k) ==
  /\ SetField(l, [blk[l.resource] EXCEPT !.lastModified = k])
  /\ lastModifier' = k

SetClocktime(l, t) ==
  /\ SetField(l, [blk[l.resource] EXCEPT !.clocktime = t])
  /\ UNCHANGED lastModifier

(* With the uri NULL only the global is set.                               *)
SetLastModifiedNode(k) ==
  /\ lastModifier' = k
  /\ UNCHANGED <<used, blk, list, pool, it, fault>>

(* get_next_resource_name_by_root(r, ...): a walk that starts, and with 0, *)
(* one that goes on. Past the last root the call returns at once. A walk   *)
(* that does not end never returns: the node stays in it.                  *)
Walk(i) ==
  /\ IF Ends(i) THEN it' = Stepped(i).it /\ UNCHANGED fault
     ELSE fault' = TRUE /\ UNCHANGED it
  /\ UNCHANGED <<used, blk, list, pool, lastModifier>>

StartWalk(r) == Walk(AtRoot(r))

ContinueWalk == it.rootTmp <= Len(RootSeq) /\ Walk(it)

-----------------------------------------------------------------------------

Block == [name : STRING \cup {NoName}, data : Nat, mutex : BOOLEAN, lastModified : Keys,
          clocktime : Times, prev : Links, next : Links,
          subRoot : Links]

(* emma_resource_init: root_system_init has added the resources of S, one  *)
(* at the head of the other, so the first of the list has the last block.  *)
Init ==
  LET n == Len(BootNames) IN
  /\ used = 1 .. n
  /\ blk = [b \in Blocks |->
              IF b > n THEN EmptyBlock
              ELSE BlockOf(BootNames[n + 1 - b], b, 0,
                           IF b = n THEN NULL ELSE b + 1, b - 1)]
  /\ list = [r \in Roots |-> IF r = "S" THEN n ELSE NULL]
  /\ pool = [r \in Roots |-> IF r = "S" THEN 1 .. n ELSE {}]
  /\ lastModifier = 0
  /\ it = [rootTmp |-> 1, previous |-> NULL, next |-> NULL, current |-> NULL]
  /\ fault = FALSE

Next ==
  /\ ~fault
  /\ \/ \E u \in Uris : \E l \in {Lookup(u)} :
          \/ Add(u, l) \/ Del(u, l) \/ Lock(l) \/ Release(l)
          \/ \E k \in Keys : SetLastModified(l, k)
          \/ \E t \in Times : SetClocktime(l, t)
     \/ \E k \in Keys : SetLastModifiedNode(k)
     \/ \E r \in 1 .. Len(RootSeq) : StartWalk(r)
     \/ ContinueWalk

Spec == Init /\ [][Next]_vars

-----------------------------------------------------------------------------
(* Properties.                                                             *)

(* The blocks below first, a folder's content before the folder, as deep   *)
(* as blocks can be linked.                                                *)
PostOrder(first) ==
  LET below[s \in [left : 0 .. MaxResources, block : Links]] ==
        IF s.left = 0 \/ s.block = NULL THEN <<>>
        ELSE below[[left |-> s.left - 1, block |-> blk[s.block].subRoot]]
               \o <<s.block>> \o below[[left |-> s.left - 1, block |-> blk[s.block].next]]
  IN below[[left |-> MaxResources, block |-> first]]

LinkedAt(r) == {PostOrder(list[r])[i] : i \in 1 .. Len(PostOrder(list[r]))}

TypeOK ==
  /\ used \subseteq Blocks
  /\ blk \in [Blocks -> Block]
  /\ list \in [Roots -> Links]
  /\ \A r \in Roots : pool[r] \subseteq Slots(r)
  /\ lastModifier \in Keys
  /\ it \in Iterators

(* Linking and unlinking keep the lists doubly linked: the block before a  *)
(* block is its predecessor or, for the first of a folder, the folder; the *)
(* lookup and the iterator's way back both rely on it.                     *)
WellLinked ==
  /\ \A r \in Roots : list[r] # NULL => blk[list[r]].prev = NULL
  /\ \A r \in Roots, b \in Blocks : b \in LinkedAt(r) =>
       /\ b \in used
       /\ blk[b].next # NULL => blk[blk[b].next].prev = b
       /\ blk[b].subRoot # NULL => blk[blk[b].subRoot].prev = b

(* No block is linked twice, and no two resources of a root share the data *)
(* slot one of them would give back while the other still uses it.         *)
NothingShared ==
  \A r \in Roots :
    LET walk == PostOrder(list[r]) IN
    /\ \A i, j \in 1 .. Len(walk) : i # j =>
         walk[i] # walk[j] /\ blk[walk[i]].data # blk[walk[j]].data
    /\ \A b \in LinkedAt(r) : blk[b].data \in pool[r]
    /\ \A q \in Roots \ {r} : LinkedAt(q) \cap LinkedAt(r) = {}

(* A walk that nobody disturbs meets the resources of a root one after the *)
(* other, a folder after its content, and then ends (emma-resource.h:140). *)
WalkMeetsEach ==
  \A r \in 1 .. Len(RootSeq) : Meets(AtRoot(r)) = PostOrder(list[RootSeq[r]])

(* A resource added at a root while a walk is under way (between two calls *)
(* of its owner) neither hides a resource from the walk nor shows it one   *)
(* twice, as long as no folder has content.                                *)
AddsAtRootKeepWalk ==
  [][/\ \E u \in Uris : AddAtRoot(u, Lookup(u))
     /\ it.rootTmp <= Len(RootSeq)
     /\ {it.previous, it.current} \subseteq used \cup {NULL}
     /\ \A b \in used : blk[b].subRoot = NULL
     => Meets(it)' = Meets(it)]_vars

(* "a 0 indicates to the function that it should continue with the next    *)
(* resource" (emma-resource.h:140-141): a call with 0 returns.             *)
ContinuedWalkReturns == it.rootTmp <= Len(RootSeq) => Ends(it)

-----------------------------------------------------------------------------
(* The resource store this tree stands for: its resources are the uris the *)
(* lookup finds, walked in the order of the blocks.                        *)

NoUri == [root |-> "", path |-> <<>>]

(* The uris met along a list, folders' content first.                      *)
UriWalk(r) ==
  LET walk[s \in [left   : 0 .. MaxResources, block : Links,
                   folder : Seq(STRING \cup {NoName})]] ==
        IF s.left = 0 \/ s.block = NULL THEN <<>>
        ELSE LET path == Append(s.folder, blk[s.block].name)
             IN walk[[left |-> s.left - 1, block |-> blk[s.block].subRoot, folder |-> path]]
                  \o <<[root |-> r, path |-> path]>>
                  \o walk[[left |-> s.left - 1, block |-> blk[s.block].next, folder |-> s.folder]]
  IN walk[[left |-> MaxResources, block |-> list[r], folder |-> <<>>]]

StoreView ==
  LET view[at \in [Uris -> Links]] ==
        [tree         |-> [u \in {v \in Uris : at[v] # NULL} |->
                             [mutex        |-> blk[at[u]].mutex,
                              lastModified |-> blk[at[u]].lastModified,
                              clocktime    |-> blk[at[u]].clocktime]],
         order        |-> [r \in Roots |-> UriWalk(r)],
         blocks       |-> Cardinality(used),
         slots        |-> [r \in Roots |-> Cardinality(pool[r])],
         lastModifier |-> lastModifier,
         fault        |-> FALSE]
  IN view[[u \in Uris |-> Resource(u)]]
=============================================================================
