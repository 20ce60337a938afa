------------------------------- MODULE TreeStore -------------------------------
(***************************************************************************)
(* The refinement of ResourceStore by ResourceTree: view follows the store *)
(* that the blocks stand for.                                              *)
(***************************************************************************)
EXTENDS ResourceTree

(* The folder a uri is named in.                                           *)
Folder(u) == [u EXCEPT !.path = SubSeq(u.path, 1, Len(u.path) - 1)]

(* A folder is a name like any other, and no two resources of S have one   *)
(* (root-system.c).                                                        *)
ASSUME NamingAssumption ==
  /\ \A u \in Uris : Len(u.path) > 1 => Folder(u) \in Uris
  /\ \A i, j \in 1 .. Len(BootNames) : BootNames[i] = BootNames[j] => i = j

(* The pool of blocks is larger than the roots' pools together             *)
(* (emma-conf.h:68).                                                       *)
ASSUME PoolAssumption ==
  Capacity["A"] + Capacity["L"] + Capacity["S"] < MaxResources

VARIABLE view

ViewInit == Init /\ view = StoreView

ViewNext == Next /\ view' = StoreView'

ViewSpec == ViewInit /\ [][ViewNext]_<<vars, view>>

Parent == [u \in Uris |-> IF Len(u.path) = 1 THEN NoUri ELSE Folder(u)]

Store == INSTANCE ResourceStore WITH
  RootOf <- [u \in Uris |-> u.root],
  Boot <- [i \in 1 .. Len(BootNames) |-> [root |-> "S", path |-> <<BootNames[i]>>]],
  Nobody <- 0,
  store <- view

(* emma_resource_add cleans the block it was given before it looks whether *)
(* it was given one (emma-resource.c:498, :501). There is always one left: *)
(* whatever was linked, unlinked, refused and leaked, as many blocks are   *)
(* out as data slots, and the roots have fewer of these.                   *)
PoolNeverExhausted == used # Blocks /\ Store!BlocksAccounted(view)

(* Every call does to the pointers what ResourceStore says it does to the  *)
(* resources, whatever was linked, unlinked and leaked before.             *)
ImplementsStore == Store!Spec
=============================================================================
