--------------------------- MODULE ResourceTreeProofs ---------------------------
(***************************************************************************)
(* Whatever is added, deleted and leaked, for pools of any size and names  *)
(* of any depth: the linked blocks are a forest, linked both ways, and no  *)
(* two of them share a data slot.                                          *)
(***************************************************************************)
EXTENDS ResourceTree, FiniteSetTheorems, WellFoundedInduction, TLAPS

-----------------------------------------------------------------------------
(* Induction and recursion. A property is a set here: the set of what has  *)
(* it is all there is, for what has it not would have a least element.     *)

(* A set of numbers that is not empty has a least one.                     *)
LEMMA LeastNumber ==
  ASSUME NEW S \in SUBSET Nat, S # {}
  PROVE  \E x \in S : \A y \in S : x <= y
<1>1. PICK x \in S : \A y \in S : ~(<<y, x>> \in OpToRel(<, Nat))
  BY NatLessThanWellFounded, WFMin
<1>2. ASSUME NEW y \in S
      PROVE  x <= y
  <2>1. ~(y < x)
    BY <1>1, Zenon DEF OpToRel
  <2> QED
    BY <2>1, SMT
<1> QED
  BY <1>2

(* What the members of a set have if all those of lower rank have it.      *)
LEMMA RankInduction ==
  ASSUME NEW D, NEW rank \in [D -> Nat], NEW Good \in SUBSET D,
         \A s \in D : (\A t \in D : rank[t] < rank[s] => t \in Good) => s \in Good
  PROVE  Good = D
<1> DEFINE Bad == {rank[s] : s \in D \ Good}
<1>1. SUFFICES ASSUME D \ Good # {} PROVE FALSE
  OBVIOUS
<1>2. Bad \in SUBSET Nat /\ Bad # {}
  BY <1>1
<1> HIDE DEF Bad
<1>3. PICK n \in Bad : \A m \in Bad : n <= m
  BY <1>2, LeastNumber
<1>4. PICK s \in D \ Good : n = rank[s]
  BY <1>3 DEF Bad
<1>5. ASSUME NEW t \in D, rank[t] < rank[s], t \notin Good PROVE FALSE
  <2>1. rank[t] \in Bad
    BY <1>5 DEF Bad
  <2> QED
    BY <2>1, <1>3, <1>4, <1>5
<1> QED
  BY <1>4, <1>5

(* What 0 and the successors of all that have it have.                     *)
LEMMA NumberInduction ==
  ASSUME NEW Good \in SUBSET Nat, 0 \in Good, \A k \in Good : k + 1 \in Good
  PROVE  \A n \in Nat : n \in Good
<1>1. SUFFICES ASSUME Nat \ Good # {} PROVE FALSE
  OBVIOUS
<1>2. PICK n \in Nat \ Good : \A m \in Nat \ Good : n <= m
  BY <1>1, LeastNumber
<1>3. n # 0 /\ n - 1 \in Nat /\ n - 1 \in Good
  BY <1>2
<1>4. (n - 1) + 1 = n
  BY <1>2
<1> QED
  BY <1>2, <1>3, <1>4

(* A loop over D that goes on to what has a lower rank until it is in Stop.*)
Descends(D, Stop, next, rank, N) ==
  /\ N \in Nat /\ rank \in [D -> 0 .. N]
  /\ \A s \in D \ Stop : next[s] \in D /\ rank[next[s]] < rank[s]

IsLoop(f, D, Stop, next, out) ==
  f = [s \in D |-> IF s \in Stop THEN out[s] ELSE f[next[s]]]

(* There is such a function.                                               *)
LEMMA TailRecursion ==
  ASSUME NEW D, NEW Stop, NEW next, NEW rank, NEW N, Descends(D, Stop, next, rank, N), NEW out
  PROVE  \E f : IsLoop(f, D, Stop, next, out)
<1> USE DEF Descends, IsLoop
<1> DEFINE Upto(k, f) == \A s \in D : rank[s] < k =>
                            f[s] = IF s \in Stop THEN out[s] ELSE f[next[s]]
           Good == {k \in Nat : \E f : f = [s \in D |-> f[s]] /\ Upto(k, f)}
<1>1. 0 \in Good
  <2> DEFINE f == [s \in D |-> s]
  <2>1. f = [s \in D |-> f[s]] /\ Upto(0, f)
    OBVIOUS
  <2> HIDE DEF f
  <2> QED
    BY <2>1
<1>2. ASSUME NEW k \in Good PROVE k + 1 \in Good
  <2>1. PICK f : f = [s \in D |-> f[s]] /\ Upto(k, f)
    OBVIOUS
  <2> DEFINE g == [s \in D |-> IF s \in Stop THEN out[s] ELSE f[next[s]]]
  <2>2. g = [s \in D |-> g[s]]
    OBVIOUS
  <2>3. ASSUME NEW s \in D, rank[s] < k + 1
        PROVE  g[s] = IF s \in Stop THEN out[s] ELSE g[next[s]]
    <3>1. CASE s \in Stop
      BY <3>1
    <3>2. CASE s \notin Stop
      <4>1. next[s] \in D /\ rank[next[s]] < k
        BY <3>2, <2>3
      <4>2. f[next[s]] = IF next[s] \in Stop THEN out[next[s]] ELSE f[next[next[s]]]
        BY <4>1, <2>1
      <4>3. g[next[s]] = f[next[s]]
        BY <4>1, <4>2
      <4> QED
        BY <3>2, <4>3
    <3> QED
      BY <3>1, <3>2
  <2>4. Upto(k + 1, g)
    BY <2>3
  <2> HIDE DEF g
  <2> QED
    BY <2>2, <2>4
<1>3. N + 1 \in Good
  <2>1. Good \in SUBSET Nat
    OBVIOUS
  <2> HIDE DEF Good
  <2> QED
    BY <1>1, <1>2, <2>1, NumberInduction
<1>4. PICK f : f = [s \in D |-> f[s]] /\ Upto(N + 1, f)
  BY <1>3
<1>5. \A s \in D : f[s] = IF s \in Stop THEN out[s] ELSE f[next[s]]
  BY <1>4
<1>6. f = [s \in D |-> IF s \in Stop THEN out[s] ELSE f[next[s]]]
  <2>1. [s \in D |-> f[s]] = [s \in D |-> IF s \in Stop THEN out[s] ELSE f[next[s]]]
    BY <1>5
  <2> QED
    BY <1>4, <2>1, Zenon
<1> QED
  BY <1>6, Zenon

(* What holds when it starts, and then as long as it goes on, holds where  *)
(* it ends.                                                                *)
LEMMA LoopRule ==
  ASSUME NEW D, NEW Stop, NEW next, NEW rank, NEW N, Descends(D, Stop, next, rank, N),
         NEW out, NEW f, IsLoop(f, D, Stop, next, out),
         NEW Good \in SUBSET D, \A s \in Good \ Stop : next[s] \in Good
  PROVE  \A s \in Good : \E t \in Good \cap Stop : f[s] = out[t]
<1> USE DEF Descends, IsLoop
<1> DEFINE Fine == {s \in D : s \in Good => \E t \in Good \cap Stop : f[s] = out[t]}
<1>1. ASSUME NEW s \in D, \A t \in D : rank[t] < rank[s] => t \in Fine
      PROVE  s \in Fine
  <2>1. SUFFICES ASSUME s \in Good PROVE \E t \in Good \cap Stop : f[s] = out[t]
    OBVIOUS
  <2>2. f[s] = IF s \in Stop THEN out[s] ELSE f[next[s]]
    OBVIOUS
  <2>3. CASE s \in Stop
    BY <2>1, <2>2, <2>3
  <2>4. CASE s \notin Stop
    <3>1. next[s] \in Good /\ next[s] \in Fine
      BY <1>1, <2>1, <2>4
    <3> QED
      BY <2>2, <2>4, <3>1
  <2> QED
    BY <2>3, <2>4
<1>2. Fine = D
  <2>1. Fine \in SUBSET D /\ rank \in [D -> Nat]
    OBVIOUS
  <2>2. \A s \in D : (\A t \in D : rank[t] < rank[s] => t \in Fine) => s \in Fine
    BY <1>1
  <2> HIDE DEF Fine
  <2> QED
    BY <2>1, <2>2, RankInduction
<1> QED
  BY <1>2

-----------------------------------------------------------------------------
(* The lookup, with what it has found last at each level.                  *)

LinksTyped ==
  /\ MaxResources \in Nat
  /\ \A b \in Blocks : blk[b].next \in Links /\ blk[b].subRoot \in Links /\ blk[b].prev \in Links

Scans == [left : 0 .. MaxResources, previousResource : Links, resource : Links]

ScanEnds(s, name) == s.left = 0 \/ s.resource = NULL \/ blk[s.resource].name = name

ScanGoesOn(s) ==
  [left |-> s.left - 1, previousResource |-> s.resource, resource |-> blk[s.resource].next]

(* Whatever the first block of a list and each step along it keep, holds   *)
(* of what is found on it (emma-resource.c:177-188).                       *)
LEMMA OnListKeeps ==
  ASSUME LinksTyped, NEW first \in Links, NEW name, NEW Good \in SUBSET Scans,
         [left |-> MaxResources, previousResource |-> first, resource |-> first] \in Good,
         \A s \in Good : ~ScanEnds(s, name) => ScanGoesOn(s) \in Good
  PROVE  OnList(first, name) \in Good /\ ScanEnds(OnList(first, name), name)
<1> DEFINE Stop == {s \in Scans : ScanEnds(s, name)}
           rank == [s \in Scans |-> s.left]
           id == [s \in Scans |-> s]
           next == [s \in Scans |-> ScanGoesOn(s)]
           Scan(f) == f = [s \in Scans |-> IF ScanEnds(s, name) THEN s ELSE f[ScanGoesOn(s)]]
           start == [left |-> MaxResources, previousResource |-> first, resource |-> first]
<1>1. OnList(first, name) = (CHOOSE f : Scan(f))[start]
  BY DEF OnList, Scans, ScanEnds, ScanGoesOn
<1>2. Descends(Scans, Stop, next, rank, MaxResources)
  <2>1. ASSUME NEW s \in Scans \ Stop PROVE next[s] \in Scans /\ rank[next[s]] < rank[s]
    <3>1. s.left \in 1 .. MaxResources /\ s.resource \in Blocks
      BY DEF Scans, ScanEnds, LinksTyped, Links
    <3>2. ScanGoesOn(s) \in Scans /\ ScanGoesOn(s).left < s.left
      BY <3>1 DEF ScanGoesOn, Scans, LinksTyped, Links
    <3> QED
      BY <3>2
  <2>2. rank \in [Scans -> 0 .. MaxResources] /\ MaxResources \in Nat
    BY DEF Scans, LinksTyped
  <2> QED
    BY <2>1, <2>2 DEF Descends
<1>3. \A f : Scan(f) <=> IsLoop(f, Scans, Stop, next, id)
  <2>1. ASSUME NEW f
        PROVE  [s \in Scans |-> IF ScanEnds(s, name) THEN s ELSE f[ScanGoesOn(s)]]
                 = [s \in Scans |-> IF s \in Stop THEN id[s] ELSE f[next[s]]]
    OBVIOUS
  <2> QED
    BY <2>1, Zenon DEF IsLoop
<1> HIDE DEF Stop, rank, id, next
<1>4. \E f : Scan(f)
  <2>1. \E f : IsLoop(f, Scans, Stop, next, id)
    BY <1>2, TailRecursion
  <2> QED
    BY <2>1, <1>3, Zenon
<1> DEFINE scan == CHOOSE f : Scan(f)
<1>5. Scan(scan)
  BY <1>4, Zenon
<1> HIDE DEF scan
<1>6. IsLoop(scan, Scans, Stop, next, id)
  BY <1>3, <1>5, Zenon
<1>8. \A s \in Good \ Stop : next[s] \in Good
  BY DEF Stop, next
<1>9. \A s \in Good : \E t \in Good \cap Stop : scan[s] = id[t]
  BY <1>2, <1>6, <1>8, LoopRule
<1>10. PICK t \in Good \cap Stop : scan[start] = id[t]
  BY <1>9
<1>11. OnList(first, name) = t
  <2>1. OnList(first, name) = scan[start]
    BY <1>1, Zenon DEF scan
  <2> QED
    BY <2>1, <1>10 DEF id
<1> QED
  BY <1>10, <1>11 DEF Stop

LookupStates(u) == [level : 1 .. Len(u.path), folder : Links, first : Links]

LookupHit(u, s) == OnList(s.first, u.path[s.level])

LookupEnds(u, s) == s.level = Len(u.path) \/ LookupHit(u, s).resource = NULL

LookupNext(u, s) ==
  [level |-> s.level + 1, folder |-> LookupHit(u, s).resource,
   first |-> blk[LookupHit(u, s).resource].subRoot]

LookupResult(u, s) ==
  [folder |-> IF s.level = Len(u.path) THEN s.folder ELSE NULL,
   previousResource |-> LookupHit(u, s).previousResource,
   resource |-> LookupHit(u, s).resource]

(* The block found on a list is one of the pool, or none.                  *)
LEMMA HitTyped ==
  ASSUME LinksTyped, NEW first \in Links, NEW name
  PROVE  OnList(first, name) \in Scans
<1> DEFINE Good == Scans
<1>1. /\ Good \in SUBSET Scans
      /\ [left |-> MaxResources, previousResource |-> first, resource |-> first] \in Good
  BY DEF Scans, LinksTyped
<1>2. \A s \in Good : ~ScanEnds(s, name) => ScanGoesOn(s) \in Good
  BY DEF ScanEnds, ScanGoesOn, Scans, LinksTyped, Links
<1> HIDE DEF Good
<1>3. OnList(first, name) \in Good
  BY <1>1, <1>2, OnListKeeps
<1> QED
  BY <1>3 DEF Good

(* Whatever the list of the root and each step down to the content of the  *)
(* folder that was found keep, holds of what the lookup ends with          *)
(* (emma-resource.c:142-207).                                              *)
LEMMA LookupKeeps ==
  ASSUME LinksTyped, NEW u, u.path \in Seq(STRING), u.path # <<>>, list[u.root] \in Links,
         NEW Good \in SUBSET LookupStates(u),
         [level |-> 1, folder |-> NULL, first |-> list[u.root]] \in Good,
         \A s \in Good : ~LookupEnds(u, s) => LookupNext(u, s) \in Good
  PROVE  \E s \in Good : LookupEnds(u, s) /\ Lookup(u) = LookupResult(u, s)
<1> DEFINE D == LookupStates(u)
           Stop == {s \in D : LookupEnds(u, s)}
           rank == [s \in D |-> Len(u.path) - s.level]
           out == [s \in D |-> LookupResult(u, s)]
           next == [s \in D |-> LookupNext(u, s)]
           At(f) == f = [s \in D |-> IF LookupEnds(u, s) THEN LookupResult(u, s)
                                     ELSE f[LookupNext(u, s)]]
           start == [level |-> 1, folder |-> NULL, first |-> list[u.root]]
<1>1. Lookup(u) = (CHOOSE f : At(f))[start]
  BY Zenon DEF Lookup, LookupStates, LookupEnds, LookupNext, LookupResult, LookupHit
<1>2. Descends(D, Stop, next, rank, Len(u.path))
  <2>0. Len(u.path) \in Nat
    OBVIOUS
  <2>1. ASSUME NEW s \in D \ Stop PROVE next[s] \in D /\ rank[next[s]] < rank[s]
    <3>1. s.level \in 1 .. Len(u.path) /\ s.level # Len(u.path) /\ s.first \in Links
      BY DEF LookupStates, LookupEnds
    <3>2. LookupHit(u, s) \in Scans /\ LookupHit(u, s).resource # NULL
      BY <3>1, HitTyped DEF LookupHit, LookupEnds
    <3>3. LookupHit(u, s).resource \in Blocks
      BY <3>2 DEF Scans, Links
    <3>4. LookupNext(u, s) \in D /\ LookupNext(u, s).level = s.level + 1
      BY <2>0, <3>1, <3>3 DEF LookupNext, LookupStates, LinksTyped, Links
    <3> QED
      BY <2>0, <3>1, <3>4
  <2>2. rank \in [D -> 0 .. Len(u.path)]
    BY <2>0 DEF LookupStates
  <2> QED
    BY <2>0, <2>1, <2>2 DEF Descends
<1>3. \A f : At(f) <=> IsLoop(f, D, Stop, next, out)
  <2>1. ASSUME NEW f
        PROVE  [s \in D |-> IF LookupEnds(u, s) THEN LookupResult(u, s) ELSE f[LookupNext(u, s)]]
                 = [s \in D |-> IF s \in Stop THEN out[s] ELSE f[next[s]]]
    OBVIOUS
  <2> QED
    BY <2>1, Zenon DEF IsLoop
<1>4. \A s \in Good \ Stop : next[s] \in Good
  OBVIOUS
<1> HIDE DEF D, Stop, rank, out, next
<1>5. \E f : At(f)
  <2>1. \E f : IsLoop(f, D, Stop, next, out)
    BY <1>2, TailRecursion
  <2> QED
    BY <2>1, <1>3, Zenon
<1> DEFINE at == CHOOSE f : At(f)
<1>6. At(at)
  BY <1>5, Zenon
<1> HIDE DEF at
<1>7. IsLoop(at, D, Stop, next, out)
  BY <1>3, <1>6, Zenon
<1>8. Good \in SUBSET D
  BY DEF D
<1>9. \A s \in Good : \E t \in Good \cap Stop : at[s] = out[t]
  BY <1>2, <1>4, <1>7, <1>8, LoopRule
<1>10. PICK t \in Good \cap Stop : at[start] = out[t]
  BY <1>9
<1>11. Lookup(u) = LookupResult(u, t)
  <2>1. Lookup(u) = at[start]
    BY <1>1, Zenon DEF at
  <2> QED
    BY <2>1, <1>8, <1>10 DEF out
<1> QED
  BY <1>10, <1>11 DEF Stop

-----------------------------------------------------------------------------
(* The forest. T[b] is what hangs at b: its content, itself and what is    *)
(* behind it on its list. Blocks that are free keep their old links, so    *)
(* only what hangs at the lists of the roots has to be in order.           *)

Hang(T, b) == IF b = NULL THEN {} ELSE T[b]

OfRoot(T, r) == Hang(T, list[r])

(* b and its links, in a root where At hangs.                              *)
InOrder(T, At, b) ==
  /\ b \in used /\ T[b] \subseteq At
  /\ blk[b].subRoot \in At \cup {NULL} /\ blk[b].next \in At \cup {NULL}
  /\ T[b] = Hang(T, blk[b].subRoot) \cup {b} \cup Hang(T, blk[b].next)
  /\ b \notin Hang(T, blk[b].subRoot) /\ b \notin Hang(T, blk[b].next)
  /\ Hang(T, blk[b].subRoot) \cap Hang(T, blk[b].next) = {}
  /\ blk[b].subRoot # NULL => blk[blk[b].subRoot].prev = b
  /\ blk[b].next # NULL => blk[blk[b].next].prev = b

Forest(T) ==
  /\ T \in [Blocks -> SUBSET Blocks]
  /\ \A r \in Roots : list[r] \in Links /\ list[r] \in OfRoot(T, r) \cup {NULL}
  /\ \A r \in Roots : list[r] # NULL => blk[list[r]].prev = NULL
  /\ \A r, q \in Roots : r # q => OfRoot(T, r) \cap OfRoot(T, q) = {}
  /\ \A r \in Roots : \A b \in OfRoot(T, r) : InOrder(T, OfRoot(T, r), b)

DataOwn(T) ==
  \A r \in Roots :
    /\ \A b \in OfRoot(T, r) : blk[b].data \in pool[r]
    /\ \A b, c \in OfRoot(T, r) : b # c => blk[b].data # blk[c].data

(* What a lookup in the root r finds: the folder, and the block before the *)
(* resource, itself if it is the first of its list.                        *)
Found(T, r, l) ==
  /\ l.folder \in OfRoot(T, r) \cup {NULL}
  /\ l.resource # NULL =>
       /\ l.resource \in OfRoot(T, r)
       /\ \/ /\ l.previousResource = l.resource
             /\ l.resource = IF l.folder = NULL THEN list[r] ELSE blk[l.folder].subRoot
          \/ /\ l.previousResource \in OfRoot(T, r) \ {l.resource}
             /\ blk[l.previousResource].next = l.resource

LEMMA ForestIsBlocks ==
  ASSUME NEW T, Forest(T), NEW r \in Roots
  PROVE  OfRoot(T, r) \in SUBSET Blocks
BY DEF Forest, OfRoot, Hang, Links

(* On a list that is in order, what is found is behind what is before it.  *)
LEMMA HitInOrder ==
  ASSUME NEW T, LinksTyped, Forest(T), NEW r \in Roots, NEW first \in OfRoot(T, r) \cup {NULL}, NEW name,
         NEW hit, hit = OnList(first, name)
  PROVE  /\ hit.resource \in OfRoot(T, r) \cup {NULL}
         /\ hit.resource # NULL =>
              \/ hit.previousResource = hit.resource /\ hit.resource = first
              \/ /\ hit.previousResource \in OfRoot(T, r) \ {hit.resource}
                 /\ blk[hit.previousResource].next = hit.resource
<1> DEFINE At == OfRoot(T, r)
           Good == {s \in Scans :
                      /\ s.resource \in At \cup {NULL}
                      /\ \/ s.previousResource = s.resource /\ s.resource = first
                         \/ s.previousResource \in At /\ blk[s.previousResource].next = s.resource}
           start == [left |-> MaxResources, previousResource |-> first, resource |-> first]
<1>0. At \in SUBSET Blocks /\ first \in Links
  BY ForestIsBlocks DEF Links
<1>1. start \in Good
  BY <1>0 DEF Scans, LinksTyped
<1>2. ASSUME NEW s \in Good, ~ScanEnds(s, name) PROVE ScanGoesOn(s) \in Good
  <2>1. s.left \in 1 .. MaxResources /\ s.resource \in At
    BY <1>2 DEF Scans, ScanEnds, LinksTyped
  <2>2. InOrder(T, At, s.resource)
    BY <2>1 DEF Forest
  <2>3. ScanGoesOn(s) \in Scans
    BY <2>1, <1>0 DEF ScanGoesOn, Scans, LinksTyped, Links
  <2>4. /\ ScanGoesOn(s).previousResource = s.resource
        /\ ScanGoesOn(s).resource = blk[s.resource].next
        /\ blk[s.resource].next \in At \cup {NULL}
    BY <2>2 DEF ScanGoesOn, InOrder
  <2> QED
    BY <2>1, <2>3, <2>4
<1>3. Good \in SUBSET Scans
  OBVIOUS
<1> HIDE DEF Good
<1>4. OnList(first, name) \in Good
  BY <1>0, <1>1, <1>2, <1>3, OnListKeeps
<1>5. hit \in Good
  BY <1>4, Zenon
<1>6. ASSUME hit.previousResource \in At, hit.resource # NULL, blk[hit.previousResource].next = hit.resource
      PROVE  hit.previousResource # hit.resource
  <2>1. InOrder(T, At, hit.previousResource)
    BY <1>6 DEF Forest
  <2> QED
    BY <1>0, <1>6, <2>1 DEF InOrder, Hang, Forest
<1>7. /\ hit.resource \in At \cup {NULL}
      /\ hit.resource # NULL =>
           \/ hit.previousResource = hit.resource /\ hit.resource = first
           \/ /\ hit.previousResource \in At \ {hit.resource}
              /\ blk[hit.previousResource].next = hit.resource
  BY <1>5, <1>6 DEF Good
<1> QED
  BY <1>7

(* What the lookup of a name finds hangs at the root of the name, and what *)
(* comes before it links to it.                                            *)
LEMMA LookupFinds ==
  ASSUME NEW T, LinksTyped, Forest(T), NEW u \in Uris
  PROVE  Found(T, u.root, Lookup(u))
<1> DEFINE At == OfRoot(T, u.root)
           Good == {s \in LookupStates(u) :
                      /\ s.folder \in At \cup {NULL}
                      /\ s.first \in At \cup {NULL}
                      /\ s.first = IF s.folder = NULL THEN list[u.root] ELSE blk[s.folder].subRoot}
           start == [level |-> 1, folder |-> NULL, first |-> list[u.root]]
<1>0. /\ u.root \in Roots /\ u.path \in Seq(STRING) /\ u.path # <<>>
      /\ Len(u.path) \in Nat /\ 1 \in 1 .. Len(u.path)
  BY TreeAssumption
<1>1. At \in SUBSET Blocks /\ list[u.root] \in Links /\ list[u.root] \in At \cup {NULL}
  BY <1>0, ForestIsBlocks DEF Forest
<1>2. start \in Good
  BY <1>0, <1>1 DEF LookupStates, Links
<1>3. ASSUME NEW s \in Good PROVE
        /\ LookupHit(u, s).resource \in At \cup {NULL}
        /\ LookupHit(u, s).resource # NULL =>
              \/ LookupHit(u, s).previousResource = LookupHit(u, s).resource /\ LookupHit(u, s).resource = s.first
              \/ /\ LookupHit(u, s).previousResource \in At \ {LookupHit(u, s).resource}
                 /\ blk[LookupHit(u, s).previousResource].next = LookupHit(u, s).resource
  <2>1. PICK hit : hit = LookupHit(u, s)
    OBVIOUS
  <2>2. PICK r, first, name : r = u.root /\ first = s.first /\ name = u.path[s.level]
    OBVIOUS
  <2>3. first \in OfRoot(T, r) \cup {NULL} /\ r \in Roots /\ hit = OnList(first, name)
    BY <1>0, <2>1, <2>2 DEF LookupHit
  <2> HIDE DEF Good
  <2>4. /\ hit.resource \in OfRoot(T, r) \cup {NULL}
        /\ hit.resource # NULL =>
              \/ hit.previousResource = hit.resource /\ hit.resource = first
              \/ /\ hit.previousResource \in OfRoot(T, r) \ {hit.resource}
                 /\ blk[hit.previousResource].next = hit.resource
    BY <2>3, HitInOrder
  <2> QED
    BY <2>1, <2>2, <2>4
<1>4. ASSUME NEW s \in Good, ~LookupEnds(u, s) PROVE LookupNext(u, s) \in Good
  <2> DEFINE b == LookupHit(u, s).resource
  <2>1. b \in At
    BY <1>3, <1>4 DEF LookupEnds
  <2>2. s.level + 1 \in 1 .. Len(u.path)
    BY <1>0, <1>4 DEF LookupEnds, LookupStates
  <2>3. InOrder(T, At, b)
    BY <1>0, <2>1 DEF Forest
  <2>4. /\ blk[b].subRoot \in At \cup {NULL} /\ b \in Blocks /\ b # NULL
        /\ blk[b].subRoot \in Links
    BY <1>1, <2>1, <2>3 DEF InOrder, Blocks, NULL, LinksTyped
  <2>5. /\ LookupNext(u, s).level = s.level + 1 /\ LookupNext(u, s).folder = b
        /\ LookupNext(u, s).first = blk[b].subRoot
        /\ LookupNext(u, s) \in LookupStates(u)
    BY <2>2, <2>4 DEF LookupNext, LookupStates, Links
  <2> HIDE DEF b
  <2> QED
    BY <2>1, <2>4, <2>5
<1>5. PICK s \in Good : LookupEnds(u, s) /\ Lookup(u) = LookupResult(u, s)
  <2>1. Good \in SUBSET LookupStates(u)
    OBVIOUS
  <2> HIDE DEF Good
  <2>2. \A s \in Good : ~LookupEnds(u, s) => LookupNext(u, s) \in Good
    BY <1>4
  <2>3. start \in Good
    BY <1>2
  <2> QED
    BY <1>0, <1>1, <2>1, <2>2, <2>3, LookupKeeps
<1>6. /\ Lookup(u).folder = IF s.level = Len(u.path) THEN s.folder ELSE NULL
      /\ Lookup(u).resource = LookupHit(u, s).resource
      /\ Lookup(u).previousResource = LookupHit(u, s).previousResource
  BY <1>5 DEF LookupResult
<1>7. /\ s.folder \in At \cup {NULL}
      /\ s.first = IF s.folder = NULL THEN list[u.root] ELSE blk[s.folder].subRoot
  OBVIOUS
<1>8. CASE s.level = Len(u.path)
  BY <1>3, <1>6, <1>7, <1>8 DEF Found
<1>9. CASE s.level # Len(u.path)
  <2>1. LookupHit(u, s).resource = NULL
    BY <1>5, <1>9 DEF LookupEnds
  <2> QED
    BY <1>6, <1>9, <2>1 DEF Found
<1> QED
  BY <1>8, <1>9

-----------------------------------------------------------------------------
(* Links: what the calls that add and delete do to the forest.             *)

(* The pools hand out what they have not handed out.                       *)
LEMMA LowestIs ==
  ASSUME NEW S \in SUBSET Nat, S # {}
  PROVE  Lowest(S) \in S
BY LeastNumber DEF Lowest

LEMMA FreeBlockIs ==
  ASSUME MaxResources \in Nat, used \subseteq Blocks, used # Blocks
  PROVE  FreeBlock \in Blocks \ used
<1>1. Blocks \ used # {}
  OBVIOUS
<1>2. Blocks \ used \in SUBSET Nat
  BY DEF Blocks
<1> QED
  BY <1>1, <1>2, LowestIs DEF FreeBlock

LEMMA FreeSlotIs ==
  ASSUME NEW r \in Roots, pool[r] \subseteq Slots(r), pool[r] # Slots(r)
  PROVE  FreeSlot(r) \in Slots(r) \ pool[r]
<1>1. Slots(r) \ pool[r] # {}
  OBVIOUS
<1>2. Slots(r) \ pool[r] \in SUBSET Nat
  BY TreeAssumption DEF Slots
<1> QED
  BY <1>1, <1>2, LowestIs DEF FreeSlot

(* What hangs at the blocks when n is linked before first, in folder or at *)
(* a root.                                                                 *)
Grown(T, n, folder, first) ==
  [x \in Blocks |->
     IF x = n THEN {n} \cup Hang(T, first)
     ELSE IF folder \in T[x] THEN T[x] \cup {n} ELSE T[x]]

(* A block that is free is linked as the head of a list.                   *)
LEMMA LinkInOrder ==
  ASSUME NEW T, Forest(T), NEW r \in Roots, NEW n \in Blocks \ used, NEW folder, NEW first,
         \/ folder = NULL /\ first = list[r] /\ list' = [list EXCEPT ![r] = n]
         \/ folder \in OfRoot(T, r) /\ first = blk[folder].subRoot /\ list' = list,
         list \in [Roots -> Links], used' = used \cup {n},
         blk'[n].subRoot = NULL, blk'[n].next = first, blk'[n].prev = folder,
         \A c \in Blocks \ {n} :
           /\ blk'[c].next = blk[c].next
           /\ blk'[c].subRoot = (IF c = folder THEN n ELSE blk[c].subRoot)
           /\ blk'[c].prev = (IF c = first THEN n ELSE blk[c].prev)
  PROVE  /\ Forest(Grown(T, n, folder, first))'
         /\ \A q \in Roots : OfRoot(Grown(T, n, folder, first), q)' =
                               IF q = r THEN OfRoot(T, r) \cup {n} ELSE OfRoot(T, q)
<1> DEFINE S == Grown(T, n, folder, first)
<1>a. PICK At : At = [q \in Roots |-> OfRoot(T, q)]
  OBVIOUS
<1>b. \/ folder = NULL /\ first = list[r] /\ list' = [list EXCEPT ![r] = n]
      \/ folder \in At[r] /\ first = blk[folder].subRoot /\ list' = list
  BY <1>a
<1>0. \A q \in Roots : At[q] \in SUBSET Blocks /\ At[q] \subseteq used /\ n \notin At[q]
  <2> TAKE q \in Roots
  <2>1. At[q] \in SUBSET Blocks
    BY <1>a, ForestIsBlocks
  <2>2. \A b \in At[q] : b \in used
    BY <1>a DEF Forest, InOrder
  <2> QED
    BY <2>1, <2>2
<1>1. NULL \notin Blocks /\ T \in [Blocks -> SUBSET Blocks]
  BY DEF NULL, Blocks, Forest
<1>2. \A q \in Roots : \A b \in At[q] : InOrder(T, At[q], b) /\ b \in T[b]
  <2> TAKE q \in Roots
  <2> TAKE b \in At[q]
  <2>1. InOrder(T, At[q], b)
    BY <1>a DEF Forest
  <2> QED
    BY <2>1 DEF InOrder
<1>3. /\ first \in At[r] \cup {NULL} /\ folder \in At[r] \cup {NULL}
      /\ folder \notin Hang(T, first) /\ n \notin Hang(T, first)
      /\ folder # NULL => folder # first
  <2>1. CASE folder = NULL /\ first = list[r]
    <3>1. Hang(T, first) = At[r] /\ first \in At[r] \cup {NULL}
      BY <2>1, <1>a DEF Forest, OfRoot
    <3> QED
      BY <2>1, <3>1, <1>0, <1>1
  <2>2. CASE folder \in At[r] /\ first = blk[folder].subRoot
    <3>1. InOrder(T, At[r], folder)
      BY <2>2, <1>2
    <3>2. first \in At[r] \cup {NULL} /\ folder \notin Hang(T, first) /\ folder # NULL
      BY <2>2, <3>1, <1>0, <1>1 DEF InOrder
    <3>3. folder # first
      BY <2>2, <3>2, <1>2 DEF Hang
    <3>4. n \notin Hang(T, first)
      <4>1. Hang(T, first) \subseteq T[folder] /\ T[folder] \subseteq At[r]
        BY <2>2, <3>1 DEF InOrder
      <4> QED
        BY <4>1, <1>0
    <3> QED
      BY <2>2, <3>2, <3>3, <3>4
  <2> QED
    BY <2>1, <2>2, <1>b
<1>4. \A x \in Links \ {n} : Hang(S, x) = IF folder \in Hang(T, x) THEN Hang(T, x) \cup {n} ELSE Hang(T, x)
  BY <1>1 DEF Grown, Hang, Links
<1>5. S \in [Blocks -> SUBSET Blocks] /\ S[n] = {n} \cup Hang(T, first) /\ n # NULL
  <2>1. Hang(T, first) \in SUBSET Blocks
    BY <1>0, <1>1, <1>3 DEF Hang
  <2> QED
    BY <2>1, <1>1 DEF Grown
<1>6. \A q \in Roots : Hang(S, list'[q]) = IF q = r THEN At[r] \cup {n} ELSE At[q]
  <2> TAKE q \in Roots
  <2>1. list[q] \in Links /\ At[q] = Hang(T, list[q]) /\ list[q] # n
    <3>1. list[q] \in Links /\ list[q] \in At[q] \cup {NULL}
      BY <1>a DEF Forest
    <3> QED
      BY <3>1, <1>0, <1>5, <1>a DEF OfRoot
  <2>2. CASE folder = NULL
    <3>1. folder \notin At[q]
      BY <2>2, <1>0, <1>1, <1>b
    <3>2. first = list[r] /\ list' = [list EXCEPT ![r] = n]
      BY <2>2, <1>0, <1>1, <1>b
    <3>3. CASE q = r
      <4>1. Hang(S, list'[q]) = S[n]
        BY <3>2, <3>3, <1>5 DEF Hang
      <4> QED
        BY <4>1, <2>1, <3>2, <3>3, <1>5
    <3>4. CASE q # r
      BY <3>1, <3>2, <3>4, <2>1, <1>4
    <3> QED
      BY <3>3, <3>4
  <2>3. CASE folder # NULL
    <3>1. folder \in At[r] /\ list' = list
      BY <2>3, <1>3, <1>b
    <3>2. folder \in At[q] <=> q = r
      BY <3>1, <1>a DEF Forest
    <3> QED
      BY <3>1, <3>2, <2>1, <1>4
  <2> QED
    BY <2>2, <2>3
<1> DEFINE AtP == [q \in Roots |-> IF q = r THEN At[r] \cup {n} ELSE At[q]]
<1>7. ASSUME NEW q \in Roots, NEW b \in At[q], b # folder
      PROVE  InOrder(S, AtP[q], b)'
  <2>1. InOrder(T, At[q], b) /\ b \in Blocks \ {n} /\ At[q] \in SUBSET Blocks
    BY <1>0, <1>2
  <2>2. blk'[b].next = blk[b].next /\ blk'[b].subRoot = blk[b].subRoot
    BY <2>1, <1>7
  <2> DEFINE sb == blk[b].subRoot
             nx == blk[b].next
  <2>3. /\ sb \in Links \ {n} /\ nx \in Links \ {n} /\ sb \in At[q] \cup {NULL} /\ nx \in At[q] \cup {NULL}
        /\ T[b] = Hang(T, sb) \cup {b} \cup Hang(T, nx)
        /\ b \notin Hang(T, sb) /\ b \notin Hang(T, nx) /\ Hang(T, sb) \cap Hang(T, nx) = {}
        /\ b \in used /\ T[b] \subseteq At[q]
        /\ sb # NULL => blk[sb].prev = b
        /\ nx # NULL => blk[nx].prev = b
    BY <2>1, <1>0, <1>1, <1>5 DEF InOrder, Links
  <2> HIDE DEF sb, nx
  <2>4. /\ Hang(S, sb) = IF folder \in Hang(T, sb) THEN Hang(T, sb) \cup {n} ELSE Hang(T, sb)
        /\ Hang(S, nx) = IF folder \in Hang(T, nx) THEN Hang(T, nx) \cup {n} ELSE Hang(T, nx)
        /\ S[b] = IF folder \in T[b] THEN T[b] \cup {n} ELSE T[b]
    BY <2>1, <2>3, <1>4 DEF Grown
  <2>5. S[b] = Hang(S, sb) \cup {b} \cup Hang(S, nx)
    BY <2>3, <2>4, <1>7
  <2>6. /\ b \notin Hang(S, sb) /\ b \notin Hang(S, nx)
    BY <2>1, <2>3, <2>4
  <2>7. Hang(S, sb) \cap Hang(S, nx) = {}
    <3>1. n \notin T[b]
      BY <2>3, <1>0
    <3> QED
      BY <3>1, <2>3, <2>4
  <2>8. S[b] \subseteq AtP[q]
    <3>1. folder \in T[b] => q = r
      BY <2>3, <1>0, <1>1, <1>3, <1>a DEF Forest
    <3> QED
      BY <3>1, <2>3, <2>4
  <2>9. /\ sb # NULL => sb # first
        /\ nx # NULL => nx # first
    <3>1. first # NULL => blk[first].prev = folder
      <4>1. CASE folder = NULL
        <5>1. first = list[r]
          BY <4>1, <1>0, <1>1, <1>b
        <5> QED
          BY <5>1, <4>1 DEF Forest
      <4>2. CASE folder # NULL
        <5>1. folder \in At[r] /\ first = blk[folder].subRoot
          BY <4>2, <1>3, <1>b
        <5> QED
          BY <5>1, <1>2 DEF InOrder
      <4> QED
        BY <4>1, <4>2
    <3> QED
      BY <3>1, <2>3, <1>7
  <2>10. /\ sb # NULL => blk'[sb].prev = b
         /\ nx # NULL => blk'[nx].prev = b
    BY <2>3, <2>9 DEF Links
  <2>11. b \in used'
    BY <2>3
  <2>12. sb \in AtP[q] \cup {NULL} /\ nx \in AtP[q] \cup {NULL}
    BY <2>3
  <2>13. blk'[b].next = nx /\ blk'[b].subRoot = sb
    BY <2>2 DEF sb, nx
  <2> QED
    BY <2>5, <2>6, <2>7, <2>8, <2>10, <2>11, <2>12, <2>13 DEF InOrder, Hang
<1>8. Hang(S, first) = Hang(T, first) /\ first \in Links \ {n} /\ first # n
  <2>1. first \in Links \ {n}
    BY <1>0, <1>3, <1>5 DEF Links
  <2> QED
    BY <2>1, <1>3, <1>4
<1>9. InOrder(S, AtP[r], n)'
  <2>1. blk'[n].subRoot = NULL /\ blk'[n].next = first /\ n \in used'
    OBVIOUS
  <2>2. S[n] = {n} \cup Hang(S, first) /\ n \notin Hang(S, first)
    BY <1>3, <1>5, <1>8
  <2>3. first # NULL => blk'[first].prev = n
    BY <1>8 DEF Links
  <2>4. Hang(S, first) \subseteq At[r] /\ first \in At[r] \cup {NULL}
    <3>1. CASE first = NULL
      BY <3>1, <1>8 DEF Hang
    <3>2. CASE first # NULL
      <4>1. first \in At[r] /\ T[first] \subseteq At[r]
        BY <3>2, <1>2, <1>3 DEF InOrder
      <4> QED
        BY <4>1, <3>2, <1>8 DEF Hang
    <3> QED
      BY <3>1, <3>2
  <2>5. Hang(S, NULL) = {}
    BY DEF Hang
  <2> QED
    BY <2>1, <2>2, <2>3, <2>4, <2>5 DEF InOrder
<1>10. ASSUME folder # NULL PROVE InOrder(S, AtP[r], folder)'
  <2>1. folder \in At[r] /\ first = blk[folder].subRoot /\ folder \in Blocks \ {n} /\ folder # first
    BY <1>0, <1>3, <1>10, <1>b
  <2>2. InOrder(T, At[r], folder)
    BY <1>2, <2>1
  <2> DEFINE nx == blk[folder].next
  <2>3. /\ nx \in At[r] \cup {NULL} /\ nx \in Links \ {n}
        /\ T[folder] = Hang(T, first) \cup {folder} \cup Hang(T, nx)
        /\ folder \notin Hang(T, nx) /\ Hang(T, first) \cap Hang(T, nx) = {}
        /\ folder \in used /\ T[folder] \subseteq At[r]
        /\ nx # NULL => blk[nx].prev = folder
    BY <2>1, <2>2, <1>0, <1>5 DEF InOrder, Links
  <2>4. blk'[folder].next = nx /\ blk'[folder].subRoot = n
    BY <2>1
  <2> HIDE DEF nx
  <2>5. /\ Hang(S, nx) = Hang(T, nx) /\ Hang(S, n) = {n} \cup Hang(T, first)
        /\ S[folder] = T[folder] \cup {n}
    BY <2>1, <2>3, <1>4, <1>5, ZenonT(40) DEF Grown, Hang
  <2>6. n \notin T[folder]
    BY <2>3, <1>0
  <2>7. nx # NULL => blk'[nx].prev = folder
    <3>1. nx # NULL => nx # first
      <4>1. nx # NULL => nx \in Hang(T, nx)
        BY <2>3, <1>2 DEF Hang
      <4>2. first # NULL => first \in Hang(T, first)
        BY <1>2, <1>3 DEF Hang
      <4> QED
        BY <4>1, <4>2, <2>3
    <3> QED
      BY <3>1, <2>3 DEF Links
  <2>8. blk'[n].prev = folder
    OBVIOUS
  <2>9. S[folder] \subseteq AtP[r] /\ n \in AtP[r] /\ nx \in AtP[r] \cup {NULL} /\ folder \in used'
    BY <2>3, <2>5
  <2>10. /\ S[folder] = Hang(S, n) \cup {folder} \cup Hang(S, nx)
         /\ folder \notin Hang(S, n) /\ folder \notin Hang(S, nx)
         /\ Hang(S, n) \cap Hang(S, nx) = {}
    BY <2>1, <2>3, <2>5, <2>6, <1>3
  <2> QED
    BY <2>4, <2>7, <2>8, <2>9, <2>10 DEF InOrder
<1>11. \A q \in Roots : OfRoot(S, q)' = AtP[q]
  BY <1>6 DEF OfRoot
<1>12. \A q \in Roots : \A b \in AtP[q] : InOrder(S, AtP[q], b)'
  <2> TAKE q \in Roots
  <2> TAKE b \in AtP[q]
  <2>1. CASE b = n
    <3>1. q = r
      BY <2>1, <1>0
    <3> QED
      BY <2>1, <3>1, <1>9
  <2>2. CASE b # n /\ b = folder
    <3>1. b \in At[q] /\ b \in Blocks
      BY <2>2, <1>0
    <3>2. folder # NULL /\ folder \in At[r]
      BY <2>2, <3>1, <1>1, <1>3
    <3>3. q = r
      BY <2>2, <3>1, <3>2, <1>a DEF Forest
    <3> QED
      BY <2>2, <3>2, <3>3, <1>10
  <2>3. CASE b # n /\ b # folder
    <3>1. b \in At[q]
      BY <2>3
    <3> QED
      BY <3>1, <2>3, <1>7
  <2> QED
    BY <2>1, <2>2, <2>3
<1>13. \A q \in Roots : list'[q] \in Links /\ list'[q] \in AtP[q] \cup {NULL}
  <2>1. \A q \in Roots : list[q] \in Links /\ list[q] \in At[q] \cup {NULL}
    BY <1>a DEF Forest
  <2> QED
    BY <2>1, <1>b DEF Links
<1>14. \A q \in Roots : list'[q] # NULL => blk'[list'[q]].prev = NULL
  <2> TAKE q \in Roots
  <2>1. SUFFICES ASSUME list'[q] # NULL PROVE blk'[list'[q]].prev = NULL
    OBVIOUS
  <2>2. CASE list'[q] = n
    <3>1. folder = NULL
      <4>1. list[q] # n
        <5>1. list[q] \in At[q] \cup {NULL}
          BY <1>a DEF Forest
        <5> QED
          BY <5>1, <1>0, <1>5
      <4> QED
        BY <4>1, <2>2, <1>b
    <3> QED
      BY <3>1, <2>2
  <2>3. CASE list'[q] # n
    <3>1. list'[q] = list[q] /\ list[q] \in At[q] /\ blk[list[q]].prev = NULL
      <4>1. list'[q] = list[q]
        BY <2>3, <1>b
      <4> QED
        BY <4>1, <2>1, <1>a DEF Forest
    <3>2. list[q] # first
      <4>1. CASE folder = NULL
        <5>1. first = list[r] /\ list' = [list EXCEPT ![r] = n]
          BY <4>1, <1>0, <1>1, <1>b
        <5>2. q # r
          BY <5>1, <2>3
        <5>3. At[q] \cap At[r] = {}
          BY <5>2, <1>a DEF Forest
        <5> QED
          BY <5>1, <5>3, <3>1, <1>3, <1>0, <1>1
      <4>2. CASE folder # NULL
        <5>1. first = blk[folder].subRoot /\ InOrder(T, At[r], folder)
          BY <4>2, <1>b, <1>2
        <5>2. first # NULL => blk[first].prev = folder
          BY <5>1 DEF InOrder
        <5> QED
          BY <5>2, <3>1, <4>2, <1>0, <1>1
      <4> QED
        BY <4>1, <4>2
    <3>3. list[q] \in Blocks \ {n}
      BY <3>1, <1>0
    <3> QED
      BY <3>1, <3>2, <3>3
  <2> QED
    BY <2>2, <2>3
<1>15. \A q, p \in Roots : q # p => AtP[q] \cap AtP[p] = {}
  <2>1. \A q, p \in Roots : q # p => At[q] \cap At[p] = {}
    BY <1>a DEF Forest
  <2> QED
    BY <2>1, <1>0
<1> HIDE DEF S, AtP
<1>16. Forest(S)'
  <2>1. \A q \in Roots : \A b \in OfRoot(S, q)' : InOrder(S, OfRoot(S, q), b)'
    <3> TAKE q \in Roots
    <3> TAKE b \in OfRoot(S, q)'
    <3>1. InOrder(S, AtP[q], b)' /\ OfRoot(S, q)' = AtP[q]
      BY <1>11, <1>12
    <3> QED
      BY <3>1 DEF InOrder
  <2>2. \A q \in Roots : list'[q] \in Links /\ list'[q] \in OfRoot(S, q)' \cup {NULL}
    BY <1>11, <1>13
  <2>3. \A q, p \in Roots : q # p => OfRoot(S, q)' \cap OfRoot(S, p)' = {}
    BY <1>11, <1>15
  <2> QED
    BY <2>1, <2>2, <2>3, <1>5, <1>14 DEF Forest
<1> QED
  BY <1>11, <1>16, <1>a DEF S, AtP

Shrunk(T, b) == [x \in Blocks |-> T[x] \ {b}]

(* Where a block is linked from: the root, the folder it is the first of,  *)
(* or the block before it.                                                 *)
LinkedFrom(At, r, b, before, first) ==
  \/ first /\ before = NULL /\ b = list[r]
  \/ first /\ before \in At /\ blk[before].subRoot = b
  \/ ~first /\ before \in At \ {b} /\ blk[before].next = b

(* There is no second link to it, and what is behind it does not come      *)
(* before it.                                                              *)
LEMMA LinkedOnce ==
  ASSUME NEW T, Forest(T), NEW r \in Roots, NEW b \in OfRoot(T, r), NEW before, NEW first \in BOOLEAN,
         LinkedFrom(OfRoot(T, r), r, b, before, first)
  PROVE  /\ blk[b].prev = before /\ before # b
         /\ blk[b].next # NULL => blk[b].next # before
         /\ \A q \in Roots : list[q] = b => q = r /\ before = NULL /\ first
         /\ \A q \in Roots : \A c \in OfRoot(T, q) :
              /\ blk[c].subRoot = b => c = before /\ first
              /\ blk[c].next = b => c = before /\ ~first
<1> DEFINE At(q) == OfRoot(T, q)
<1>1. \A q \in Roots : \A c \in At(q) : InOrder(T, At(q), c)
  BY DEF Forest
<1>2. \A q \in Roots : \A c \in At(q) : c \in T[c] /\ c \in Blocks /\ c # NULL
  <2> TAKE q \in Roots
  <2> TAKE c \in At(q)
  <2>1. c \in T[c]
    BY <1>1 DEF InOrder
  <2>2. c \in Blocks
    BY ForestIsBlocks
  <2> QED
    BY <2>1, <2>2 DEF Blocks, NULL
<1>3. \A q \in Roots : \A c \in At(q) : /\ blk[c].subRoot = b => blk[b].prev = c /\ blk[c].next # b
                                        /\ blk[c].next = b => blk[b].prev = c /\ blk[c].subRoot # b
  <2> TAKE q \in Roots
  <2> TAKE c \in At(q)
  <2>1. InOrder(T, At(q), c) /\ b \in T[b] /\ b # NULL
    BY <1>1, <1>2
  <2> QED
    BY <2>1 DEF InOrder, Hang
<1>4. blk[b].prev = before /\ before # b
  <2>1. CASE first /\ before = NULL /\ b = list[r]
    BY <2>1, <1>2 DEF Forest
  <2>2. CASE first /\ before \in At(r) /\ blk[before].subRoot = b
    <3>1. before # b
      <4>1. InOrder(T, At(r), before)
        BY <2>2, <1>1
      <4> QED
        BY <2>2, <4>1, <1>2 DEF InOrder, Hang
    <3> QED
      BY <2>2, <3>1, <1>3
  <2>3. CASE ~first /\ before \in At(r) \ {b} /\ blk[before].next = b
    BY <2>3, <1>3
  <2> QED
    BY <2>1, <2>2, <2>3 DEF LinkedFrom
<1>5. blk[b].next # NULL => blk[b].next # before
  <2>1. SUFFICES ASSUME blk[b].next # NULL, blk[b].next = before PROVE FALSE
    OBVIOUS
  <2>2. before \in At(r) /\ before # NULL
    BY <2>1, <1>1 DEF InOrder
  <2>3. InOrder(T, At(r), b) /\ InOrder(T, At(r), before)
    BY <2>2, <1>1
  <2>4. b \in T[before]
    <3>1. blk[before].subRoot = b \/ blk[before].next = b
      BY <2>2 DEF LinkedFrom
    <3> QED
      BY <3>1, <2>3, <1>2 DEF InOrder, Hang
  <2> QED
    BY <2>1, <2>2, <2>3, <2>4 DEF InOrder, Hang
<1>6. ASSUME NEW q \in Roots, list[q] = b PROVE q = r /\ before = NULL /\ first
  <2>1. b \in At(q)
    BY <1>6, <1>2 DEF Forest
  <2>2. q = r
    BY <2>1 DEF Forest
  <2>3. blk[b].prev = NULL
    BY <1>6, <1>2 DEF Forest
  <2>4. before = NULL
    BY <2>3, <1>4
  <2> QED
    BY <2>2, <2>4, <1>2 DEF LinkedFrom
<1>7. ASSUME NEW q \in Roots, NEW c \in At(q)
      PROVE  /\ blk[c].subRoot = b => c = before /\ first
             /\ blk[c].next = b => c = before /\ ~first
  <2>1. blk[c].subRoot = b \/ blk[c].next = b => c = before
    BY <1>3, <1>4
  <2> QED
    BY <2>1, <1>2, <1>3 DEF LinkedFrom
<1> QED
  BY <1>4, <1>5, <1>6, <1>7

(* The block behind it takes its place.                                    *)
Unlinks(r, b, before, first) ==
  /\ list' = (IF first /\ before = NULL THEN [list EXCEPT ![r] = blk[b].next] ELSE list)
  /\ \A c \in Blocks \ {b} :
       /\ blk'[c].next = (IF c = before /\ ~first THEN blk[b].next ELSE blk[c].next)
       /\ blk'[c].subRoot = (IF c = before /\ first THEN blk[b].next ELSE blk[c].subRoot)
       /\ blk'[c].prev = (IF c = blk[b].next THEN before ELSE blk[c].prev)

(* A block that has no content is taken out of its list.                   *)
LEMMA UnlinkInOrder ==
  ASSUME NEW T, Forest(T), NEW r \in Roots, NEW b \in OfRoot(T, r), NEW before, NEW first \in BOOLEAN,
         LinkedFrom(OfRoot(T, r), r, b, before, first),
         blk[b].subRoot = NULL,
         list \in [Roots -> Links], used' = used \ {b}, Unlinks(r, b, before, first)
  PROVE  /\ Forest(Shrunk(T, b))'
         /\ \A q \in Roots : OfRoot(Shrunk(T, b), q)' = OfRoot(T, q) \ {b}
<1> DEFINE S == Shrunk(T, b)
<1>a. PICK At : At = [q \in Roots |-> OfRoot(T, q)]
  OBVIOUS
<1> DEFINE AtP == [q \in Roots |-> At[q] \ {b}]
<1>b. PICK nb : nb = blk[b].next
  OBVIOUS
<1>c. /\ \A c \in Blocks \ {b} :
           /\ blk'[c].next = (IF c = before /\ ~first THEN nb ELSE blk[c].next)
           /\ blk'[c].subRoot = (IF c = before /\ first THEN nb ELSE blk[c].subRoot)
           /\ blk'[c].prev = (IF c = nb THEN before ELSE blk[c].prev)
      /\ list' = (IF first /\ before = NULL THEN [list EXCEPT ![r] = nb] ELSE list)
      /\ LinkedFrom(At[r], r, b, before, first)
  BY <1>a, <1>b DEF Unlinks
<1>0. /\ \A q \in Roots : At[q] \in SUBSET Blocks
      /\ \A q \in Roots : \A c \in At[q] : InOrder(T, At[q], c)
      /\ NULL \notin Blocks /\ T \in [Blocks -> SUBSET Blocks] /\ b \in At[r]
      /\ \A q \in Roots : q # r => b \notin At[q]
  <2>1. \A q \in Roots : At[q] \in SUBSET Blocks
    BY <1>a, ForestIsBlocks
  <2> QED
    BY <2>1, <1>a DEF Forest, NULL, Blocks
<1>1. /\ before # b
      /\ nb # NULL => nb # before
      /\ \A q \in Roots : list[q] = b => q = r /\ before = NULL /\ first
      /\ \A q \in Roots : \A c \in At[q] :
              /\ blk[c].subRoot = b => c = before /\ first
              /\ blk[c].next = b => c = before /\ ~first
  <2>1. /\ blk[b].prev = before /\ before # b
        /\ blk[b].next # NULL => blk[b].next # before
        /\ \A q \in Roots : list[q] = b => q = r /\ before = NULL /\ first
        /\ \A q \in Roots : \A c \in OfRoot(T, q) :
              /\ blk[c].subRoot = b => c = before /\ first
              /\ blk[c].next = b => c = before /\ ~first
    BY LinkedOnce
  <2> QED
    BY <2>1, <1>a, <1>b
<1>2. /\ nb \in At[r] \cup {NULL} /\ nb # b
      /\ T[b] = {b} \cup Hang(T, nb) /\ b \notin Hang(T, nb)
      /\ nb # NULL => blk[nb].prev = b /\ nb \in Hang(T, nb)
  <2>1. InOrder(T, At[r], b) /\ b # NULL
    BY <1>0
  <2>2. /\ nb \in At[r] \cup {NULL} /\ T[b] = {b} \cup Hang(T, nb) /\ b \notin Hang(T, nb)
        /\ nb # NULL => blk[nb].prev = b
    BY <2>1, <1>b DEF InOrder, Hang
  <2>3. nb # NULL => nb \in Hang(T, nb)
    BY <2>2, <1>0 DEF InOrder, Hang
  <2> QED
    BY <2>1, <2>2, <2>3
<1>3. /\ \A x \in Links : Hang(S, x) = Hang(T, x) \ {b}
      /\ S \in [Blocks -> SUBSET Blocks]
      /\ \A x \in Blocks : S[x] = T[x] \ {b}
  BY <1>0 DEF Hang, Links, Shrunk
<1>4. \A q \in Roots : list[q] \in Links /\ list[q] \in At[q] \cup {NULL} /\ At[q] = Hang(T, list[q])
  BY <1>a DEF Forest, OfRoot
<1>5. \A q \in Roots : OfRoot(S, q)' = AtP[q]
  <2> TAKE q \in Roots
  <2>1. OfRoot(S, q)' = Hang(S, list'[q])
    BY DEF OfRoot
  <2>2. CASE list'[q] = list[q]
    BY <2>1, <2>2, <1>3, <1>4
  <2>3. CASE list'[q] # list[q]
    <3>1. first /\ before = NULL /\ q = r /\ list'[q] = nb
      BY <2>3, <1>c
    <3>2. b = list[r]
      BY <3>1, <1>0, <1>c DEF LinkedFrom
    <3>3. Hang(S, nb) = Hang(T, nb) \ {b}
      BY <1>0, <1>2, <1>3 DEF Links
    <3>4. At[r] = T[b]
      BY <3>2, <1>0, <1>4 DEF Hang
    <3> QED
      BY <2>1, <3>1, <3>3, <3>4, <1>2
  <2> QED
    BY <2>2, <2>3
<1>6. ASSUME NEW q \in Roots, NEW c \in AtP[q] PROVE InOrder(S, AtP[q], c)'
  <2>1. PICK sb, nx : sb = blk[c].subRoot /\ nx = blk[c].next
    OBVIOUS
  <2>2. InOrder(T, At[q], c) /\ c \in Blocks \ {b} /\ c \in At[q]
    BY <1>0
  <2>3. /\ sb \in Links /\ nx \in Links /\ sb \in At[q] \cup {NULL} /\ nx \in At[q] \cup {NULL}
        /\ T[c] = Hang(T, sb) \cup {c} \cup Hang(T, nx)
        /\ c \notin Hang(T, sb) /\ c \notin Hang(T, nx) /\ Hang(T, sb) \cap Hang(T, nx) = {}
        /\ c \in used /\ T[c] \subseteq At[q]
        /\ sb # NULL => blk[sb].prev = c
        /\ nx # NULL => blk[nx].prev = c
    BY <2>1, <2>2, <1>0 DEF InOrder, Links
  <2>4. /\ sb = b => c = before /\ first
        /\ nx = b => c = before /\ ~first
    BY <2>1, <2>2, <1>1
  <2>5. /\ c \in used' /\ S[c] = T[c] \ {b} /\ S[c] \subseteq AtP[q]
        /\ Hang(S, sb) = Hang(T, sb) \ {b} /\ Hang(S, nx) = Hang(T, nx) \ {b}
        /\ Hang(S, nb) = Hang(T, nb)
    <3>1. nb \in Links
      BY <1>0, <1>2 DEF Links
    <3>2. Hang(S, nb) = Hang(T, nb)
      <4>1. Hang(S, nb) = Hang(T, nb) \ {b} /\ b \notin Hang(T, nb)
        BY <3>1, <1>2, <1>3
      <4> QED
        BY <4>1, Zenon
    <3>3. S[c] = T[c] \ {b} /\ S[c] \subseteq AtP[q]
      BY <2>2, <2>3, <1>3
    <3>4. c \in used' /\ Hang(S, sb) = Hang(T, sb) \ {b} /\ Hang(S, nx) = Hang(T, nx) \ {b}
      BY <2>2, <2>3, <1>3
    <3> QED
      BY <3>2, <3>3, <3>4
  <2>6. CASE sb # b /\ nx # b
    <3>1. c # before
      <4>1. before \in At[r] => blk[before].subRoot = b \/ blk[before].next = b
        BY <1>0, <1>c DEF LinkedFrom
      <4>2. before \in At[r] \cup {NULL}
        BY <1>c DEF LinkedFrom
      <4> QED
        BY <4>1, <4>2, <2>1, <2>2, <2>6, <1>0
    <3>2. blk'[c].subRoot = sb /\ blk'[c].next = nx
      BY <3>1, <2>1, <2>2, <1>c
    <3>3. /\ sb # NULL => blk'[sb].prev = c
          /\ nx # NULL => blk'[nx].prev = c
      <4>1. (sb # NULL => sb # nb) /\ (nx # NULL => nx # nb)
        BY <2>2, <2>3, <1>2
      <4> QED
        BY <4>1, <2>3, <2>6, <1>c DEF Links
    <3>4. /\ S[c] = Hang(S, sb) \cup {c} \cup Hang(S, nx)
          /\ c \notin Hang(S, sb) /\ c \notin Hang(S, nx) /\ Hang(S, sb) \cap Hang(S, nx) = {}
          /\ sb \in AtP[q] \cup {NULL} /\ nx \in AtP[q] \cup {NULL}
      BY <2>2, <2>3, <2>5, <2>6
    <3> QED
      BY <2>5, <3>2, <3>3, <3>4 DEF InOrder
  <2>7. CASE sb = b
    <3>1. c = before /\ first /\ nx # b /\ q = r
      <4>1. b \in Hang(T, sb)
        BY <2>7, <1>0, <1>2 DEF Hang
      <4>2. nx # b
        BY <4>1, <2>3, <2>7, <1>0 DEF Hang
      <4> QED
        BY <4>1, <4>2, <2>3, <2>4, <2>7, <1>0
    <3>2. blk'[c].subRoot = nb /\ blk'[c].next = nx
      BY <3>1, <2>1, <2>2, <1>c
    <3>3. Hang(T, sb) = T[b]
      BY <2>7, <1>0 DEF Hang
    <3>4. /\ nb # NULL => blk'[nb].prev = c
          /\ nx # NULL => blk'[nx].prev = c
      <4>1. nx # NULL => nx # nb
        BY <2>2, <2>3, <1>2
      <4>2. nb # NULL => nb \in Blocks \ {b}
        BY <1>0, <1>2
      <4> QED
        BY <4>1, <4>2, <3>1, <2>3, <1>c DEF Links
    <3>5. /\ S[c] = Hang(S, nb) \cup {c} \cup Hang(S, nx)
          /\ c \notin Hang(S, nb) /\ c \notin Hang(S, nx) /\ Hang(S, nb) \cap Hang(S, nx) = {}
      BY <2>2, <2>3, <2>5, <3>3, <1>2
    <3>6. nb \in AtP[q] \cup {NULL} /\ nx \in AtP[q] \cup {NULL}
      BY <3>1, <2>3, <1>2
    <3> QED
      BY <2>5, <3>2, <3>4, <3>5, <3>6 DEF InOrder
  <2>8. CASE nx = b
    <3>1. c = before /\ ~first /\ sb # b /\ q = r
      <4>1. b \in Hang(T, nx)
        BY <2>8, <1>0, <1>2 DEF Hang
      <4>2. sb # b
        BY <4>1, <2>3, <2>8, <1>0 DEF Hang
      <4> QED
        BY <4>1, <4>2, <2>3, <2>4, <2>8, <1>0
    <3>2. blk'[c].subRoot = sb /\ blk'[c].next = nb
      BY <3>1, <2>1, <2>2, <1>c
    <3>3. Hang(T, nx) = T[b]
      BY <2>8, <1>0 DEF Hang
    <3>4. /\ nb # NULL => blk'[nb].prev = c
          /\ sb # NULL => blk'[sb].prev = c
      <4>1. sb # NULL => sb # nb
        BY <2>2, <2>3, <1>2
      <4>2. nb # NULL => nb \in Blocks \ {b}
        BY <1>0, <1>2
      <4> QED
        BY <4>1, <4>2, <3>1, <2>3, <1>c DEF Links
    <3>5. /\ S[c] = Hang(S, sb) \cup {c} \cup Hang(S, nb)
          /\ c \notin Hang(S, nb) /\ c \notin Hang(S, sb) /\ Hang(S, sb) \cap Hang(S, nb) = {}
      BY <2>2, <2>3, <2>5, <3>3, <1>2
    <3>6. nb \in AtP[q] \cup {NULL} /\ sb \in AtP[q] \cup {NULL}
      BY <3>1, <2>3, <1>2
    <3> QED
      BY <2>5, <3>2, <3>4, <3>5, <3>6 DEF InOrder
  <2> QED
    BY <2>6, <2>7, <2>8
<1>7. \A q \in Roots : list'[q] \in Links /\ list'[q] \in AtP[q] \cup {NULL}
  <2> TAKE q \in Roots
  <2>1. CASE first /\ before = NULL /\ q = r
    <3>1. list'[q] = nb
      BY <2>1, <1>c
    <3> QED
      BY <2>1, <3>1, <1>0, <1>2 DEF Links
  <2>2. CASE ~(first /\ before = NULL /\ q = r)
    <3>1. list'[q] = list[q]
      BY <2>2, <1>c
    <3>2. list[q] # b
      BY <2>2, <1>1
    <3> QED
      BY <3>1, <3>2, <1>4
  <2> QED
    BY <2>1, <2>2
<1>8. \A q \in Roots : list'[q] # NULL => blk'[list'[q]].prev = NULL
  <2> TAKE q \in Roots
  <2>1. SUFFICES ASSUME list'[q] # NULL PROVE blk'[list'[q]].prev = NULL
    OBVIOUS
  <2>0. list'[q] \in Blocks \ {b}
    BY <2>1, <1>7 DEF Links
  <2>2. CASE first /\ before = NULL /\ q = r
    <3>1. list'[q] = nb
      BY <2>2, <1>c
    <3> QED
      BY <2>0, <2>2, <3>1, <1>c
  <2>3. CASE ~(first /\ before = NULL /\ q = r)
    <3>1. list'[q] = list[q]
      BY <2>3, <1>c
    <3>2. blk[list[q]].prev = NULL
      BY <2>1, <3>1 DEF Forest
    <3>3. list[q] # nb
      BY <2>1, <3>1, <3>2, <1>0, <1>2
    <3> QED
      BY <2>0, <3>1, <3>2, <3>3, <1>c
  <2> QED
    BY <2>2, <2>3
<1>9. \A q, p \in Roots : q # p => AtP[q] \cap AtP[p] = {}
  <2>1. \A q, p \in Roots : q # p => At[q] \cap At[p] = {}
    BY <1>a DEF Forest
  <2> QED
    BY <2>1
<1>10. \A q \in Roots : \A c \in AtP[q] : InOrder(S, AtP[q], c)'
  BY <1>6
<1> HIDE DEF S, AtP
<1>11. Forest(S)'
  <2>1. \A q \in Roots : \A c \in OfRoot(S, q)' : InOrder(S, OfRoot(S, q), c)'
    <3> TAKE q \in Roots
    <3> TAKE c \in OfRoot(S, q)'
    <3>1. InOrder(S, AtP[q], c)' /\ OfRoot(S, q)' = AtP[q]
      BY <1>5, <1>10
    <3> QED
      BY <3>1 DEF InOrder
  <2>2. \A q \in Roots : list'[q] \in Links /\ list'[q] \in OfRoot(S, q)' \cup {NULL}
    BY <1>5, <1>7
  <2>3. \A q, p \in Roots : q # p => OfRoot(S, q)' \cap OfRoot(S, p)' = {}
    BY <1>5, <1>9
  <2> QED
    BY <2>1, <2>2, <2>3, <1>3, <1>8 DEF Forest
<1> QED
  BY <1>5, <1>11, <1>a DEF S, AtP

-----------------------------------------------------------------------------
(* The invariant, and the calls one by one.                                *)

TreeTyped ==
  /\ used \subseteq Blocks
  /\ blk \in [Blocks -> Block]
  /\ list \in [Roots -> Links]
  /\ pool \in [Roots -> SUBSET Nat] /\ \A r \in Roots : pool[r] \subseteq Slots(r)
  /\ lastModifier \in Keys

TreeInv == TreeTyped /\ \E T : Forest(T) /\ DataOwn(T)

LEMMA TypedLinks ==
  ASSUME TreeTyped
  PROVE  LinksTyped
BY TreeAssumption DEF TreeTyped, LinksTyped, Block, Links

LEMMA CleanedIs ==
  ASSUME TreeTyped, NEW n \in Blocks
  PROVE  Cleaned(n) \in Block
<1>1. blk[n].clocktime \in Times
  BY DEF TreeTyped, Block
<1> QED
  BY <1>1, TreeAssumption DEF Cleaned, BlockOf, Block, Links, NULL

(* What is not a link of a block.                                          *)
SameContent(b) ==
  /\ blk'[b].name = blk[b].name /\ blk'[b].data = blk[b].data
  /\ blk'[b].mutex = blk[b].mutex /\ blk'[b].lastModified = blk[b].lastModified
  /\ blk'[b].clocktime = blk[b].clocktime

(* The block n is in use now, named u, and hangs before first in folder.   *)
LinkedNow(T, S, u, n, folder, first) ==
  /\ TreeTyped' /\ Forest(S)' /\ DataOwn(S)'
  /\ n \in Blocks \ used /\ n # folder /\ n # first
  /\ blk'[n].subRoot = NULL /\ blk'[n].next = first /\ blk'[n].name = u.path[Len(u.path)]
  /\ blk'[n].mutex = FALSE /\ blk'[n].lastModified = 0 /\ blk'[n].clocktime = blk[n].clocktime
  /\ \A c \in Blocks \ {n} :
       /\ blk'[c].next = blk[c].next /\ SameContent(c)
       /\ blk'[c].subRoot = (IF c = folder THEN n ELSE blk[c].subRoot)
       /\ blk'[c].prev = (IF c = first THEN n ELSE blk[c].prev)
  /\ blk'[n].prev = folder
  /\ \A q \in Roots : OfRoot(S, q)' = IF q = u.root THEN OfRoot(T, q) \cup {n} ELSE OfRoot(T, q)

(* Blocks and slots that nothing hangs at are handed out, and what hangs   *)
(* elsewhere keeps its data.                                               *)
LEMMA LinkKeeps ==
  ASSUME NEW T, TreeTyped, Forest(T), DataOwn(T), NEW u \in Uris,
         used # Blocks, pool[u.root] # Slots(u.root), Take(u),
         NEW folder, NEW first, LinkBefore(u, folder, first),
         \/ /\ folder = NULL /\ first = list[u.root]
            /\ list' = [list EXCEPT ![u.root] = FreeBlock]
         \/ folder \in OfRoot(T, u.root) /\ first = blk[folder].subRoot /\ list' = list
  PROVE  LinkedNow(T, Grown(T, FreeBlock, folder, first), u, FreeBlock, folder, first)
<1> DEFINE r == u.root
<1>a. PICK n, slot : n = FreeBlock /\ slot = FreeSlot(r)
  OBVIOUS
<1>0. /\ r \in Roots /\ u.path \in Seq(STRING) /\ u.path # <<>>
      /\ u.path[Len(u.path)] \in STRING
  BY TreeAssumption
<1>1. n \in Blocks \ used /\ slot \in Slots(r) \ pool[r] /\ slot \in Nat
  <2>1. n \in Blocks \ used
    BY <1>a, FreeBlockIs, TreeAssumption DEF TreeTyped
  <2>2. slot \in Slots(r) \ pool[r]
    BY <1>0, <1>a, FreeSlotIs DEF TreeTyped
  <2> QED
    BY <2>1, <2>2, <1>0, TreeAssumption DEF Slots
<1>2. /\ OfRoot(T, r) \in SUBSET Blocks /\ folder \in Links /\ first \in Links
      /\ folder # NULL => folder # first
      /\ n # folder /\ n # first
  <2>1. OfRoot(T, r) \in SUBSET Blocks /\ LinksTyped
    BY <1>0, ForestIsBlocks, TypedLinks
  <2>2. \A b \in OfRoot(T, r) : InOrder(T, OfRoot(T, r), b) /\ b \in used /\ b \in T[b] /\ b # NULL
    <3> TAKE b \in OfRoot(T, r)
    <3>1. InOrder(T, OfRoot(T, r), b)
      BY <1>0 DEF Forest
    <3> QED
      BY <3>1, <2>1 DEF InOrder, Blocks, NULL
  <2>3. CASE folder = NULL /\ first = list[r]
    <3>1. first \in OfRoot(T, r) \cup {NULL}
      BY <2>3, <1>0 DEF Forest
    <3> QED
      BY <2>1, <2>2, <2>3, <3>1, <1>1 DEF Links, Blocks, NULL
  <2>4. CASE folder \in OfRoot(T, r) /\ first = blk[folder].subRoot
    <3>1. first \in OfRoot(T, r) \cup {NULL} /\ folder \notin Hang(T, first)
      BY <2>2, <2>4 DEF InOrder
    <3> QED
      BY <2>1, <2>2, <2>4, <3>1, <1>1 DEF Links, Blocks, NULL, Hang
  <2> QED
    BY <2>3, <2>4
<1>3. PICK new \in Block :
        /\ new = NewBlock(u, folder, first)
        /\ new.subRoot = NULL /\ new.next = first /\ new.prev = folder /\ new.data = slot
        /\ new.name = u.path[Len(u.path)] /\ new.mutex = FALSE /\ new.lastModified = 0
        /\ new.clocktime = blk[n].clocktime
  <2>1. blk[n].clocktime \in Times
    BY <1>1 DEF TreeTyped, Block
  <2> DEFINE new == BlockOf(u.path[Len(u.path)], slot, blk[n].clocktime, folder, first)
  <2>2. /\ new \in Block /\ new.subRoot = NULL /\ new.next = first /\ new.prev = folder /\ new.data = slot
        /\ new.name = u.path[Len(u.path)] /\ new.mutex = FALSE /\ new.lastModified = 0
        /\ new.clocktime = blk[n].clocktime
    BY <2>1, <1>0, <1>1, <1>2, TreeAssumption DEF Block, BlockOf, Links
  <2>3. new = NewBlock(u, folder, first)
    BY <1>a, Zenon DEF NewBlock
  <2> QED
    BY <2>2, <2>3
<1>4. /\ blk'[n] = new
      /\ \A c \in Blocks \ {n} :
           blk'[c] = IF c = folder THEN [blk[c] EXCEPT !.subRoot = n]
                     ELSE IF c = first THEN [blk[c] EXCEPT !.prev = n] ELSE blk[c]
      /\ blk' = [c \in Blocks |-> blk'[c]]
  <2>1. new = NewBlock(u, folder, first)
    BY <1>3
  <2>2. blk' = [c \in Blocks |->
            CASE c = FreeBlock -> NewBlock(u, folder, first)
              [] c # FreeBlock /\ c = folder -> [blk[c] EXCEPT !.subRoot = FreeBlock]
              [] c # FreeBlock /\ c = first -> [blk[c] EXCEPT !.prev = FreeBlock]
              [] c \notin {FreeBlock, folder, first} -> blk[c]]
    BY DEF LinkBefore
  <2>3. \A c \in Blocks \ {n} : c = folder => c # first
    BY <1>2 DEF Blocks, NULL
  <2> QED
    BY <2>1, <2>2, <2>3, <1>1, <1>a
<1>5. \A c \in Blocks \ {n} :
           /\ blk[c] \in Block /\ blk'[c] \in Block
           /\ blk'[c].next = blk[c].next
           /\ blk'[c].subRoot = (IF c = folder THEN n ELSE blk[c].subRoot)
           /\ blk'[c].prev = (IF c = first THEN n ELSE blk[c].prev)
           /\ SameContent(c)
  <2> TAKE c \in Blocks \ {n}
  <2>1. blk[c] \in Block /\ n \in Links
    BY <1>1 DEF TreeTyped, Links
  <2>2. CASE c = folder
    <3>1. blk'[c] = [blk[c] EXCEPT !.subRoot = n] /\ c # first
      BY <2>2, <1>2, <1>4 DEF Blocks, NULL
    <3> QED
      BY <2>1, <2>2, <3>1 DEF Block, SameContent
  <2>3. CASE c # folder /\ c = first
    <3>1. blk'[c] = [blk[c] EXCEPT !.prev = n]
      BY <2>3, <1>4
    <3> QED
      BY <2>1, <2>3, <3>1 DEF Block, SameContent
  <2>4. CASE c # folder /\ c # first
    BY <2>1, <2>4, <1>4 DEF SameContent
  <2> QED
    BY <2>2, <2>3, <2>4
<1>6. used' = used \cup {n} /\ pool' = [pool EXCEPT ![r] = @ \cup {slot}] /\ lastModifier' = lastModifier
  BY <1>a DEF Take
<1>7. list \in [Roots -> Links] /\ used \subseteq Blocks /\ pool \in [Roots -> SUBSET Nat]
      /\ \A q \in Roots : pool[q] \subseteq Slots(q)
  BY DEF TreeTyped
<1>8. \/ folder = NULL /\ first = list[r] /\ list' = [list EXCEPT ![r] = n]
      \/ folder \in OfRoot(T, r) /\ first = blk[folder].subRoot /\ list' = list
  BY <1>a
<1> DEFINE S == Grown(T, n, folder, first)
<1>9. /\ Forest(S)'
      /\ \A q \in Roots : OfRoot(S, q)' = IF q = r THEN OfRoot(T, r) \cup {n} ELSE OfRoot(T, q)
  <2> HIDE DEF r
  <2>0. r \in Roots /\ n \in Blocks \ used /\ list \in [Roots -> Links] /\ used' = used \cup {n}
    BY <1>0, <1>1, <1>6, <1>7
  <2>1. blk'[n].subRoot = NULL /\ blk'[n].next = first /\ blk'[n].prev = folder
    BY <1>3, <1>4
  <2> QED
    BY <1>5, <1>8, <2>0, <2>1, LinkInOrder
<1>10. TreeTyped'
  <2>1. blk' \in [Blocks -> Block]
    BY <1>3, <1>4, <1>5
  <2>2. list' \in [Roots -> Links]
    BY <1>1, <1>7, <1>8 DEF Links
  <2>3. pool' \in [Roots -> SUBSET Nat] /\ \A q \in Roots : pool'[q] \subseteq Slots(q)
    BY <1>0, <1>1, <1>6, <1>7
  <2> QED
    BY <2>1, <2>2, <2>3, <1>1, <1>6, <1>7 DEF TreeTyped, Slots
<1> HIDE DEF S
<1>11. DataOwn(S)'
  <2>1. \A q \in Roots : OfRoot(T, q) \subseteq Blocks \ {n}
    <3> TAKE q \in Roots
    <3>1. OfRoot(T, q) \in SUBSET Blocks /\ \A b \in OfRoot(T, q) : b \in used
      BY ForestIsBlocks DEF Forest, InOrder
    <3> QED
      BY <3>1, <1>1
  <2>2. ASSUME NEW q \in Roots, NEW b \in OfRoot(S, q)'
        PROVE  /\ blk'[b].data \in pool'[q]
               /\ (b \in OfRoot(T, q) /\ blk'[b].data = blk[b].data) \/ (b = n /\ blk'[b].data = slot /\ q = r)
    <3>1. CASE b \in OfRoot(T, q)
      <4>1. blk'[b].data = blk[b].data /\ blk[b].data \in pool[q]
        BY <3>1, <2>1, <1>5 DEF DataOwn, SameContent
      <4>2. pool[q] \subseteq pool'[q]
        BY <1>6, <1>7
      <4> QED
        BY <3>1, <4>1, <4>2
    <3>2. CASE b \notin OfRoot(T, q)
      <4>1. b = n /\ q = r
        BY <2>2, <3>2, <1>9
      <4>2. blk'[b].data = slot /\ slot \in pool'[q]
        BY <4>1, <1>0, <1>3, <1>4, <1>6, <1>7
      <4> QED
        BY <4>1, <4>2
    <3> QED
      BY <3>1, <3>2
  <2>3. ASSUME NEW q \in Roots, NEW b \in OfRoot(S, q)', NEW c \in OfRoot(S, q)', b # c
        PROVE  blk'[b].data # blk'[c].data
    <3>1. \A x \in OfRoot(T, q) : q = r => blk[x].data # slot
      BY <1>1 DEF DataOwn
    <3>2. b \in OfRoot(T, q) /\ c \in OfRoot(T, q) => blk[b].data # blk[c].data
      BY <2>3 DEF DataOwn
    <3>3. (b \in OfRoot(T, q) /\ blk'[b].data = blk[b].data) \/ (b = n /\ blk'[b].data = slot /\ q = r)
      BY <2>2
    <3>4. (c \in OfRoot(T, q) /\ blk'[c].data = blk[c].data) \/ (c = n /\ blk'[c].data = slot /\ q = r)
      BY <2>2
    <3> QED
      BY <2>3, <3>1, <3>2, <3>3, <3>4
  <2> QED
    BY <2>2, <2>3 DEF DataOwn
<1>12. LinkedNow(T, S, u, n, folder, first)
  <2>1. /\ blk'[n].prev = folder /\ blk'[n].subRoot = NULL /\ blk'[n].next = first /\ blk'[n].name = u.path[Len(u.path)]
        /\ blk'[n].mutex = FALSE /\ blk'[n].lastModified = 0 /\ blk'[n].clocktime = blk[n].clocktime
    BY <1>3, <1>4
  <2> QED
    BY <2>1, <1>1, <1>2, <1>5, <1>9, <1>10, <1>11 DEF LinkedNow
<1> QED
  BY <1>12, <1>a DEF S

(* The block b is not in use any more, and hangs nowhere.                  *)
UnlinkedNow(T, S, r, b, before, first) ==
  /\ TreeTyped' /\ Forest(S)' /\ DataOwn(S)'
  /\ b \in OfRoot(T, r) /\ blk[b].subRoot = NULL /\ first \in BOOLEAN
  /\ LinkedFrom(OfRoot(T, r), r, b, before, first) /\ Unlinks(r, b, before, first)
  /\ \A c \in Blocks : SameContent(c)
  /\ \A q \in Roots : OfRoot(S, q)' = OfRoot(T, q) \ {b}

(* The block that is deleted leaves the forest, and its slot goes back to  *)
(* the pool it came from.                                                  *)
LEMMA UnlinkKeeps ==
  ASSUME NEW T, TreeTyped, Forest(T), DataOwn(T), NEW u \in Uris,
         NEW l, Found(T, u.root, l), DelUnlinked(u, l)
  PROVE  \E before, first : UnlinkedNow(T, Shrunk(T, l.resource), u.root, l.resource, before, first)
<1>a. PICK r, b, nb, data : r = u.root /\ b = l.resource /\ nb = blk[b].next /\ data = blk[b].data
  OBVIOUS
<1>b. PICK first \in BOOLEAN : first = (l.previousResource = b)
  OBVIOUS
<1>c. PICK before : before = IF first THEN l.folder ELSE l.previousResource
  OBVIOUS
<1>0. r \in Roots /\ b # NULL /\ b \in OfRoot(T, r) /\ blk[b].subRoot = NULL
  BY <1>a, TreeAssumption DEF Found, DelUnlinked
<1>1. LinkedFrom(OfRoot(T, r), r, b, before, first)
  BY <1>a, <1>b, <1>c, <1>0 DEF Found, LinkedFrom
<1>2. /\ used' = used \ {b} /\ pool' = [pool EXCEPT ![r] = @ \ {data}] /\ lastModifier' = lastModifier
      /\ list' = (IF first /\ l.folder = NULL THEN [list EXCEPT ![r] = nb] ELSE list)
      /\ blk' = [c \in Blocks |->
                   IF c = nb THEN [blk[c] EXCEPT !.prev = before]
                   ELSE IF c # before THEN blk[c]
                   ELSE IF first THEN [blk[c] EXCEPT !.subRoot = nb]
                   ELSE [blk[c] EXCEPT !.next = nb]]
  BY <1>a, <1>b, <1>c DEF DelUnlinked
<1>3. list' = (IF first /\ before = NULL THEN [list EXCEPT ![r] = nb] ELSE list)
  BY <1>2, <1>c
<1>4. \A q \in Roots : OfRoot(T, q) \in SUBSET Blocks
  BY ForestIsBlocks
<1>5. /\ b \in Blocks /\ before \in Links /\ nb \in Links
      /\ nb \in Blocks => nb # before
  <2>1. b \in Blocks
    BY <1>0, <1>4
  <2>2. before \in Links
    BY <1>0, <1>1, <1>4 DEF LinkedFrom, Links
  <2>3. nb \in Links
    BY <2>1, <1>a, TypedLinks DEF LinksTyped
  <2>4. nb # NULL => nb # before
    BY <1>0, <1>1, <1>a, LinkedOnce
  <2> QED
    BY <2>1, <2>2, <2>3, <2>4 DEF Blocks, NULL
<1>6. \A c \in Blocks :
           /\ blk[c] \in Block /\ blk'[c] \in Block
           /\ blk'[c].next = (IF c = before /\ ~first THEN nb ELSE blk[c].next)
           /\ blk'[c].subRoot = (IF c = before /\ first THEN nb ELSE blk[c].subRoot)
           /\ blk'[c].prev = (IF c = nb THEN before ELSE blk[c].prev)
           /\ SameContent(c)
  <2> TAKE c \in Blocks
  <2>1. blk[c] \in Block
    BY DEF TreeTyped
  <2>2. CASE c = nb
    <3>1. blk'[c] = [blk[c] EXCEPT !.prev = before] /\ c # before
      BY <2>2, <1>2, <1>5
    <3> QED
      BY <2>1, <2>2, <3>1, <1>5 DEF Block, SameContent
  <2>3. CASE c # nb /\ c # before
    BY <2>1, <2>3, <1>2 DEF SameContent
  <2>4. CASE c # nb /\ c = before /\ first
    <3>1. blk'[c] = [blk[c] EXCEPT !.subRoot = nb]
      BY <2>4, <1>2
    <3> QED
      BY <2>1, <2>4, <3>1, <1>5 DEF Block, SameContent
  <2>5. CASE c # nb /\ c = before /\ ~first
    <3>1. blk'[c] = [blk[c] EXCEPT !.next = nb]
      BY <2>5, <1>2
    <3> QED
      BY <2>1, <2>5, <3>1, <1>5 DEF Block, SameContent
  <2> QED
    BY <2>2, <2>3, <2>4, <2>5
<1>7. list \in [Roots -> Links] /\ used \subseteq Blocks /\ pool \in [Roots -> SUBSET Nat]
      /\ \A q \in Roots : pool[q] \subseteq Slots(q)
  BY DEF TreeTyped
<1> DEFINE S == Shrunk(T, b)
<1>u. Unlinks(r, b, before, first)
  <2>1. list' = (IF first /\ before = NULL THEN [list EXCEPT ![r] = blk[b].next] ELSE list)
    BY <1>3, <1>a
  <2>2. \A c \in Blocks \ {b} :
           /\ blk'[c].next = (IF c = before /\ ~first THEN blk[b].next ELSE blk[c].next)
           /\ blk'[c].subRoot = (IF c = before /\ first THEN blk[b].next ELSE blk[c].subRoot)
           /\ blk'[c].prev = (IF c = blk[b].next THEN before ELSE blk[c].prev)
    BY <1>6, <1>a
  <2> QED
    BY <2>1, <2>2 DEF Unlinks
<1>8. /\ Forest(S)'
      /\ \A q \in Roots : OfRoot(S, q)' = OfRoot(T, q) \ {b}
  <2>1. used' = used \ {b} /\ list \in [Roots -> Links]
    BY <1>2, <1>7
  <2>2. r \in Roots /\ b \in OfRoot(T, r) /\ first \in BOOLEAN /\ blk[b].subRoot = NULL
    BY <1>0
  <2> QED
    BY <1>1, <1>u, <2>1, <2>2, UnlinkInOrder
<1>9. TreeTyped'
  <2>1. blk' \in [Blocks -> Block]
    BY <1>2, <1>6
  <2>2. list' \in [Roots -> Links]
    BY <1>3, <1>5, <1>7
  <2>3. pool' \in [Roots -> SUBSET Nat] /\ \A q \in Roots : pool'[q] \subseteq Slots(q)
    BY <1>0, <1>2, <1>7
  <2>4. used' \subseteq Blocks /\ lastModifier' \in Keys
    BY <1>2 DEF TreeTyped
  <2> QED
    BY <2>1, <2>2, <2>3, <2>4 DEF TreeTyped, Slots
<1> HIDE DEF S
<1>10. DataOwn(S)'
  <2>1. ASSUME NEW q \in Roots, NEW x \in OfRoot(T, q) \ {b}
        PROVE  blk'[x].data = blk[x].data /\ blk'[x].data \in pool'[q]
    <3>1. blk'[x].data = blk[x].data /\ blk[x].data \in pool[q]
      BY <1>4, <1>6 DEF DataOwn, SameContent
    <3>2. q = r => blk[x].data # data
      BY <1>0, <1>a DEF DataOwn
    <3> QED
      BY <3>1, <3>2, <1>0, <1>2, <1>7
  <2>2. ASSUME NEW q \in Roots, NEW x \in OfRoot(T, q) \ {b}, NEW y \in OfRoot(T, q) \ {b}, x # y
        PROVE  blk'[x].data # blk'[y].data
    <3>1. blk[x].data # blk[y].data
      BY <2>2 DEF DataOwn
    <3> QED
      BY <2>1, <3>1
  <2> QED
    BY <2>1, <2>2, <1>8 DEF DataOwn
<1>11. UnlinkedNow(T, S, r, b, before, first)
  BY <1>0, <1>1, <1>u, <1>6, <1>8, <1>9, <1>10 DEF UnlinkedNow
<1> QED
  BY <1>11, <1>a DEF S

-----------------------------------------------------------------------------
(* The walk: wherever the iterator stands, on a block that was freed and   *)
(* given out again as well, it stays among the blocks of the pool.         *)

LoopStates == [left : 0 .. MaxPasses, pass : Passes]

LoopEnds(s) == s.left = 0 \/ Stops(s.pass)

LoopNext(s) == [left |-> s.left - 1, pass |-> Pass(s.pass)]

(* One turn of the loop of get_next_resource_name_by_root                  *)
(* (emma-resource.c:339-362).                                              *)
LEMMA PassTyped ==
  ASSUME LinksTyped, NEW i \in Passes, i.current # NULL
  PROVE  Pass(i) \in Passes /\ Pass(i).rootTmp = i.rootTmp
<1> DEFINE b == blk[i.current]
           i1 == IF i.previous = b.prev
                 THEN [i EXCEPT !.previous = i.current, !.next = b.subRoot] ELSE i
           i2 == IF i1.next = NULL \/ i1.previous = b.subRoot
                 THEN [i1 EXCEPT !.found = TRUE, !.previous = i.current, !.next = b.next] ELSE i1
           i3 == IF i2.next = NULL \/ i2.previous = b.next
                 THEN [i2 EXCEPT !.previous = i.current, !.next = b.prev] ELSE i2
<1>1. i.current \in Links /\ b.prev \in Links /\ b.next \in Links /\ b.subRoot \in Links
  BY DEF Passes, LinksTyped, Links
<1>2. Pass(i) = [i3 EXCEPT !.current = i3.next]
  BY DEF Pass
<1> HIDE DEF b
<1>3. i1 \in Passes /\ i1.rootTmp = i.rootTmp
  BY <1>1 DEF Passes
<1> HIDE DEF i1
<1>4. i2 \in Passes /\ i2.rootTmp = i.rootTmp
  BY <1>1, <1>3 DEF Passes
<1> HIDE DEF i2
<1>5. i3 \in Passes /\ i3.rootTmp = i.rootTmp
  BY <1>1, <1>4 DEF Passes
<1> HIDE DEF i3
<1> QED
  BY <1>2, <1>5 DEF Passes

(* The turns of the loop count down, so there is a function that runs it.  *)
LoopStart(i) ==
  [left |-> MaxPasses,
   pass |-> [rootTmp |-> i.rootTmp, previous |-> i.previous, next |-> i.next,
             current |-> i.current, found |-> FALSE]]

RunsLoop(run) ==
  /\ \A s \in LoopStates : run[s] = IF LoopEnds(s) THEN s.pass ELSE run[LoopNext(s)]
  /\ \A s \in LoopStates : ~LoopEnds(s) => LoopNext(s) \in LoopStates /\ LoopNext(s).left < s.left
  /\ \A i : Loop(i) = run[LoopStart(i)]

LoopHasRun == LinksTyped => \E run : RunsLoop(run)

LEMMA LoopRuns == LoopHasRun
<1> SUFFICES ASSUME LinksTyped PROVE \E run : RunsLoop(run)
  BY DEF LoopHasRun
<1> DEFINE D == LoopStates
           Stop == {s \in D : LoopEnds(s)}
           rank == [s \in D |-> s.left]
           out == [s \in D |-> s.pass]
           next == [s \in D |-> LoopNext(s)]
           Run(f) == f = [s \in D |-> IF LoopEnds(s) THEN s.pass ELSE f[LoopNext(s)]]
<1>0. MaxPasses \in Nat
  BY DEF LinksTyped, MaxPasses
<1>1. \A i : Loop(i) = (CHOOSE f : Run(f))[LoopStart(i)]
  BY Zenon DEF Loop, LoopStates, LoopEnds, LoopNext, LoopStart
<1>2. ASSUME NEW s \in D, ~LoopEnds(s)
      PROVE  LoopNext(s) \in D /\ LoopNext(s).left < s.left
  <2>1. s.pass \in Passes /\ s.pass.current # NULL /\ s.left \in 0 .. MaxPasses /\ s.left # 0
    BY <1>2 DEF LoopStates, LoopEnds, Stops
  <2>2. Pass(s.pass) \in Passes
    BY <2>1, PassTyped
  <2>3. s.left - 1 \in 0 .. MaxPasses /\ s.left - 1 < s.left
    BY <2>1, <1>0
  <2> QED
    BY <2>2, <2>3 DEF LoopNext, LoopStates
<1>3. Descends(D, Stop, next, rank, MaxPasses)
  <2>1. rank \in [D -> 0 .. MaxPasses]
    BY DEF LoopStates
  <2>2. \A s \in D \ Stop : next[s] \in D /\ rank[next[s]] < rank[s]
    BY <1>2
  <2> QED
    BY <1>0, <2>1, <2>2 DEF Descends
<1>4. \A f : Run(f) <=> IsLoop(f, D, Stop, next, out)
  <2>1. ASSUME NEW f
        PROVE  [s \in D |-> IF LoopEnds(s) THEN s.pass ELSE f[LoopNext(s)]]
                 = [s \in D |-> IF s \in Stop THEN out[s] ELSE f[next[s]]]
    OBVIOUS
  <2> QED
    BY <2>1, Zenon DEF IsLoop
<1> HIDE DEF D, Stop, rank, out, next
<1>5. \E f : Run(f)
  <2>1. \E f : IsLoop(f, D, Stop, next, out)
    BY <1>3, TailRecursion
  <2> QED
    BY <2>1, <1>4, Zenon
<1> DEFINE run == CHOOSE f : Run(f)
<1>6. Run(run)
  BY <1>5, Zenon
<1>7. \A i : Loop(i) = run[LoopStart(i)]
  BY <1>1, Zenon
<1> HIDE DEF run
<1>8. \A s \in D : run[s] = IF LoopEnds(s) THEN s.pass ELSE run[LoopNext(s)]
  BY <1>6, Zenon
<1> QED
  BY <1>2, <1>7, <1>8 DEF D, RunsLoop

(* Whatever the iterator has when a call begins and every turn of its loop *)
(* keeps, holds of what the call ends with.                                *)
LEMMA LoopKeeps ==
  ASSUME LinksTyped, NEW i \in Iterators, NEW Good \in SUBSET LoopStates, LoopStart(i) \in Good,
         \A s \in Good : ~LoopEnds(s) => LoopNext(s) \in Good
  PROVE  \E s \in Good : LoopEnds(s) /\ Loop(i) = s.pass
<1>1. PICK run : /\ \A s \in LoopStates : run[s] = IF LoopEnds(s) THEN s.pass ELSE run[LoopNext(s)]
                 /\ \A s \in LoopStates : ~LoopEnds(s) =>
                      LoopNext(s) \in LoopStates /\ LoopNext(s).left < s.left
                 /\ \A j : Loop(j) = run[LoopStart(j)]
  BY LoopRuns DEF LoopHasRun, RunsLoop
<1> DEFINE rank == [s \in LoopStates |-> s.left]
           Kept == {s \in LoopStates : s \in Good => \E t \in Good : LoopEnds(t) /\ run[s] = t.pass}
<1>2. ASSUME NEW s \in LoopStates, \A t \in LoopStates : rank[t] < rank[s] => t \in Kept
      PROVE  s \in Kept
  <2>1. SUFFICES ASSUME s \in Good PROVE \E t \in Good : LoopEnds(t) /\ run[s] = t.pass
    OBVIOUS
  <2>2. CASE LoopEnds(s)
    BY <2>1, <2>2, <1>1
  <2>3. CASE ~LoopEnds(s)
    <3>1. LoopNext(s) \in Kept /\ LoopNext(s) \in Good /\ run[s] = run[LoopNext(s)]
      BY <2>1, <2>3, <1>1, <1>2
    <3> QED
      BY <3>1
  <2> QED
    BY <2>2, <2>3
<1>3. Kept = LoopStates
  <2>1. rank \in [LoopStates -> Nat] /\ Kept \in SUBSET LoopStates
    BY DEF LoopStates, LinksTyped, MaxPasses
  <2> HIDE DEF rank, Kept
  <2> QED
    BY <2>1, <1>2, RankInduction
<1> QED
  BY <1>1, <1>3

LEMMA LoopTyped ==
  ASSUME LinksTyped, NEW i \in Iterators
  PROVE  Loop(i) \in Passes /\ Loop(i).rootTmp = i.rootTmp
<1> DEFINE Good == {s \in LoopStates : s.pass.rootTmp = i.rootTmp}
<1>0. MaxPasses \in Nat
  BY DEF LinksTyped, MaxPasses
<1>1. LoopStart(i) \in Good
  BY <1>0 DEF LoopStart, LoopStates, Iterators, Passes
<1>2. ASSUME NEW s \in Good, ~LoopEnds(s) PROVE LoopNext(s) \in Good
  <2>1. s.pass \in Passes /\ s.pass.current # NULL /\ s.left \in 0 .. MaxPasses /\ s.left # 0
    BY <1>2 DEF LoopStates, LoopEnds, Stops
  <2>2. Pass(s.pass) \in Passes /\ Pass(s.pass).rootTmp = s.pass.rootTmp
    BY <2>1, PassTyped
  <2>3. s.left - 1 \in 0 .. MaxPasses
    BY <2>1, <1>0
  <2> QED
    BY <2>2, <2>3 DEF LoopNext, LoopStates
<1>3. Good \in SUBSET LoopStates
  OBVIOUS
<1> HIDE DEF Good
<1>4. PICK s \in Good : Loop(i) = s.pass
  BY <1>1, <1>2, <1>3, LoopKeeps
<1> QED
  BY <1>4 DEF Good, LoopStates

(* A call of get_next_resource_name_by_root leaves the iterator at a block *)
(* of the pool and a root, or past the last one.                           *)
LEMMA SteppedTyped ==
  ASSUME LinksTyped, list \in [Roots -> Links], NEW i \in Iterators
  PROVE  Stepped(i).it \in Iterators /\ Stepped(i).out \in Links
<1> DEFINE j == Loop(i)
           onward == [rootTmp |-> j.rootTmp, previous |-> j.previous, next |-> j.next,
                      current |-> j.current]
           past == [rootTmp |-> Len(RootSeq) + 1, previous |-> NULL, next |-> NULL, current |-> NULL]
<1>1. j \in Passes /\ j.rootTmp = i.rootTmp
  BY LoopTyped
<1>2. /\ j.found => Stepped(i) = [out |-> j.previous, it |-> onward]
      /\ ~j.found => Stepped(i) = [out |-> NULL, it |-> IF j.rootTmp < Len(RootSeq)
                                                      THEN AtRoot(j.rootTmp + 1) ELSE past]
  BY Zenon DEF Stepped
<1> HIDE DEF j
<1>3. onward \in Iterators
  BY <1>1 DEF Passes, Iterators
<1>4. Len(RootSeq) = 3 /\ j.rootTmp \in 1 .. 4
  BY <1>1 DEF Passes, Iterators, RootSeq
<1>5. past \in Iterators
  BY <1>4 DEF Iterators, Links
<1>6. j.rootTmp < Len(RootSeq) => AtRoot(j.rootTmp + 1) \in Iterators
  <2>1. SUFFICES ASSUME j.rootTmp < 3 PROVE AtRoot(j.rootTmp + 1) \in Iterators
    BY <1>4
  <2>2. j.rootTmp + 1 \in 1 .. 3 /\ RootSeq[j.rootTmp + 1] \in Roots
    BY <2>1, <1>4 DEF Roots
  <2>3. list[RootSeq[j.rootTmp + 1]] \in Links
    BY <2>2
  <2> QED
    BY <2>2, <2>3, <1>4 DEF AtRoot, Iterators, Links
<1> HIDE DEF onward, past
<1>7. j.previous \in Links /\ NULL \in Links
  BY <1>1 DEF Passes, Links
<1> QED
  BY <1>2, <1>3, <1>5, <1>6, <1>7

-----------------------------------------------------------------------------
(* The calls that link and unlink nothing.                                 *)

(* The forest is about the links of the blocks in use, and about no others.*)
LEMMA SameForest ==
  ASSUME NEW T, Forest(T), DataOwn(T), list' = list, used \subseteq used',
         \A r \in Roots : pool[r] \subseteq pool'[r],
         \A b \in used : /\ blk'[b].next = blk[b].next /\ blk'[b].prev = blk[b].prev
                         /\ blk'[b].subRoot = blk[b].subRoot /\ blk'[b].data = blk[b].data
  PROVE  Forest(T)' /\ DataOwn(T)'
<1>0. \A r \in Roots : OfRoot(T, r)' = OfRoot(T, r)
  BY DEF OfRoot
<1>1. \A r \in Roots : \A b \in OfRoot(T, r) : b \in used /\ InOrder(T, OfRoot(T, r), b)
  BY DEF Forest, InOrder
<1>2. ASSUME NEW r \in Roots, NEW b \in OfRoot(T, r) PROVE InOrder(T, OfRoot(T, r), b)'
  <2>1. InOrder(T, OfRoot(T, r), b) /\ b \in used /\ b \in used'
    BY <1>1
  <2>2. /\ blk[b].subRoot # NULL => blk[b].subRoot \in used
        /\ blk[b].next # NULL => blk[b].next \in used
    BY <2>1, <1>1 DEF InOrder
  <2>3. /\ blk[b].subRoot # NULL => blk'[blk[b].subRoot].prev = b
        /\ blk[b].next # NULL => blk'[blk[b].next].prev = b
    BY <2>1, <2>2 DEF InOrder
  <2>4. OfRoot(T, r)' = OfRoot(T, r) /\ blk'[b].next = blk[b].next /\ blk'[b].subRoot = blk[b].subRoot
    BY <2>1, <1>0
  <2> QED
    BY <2>1, <2>3, <2>4 DEF InOrder
<1>3. \A r \in Roots : list[r] # NULL => blk'[list[r]].prev = NULL
  <2> TAKE r \in Roots
  <2>1. list[r] # NULL => list[r] \in used /\ blk[list[r]].prev = NULL
    BY <1>1 DEF Forest
  <2> QED
    BY <2>1
<1>4. Forest(T)'
  <2>1. \A r \in Roots : \A b \in OfRoot(T, r)' : InOrder(T, OfRoot(T, r), b)'
    BY <1>0, <1>2
  <2> QED
    BY <2>1, <1>0, <1>3 DEF Forest
<1>5. DataOwn(T)'
  BY <1>0, <1>1 DEF DataOwn
<1> QED
  BY <1>4, <1>5

(* A resource's lock, last modifier and clock time are none of its links.  *)
LEMMA SetFieldKeeps ==
  ASSUME TreeInv, NEW l, NEW new, SetField(l, new), l.resource \in Links, new \in Block,
         LET b == blk[l.resource] IN
           new.next = b.next /\ new.prev = b.prev /\ new.subRoot = b.subRoot /\ new.data = b.data,
         lastModifier' \in Keys
  PROVE  TreeInv'
<1>1. PICK T : Forest(T) /\ DataOwn(T)
  BY DEF TreeInv
<1>2. /\ l.resource \in Blocks
      /\ blk' = [blk EXCEPT ![l.resource] = new]
      /\ used' = used /\ list' = list /\ pool' = pool
  BY DEF SetField, Links
<1>3. TreeTyped'
  BY <1>2 DEF TreeInv, TreeTyped, Slots
<1>4. \A b \in used : /\ blk'[b].next = blk[b].next /\ blk'[b].prev = blk[b].prev
                      /\ blk'[b].subRoot = blk[b].subRoot /\ blk'[b].data = blk[b].data
  <2> TAKE b \in used
  <2>1. b \in Blocks /\ DOMAIN blk = Blocks
    BY DEF TreeInv, TreeTyped
  <2>2. CASE b = l.resource
    BY <2>1, <2>2, <1>2
  <2>3. CASE b # l.resource
    BY <2>1, <2>3, <1>2
  <2> QED
    BY <2>2, <2>3
<1>5. Forest(T)' /\ DataOwn(T)'
  BY <1>1, <1>2, <1>4, SameForest
<1> QED
  BY <1>3, <1>5 DEF TreeInv

(* emma_resource_add, whatever it ends with: a block that was cleaned and  *)
(* given back, or taken and never linked, is a block the forest never saw. *)
LEMMA AddKeeps ==
  ASSUME TreeInv, NEW u \in Uris, NEW l, l = Lookup(u), Add(u, l)
  PROVE  TreeInv'
<1>0. TreeTyped /\ LinksTyped /\ u.root \in Roots /\ Len(u.path) \in Nat
      /\ u.path[Len(u.path)] \in STRING
  BY TypedLinks, TreeAssumption DEF TreeInv
<1>1. PICK T : Forest(T) /\ DataOwn(T)
  BY DEF TreeInv
<1>2. Found(T, u.root, l)
  BY <1>0, <1>1, LookupFinds
<1>3. CASE AddNoBlock(u, l)
  <2>1. UNCHANGED <<used, blk, list, pool, lastModifier>>
    BY <1>3 DEF AddNoBlock
  <2>2. Forest(T)' /\ DataOwn(T)'
    BY <2>1, <1>1, SameForest
  <2>3. TreeTyped'
    BY <2>1, <1>0 DEF TreeTyped, Slots
  <2> QED
    BY <2>2, <2>3 DEF TreeInv
<1>4. CASE AddRootFull(u, l)
  <2>1. PICK n : n = FreeBlock
    OBVIOUS
  <2>2. n \in Blocks \ used
    BY <2>1, <1>0, <1>4, FreeBlockIs DEF AddRootFull, TreeTyped, LinksTyped
  <2>3. /\ Cleaned(n) \in Block /\ blk' = [blk EXCEPT ![n] = Cleaned(n)]
        /\ UNCHANGED <<used, list, pool, lastModifier>>
    BY <2>1, <2>2, <1>0, <1>4, CleanedIs DEF AddRootFull
  <2>4. TreeTyped'
    BY <2>2, <2>3, <1>0 DEF TreeTyped, Slots
  <2>5. \A b \in used : blk'[b] = blk[b]
    BY <2>2, <2>3, <1>0 DEF TreeTyped
  <2>6. Forest(T)' /\ DataOwn(T)'
    BY <2>3, <2>5, <1>1, SameForest
  <2> QED
    BY <2>4, <2>6 DEF TreeInv
<1>5. CASE AddInFolder(u, l)
  <2>1. PICK folder, first : folder = l.folder /\ first = blk[l.folder].subRoot
    OBVIOUS
  <2>2. folder \in OfRoot(T, u.root) /\ first = blk[folder].subRoot
    BY <2>1, <1>2, <1>5 DEF AddInFolder, Found
  <2>3. LinkBefore(u, folder, first) /\ list' = list /\ Take(u) /\ used # Blocks /\ pool[u.root] # Slots(u.root)
    BY <2>1, <1>5, Zenon DEF AddInFolder, CanTake
  <2>4. LinkedNow(T, Grown(T, FreeBlock, folder, first), u, FreeBlock, folder, first)
    BY <2>2, <2>3, <1>0, <1>1, LinkKeeps
  <2> QED
    BY <2>4 DEF LinkedNow, TreeInv
<1>6. CASE AddAtRoot(u, l)
  <2>1. PICK folder, first : folder = NULL /\ first = list[u.root]
    OBVIOUS
  <2>2. LinkBefore(u, folder, first) /\ Take(u) /\ used # Blocks /\ pool[u.root] # Slots(u.root)
        /\ list' = [list EXCEPT ![u.root] = FreeBlock]
    BY <2>1, <1>6, Zenon DEF AddAtRoot, CanTake
  <2>3. LinkedNow(T, Grown(T, FreeBlock, folder, first), u, FreeBlock, folder, first)
    BY <2>1, <2>2, <1>0, <1>1, LinkKeeps
  <2> QED
    BY <2>3 DEF LinkedNow, TreeInv
<1>7. CASE AddNoFolder(u, l)
  <2>1. PICK n, slot : n = FreeBlock /\ slot = FreeSlot(u.root)
    OBVIOUS
  <2>2. n \in Blocks \ used
    BY <2>1, <1>0, <1>7, FreeBlockIs DEF AddNoFolder, CanTake, TreeTyped, LinksTyped
  <2>3. slot \in Slots(u.root) \ pool[u.root] /\ slot \in Nat
    BY <2>1, <1>0, <1>7, FreeSlotIs, TreeAssumption DEF AddNoFolder, CanTake, TreeTyped, Slots
  <2>4. PICK new : new = NewBlock(u, NULL, NULL)
    OBVIOUS
  <2>5. new \in Block
    <3>1. blk[n].clocktime \in Times
      BY <2>2, <1>0 DEF TreeTyped, Block
    <3>2. BlockOf(u.path[Len(u.path)], slot, blk[n].clocktime, NULL, NULL) \in Block
      BY <3>1, <2>3, <1>0, TreeAssumption DEF Block, BlockOf, Links
    <3> QED
      BY <3>2, <2>1, <2>4 DEF NewBlock
  <2>6. /\ blk' = [blk EXCEPT ![n] = new] /\ used' = used \cup {n}
        /\ pool' = [pool EXCEPT ![u.root] = @ \cup {slot}]
        /\ UNCHANGED <<list, lastModifier>>
    BY <2>1, <2>4, <1>7 DEF AddNoFolder, Take
  <2>7. TreeTyped'
    <3>1. pool' \in [Roots -> SUBSET Nat] /\ \A r \in Roots : pool'[r] \subseteq Slots(r)
      BY <2>3, <2>6, <1>0 DEF TreeTyped
    <3> QED
      BY <3>1, <2>2, <2>5, <2>6, <1>0 DEF TreeTyped, Slots
  <2>8. \A b \in used : blk'[b] = blk[b]
    BY <2>2, <2>6, <1>0 DEF TreeTyped
  <2>9. \A r \in Roots : pool[r] \subseteq pool'[r]
    BY <2>6, <1>0 DEF TreeTyped
  <2>10. Forest(T)' /\ DataOwn(T)'
    BY <2>6, <2>8, <2>9, <1>1, SameForest
  <2> QED
    BY <2>7, <2>10 DEF TreeInv
<1> QED
  BY <1>3, <1>4, <1>5, <1>6, <1>7 DEF Add

(* emma_resource_del, refused or not.                                      *)
LEMMA DelKeeps ==
  ASSUME TreeInv, NEW u \in Uris, NEW l, l = Lookup(u), Del(u, l)
  PROVE  TreeInv'
<1>0. TreeTyped /\ LinksTyped /\ u.root \in Roots
  BY TypedLinks, TreeAssumption DEF TreeInv
<1>1. PICK T : Forest(T) /\ DataOwn(T)
  BY DEF TreeInv
<1>2. CASE DelRefused(l)
  <2>1. UNCHANGED <<used, blk, list, pool, lastModifier>>
    BY <1>2 DEF DelRefused
  <2>2. Forest(T)' /\ DataOwn(T)'
    BY <2>1, <1>1, SameForest
  <2>3. TreeTyped'
    BY <2>1, <1>0 DEF TreeTyped, Slots
  <2> QED
    BY <2>2, <2>3 DEF TreeInv
<1>3. CASE DelUnlinked(u, l)
  <2>1. Found(T, u.root, l)
    BY <1>0, <1>1, LookupFinds
  <2>2. PICK S : S = Shrunk(T, l.resource)
    OBVIOUS
  <2>3. PICK before, first : UnlinkedNow(T, S, u.root, l.resource, before, first)
    BY <2>1, <2>2, <1>0, <1>1, <1>3, UnlinkKeeps
  <2> QED
    BY <2>3 DEF UnlinkedNow, TreeInv
<1> QED
  BY <1>2, <1>3 DEF Del

(* The calls that set a field of a resource: emma_resource_lock, _release, *)
(* _set_last_modified, _set_clocktime.                                     *)
LEMMA FieldsKeep ==
  ASSUME TreeInv, NEW u \in Uris, NEW l, l = Lookup(u),
         \/ Lock(l) \/ Release(l)
         \/ \E k \in Keys : SetLastModified(l, k)
         \/ \E t \in Times : SetClocktime(l, t)
  PROVE  TreeInv'
<1>0. TreeTyped /\ LinksTyped /\ u.root \in Roots /\ lastModifier \in Keys
  BY TypedLinks, TreeAssumption DEF TreeInv, TreeTyped
<1>1. l.resource \in Links /\ (l.resource # NULL => blk[l.resource] \in Block)
  <2>1. PICK T : Forest(T) /\ DataOwn(T)
    BY DEF TreeInv
  <2>2. l.resource \in OfRoot(T, u.root) \cup {NULL}
    BY <2>1, <1>0, LookupFinds DEF Found
  <2>3. OfRoot(T, u.root) \in SUBSET Blocks
    BY <2>1, <1>0, ForestIsBlocks
  <2> QED
    BY <2>2, <2>3, <1>0 DEF Links, TreeTyped
<1>2. PICK b : b = blk[l.resource]
  OBVIOUS
<1>3. CASE Lock(l)
  <2>1. PICK new : new = [b EXCEPT !.mutex = TRUE]
    OBVIOUS
  <2>2. SetField(l, new) /\ lastModifier' = lastModifier
    BY <2>1, <1>2, <1>3 DEF Lock
  <2>3. new \in Block /\ new.next = b.next /\ new.prev = b.prev /\ new.subRoot = b.subRoot /\ new.data = b.data
    BY <2>1, <2>2, <1>1, <1>2 DEF Block, SetField
  <2> QED
    BY <2>2, <2>3, <1>0, <1>1, <1>2, SetFieldKeeps
<1>4. CASE Release(l)
  <2>1. PICK new : new = [b EXCEPT !.mutex = FALSE]
    OBVIOUS
  <2>2. SetField(l, new) /\ lastModifier' = lastModifier
    BY <2>1, <1>2, <1>4 DEF Release
  <2>3. new \in Block /\ new.next = b.next /\ new.prev = b.prev /\ new.subRoot = b.subRoot /\ new.data = b.data
    BY <2>1, <2>2, <1>1, <1>2 DEF Block, SetField
  <2> QED
    BY <2>2, <2>3, <1>0, <1>1, <1>2, SetFieldKeeps
<1>5. ASSUME NEW k \in Keys, SetLastModified(l, k) PROVE TreeInv'
  <2>1. PICK new : new = [b EXCEPT !.lastModified = k]
    OBVIOUS
  <2>2. SetField(l, new) /\ lastModifier' \in Keys
    BY <2>1, <1>2, <1>5 DEF SetLastModified
  <2>3. new \in Block /\ new.next = b.next /\ new.prev = b.prev /\ new.subRoot = b.subRoot /\ new.data = b.data
    BY <2>1, <2>2, <1>1, <1>2 DEF Block, SetField
  <2> QED
    BY <2>2, <2>3, <1>1, <1>2, SetFieldKeeps
<1>6. ASSUME NEW t \in Times, SetClocktime(l, t) PROVE TreeInv'
  <2>1. PICK new : new = [b EXCEPT !.clocktime = t]
    OBVIOUS
  <2>2. SetField(l, new) /\ lastModifier' = lastModifier
    BY <2>1, <1>2, <1>6 DEF SetClocktime
  <2>3. new \in Block /\ new.next = b.next /\ new.prev = b.prev /\ new.subRoot = b.subRoot /\ new.data = b.data
    BY <2>1, <2>2, <1>1, <1>2 DEF Block, SetField
  <2> QED
    BY <2>2, <2>3, <1>0, <1>1, <1>2, SetFieldKeeps
<1> QED
  BY <1>3, <1>4, <1>5, <1>6

(* A walk, and what sets only the global, leave the forest as it is.       *)
LEMMA UntouchedKeeps ==
  ASSUME TreeInv, UNCHANGED <<used, blk, list, pool>>, lastModifier' \in Keys
  PROVE  TreeInv'
<1>1. PICK T : Forest(T) /\ DataOwn(T)
  BY DEF TreeInv
<1>2. Forest(T)' /\ DataOwn(T)'
  BY <1>1, SameForest
<1>3. TreeTyped'
  BY DEF TreeInv, TreeTyped, Slots
<1> QED
  BY <1>2, <1>3 DEF TreeInv

(* At the start the resources of S are one list, the last block first, and *)
(* every other root is empty.                                              *)
BootHangs == [b \in Blocks |-> IF b <= Len(BootNames) THEN 1 .. b ELSE {b}]

BootLinked ==
  LET n == Len(BootNames) IN
  /\ \A b \in 1 .. n : /\ blk[b].next = b - 1 /\ blk[b].subRoot = NULL
                       /\ blk[b].name = BootNames[n + 1 - b] /\ blk[b].mutex = FALSE
                       /\ blk[b].lastModified = 0 /\ blk[b].clocktime = 0
  /\ \A r \in Roots : /\ list[r] = (IF r = "S" THEN n ELSE NULL)
                      /\ OfRoot(BootHangs, r) = (IF r = "S" THEN 1 .. n ELSE {})

LEMMA BootTree ==
  ASSUME Init
  PROVE  TreeTyped /\ Forest(BootHangs) /\ DataOwn(BootHangs) /\ BootLinked
<1> DEFINE n == Len(BootNames)
           T == [b \in Blocks |-> IF b <= n THEN 1 .. b ELSE {b}]
<1>1. n \in Nat /\ n <= MaxResources /\ MaxResources \in Nat /\ 1 .. n \subseteq Blocks
  BY TreeAssumption DEF Blocks
<1>2. \A b \in Blocks :
        /\ b > n => blk[b] = EmptyBlock
        /\ b <= n => blk[b] = BlockOf(BootNames[n + 1 - b], b, 0, IF b = n THEN NULL ELSE b + 1, b - 1)
  BY <1>1 DEF Init, Blocks
<1>3. \A b \in Blocks : blk[b] \in Block
  <2> TAKE b \in Blocks
  <2>0. b \in Nat /\ b # 0
    BY <1>1 DEF Blocks
  <2>1. CASE b > n
    <3>1. blk[b] = BlockOf(NoName, NULL, 0, NULL, NULL)
      BY <2>1, <1>2 DEF EmptyBlock
    <3>2. NULL \in Nat /\ NULL \in Links /\ 0 \in Keys /\ 0 \in Times
      BY TreeAssumption DEF Links, NULL
    <3>3. BlockOf(NoName, NULL, 0, NULL, NULL) \in Block
      BY <3>2 DEF BlockOf, Block
    <3> QED
      BY <3>1, <3>3
  <2>2. CASE b <= n
    <3>1. PICK name, prev : name = BootNames[n + 1 - b] /\ prev = IF b = n THEN NULL ELSE b + 1
      OBVIOUS
    <3>2. name \in STRING
      <4>1. n + 1 - b \in 1 .. n
        BY <2>0, <2>2, <1>1
      <4> QED
        BY <3>1, <4>1, TreeAssumption
    <3>3. prev \in Links /\ b - 1 \in Links /\ NULL \in Links
      BY <2>0, <2>2, <3>1, <1>1 DEF Links, Blocks, NULL
    <3>4. blk[b] = BlockOf(name, b, 0, prev, b - 1)
      BY <2>2, <3>1, <1>2
    <3>5. BlockOf(name, b, 0, prev, b - 1) \in Block
      BY <2>0, <3>2, <3>3, TreeAssumption DEF BlockOf, Block
    <3> QED
      BY <3>4, <3>5
  <2> QED
    BY <2>0, <2>1, <2>2, <1>1
<1>4. \A b \in 1 .. n : /\ blk[b].next = b - 1 /\ blk[b].subRoot = NULL /\ blk[b].data = b
                        /\ blk[b].name = BootNames[n + 1 - b] /\ blk[b].mutex = FALSE
                        /\ blk[b].lastModified = 0 /\ blk[b].clocktime = 0
                        /\ blk[b].prev = IF b = n THEN NULL ELSE b + 1
  <2> HIDE DEF T
  <2> TAKE b \in 1 .. n
  <2>1. b \in Blocks /\ b <= n
    BY <1>1
  <2>2. blk[b] = BlockOf(BootNames[n + 1 - b], b, 0, IF b = n THEN NULL ELSE b + 1, b - 1)
    BY <2>1, <1>2
  <2> QED
    BY <2>2 DEF BlockOf
<1>5. /\ "S" \in Roots
      /\ \A r \in Roots : list[r] = (IF r = "S" THEN n ELSE NULL) /\ pool[r] = (IF r = "S" THEN 1 .. n ELSE {})
  <2>1. RootSeq[3] = "S" /\ 3 \in 1 .. Len(RootSeq)
    BY DEF RootSeq
  <2> QED
    BY <2>1 DEF Init, Roots
<1>6. TreeTyped
  <2>1. blk \in [Blocks -> Block]
    BY <1>3 DEF Init
  <2>2. list \in [Roots -> Links]
    BY <1>1, <1>5 DEF Init, Links, Blocks, NULL
  <2>3. pool \in [Roots -> SUBSET Nat] /\ \A r \in Roots : pool[r] \subseteq Slots(r)
    BY <1>1, <1>5, TreeAssumption DEF Init, Slots
  <2> QED
    BY <2>1, <2>2, <2>3, <1>1, TreeAssumption DEF Init, TreeTyped
<1>7. \A r \in Roots : OfRoot(T, r) = IF r = "S" THEN 1 .. n ELSE {}
  <2> TAKE r \in Roots
  <2>1. CASE r = "S" /\ n # 0
    <3>1. n \in Blocks /\ n # NULL /\ list[r] = n
      BY <2>1, <1>1, <1>5 DEF Blocks, NULL
    <3>2. T[n] = 1 .. n
      BY <3>1, <1>1
    <3> QED
      BY <2>1, <3>1, <3>2 DEF OfRoot, Hang
  <2>2. CASE ~(r = "S" /\ n # 0)
    BY <2>2, <1>1, <1>5 DEF OfRoot, Hang, NULL
  <2> QED
    BY <2>1, <2>2
<1>8. \A x \in 0 .. n : Hang(T, x) = 1 .. x
  BY <1>1 DEF Hang, NULL, Blocks
<1>9. ASSUME NEW b \in 1 .. n PROVE InOrder(T, 1 .. n, b)
  <2>1. b - 1 \in 0 .. n /\ 0 \in 0 .. n /\ T[b] = 1 .. b /\ b \in Nat
    BY <1>1 DEF Blocks
  <2>2. Hang(T, blk[b].next) = 1 .. (b - 1) /\ Hang(T, blk[b].subRoot) = {}
    BY <2>1, <1>4, <1>8, ZenonT(60) DEF Hang
  <2>3. 1 .. b = {} \cup {b} \cup (1 .. (b - 1)) /\ b \notin 1 .. (b - 1) /\ 1 .. b \subseteq 1 .. n
    BY <2>1, <1>1
  <2>4. b - 1 \in (1 .. n) \cup {NULL} /\ (b - 1 # NULL => b - 1 \in 1 .. n /\ b - 1 # n)
    BY <2>1, <1>1 DEF NULL
  <2>5. b - 1 # NULL => blk[b - 1].prev = b
    BY <2>1, <2>4, <1>4
  <2>6. b \in used
    BY DEF Init
  <2> QED
    BY <2>1, <2>2, <2>3, <2>4, <2>5, <2>6, <1>4 DEF InOrder
<1>10. Forest(T)
  <2>1. T \in [Blocks -> SUBSET Blocks]
    BY <1>1 DEF Blocks
  <2> HIDE DEF T
  <2>2. \A r \in Roots : list[r] \in Links /\ list[r] \in OfRoot(T, r) \cup {NULL}
    BY <1>1, <1>5, <1>7 DEF Links, Blocks, NULL
  <2>3. \A r \in Roots : list[r] # NULL => blk[list[r]].prev = NULL
    <3> TAKE r \in Roots
    <3>1. list[r] # NULL => list[r] = n /\ n \in 1 .. n
      BY <1>1, <1>5 DEF NULL
    <3> QED
      BY <3>1, <1>4
  <2>4. \A r, q \in Roots : r # q => OfRoot(T, r) \cap OfRoot(T, q) = {}
    BY <1>7
  <2>5. \A r \in Roots : \A b \in OfRoot(T, r) : InOrder(T, OfRoot(T, r), b)
    BY <1>7, <1>9
  <2> QED
    BY <2>1, <2>2, <2>3, <2>4, <2>5 DEF Forest
<1>11. DataOwn(T)
  <2> HIDE DEF T
  <2> QED
    BY <1>4, <1>5, <1>7 DEF DataOwn
<1>12. BootLinked
  <2>1. T = BootHangs
    BY DEF BootHangs
  <2> HIDE DEF T
  <2> QED
    BY <2>1, <1>4, <1>5, <1>7 DEF BootLinked
<1> QED
  BY <1>6, <1>10, <1>11, <1>12 DEF BootHangs

LEMMA InitTree == Init => TreeInv /\ it \in Iterators
<1>1. Init => it \in Iterators
  BY DEF Init, Iterators, RootSeq, Links
<1> QED
  BY <1>1, BootTree DEF TreeInv

(* Every call keeps the forest and leaves the iterator in the pool.        *)
LEMMA TreeStep == TreeInv /\ it \in Iterators /\ [Next]_vars => TreeInv' /\ it' \in Iterators
<1> SUFFICES ASSUME TreeInv, it \in Iterators, [Next]_vars
             PROVE  TreeInv' /\ it' \in Iterators
  OBVIOUS
<1>0. LinksTyped /\ list \in [Roots -> Links] /\ lastModifier \in Keys
  BY TypedLinks DEF TreeInv, TreeTyped
<1>1. AtRoot(1) \in Iterators
  BY <1>0 DEF AtRoot, Iterators, RootSeq, Roots, Links
<1>2. ASSUME NEW u \in Uris, NEW l, l = Lookup(u),
             \/ Add(u, l) \/ Del(u, l) \/ Lock(l) \/ Release(l)
             \/ \E k \in Keys : SetLastModified(l, k)
             \/ \E t \in Times : SetClocktime(l, t)
      PROVE  TreeInv' /\ it' \in Iterators
  <2>1. CASE Add(u, l)
    <3>1. it' = it
      BY <2>1 DEF Add, AddNoBlock, AddRootFull, AddInFolder, AddAtRoot, AddNoFolder, Take
    <3> QED
      BY <2>1, <3>1, <1>2, AddKeeps
  <2>2. CASE Del(u, l)
    <3>1. it' = AtRoot(1)
      BY <2>2, Zenon DEF Del, DelRefused, DelUnlinked
    <3> QED
      BY <2>2, <3>1, <1>1, <1>2, DelKeeps
  <2>3. CASE ~Add(u, l) /\ ~Del(u, l)
    <3>1. it' = it
      BY <2>3, <1>2 DEF Lock, Release, SetLastModified, SetClocktime, SetField
    <3> QED
      BY <2>3, <3>1, <1>2, FieldsKeep
  <2> QED
    BY <2>1, <2>2, <2>3
<1>3. ASSUME NEW k \in Keys, SetLastModifiedNode(k) PROVE TreeInv' /\ it' \in Iterators
  BY <1>3, UntouchedKeeps DEF SetLastModifiedNode
<1>4. ASSUME NEW i \in Iterators, Walk(i) PROVE TreeInv' /\ it' \in Iterators
  <2>1. UNCHANGED <<used, blk, list, pool, lastModifier>> /\ (it' = it \/ it' = Stepped(i).it)
    BY <1>4 DEF Walk
  <2> QED
    BY <2>1, <1>0, <1>4, SteppedTyped, UntouchedKeeps
<1>5. ASSUME NEW r \in 1 .. Len(RootSeq), StartWalk(r) PROVE TreeInv' /\ it' \in Iterators
  <2>1. Len(RootSeq) = 3 /\ RootSeq[r] \in Roots
    BY DEF RootSeq, Roots
  <2>2. AtRoot(r) \in Iterators /\ AtRoot(r).rootTmp = r
    BY <2>1, <1>0 DEF AtRoot, Iterators, Links
  <2> QED
    BY <2>1, <2>2, <1>4, <1>5 DEF StartWalk
<1>6. CASE ContinueWalk
  BY <1>4, <1>6 DEF ContinueWalk
<1>7. CASE UNCHANGED vars
  BY <1>0, <1>7, UntouchedKeeps DEF vars
<1>8. CASE Next
  <2>1. \/ \E u \in Uris : \E l \in {Lookup(u)} :
          \/ Add(u, l) \/ Del(u, l) \/ Lock(l) \/ Release(l)
          \/ \E k \in Keys : SetLastModified(l, k)
          \/ \E t \in Times : SetClocktime(l, t)
        \/ \E k \in Keys : SetLastModifiedNode(k)
        \/ \E r \in 1 .. Len(RootSeq) : StartWalk(r)
        \/ ContinueWalk
    BY <1>8 DEF Next
  <2> QED
    BY <2>1, <1>2, <1>3, <1>5, <1>6
<1> QED
  BY <1>7, <1>8

(* The inductive invariant: whatever the node adds, deletes and leaks, the *)
(* blocks the roots reach are a forest, linked both ways, whose data slots *)
(* are its own.                                                            *)
THEOREM TreeInvariant == Spec => [](TreeInv /\ it \in Iterators)
<1>1. Init => TreeInv /\ it \in Iterators
  BY InitTree
<1>2. TreeInv /\ it \in Iterators /\ [Next]_vars => (TreeInv /\ it \in Iterators)'
  BY TreeStep
<1> QED
  BY <1>1, <1>2, PTL DEF Spec

(* emma_resource_init and every call of emma-resource.c keep the blocks,   *)
(* the lists, the pools and the iterator within their types.               *)
THEOREM TreeTypes == Spec => []TypeOK
<1>1. TreeInv /\ it \in Iterators => TypeOK
  BY DEF TreeInv, TreeTyped, TypeOK
<1> QED
  BY <1>1, TreeInvariant, PTL

-----------------------------------------------------------------------------
(* What is linked: the blocks PostOrder lists are those that hang at the   *)
(* list, each of them once.                                                *)

Belows == [left : 0 .. MaxResources, block : Links]

BelowOf(f, s) ==
  IF s.left = 0 \/ s.block = NULL THEN <<>>
  ELSE f[[left |-> s.left - 1, block |-> blk[s.block].subRoot]]
         \o <<s.block>> \o f[[left |-> s.left - 1, block |-> blk[s.block].next]]

IsBelow(f) == f = [s \in Belows |-> BelowOf(f, s)]

(* Both recursions go one level down.                                      *)
LEMMA BelowDescends ==
  ASSUME LinksTyped, NEW s \in Belows, s.left # 0, s.block # NULL,
         NEW sub, sub = [left |-> s.left - 1, block |-> blk[s.block].subRoot],
         NEW next, next = [left |-> s.left - 1, block |-> blk[s.block].next]
  PROVE  /\ sub \in Belows /\ sub.left = s.left - 1 /\ sub.block = blk[s.block].subRoot
         /\ next \in Belows /\ next.left = s.left - 1 /\ next.block = blk[s.block].next
<1>1. s.block \in Blocks /\ s.left - 1 \in 0 .. MaxResources
  BY DEF Belows, Links, LinksTyped
<1>2. blk[s.block].subRoot \in Links /\ blk[s.block].next \in Links
  BY <1>1 DEF LinksTyped
<1> QED
  BY <1>1, <1>2 DEF Belows

LEMMA BelowExists ==
  ASSUME LinksTyped
  PROVE  \E f : IsBelow(f)
<1> DEFINE Upto(k, f) == \A s \in Belows : s.left < k => f[s] = BelowOf(f, s)
           Good == {k \in Nat : \E f : f = [s \in Belows |-> f[s]] /\ Upto(k, f)}
<1>0. \A s \in Belows : s.left \in 0 .. MaxResources /\ s.left \in Nat /\ s.left < MaxResources + 1
  BY DEF Belows, LinksTyped
<1>1. 0 \in Good
  <2> DEFINE g == [s \in Belows |-> <<>>]
  <2>1. g = [s \in Belows |-> g[s]] /\ Upto(0, g)
    BY <1>0
  <2> HIDE DEF g
  <2> QED
    BY <2>1
<1>2. ASSUME NEW k \in Good PROVE k + 1 \in Good
  <2>1. PICK f : f = [s \in Belows |-> f[s]] /\ Upto(k, f)
    OBVIOUS
  <2> DEFINE g == [s \in Belows |-> BelowOf(f, s)]
  <2>2. \A s \in Belows : g[s] = BelowOf(f, s)
    OBVIOUS
  <2>3. g = [s \in Belows |-> g[s]]
    OBVIOUS
  <2> HIDE DEF g
  <2>4. ASSUME NEW s \in Belows, s.left < k + 1 PROVE g[s] = BelowOf(g, s)
    <3>1. CASE s.left = 0 \/ s.block = NULL
      BY <3>1, <2>2 DEF BelowOf
    <3>2. CASE s.left # 0 /\ s.block # NULL
      <4>1. PICK sub, next : /\ sub = [left |-> s.left - 1, block |-> blk[s.block].subRoot]
                             /\ next = [left |-> s.left - 1, block |-> blk[s.block].next]
        OBVIOUS
      <4>2. sub \in Belows /\ sub.left < k /\ next \in Belows /\ next.left < k
        BY <4>1, <3>2, <2>4, <1>0, BelowDescends
      <4>3. f[sub] = g[sub] /\ f[next] = g[next]
        BY <4>2, <2>1, <2>2
      <4>4. BelowOf(f, s) = f[sub] \o <<s.block>> \o f[next] /\ BelowOf(g, s) = g[sub] \o <<s.block>> \o g[next]
        BY <4>1, <3>2, Zenon DEF BelowOf
      <4> QED
        BY <4>3, <4>4, <2>2
    <3> QED
      BY <3>1, <3>2
  <2>5. Upto(k + 1, g)
    BY <2>4
  <2> QED
    BY <2>3, <2>5
<1>3. MaxResources + 1 \in Good
  <2>1. MaxResources + 1 \in Nat /\ Good \in SUBSET Nat
    BY DEF LinksTyped
  <2> HIDE DEF Good
  <2> QED
    BY <1>1, <1>2, <2>1, NumberInduction
<1>4. PICK f : f = [s \in Belows |-> f[s]] /\ Upto(MaxResources + 1, f)
  BY <1>3
<1> HIDE DEF Good
<1>5. \A s \in Belows : f[s] = BelowOf(f, s)
  BY <1>0, <1>4
<1>6. f = [s \in Belows |-> BelowOf(f, s)]
  <2>1. [s \in Belows |-> f[s]] = [s \in Belows |-> BelowOf(f, s)]
    BY <1>5
  <2> QED
    BY <1>4, <2>1, Zenon
<1> QED
  BY <1>6, Zenon DEF IsBelow

(* What stands where in two sequences with one more element between them.  *)
LEMMA Around ==
  ASSUME NEW S, NEW p \in Seq(S), NEW q \in Seq(S), NEW b \in S, NEW w, w = p \o <<b>> \o q
  PROVE  /\ w \in Seq(S) /\ Len(w) = Len(p) + 1 + Len(q)
         /\ \A i \in 1 .. Len(w) :
              w[i] = IF i <= Len(p) THEN p[i] ELSE IF i = Len(p) + 1 THEN b ELSE q[i - (Len(p) + 1)]
<1>1. PICK v : v = p \o <<b>>
  OBVIOUS
<1>2. v \in Seq(S) /\ Len(v) = Len(p) + 1 /\ w = v \o q
  BY <1>1
<1>3. \A i \in 1 .. Len(v) : v[i] = IF i <= Len(p) THEN p[i] ELSE b
  BY <1>1
<1>4. w \in Seq(S) /\ Len(w) = Len(v) + Len(q)
  BY <1>2
<1>5. \A i \in 1 .. Len(w) : w[i] = IF i <= Len(v) THEN v[i] ELSE q[i - Len(v)]
  BY <1>2
<1> QED
  BY <1>2, <1>3, <1>4, <1>5

Members(w) == {w[i] : i \in 1 .. Len(w)}

(* A sequence with the members of H, and none of them twice.               *)
Lists(w, H) ==
  /\ w \in Seq(Blocks)
  /\ \A i \in 1 .. Len(w) : w[i] \in H
  /\ \A i, j \in 1 .. Len(w) : i # j => w[i] # w[j]

Spans(w, p, b, q) == Members(p) \cup {b} \cup Members(q) \subseteq Members(w)

(* A block, its content before it and the rest of its list behind it.      *)
LEMMA ListsAround ==
  ASSUME NEW H, NEW K, NEW b \in Blocks, NEW p, NEW q, Lists(p, H), Lists(q, K),
         b \notin H, b \notin K, H \cap K = {}, NEW w, w = p \o <<b>> \o q
  PROVE  /\ Lists(w, H \cup {b} \cup K)
         /\ Spans(w, p, b, q)
<1>1. p \in Seq(Blocks) /\ q \in Seq(Blocks) /\ Len(p) \in Nat /\ Len(q) \in Nat
  BY DEF Lists
<1>2. /\ w \in Seq(Blocks) /\ Len(w) = Len(p) + 1 + Len(q)
      /\ \A i \in 1 .. Len(w) :
           w[i] = IF i <= Len(p) THEN p[i] ELSE IF i = Len(p) + 1 THEN b ELSE q[i - (Len(p) + 1)]
  BY <1>1, Around
<1>3. \A i \in 1 .. Len(w) :
        \/ i <= Len(p) /\ i \in 1 .. Len(p) /\ w[i] = p[i] /\ w[i] \in H
        \/ i = Len(p) + 1 /\ w[i] = b
        \/ i > Len(p) + 1 /\ i - (Len(p) + 1) \in 1 .. Len(q) /\ w[i] = q[i - (Len(p) + 1)] /\ w[i] \in K
  BY <1>1, <1>2 DEF Lists
<1>5. ASSUME NEW i \in 1 .. Len(p) PROVE i \in 1 .. Len(w) /\ w[i] = p[i]
  BY <1>1, <1>2
<1>6. Len(p) + 1 \in 1 .. Len(w) /\ w[Len(p) + 1] = b
  BY <1>1, <1>2
<1>4. ASSUME NEW i \in 1 .. Len(w), NEW j \in 1 .. Len(w), i # j PROVE w[i] # w[j]
  <2>1. CASE i <= Len(p)
    BY <2>1, <1>1, <1>3, <1>4 DEF Lists
  <2>2. CASE i = Len(p) + 1
    <3>1. w[i] = b /\ j # Len(p) + 1
      BY <2>2, <1>4, <1>6
    <3>2. w[j] \in H \/ w[j] \in K
      BY <3>1, <1>3
    <3> QED
      BY <3>1, <3>2
  <2>3. CASE i > Len(p) + 1
    <3>1. CASE j > Len(p) + 1
      <4>1. i - (Len(p) + 1) # j - (Len(p) + 1)
        BY <1>1, <1>2, <1>4
      <4>2. Len(p) \in Nat /\ \A m, n \in 1 .. Len(q) : m # n => q[m] # q[n]
        BY <1>1 DEF Lists
      <4>3. i - (Len(p) + 1) \in 1 .. Len(q) /\ w[i] = q[i - (Len(p) + 1)]
        BY <1>3, <2>3, <4>2
      <4>4. j - (Len(p) + 1) \in 1 .. Len(q) /\ w[j] = q[j - (Len(p) + 1)]
        BY <1>3, <3>1, <4>2
      <4> QED
        BY <4>1, <4>2, <4>3, <4>4
    <3>2. CASE ~(j > Len(p) + 1)
      BY <2>3, <3>2, <1>1, <1>3
    <3> QED
      BY <3>1, <3>2
  <2> QED
    BY <2>1, <2>2, <2>3, <1>1, <1>2
<1>7. ASSUME NEW i \in 1 .. Len(q) PROVE i + (Len(p) + 1) \in 1 .. Len(w) /\ w[i + (Len(p) + 1)] = q[i]
  <2>1. i + (Len(p) + 1) \in 1 .. Len(w) /\ ~(i + (Len(p) + 1) <= Len(p)) /\ i + (Len(p) + 1) # Len(p) + 1
        /\ (i + (Len(p) + 1)) - (Len(p) + 1) = i
    BY <1>1, <1>2
  <2> QED
    BY <2>1, <1>2
<1>8. Spans(w, p, b, q)
  BY <1>5, <1>6, <1>7, SMTT(20) DEF Members, Spans
<1>9. Lists(w, H \cup {b} \cup K)
  BY <1>2, <1>3, <1>4 DEF Lists
<1> QED
  BY <1>8, <1>9

(* All of H, if there are not more of them than levels left.               *)
LEMMA BelowLists ==
  ASSUME NEW T, LinksTyped, Forest(T), NEW r \in Roots, NEW f, IsBelow(f),
         NEW s \in Belows, s.block \in OfRoot(T, r) \cup {NULL}
  PROVE  /\ Lists(f[s], Hang(T, s.block))
         /\ Cardinality(Hang(T, s.block)) <= s.left =>
              Hang(T, s.block) \subseteq Members(f[s])
<1> DEFINE Complete(x) == Cardinality(Hang(T, x.block)) <= x.left =>
                            Hang(T, x.block) \subseteq Members(f[x])
           Fine(x) == Lists(f[x], Hang(T, x.block)) /\ Complete(x)
           Good == {k \in Nat : \A x \in Belows :
                      x.left <= k /\ x.block \in OfRoot(T, r) \cup {NULL} => Fine(x)}
<1>0. \A x \in Belows : x.left \in Nat /\ x.block \in Links /\ f[x] = BelowOf(f, x)
  <2>1. \A x \in Belows : f[x] = BelowOf(f, x)
    BY Zenon DEF IsBelow
  <2>2. \A x \in Belows : x.left \in Nat /\ x.block \in Links
    BY DEF Belows, LinksTyped
  <2> QED
    BY <2>1, <2>2
<1>1. /\ OfRoot(T, r) \in SUBSET Blocks /\ NULL \notin Blocks
      /\ \A b \in Links : Hang(T, b) \in SUBSET Blocks
  BY ForestIsBlocks DEF Forest, Hang, Links, Blocks, NULL
<1>2. \A H \in SUBSET Blocks : IsFiniteSet(H) /\ Cardinality(H) \in Nat
  <2>1. IsFiniteSet(Blocks)
    BY FS_Interval DEF LinksTyped, Blocks
  <2> QED
    BY <2>1, FS_Subset, FS_CardinalityType
<1>3. ASSUME NEW x \in Belows, x.block \in OfRoot(T, r) \cup {NULL}, x.left = 0 \/ x.block = NULL
      PROVE  Fine(x)
  <2>1. f[x] = <<>>
    BY <1>0, <1>3 DEF BelowOf
  <2>2. Lists(f[x], Hang(T, x.block))
    BY <2>1 DEF Lists
  <2>3. CASE x.block = NULL
    BY <2>2, <2>3 DEF Hang
  <2>4. CASE x.left = 0 /\ x.block # NULL
    <3>1. x.block \in Hang(T, x.block)
      BY <2>4, <1>3 DEF Forest, InOrder, Hang
    <3>2. ~(Cardinality(Hang(T, x.block)) <= 0)
      <4>1. Hang(T, x.block) \in SUBSET Blocks
        BY <1>0, <1>1
      <4>2. Cardinality(Hang(T, x.block)) # 0
        BY <3>1, <4>1, <1>2, FS_EmptySet
      <4> QED
        BY <4>1, <4>2, <1>2
    <3> QED
      BY <2>2, <2>4, <3>2
  <2> QED
    BY <2>3, <2>4, <1>3
<1>4. 0 \in Good
  <2> HIDE DEF Fine
  <2>1. \A x \in Belows : x.left <= 0 => x.left = 0
    BY <1>0
  <2> QED
    BY <2>1, <1>3
<1>5. ASSUME NEW k \in Good PROVE k + 1 \in Good
  <2>1. SUFFICES ASSUME NEW x \in Belows, x.left <= k + 1, x.block \in OfRoot(T, r) \cup {NULL},
                        x.left # 0, x.block # NULL
                 PROVE  Fine(x)
    BY <1>3
  <2> PICK b : b = x.block
    OBVIOUS
  <2>2. b \in OfRoot(T, r) /\ b \in Blocks /\ InOrder(T, OfRoot(T, r), b) /\ Hang(T, b) = T[b]
    BY <2>1, <1>1 DEF Forest, Hang
  <2>3. PICK sub, next : /\ sub = [left |-> x.left - 1, block |-> blk[x.block].subRoot]
                         /\ next = [left |-> x.left - 1, block |-> blk[x.block].next]
    OBVIOUS
  <2>4. /\ sub \in Belows /\ sub.left = x.left - 1 /\ sub.block = blk[b].subRoot
        /\ next \in Belows /\ next.left = x.left - 1 /\ next.block = blk[b].next
    BY <2>1, <2>3, BelowDescends
  <2>5. Fine(sub) /\ Fine(next)
    <3>1. sub.left <= k /\ next.left <= k
      BY <2>1, <2>4, <1>0
    <3> QED
      BY <2>2, <2>4, <3>1 DEF InOrder
  <2> DEFINE H == Hang(T, sub.block)
             K == Hang(T, next.block)
  <2>6. /\ T[b] = H \cup {b} \cup K /\ b \notin H /\ b \notin K /\ H \cap K = {}
    BY <2>2, <2>4 DEF InOrder
  <2>7. f[x] = f[sub] \o <<b>> \o f[next]
    <3>1. BelowOf(f, x) = f[sub] \o <<b>> \o f[next]
      BY <2>1, <2>3, Zenon DEF BelowOf
    <3> QED
      BY <3>1, <1>0
  <2>8. /\ Lists(f[x], T[b])
        /\ Members(f[sub]) \cup {b} \cup Members(f[next]) \subseteq Members(f[x])
    <3>1. Lists(f[sub], H) /\ Lists(f[next], K)
      BY <2>5
    <3> HIDE DEF H, K
    <3>2. PICK p, q, w : p = f[sub] /\ q = f[next] /\ w = f[x]
      OBVIOUS
    <3>3. Lists(p, H) /\ Lists(q, K) /\ w = p \o <<b>> \o q
      BY <3>1, <3>2, <2>7
    <3>4. /\ Lists(w, H \cup {b} \cup K)
          /\ Spans(w, p, b, q)
      <4>1. b \in Blocks /\ b \notin H /\ b \notin K /\ H \cap K = {}
        BY <2>2, <2>6
      <4> QED
        BY <3>3, <4>1, ListsAround
    <3> QED
      BY <3>2, <3>4, <2>6, Zenon DEF Spans
  <2>9. Complete(x)
    <3>1. SUFFICES ASSUME Cardinality(T[b]) <= x.left
                   PROVE  T[b] \subseteq Members(f[x])
      BY <2>2
    <3>2. T[b] \in SUBSET Blocks /\ H \in SUBSET T[b] /\ K \in SUBSET T[b] /\ H # T[b] /\ K # T[b]
      BY <2>2, <2>6, <1>1 DEF Links
    <3> HIDE DEF H, K
    <3>3. Cardinality(H) < Cardinality(T[b]) /\ Cardinality(K) < Cardinality(T[b])
      <4>1. Cardinality(H) \in Nat /\ Cardinality(K) \in Nat /\ Cardinality(T[b]) \in Nat
        BY <3>2, <1>2
      <4>2. /\ Cardinality(H) <= Cardinality(T[b]) /\ Cardinality(H) # Cardinality(T[b])
            /\ Cardinality(K) <= Cardinality(T[b]) /\ Cardinality(K) # Cardinality(T[b])
        BY <3>2, <1>2, FS_Subset
      <4> QED
        BY <4>1, <4>2
    <3>4. Cardinality(H) <= sub.left /\ Cardinality(K) <= next.left
      <4>1. Cardinality(H) \in Nat /\ Cardinality(K) \in Nat /\ Cardinality(T[b]) \in Nat /\ x.left \in Nat
        BY <3>2, <1>0, <1>2
      <4> QED
        BY <3>1, <3>3, <4>1, <2>4
    <3>5. H \subseteq Members(f[sub]) /\ K \subseteq Members(f[next])
      BY <3>4, <2>5 DEF H, K
    <3> QED
      BY <3>5, <2>6, <2>8
  <2> QED
    BY <2>2, <2>8, <2>9
<1>6. \A k \in Nat : k \in Good
  <2>1. Good \in SUBSET Nat
    OBVIOUS
  <2> HIDE DEF Good
  <2> QED
    BY <2>1, <1>4, <1>5, NumberInduction
<1> QED
  BY <1>0, <1>6

LEMMA PostOrderLists ==
  ASSUME NEW T, LinksTyped, Forest(T), NEW r \in Roots
  PROVE  Lists(PostOrder(list[r]), OfRoot(T, r)) /\ LinkedAt(r) = OfRoot(T, r)
<1> DEFINE f == CHOOSE g : IsBelow(g)
           s == [left |-> MaxResources, block |-> list[r]]
           w == PostOrder(list[r])
<1>1. w = f[s]
  BY Zenon DEF PostOrder, IsBelow, BelowOf, Belows
<1>2. IsBelow(f)
  BY BelowExists
<1>3. s \in Belows /\ s.block = list[r] /\ s.left = MaxResources
  BY DEF Belows, Forest, LinksTyped
<1>4. list[r] \in OfRoot(T, r) \cup {NULL} /\ Hang(T, list[r]) = OfRoot(T, r)
  BY DEF Forest, OfRoot
<1> HIDE DEF f, s, w
<1>5. /\ Lists(f[s], OfRoot(T, r))
      /\ Cardinality(OfRoot(T, r)) <= MaxResources => OfRoot(T, r) \subseteq Members(f[s])
  BY <1>2, <1>3, <1>4, BelowLists
<1>6. Cardinality(OfRoot(T, r)) <= MaxResources
  <2>1. IsFiniteSet(Blocks) /\ Cardinality(Blocks) = MaxResources
    BY FS_Interval DEF Blocks, LinksTyped
  <2>2. OfRoot(T, r) \in SUBSET Blocks
    BY ForestIsBlocks
  <2> QED
    BY <2>1, <2>2, FS_Subset
<1>7. Lists(w, OfRoot(T, r)) /\ OfRoot(T, r) \subseteq Members(w)
  BY <1>1, <1>5, <1>6
<1>8. LinkedAt(r) = Members(w)
  BY DEF LinkedAt, Members, w
<1>9. Members(w) \subseteq OfRoot(T, r)
  BY <1>7 DEF Members, Lists
<1> QED
  BY <1>7, <1>8, <1>9 DEF w

(* Linking and unlinking keep every list, of a root or of a folder, linked *)
(* both ways, whatever was added, deleted or leaked before                 *)
(* (emma_resource_add, emma_resource_del).                                 *)
THEOREM ListsStayLinked == Spec => []WellLinked
<1>1. TreeInv => WellLinked
  <2> SUFFICES ASSUME TreeInv PROVE WellLinked
    OBVIOUS
  <2>1. PICK T : Forest(T)
    BY DEF TreeInv
  <2>2. \A r \in Roots : LinkedAt(r) = OfRoot(T, r)
    BY <2>1, TypedLinks, PostOrderLists DEF TreeInv
  <2>3. \A r \in Roots : list[r] # NULL => blk[list[r]].prev = NULL
    BY <2>1 DEF Forest
  <2>4. ASSUME NEW r \in Roots, NEW b \in Blocks, b \in LinkedAt(r)
        PROVE  /\ b \in used
               /\ blk[b].next # NULL => blk[blk[b].next].prev = b
               /\ blk[b].subRoot # NULL => blk[blk[b].subRoot].prev = b
    BY <2>1, <2>2, <2>4 DEF Forest, InOrder
  <2> QED
    BY <2>3, <2>4 DEF WellLinked
<1> QED
  BY <1>1, TreeInvariant, PTL

(* No block is ever linked in two places, and a data slot that a delete    *)
(* gives back to its pool is never that of another resource of the root.   *)
THEOREM NoneShares == Spec => []NothingShared
<1>1. TreeInv => NothingShared
  <2> SUFFICES ASSUME TreeInv, NEW r \in Roots, NEW walk, walk = PostOrder(list[r])
               PROVE  /\ \A i, j \in 1 .. Len(walk) : i # j =>
                           walk[i] # walk[j] /\ blk[walk[i]].data # blk[walk[j]].data
                      /\ \A b \in LinkedAt(r) : blk[b].data \in pool[r]
                      /\ \A q \in Roots \ {r} : LinkedAt(q) \cap LinkedAt(r) = {}
    BY DEF NothingShared
  <2>1. PICK T : Forest(T) /\ DataOwn(T)
    BY DEF TreeInv
  <2>2. Lists(walk, OfRoot(T, r)) /\ \A q \in Roots : LinkedAt(q) = OfRoot(T, q)
    BY <2>1, TypedLinks, PostOrderLists DEF TreeInv
  <2>3. ASSUME NEW i \in 1 .. Len(walk), NEW j \in 1 .. Len(walk), i # j
        PROVE  walk[i] # walk[j] /\ blk[walk[i]].data # blk[walk[j]].data
    <3>1. walk[i] \in OfRoot(T, r) /\ walk[j] \in OfRoot(T, r) /\ walk[i] # walk[j]
      BY <2>2, <2>3 DEF Lists
    <3> QED
      BY <3>1, <2>1 DEF DataOwn
  <2>4. \A b \in LinkedAt(r) : blk[b].data \in pool[r]
    BY <2>1, <2>2 DEF DataOwn
  <2>5. \A q \in Roots \ {r} : LinkedAt(q) \cap LinkedAt(r) = {}
    BY <2>1, <2>2 DEF Forest
  <2> QED
    BY <2>3, <2>4, <2>5
<1> QED
  BY <1>1, TreeInvariant, PTL
=============================================================================
