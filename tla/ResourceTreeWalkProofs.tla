------------------------ MODULE ResourceTreeWalkProofs ------------------------
(***************************************************************************)
(* A walk that nobody disturbs meets the resources of a root one after the *)
(* other, a folder after its content, and ends: with the few words of the  *)
(* iterator and the links of the blocks alone, in every tree that adds and *)
(* deletes can build.                                                      *)
(***************************************************************************)
EXTENDS ResourceTreeProofs

-----------------------------------------------------------------------------
(* The order of a list: the content of its first block, that block, and    *)
(* the rest of the list.                                                   *)

(* What hangs below a block is less than what hangs at it.                 *)
LEMMA HangsLess ==
  ASSUME NEW T, LinksTyped, Forest(T), NEW r \in Roots, NEW b \in OfRoot(T, r)
  PROVE  /\ b \in Blocks /\ b # NULL /\ b \in T[b] /\ T[b] = Hang(T, b)
         /\ Cardinality(T[b]) \in 1 .. MaxResources
         /\ Cardinality(Hang(T, blk[b].subRoot)) \in 0 .. (Cardinality(T[b]) - 1)
         /\ Cardinality(Hang(T, blk[b].next)) \in 0 .. (Cardinality(T[b]) - 1)
<1>1. b \in Blocks /\ b # NULL /\ InOrder(T, OfRoot(T, r), b) /\ b \in T[b] /\ T[b] = Hang(T, b)
  <2>1. b \in Blocks /\ b # NULL
    BY ForestIsBlocks DEF Blocks, NULL
  <2>2. InOrder(T, OfRoot(T, r), b)
    BY DEF Forest
  <2> QED
    BY <2>1, <2>2 DEF InOrder, Hang
<1> PICK K, H, L : K = T[b] /\ H = Hang(T, blk[b].subRoot) /\ L = Hang(T, blk[b].next)
  OBVIOUS
<1>2. /\ K \in SUBSET Blocks /\ H \in SUBSET K /\ L \in SUBSET K /\ H # K /\ L # K /\ b \in K
  BY <1>1 DEF Forest, InOrder
<1>3. IsFiniteSet(Blocks) /\ Cardinality(Blocks) = MaxResources /\ MaxResources \in Nat
  BY FS_Interval DEF Blocks, LinksTyped
<1>4. IsFiniteSet(K) /\ Cardinality(K) <= MaxResources
  BY <1>2, <1>3, FS_Subset
<1>5. /\ IsFiniteSet(H) /\ Cardinality(H) <= Cardinality(K) /\ Cardinality(H) # Cardinality(K)
      /\ IsFiniteSet(L) /\ Cardinality(L) <= Cardinality(K) /\ Cardinality(L) # Cardinality(K)
  BY <1>2, <1>4, FS_Subset
<1>6. Cardinality(K) \in Nat /\ Cardinality(H) \in Nat /\ Cardinality(L) \in Nat
  BY <1>4, <1>5, FS_CardinalityType
<1>7. Cardinality(K) # 0
  BY <1>2, <1>4, FS_EmptySet
<1>8. /\ Cardinality(K) \in 1 .. MaxResources
      /\ Cardinality(H) \in 0 .. (Cardinality(K) - 1) /\ Cardinality(L) \in 0 .. (Cardinality(K) - 1)
  BY <1>3, <1>4, <1>5, <1>6, <1>7
<1> QED
  BY <1>1, <1>8

(* As long as there are as many levels left as blocks, how many there are  *)
(* makes no difference.                                                    *)
LEMMA LevelsDoNotMatter ==
  ASSUME NEW T, LinksTyped, Forest(T), NEW r \in Roots, NEW f, IsBelow(f),
         NEW s \in Belows, NEW t \in Belows, s.block = t.block, s.block \in OfRoot(T, r) \cup {NULL},
         Cardinality(Hang(T, s.block)) <= s.left, Cardinality(Hang(T, s.block)) <= t.left
  PROVE  f[s] = f[t]
<1> DEFINE Same(x, y) == /\ x.block = y.block /\ x.block \in OfRoot(T, r) \cup {NULL}
                         /\ Cardinality(Hang(T, x.block)) <= x.left
                         /\ Cardinality(Hang(T, x.block)) <= y.left
           Good == {k \in Nat : \A x, y \in Belows : x.left <= k /\ Same(x, y) => f[x] = f[y]}
<1>0. \A x \in Belows : x.left \in Nat /\ f[x] = BelowOf(f, x)
  <2>1. \A x \in Belows : f[x] = BelowOf(f, x)
    BY Zenon DEF IsBelow
  <2>2. \A x \in Belows : x.left \in Nat
    BY DEF Belows, LinksTyped
  <2> QED
    BY <2>1, <2>2
<1>1. ASSUME NEW x \in Belows, NEW y \in Belows, Same(x, y), x.block = NULL \/ x.left = 0
      PROVE  f[x] = f[y]
  <2>1. x.block = NULL
    <3>1. SUFFICES ASSUME x.block \in OfRoot(T, r), x.left = 0 PROVE FALSE
      BY <1>1
    <3>2. /\ Cardinality(T[x.block]) \in 1 .. MaxResources /\ T[x.block] = Hang(T, x.block)
          /\ MaxResources \in Nat
      BY <3>1, HangsLess DEF LinksTyped
    <3>3. Cardinality(T[x.block]) <= 0
      BY <1>1, <3>1, <3>2
    <3> QED
      BY <3>2, <3>3
  <2>2. f[x] = <<>> /\ f[y] = <<>>
    BY <2>1, <1>0, <1>1 DEF BelowOf
  <2> QED
    BY <2>2
<1>2. 0 \in Good
  <2> HIDE DEF Same
  <2>1. \A x \in Belows : x.left <= 0 => x.left = 0
    BY <1>0
  <2> QED
    BY <2>1, <1>1
<1>3. ASSUME NEW k \in Good PROVE k + 1 \in Good
  <2>1. SUFFICES ASSUME NEW x \in Belows, NEW y \in Belows, x.left <= k + 1, Same(x, y),
                        x.left # 0, x.block # NULL
                 PROVE  f[x] = f[y]
    BY <1>1
  <2> PICK b : b = x.block
    OBVIOUS
  <2>2. /\ b \in OfRoot(T, r) /\ InOrder(T, OfRoot(T, r), b)
        /\ Cardinality(T[b]) \in Int /\ Cardinality(T[b]) >= 1
        /\ Cardinality(T[b]) <= x.left /\ Cardinality(T[b]) <= y.left
        /\ Cardinality(Hang(T, blk[b].subRoot)) \in 0 .. (Cardinality(T[b]) - 1)
        /\ Cardinality(Hang(T, blk[b].next)) \in 0 .. (Cardinality(T[b]) - 1)
    <3>1. b \in OfRoot(T, r)
      BY <2>1
    <3>2. InOrder(T, OfRoot(T, r), b)
      BY <3>1 DEF Forest
    <3> QED
      BY <2>1, <3>1, <3>2, HangsLess DEF LinksTyped
  <2>3. PICK xs, xn, ys, yn : /\ xs = [left |-> x.left - 1, block |-> blk[x.block].subRoot]
                              /\ xn = [left |-> x.left - 1, block |-> blk[x.block].next]
                              /\ ys = [left |-> y.left - 1, block |-> blk[y.block].subRoot]
                              /\ yn = [left |-> y.left - 1, block |-> blk[y.block].next]
    OBVIOUS
  <2>4. y.left # 0 /\ y.block # NULL /\ y.block = b
    BY <2>1, <2>2
  <2>5. /\ xs \in Belows /\ xs.left = x.left - 1 /\ xs.block = blk[b].subRoot
        /\ xn \in Belows /\ xn.left = x.left - 1 /\ xn.block = blk[b].next
        /\ ys \in Belows /\ ys.left = y.left - 1 /\ ys.block = blk[b].subRoot
        /\ yn \in Belows /\ yn.left = y.left - 1 /\ yn.block = blk[b].next
    BY <2>1, <2>3, <2>4, BelowDescends
  <2>6. Same(xs, ys) /\ Same(xn, yn) /\ xs.left <= k /\ xn.left <= k
    <3>1. x.left \in Nat /\ y.left \in Nat
      BY <1>0
    <3>2. Cardinality(Hang(T, blk[b].subRoot)) <= x.left - 1 /\ Cardinality(Hang(T, blk[b].subRoot)) <= y.left - 1
      BY <3>1, <2>2
    <3>3. Cardinality(Hang(T, blk[b].next)) <= x.left - 1 /\ Cardinality(Hang(T, blk[b].next)) <= y.left - 1
      BY <3>1, <2>2
    <3>4. x.left - 1 <= k
      BY <3>1, <2>1
    <3> QED
      BY <3>2, <3>3, <3>4, <2>2, <2>5 DEF InOrder
  <2>7. f[xs] = f[ys] /\ f[xn] = f[yn]
    <3> HIDE DEF Same
    <3> QED
      BY <2>5, <2>6
  <2>8. f[x] = f[xs] \o <<b>> \o f[xn] /\ f[y] = f[ys] \o <<b>> \o f[yn]
    <3>1. BelowOf(f, x) = f[xs] \o <<b>> \o f[xn]
      BY <2>1, <2>3, Zenon DEF BelowOf
    <3>2. BelowOf(f, y) = f[ys] \o <<b>> \o f[yn]
      BY <2>3, <2>4, Zenon DEF BelowOf
    <3> QED
      BY <3>1, <3>2, <1>0
  <2> QED
    BY <2>7, <2>8
<1>4. \A k \in Nat : k \in Good
  <2>1. Good \in SUBSET Nat
    OBVIOUS
  <2> HIDE DEF Good
  <2> QED
    BY <2>1, <1>2, <1>3, NumberInduction
<1> QED
  BY <1>0, <1>4

(* PostOrder on a block that hangs at a root, without the recursion.       *)
LEMMA OrderUnfolds ==
  ASSUME NEW T, LinksTyped, Forest(T), NEW r \in Roots
  PROVE  /\ PostOrder(NULL) = <<>>
         /\ \A b \in OfRoot(T, r) :
              PostOrder(b) = PostOrder(blk[b].subRoot) \o <<b>> \o PostOrder(blk[b].next)
         /\ \A b \in OfRoot(T, r) \cup {NULL} : Lists(PostOrder(b), Hang(T, b))
<1> DEFINE f == CHOOSE g : IsBelow(g)
           From(b) == [left |-> MaxResources, block |-> b]
<1>0. /\ OfRoot(T, r) \in SUBSET Blocks /\ \A b \in OfRoot(T, r) : b \in Links /\ b # NULL
      /\ MaxResources \in Nat
  BY ForestIsBlocks DEF Links, Blocks, NULL, LinksTyped
<1>1. \A b : PostOrder(b) = f[From(b)]
  BY Zenon DEF PostOrder, IsBelow, BelowOf, Belows
<1>2. IsBelow(f)
  BY BelowExists
<1> HIDE DEF f
<1>3. \A s \in Belows : f[s] = BelowOf(f, s)
  BY <1>2, Zenon DEF IsBelow
<1>4. \A b \in Links : From(b) \in Belows /\ From(b).block = b /\ From(b).left = MaxResources
  BY <1>0 DEF Belows
<1> HIDE DEF From
<1>5. \A b \in OfRoot(T, r) \cup {NULL} : b \in Links
  BY <1>0 DEF Links
<1>6. PostOrder(NULL) = <<>>
  BY <1>1, <1>3, <1>4, <1>5 DEF BelowOf
<1>7. ASSUME NEW b \in OfRoot(T, r)
      PROVE  PostOrder(b) = PostOrder(blk[b].subRoot) \o <<b>> \o PostOrder(blk[b].next)
  <2>0. MaxResources # 0 /\ InOrder(T, OfRoot(T, r), b)
        /\ blk[b].subRoot \in OfRoot(T, r) \cup {NULL} /\ blk[b].next \in OfRoot(T, r) \cup {NULL}
    <3>1. InOrder(T, OfRoot(T, r), b)
      BY DEF Forest
    <3>2. MaxResources # 0
      BY <1>0 DEF Blocks
    <3> QED
      BY <3>1, <3>2 DEF InOrder
  <2>1. PICK s, sub, next : /\ s = From(b)
                            /\ sub = [left |-> s.left - 1, block |-> blk[s.block].subRoot]
                            /\ next = [left |-> s.left - 1, block |-> blk[s.block].next]
    OBVIOUS
  <2>2. s \in Belows /\ s.left = MaxResources /\ s.block = b /\ b # NULL
    BY <2>1, <1>0, <1>4
  <2>3. /\ sub \in Belows /\ sub.left = MaxResources - 1 /\ sub.block = blk[b].subRoot
        /\ next \in Belows /\ next.left = MaxResources - 1 /\ next.block = blk[b].next
    BY <2>0, <2>1, <2>2, BelowDescends
  <2>4. BelowOf(f, s) = f[sub] \o <<b>> \o f[next]
    BY <2>0, <2>1, <2>2, Zenon DEF BelowOf
  <2>5. /\ Cardinality(Hang(T, blk[b].subRoot)) <= MaxResources - 1
        /\ Cardinality(Hang(T, blk[b].next)) <= MaxResources - 1
        /\ Cardinality(Hang(T, blk[b].subRoot)) <= MaxResources
        /\ Cardinality(Hang(T, blk[b].next)) <= MaxResources
    <3>1. /\ Cardinality(T[b]) \in 1 .. MaxResources
          /\ Cardinality(Hang(T, blk[b].subRoot)) \in 0 .. (Cardinality(T[b]) - 1)
          /\ Cardinality(Hang(T, blk[b].next)) \in 0 .. (Cardinality(T[b]) - 1)
      BY HangsLess
    <3> QED
      BY <3>1, <1>0
  <2>6. f[sub] = f[From(blk[b].subRoot)]
    <3>1. PICK t : t = From(blk[b].subRoot)
      OBVIOUS
    <3>2. t \in Belows /\ t.block = blk[b].subRoot /\ t.left = MaxResources
      BY <3>1, <2>0, <1>4, <1>5
    <3> QED
      BY <3>1, <3>2, <2>0, <2>3, <2>5, <1>2, LevelsDoNotMatter
  <2>7. f[next] = f[From(blk[b].next)]
    <3>1. PICK t : t = From(blk[b].next)
      OBVIOUS
    <3>2. t \in Belows /\ t.block = blk[b].next /\ t.left = MaxResources
      BY <3>1, <2>0, <1>4, <1>5
    <3> QED
      BY <3>1, <3>2, <2>0, <2>3, <2>5, <1>2, LevelsDoNotMatter
  <2> QED
    BY <2>1, <2>2, <2>4, <2>6, <2>7, <1>1, <1>3
<1>8. ASSUME NEW b \in OfRoot(T, r) \cup {NULL} PROVE Lists(PostOrder(b), Hang(T, b))
  <2>1. PICK s : s = From(b)
    OBVIOUS
  <2>2. s \in Belows /\ s.block = b
    BY <2>1, <1>4, <1>5
  <2>3. Lists(f[s], Hang(T, s.block))
    BY <2>2, <1>2, BelowLists
  <2> QED
    BY <2>1, <2>2, <2>3, <1>1
<1> QED
  BY <1>6, <1>7, <1>8

(* Every block but the first of the root is linked from the block it calls *)
(* prev: its folder or its predecessor.                                    *)
LEMMA HasParent ==
  ASSUME NEW T, LinksTyped, Forest(T), NEW r \in Roots, NEW b \in OfRoot(T, r), b # list[r]
  PROVE  /\ blk[b].prev \in OfRoot(T, r)
         /\ blk[blk[b].prev].subRoot = b \/ blk[blk[b].prev].next = b
         /\ Cardinality(T[b]) < Cardinality(T[blk[b].prev])
<1> PICK At : At = OfRoot(T, r)
  OBVIOUS
<1> DEFINE rank == [c \in At |-> Cardinality(T[c])]
           Good == {c \in At : \A x \in T[c] :
                      x = c \/ \E p \in T[c] : blk[p].subRoot = x \/ blk[p].next = x}
<1>0. /\ MaxResources \in Nat
      /\ \A c \in At : /\ Cardinality(T[c]) \in 1 .. MaxResources /\ c # NULL /\ c \in T[c] /\ T[c] = Hang(T, c)
                       /\ Cardinality(Hang(T, blk[c].subRoot)) \in 0 .. (Cardinality(T[c]) - 1)
                       /\ Cardinality(Hang(T, blk[c].next)) \in 0 .. (Cardinality(T[c]) - 1)
                       /\ InOrder(T, At, c)
  BY HangsLess DEF LinksTyped, Forest
<1>1. rank \in [At -> Nat]
  BY <1>0
<1>2. ASSUME NEW c \in At, \A d \in At : rank[d] < rank[c] => d \in Good
      PROVE  c \in Good
  <2>1. SUFFICES ASSUME NEW x \in T[c], x # c
                 PROVE  \E p \in T[c] : blk[p].subRoot = x \/ blk[p].next = x
    OBVIOUS
  <2>2. PICK n \in {blk[c].subRoot, blk[c].next} : x \in Hang(T, n)
    BY <2>1, <1>0 DEF InOrder
  <2>3. n \in At /\ T[n] = Hang(T, n) /\ T[n] \subseteq T[c]
    BY <2>2, <1>0 DEF InOrder, Hang
  <2>4. n \in Good
    <3>1. Cardinality(T[n]) < Cardinality(T[c])
      BY <2>2, <2>3, <1>0
    <3> QED
      BY <2>3, <3>1, <1>2
  <2>5. CASE x = n
    BY <2>2, <2>5, <1>0
  <2>6. CASE x # n
    BY <2>2, <2>3, <2>4, <2>6
  <2> QED
    BY <2>5, <2>6
<1>3. Good = At
  <2>1. Good \in SUBSET At
    OBVIOUS
  <2> HIDE DEF Good, rank
  <2> QED
    BY <2>1, <1>1, <1>2, RankInduction
<1>4. list[r] \in At /\ T[list[r]] = At
  BY DEF Forest, OfRoot, Hang
<1>5. PICK p \in At : blk[p].subRoot = b \/ blk[p].next = b
  BY <1>3, <1>4
<1>6. blk[b].prev = p
  BY <1>0, <1>5 DEF InOrder
<1>7. Cardinality(T[b]) < Cardinality(T[p])
  <2>1. Cardinality(Hang(T, b)) \in 0 .. (Cardinality(T[p]) - 1) /\ Cardinality(T[p]) \in Nat
    BY <1>0, <1>5
  <2>2. T[b] = Hang(T, b)
    BY <1>0
  <2> QED
    BY <2>1, <2>2
<1> QED
  BY <1>5, <1>6, <1>7

-----------------------------------------------------------------------------
(* The way back: from the end of a list to its folder.                     *)

(* up[b] is the folder of the list that b is on, NULL at the root.         *)
IsUp(up, T, r) ==
  \A b \in OfRoot(T, r) :
    up[b] = IF b = list[r] \/ blk[blk[b].prev].subRoot = b THEN blk[b].prev ELSE up[blk[b].prev]

LEMMA UpExists ==
  ASSUME NEW T, LinksTyped, Forest(T), NEW r \in Roots
  PROVE  \E up : IsUp(up, T, r)
<1> PICK At : At = OfRoot(T, r)
  OBVIOUS
<1> DEFINE Stop == {b \in At : b = list[r] \/ blk[blk[b].prev].subRoot = b}
           next == [b \in At |-> blk[b].prev]
           rank == [b \in At |-> MaxResources - Cardinality(T[b])]
<1>0. MaxResources \in Nat /\ \A b \in At : Cardinality(T[b]) \in 1 .. MaxResources
  BY HangsLess DEF LinksTyped
<1>1. Descends(At, Stop, next, rank, MaxResources)
  <2>1. rank \in [At -> 0 .. MaxResources]
    BY <1>0
  <2>2. ASSUME NEW b \in At \ Stop PROVE next[b] \in At /\ rank[next[b]] < rank[b]
    <3>1. blk[b].prev \in At /\ Cardinality(T[b]) < Cardinality(T[blk[b].prev])
      BY HasParent
    <3> QED
      BY <3>1, <1>0
  <2> QED
    BY <1>0, <2>1, <2>2 DEF Descends
<1> HIDE DEF rank
<1>2. PICK up : IsLoop(up, At, Stop, next, next)
  BY <1>1, TailRecursion
<1>3. \A b \in At : up[b] = IF b \in Stop THEN next[b] ELSE up[next[b]]
  BY <1>2, Zenon DEF IsLoop
<1> QED
  BY <1>3 DEF IsUp

(* In w, v stands behind the first o elements, and u behind it, if there   *)
(* is anything.                                                            *)
Placed(w, o, v, u) ==
  /\ o \in Nat /\ o + Len(v) <= Len(w)
  /\ \A i \in 1 .. Len(v) : w[o + i] = v[i]
  /\ u = NULL => o + Len(v) = Len(w)
  /\ u # NULL => o + Len(v) + 1 <= Len(w) /\ w[o + Len(v) + 1] = u

LEMMA PlacedParts ==
  ASSUME NEW S, NEW w \in Seq(S), NEW p \in Seq(S), NEW q \in Seq(S), NEW b \in S, b # NULL,
         NEW o, NEW u, Placed(w, o, p \o <<b>> \o q, u)
  PROVE  Placed(w, o, p, b) /\ Placed(w, o + (Len(p) + 1), q, u)
<1> PICK v : v = p \o <<b>> \o q
  OBVIOUS
<1>1. /\ Len(v) = Len(p) + 1 + Len(q)
      /\ \A i \in 1 .. Len(v) :
           v[i] = IF i <= Len(p) THEN p[i] ELSE IF i = Len(p) + 1 THEN b ELSE q[i - (Len(p) + 1)]
  BY Around
<1>2. Len(p) \in Nat /\ Len(q) \in Nat /\ Len(w) \in Nat /\ o \in Nat
  BY DEF Placed
<1>3. /\ o + Len(v) <= Len(w)
      /\ \A i \in 1 .. Len(v) : w[o + i] = v[i]
      /\ u = NULL => o + Len(v) = Len(w)
      /\ u # NULL => o + Len(v) + 1 <= Len(w) /\ w[o + Len(v) + 1] = u
  BY DEF Placed
<1>4. Placed(w, o, p, b)
  <2>1. ASSUME NEW i \in 1 .. Len(p) PROVE w[o + i] = p[i]
    <3>1. i \in 1 .. Len(v) /\ i <= Len(p)
      BY <1>1, <1>2
    <3> QED
      BY <3>1, <1>1, <1>3
  <2>2. Len(p) + 1 \in 1 .. Len(v) /\ v[Len(p) + 1] = b
    BY <1>1, <1>2
  <2>3. w[o + (Len(p) + 1)] = b
    BY <2>2, <1>3
  <2>4. o + (Len(p) + 1) = o + Len(p) + 1 /\ o + Len(p) + 1 <= Len(w)
    BY <1>1, <1>2, <1>3
  <2> QED
    BY <2>1, <2>3, <2>4, <1>2 DEF Placed
<1>5. Placed(w, o + (Len(p) + 1), q, u)
  <2>1. ASSUME NEW i \in 1 .. Len(q) PROVE w[(o + (Len(p) + 1)) + i] = q[i]
    <3>1. /\ (Len(p) + 1) + i \in 1 .. Len(v)
          /\ ~((Len(p) + 1) + i <= Len(p)) /\ (Len(p) + 1) + i # Len(p) + 1
          /\ ((Len(p) + 1) + i) - (Len(p) + 1) = i
          /\ o + ((Len(p) + 1) + i) = (o + (Len(p) + 1)) + i
      BY <1>1, <1>2
    <3>2. v[(Len(p) + 1) + i] = q[i]
      BY <3>1, <1>1
    <3>3. w[o + ((Len(p) + 1) + i)] = v[(Len(p) + 1) + i]
      BY <3>1, <1>3
    <3> QED
      BY <3>1, <3>2, <3>3
  <2>2. (o + (Len(p) + 1)) + Len(q) = o + Len(v)
    BY <1>1, <1>2
  <2> QED
    BY <2>1, <2>2, <1>2, <1>3 DEF Placed
<1> QED
  BY <1>4, <1>5

(* The order of a root holds that of each of its lists in one piece, with  *)
(* the folder behind it.                                                   *)
LEMMA EachIsPlaced ==
  ASSUME NEW T, LinksTyped, Forest(T), NEW r \in Roots, NEW up, IsUp(up, T, r)
  PROVE  \A b \in OfRoot(T, r) : \E o : Placed(PostOrder(list[r]), o, PostOrder(b), up[b])
<1> PICK At, w : At = OfRoot(T, r) /\ w = PostOrder(list[r])
  OBVIOUS
<1> DEFINE rank == [b \in At |-> MaxResources - Cardinality(T[b])]
           Good == {b \in At : \E o : Placed(w, o, PostOrder(b), up[b])}
<1>0. /\ MaxResources \in Nat /\ At \in SUBSET Blocks
      /\ \A b \in At : Cardinality(T[b]) \in 1 .. MaxResources /\ b # NULL /\ InOrder(T, At, b)
  BY HangsLess, ForestIsBlocks DEF LinksTyped, Forest
<1>1. /\ \A b \in At : PostOrder(b) = PostOrder(blk[b].subRoot) \o <<b>> \o PostOrder(blk[b].next)
      /\ \A b \in At \cup {NULL} : PostOrder(b) \in Seq(Blocks)
  BY OrderUnfolds DEF Lists
<1>2. list[r] \in At \cup {NULL} /\ w \in Seq(Blocks) /\ (list[r] # NULL => blk[list[r]].prev = NULL)
  BY <1>1 DEF Forest
<1>3. rank \in [At -> Nat]
  BY <1>0
<1>4. ASSUME NEW b \in At, \A d \in At : rank[d] < rank[b] => d \in Good
      PROVE  b \in Good
  <2>1. CASE b = list[r]
    <3>1. up[b] = NULL /\ w = PostOrder(b)
      BY <2>1, <1>0, <1>2 DEF IsUp
    <3>2. Placed(w, 0, PostOrder(b), up[b])
      BY <3>1, <1>2 DEF Placed
    <3> QED
      BY <3>2
  <2>2. CASE b # list[r]
    <3>1. PICK p : p = blk[b].prev
      OBVIOUS
    <3>2. p \in At /\ (blk[p].subRoot = b \/ blk[p].next = b) /\ Cardinality(T[b]) < Cardinality(T[p])
      BY <2>2, <3>1, HasParent
    <3>3. p \in Good
      BY <3>2, <1>0, <1>4
    <3>4. PICK o : Placed(w, o, PostOrder(p), up[p])
      BY <3>3
    <3>5. PICK s, q : s = PostOrder(blk[p].subRoot) /\ q = PostOrder(blk[p].next)
      OBVIOUS
    <3>6. s \in Seq(Blocks) /\ q \in Seq(Blocks) /\ PostOrder(p) = s \o <<p>> \o q /\ p \in Blocks /\ p # NULL
      <4>1. blk[p].subRoot \in At \cup {NULL} /\ blk[p].next \in At \cup {NULL}
        BY <3>2, <1>0 DEF InOrder
      <4> QED
        BY <4>1, <3>2, <3>5, <1>0, <1>1
    <3>7. Placed(w, o, s, p) /\ Placed(w, o + (Len(s) + 1), q, up[p])
      BY <3>4, <3>6, <1>2, PlacedParts
    <3>8. CASE blk[p].subRoot = b
      <4>1. up[b] = p /\ s = PostOrder(b)
        BY <3>1, <3>5, <3>8 DEF IsUp
      <4> QED
        BY <4>1, <3>7
    <3>9. CASE blk[p].next = b /\ blk[p].subRoot # b
      <4>1. up[b] = up[p] /\ q = PostOrder(b)
        BY <2>2, <3>1, <3>5, <3>9 DEF IsUp
      <4> QED
        BY <4>1, <3>7
    <3> QED
      BY <3>2, <3>8, <3>9
  <2> QED
    BY <2>1, <2>2
<1>5. Good = At
  <2>1. Good \in SUBSET At
    OBVIOUS
  <2> HIDE DEF Good, rank
  <2> QED
    BY <2>1, <1>3, <1>4, RankInduction
<1> QED
  BY <1>5

(* What comes behind a block in the order: the first of what is behind it  *)
(* on its list, or its folder, or nothing.                                 *)
After(up, b) == IF blk[b].next # NULL THEN PostOrder(blk[b].next)[1] ELSE up[b]

LEMMA WhatIsNext ==
  ASSUME NEW T, LinksTyped, Forest(T), NEW r \in Roots, NEW up, IsUp(up, T, r),
         NEW w, w = PostOrder(list[r]), NEW k \in 1 .. Len(w)
  PROVE  /\ w[k] \in OfRoot(T, r)
         /\ After(up, w[k]) = IF k = Len(w) THEN NULL ELSE w[k + 1]
<1> PICK At, b : At = OfRoot(T, r) /\ b = w[k]
  OBVIOUS
<1>1. Lists(w, At) /\ Len(w) \in Nat
  BY PostOrderLists DEF Lists
<1>2. b \in At /\ b \in Blocks /\ b # NULL /\ At \in SUBSET Blocks
      /\ blk[b].subRoot \in At \cup {NULL} /\ blk[b].next \in At \cup {NULL}
      /\ \A c \in At : c # NULL
  <2>1. b \in At /\ At \in SUBSET Blocks
    BY <1>1, ForestIsBlocks DEF Lists
  <2>2. InOrder(T, At, b)
    BY <2>1 DEF Forest
  <2> QED
    BY <2>1, <2>2 DEF InOrder, Blocks, NULL
<1>3. PICK o : Placed(w, o, PostOrder(b), up[b])
  BY <1>2, EachIsPlaced
<1>4. PICK s, q : s = PostOrder(blk[b].subRoot) /\ q = PostOrder(blk[b].next)
  OBVIOUS
<1>5. s \in Seq(Blocks) /\ q \in Seq(Blocks) /\ w \in Seq(Blocks) /\ PostOrder(b) = s \o <<b>> \o q
  <2>1. \A c \in At \cup {NULL} : PostOrder(c) \in Seq(Blocks)
    BY OrderUnfolds DEF Lists
  <2>2. PostOrder(b) = s \o <<b>> \o q
    BY <1>2, <1>4, OrderUnfolds
  <2> QED
    BY <2>1, <2>2, <1>1, <1>2, <1>4 DEF Lists
<1>6. Placed(w, o, s, b) /\ Placed(w, o + (Len(s) + 1), q, up[b])
  BY <1>2, <1>3, <1>5, PlacedParts
<1>7. k = o + (Len(s) + 1) /\ o \in Nat /\ Len(s) \in Nat /\ Len(q) \in Nat
  <2>1. o \in Nat /\ Len(s) \in Nat /\ Len(q) \in Nat
    BY <1>5, <1>6 DEF Placed
  <2>2. o + Len(s) + 1 <= Len(w) /\ w[o + Len(s) + 1] = b
    BY <1>2, <1>6 DEF Placed
  <2>3. o + Len(s) + 1 \in 1 .. Len(w)
    BY <2>1, <2>2, <1>1
  <2>4. o + Len(s) + 1 = k
    BY <2>2, <2>3, <1>1 DEF Lists
  <2> QED
    BY <2>1, <2>4
<1>8. CASE blk[b].next # NULL
  <2>1. Len(q) >= 1
    <3>1. PICK n : n = blk[b].next
      OBVIOUS
    <3>2. n \in At
      BY <3>1, <1>2, <1>8
    <3>3. blk[n].subRoot \in At \cup {NULL} /\ blk[n].next \in At \cup {NULL} /\ n \in Blocks
      BY <3>2, <1>2 DEF Forest, InOrder
    <3>4. PICK x, y : x = PostOrder(blk[n].subRoot) /\ y = PostOrder(blk[n].next)
      OBVIOUS
    <3>5. x \in Seq(Blocks) /\ y \in Seq(Blocks)
      BY <3>3, <3>4, OrderUnfolds DEF Lists
    <3>6. q = x \o <<n>> \o y
      BY <3>1, <3>2, <3>4, <1>4, OrderUnfolds
    <3>7. Len(q) = Len(x) + 1 + Len(y) /\ Len(x) \in Nat /\ Len(y) \in Nat
      BY <3>3, <3>5, <3>6, Around
    <3> QED
      BY <3>7
  <2>2. k + 1 <= Len(w) /\ w[k + 1] = q[1]
    <3>1. w[k + 1] = q[1]
      BY <2>1, <1>6, <1>7 DEF Placed
    <3>2. k + Len(q) <= Len(w)
      BY <1>6, <1>7 DEF Placed
    <3> QED
      BY <2>1, <3>1, <3>2, <1>1, <1>7
  <2>3. k # Len(w)
    BY <2>2, <1>1
  <2> QED
    BY <2>2, <2>3, <1>2, <1>4, <1>8 DEF After
<1>9. CASE blk[b].next = NULL
  <2>1. q = <<>>
    BY <1>2, <1>4, <1>9, OrderUnfolds
  <2>2. Len(q) = 0
    BY <2>1
  <2>3. /\ up[b] = NULL => k = Len(w)
        /\ up[b] # NULL => k + 1 <= Len(w) /\ w[k + 1] = up[b]
    BY <2>2, <1>6, <1>7 DEF Placed
  <2>4. up[b] # NULL => k # Len(w)
    BY <2>3, <1>1
  <2> QED
    BY <2>3, <2>4, <1>2, <1>9 DEF After
<1> QED
  BY <1>8, <1>9

-----------------------------------------------------------------------------
(* One call of get_next_resource_name_by_root: the turns of its loop.      *)

(* Where the iterator goes from a block whose name it has answered.        *)
Onward(b) == IF blk[b].next # NULL THEN blk[b].next ELSE blk[b].prev

Answered(i, b) ==
  i.found /\ i.previous = b /\ i.next = Onward(b) /\ i.current = Onward(b)

(* The four ways through the loop (emma-resource.c:339-362): down to the   *)
(* content of a folder; a resource without content; a folder whose content *)
(* has been met; back along a list that has been met.                      *)
LEMMA Turns ==
  ASSUME NEW T, LinksTyped, Forest(T), NEW r \in Roots, NEW i \in Passes,
         i.current \in OfRoot(T, r), NEW b, b = i.current
  PROVE  /\ i.previous = blk[b].prev /\ blk[b].subRoot # NULL =>
              /\ Pass(i).previous = b /\ Pass(i).current = blk[b].subRoot
              /\ Pass(i).found = i.found
         /\ i.previous = blk[b].prev /\ blk[b].subRoot = NULL => Answered(Pass(i), b)
         /\ i.previous = blk[b].subRoot /\ blk[b].subRoot # NULL => Answered(Pass(i), b)
         /\ i.previous = blk[b].next /\ blk[b].next # NULL /\ i.next # NULL =>
              /\ Pass(i).previous = b /\ Pass(i).current = blk[b].prev /\ Pass(i).next = blk[b].prev
              /\ Pass(i).found = i.found
<1> PICK At, c : At = OfRoot(T, r) /\ c = blk[b]
  OBVIOUS
<1>1. /\ b \in Blocks /\ b # NULL /\ c.prev \in Links /\ c.next \in Links /\ c.subRoot \in Links
      /\ InOrder(T, At, b)
  <2>1. b \in Blocks /\ b # NULL
    BY ForestIsBlocks DEF Blocks, NULL
  <2> QED
    BY <2>1 DEF LinksTyped, Forest
<1>2. /\ c.subRoot \in At \cup {NULL} /\ c.next \in At \cup {NULL}
      /\ c.subRoot # NULL => c.subRoot # c.next /\ c.subRoot # b
      /\ c.next # NULL => c.next # b
  <2>1. \A x \in At : x \in Hang(T, x)
    BY HangsLess
  <2> QED
    BY <2>1, <1>1 DEF InOrder
<1>3. /\ c.prev # b
      /\ c.subRoot # NULL => c.prev # c.subRoot
      /\ c.next # NULL => c.prev # c.next
  <2>1. CASE b = list[r]
    <3>1. c.prev = NULL
      BY <2>1, <1>1 DEF Forest
    <3> QED
      BY <3>1, <1>1
  <2>2. CASE b # list[r]
    <3>1. c.prev \in At /\ Cardinality(T[b]) < Cardinality(T[c.prev])
      BY <2>2, HasParent
    <3>2. Cardinality(T[b]) \in Nat /\ Cardinality(T[c.prev]) \in Nat
      BY <3>1, HangsLess DEF LinksTyped
    <3>3. \A x \in At : x \in {c.subRoot, c.next} => Cardinality(T[x]) \in 0 .. (Cardinality(T[b]) - 1)
      BY HangsLess
    <3> QED
      BY <3>1, <3>2, <3>3, <1>2
  <2> QED
    BY <2>1, <2>2
<1> DEFINE i1 == IF i.previous = c.prev
                 THEN [i EXCEPT !.previous = b, !.next = c.subRoot] ELSE i
           i2 == IF i1.next = NULL \/ i1.previous = c.subRoot
                 THEN [i1 EXCEPT !.found = TRUE, !.previous = b, !.next = c.next] ELSE i1
           i3 == IF i2.next = NULL \/ i2.previous = c.next
                 THEN [i2 EXCEPT !.previous = b, !.next = c.prev] ELSE i2
<1>4. Pass(i) = [i3 EXCEPT !.current = i3.next]
  BY DEF Pass
<1>5. i1 \in Passes /\ i1 = (IF i.previous = c.prev
                 THEN [i EXCEPT !.previous = b, !.next = c.subRoot] ELSE i)
  BY <1>1 DEF Passes, Links
<1> HIDE DEF i1
<1>6. i2 \in Passes /\ i2 = (IF i1.next = NULL \/ i1.previous = c.subRoot
                 THEN [i1 EXCEPT !.found = TRUE, !.previous = b, !.next = c.next] ELSE i1)
  BY <1>1, <1>5, ZenonT(40) DEF Passes, Links
<1> HIDE DEF i2
<1>7. i3 \in Passes /\ i3 = (IF i2.next = NULL \/ i2.previous = c.next
                 THEN [i2 EXCEPT !.previous = b, !.next = c.prev] ELSE i2)
  BY <1>1, <1>6, ZenonT(40) DEF Passes, Links
<1> HIDE DEF i3
<1>8. /\ Pass(i).previous = i3.previous /\ Pass(i).next = i3.next /\ Pass(i).current = i3.next
      /\ Pass(i).found = i3.found
  BY <1>4, <1>7 DEF Passes
<1>9. CASE i.previous = c.prev /\ c.subRoot # NULL
  <2>1. i1.previous = b /\ i1.next = c.subRoot /\ i1.found = i.found
    BY <1>5, <1>9 DEF Passes
  <2>2. i2 = i1
    BY <2>1, <1>2, <1>6, <1>9
  <2>3. i3 = i2
    BY <2>1, <2>2, <1>1, <1>2, <1>7, <1>9
  <2> QED
    BY <2>1, <2>2, <2>3, <1>3, <1>8, <1>9
<1>10. ASSUME i2.found, i2.previous = b, i2.next = c.next PROVE Answered(Pass(i), b)
  <2>1. CASE c.next # NULL
    <3>1. i3 = i2
      BY <2>1, <1>2, <1>7, <1>10
    <3> QED
      BY <2>1, <3>1, <1>8, <1>10 DEF Answered, Onward
  <2>2. CASE c.next = NULL
    <3>1. i3.previous = b /\ i3.next = c.prev /\ i3.found
      BY <2>2, <1>6, <1>7, <1>10 DEF Passes
    <3> QED
      BY <2>2, <3>1, <1>8 DEF Answered, Onward
  <2> QED
    BY <2>1, <2>2
<1>11. CASE i.previous = c.prev /\ c.subRoot = NULL
  <2>1. i1.next = NULL
    BY <1>5, <1>11 DEF Passes
  <2>2. i2.found /\ i2.previous = b /\ i2.next = c.next
    BY <2>1, <1>5, <1>6 DEF Passes
  <2> QED
    BY <2>2, <1>2, <1>3, <1>10, <1>11
<1>12. CASE i.previous = c.subRoot /\ c.subRoot # NULL
  <2>1. i1 = i
    BY <1>3, <1>5, <1>12
  <2>2. i2.found /\ i2.previous = b /\ i2.next = c.next
    BY <2>1, <1>5, <1>6, <1>12 DEF Passes
  <2> QED
    BY <2>2, <1>2, <1>3, <1>10, <1>12
<1>13. CASE i.previous = c.next /\ c.next # NULL /\ i.next # NULL
  <2>1. i1 = i
    BY <1>3, <1>5, <1>13
  <2>2. i2 = i1
    BY <2>1, <1>2, <1>6, <1>13
  <2>3. i3.previous = b /\ i3.next = c.prev /\ i3.found = i.found
    BY <2>1, <2>2, <1>6, <1>7, <1>13 DEF Passes
  <2> QED
    BY <2>3, <1>2, <1>3, <1>8, <1>13
<1> QED
  BY <1>9, <1>11, <1>12, <1>13

(* The first below a block: down the first of each content.                *)
LEMMA FirstBelow ==
  ASSUME NEW T, LinksTyped, Forest(T), NEW r \in Roots, NEW b \in OfRoot(T, r)
  PROVE  /\ Len(PostOrder(b)) >= 1 /\ PostOrder(b)[1] # NULL
         /\ PostOrder(b)[1] = IF blk[b].subRoot = NULL THEN b ELSE PostOrder(blk[b].subRoot)[1]
<1> DEFINE Long(c) == Len(PostOrder(c)) >= 1
<1>1. ASSUME NEW c \in OfRoot(T, r)
      PROVE  /\ Long(c)
             /\ Len(PostOrder(blk[c].subRoot)) = 0 => PostOrder(c)[1] = c
             /\ Long(blk[c].subRoot) => PostOrder(c)[1] = PostOrder(blk[c].subRoot)[1]
  <2>1. PICK p, q, w : p = PostOrder(blk[c].subRoot) /\ q = PostOrder(blk[c].next) /\ w = PostOrder(c)
    OBVIOUS
  <2>2. c \in Blocks /\ InOrder(T, OfRoot(T, r), c)
    BY ForestIsBlocks DEF Forest
  <2>3. p \in Seq(Blocks) /\ q \in Seq(Blocks)
    <3>1. blk[c].subRoot \in OfRoot(T, r) \cup {NULL} /\ blk[c].next \in OfRoot(T, r) \cup {NULL}
      BY <2>2 DEF InOrder
    <3> QED
      BY <2>1, <3>1, OrderUnfolds DEF Lists
  <2>4. w = p \o <<c>> \o q
    BY <2>1, OrderUnfolds
  <2>5. Len(w) = Len(p) + 1 + Len(q) /\ Len(p) \in Nat /\ Len(q) \in Nat
        /\ \A i \in 1 .. Len(w) :
             w[i] = IF i <= Len(p) THEN p[i] ELSE IF i = Len(p) + 1 THEN c ELSE q[i - (Len(p) + 1)]
    BY <2>2, <2>3, <2>4, Around
  <2>6. Len(w) >= 1 /\ 1 \in 1 .. Len(w)
    BY <2>5
  <2>7. (Len(p) = 0 => w[1] = c) /\ (Len(p) >= 1 => w[1] = p[1])
    BY <2>5, <2>6
  <2> QED
    BY <2>1, <2>6, <2>7
<1>2. InOrder(T, OfRoot(T, r), b) /\ Len(PostOrder(NULL)) = 0
  BY OrderUnfolds DEF Forest
<1> HIDE DEF Long
<1>3. PostOrder(b)[1] = IF blk[b].subRoot = NULL THEN b ELSE PostOrder(blk[b].subRoot)[1]
  <2>1. blk[b].subRoot \in OfRoot(T, r) \cup {NULL}
    BY <1>2 DEF InOrder
  <2> QED
    BY <2>1, <1>1, <1>2
<1>5. Len(PostOrder(b)) >= 1
  BY <1>1 DEF Long
<1>6. PostOrder(b)[1] # NULL
  <2>1. PICK w : w = PostOrder(b)
    OBVIOUS
  <2>2. w \in Seq(Blocks) /\ Len(w) \in Nat
    BY <2>1, OrderUnfolds DEF Lists
  <2>3. 1 \in 1 .. Len(w)
    BY <1>5, <2>1, <2>2
  <2> QED
    <3>1. w[1] \in Blocks
      BY <2>2, <2>3
    <3> QED
      BY <2>1, <3>1 DEF Blocks, NULL
<1> QED
  BY <1>3, <1>5, <1>6

(* A call that comes to a block from where the block points back to goes   *)
(* down to the first below it.                                             *)
LEMMA DownWalk ==
  ASSUME NEW T, LinksTyped, Forest(T), NEW r \in Roots, NEW i \in Iterators,
         NEW c \in OfRoot(T, r), i.current = c, i.previous = blk[c].prev
  PROVE  Answered(Loop(i), PostOrder(c)[1])
<1> PICK At, x : At = OfRoot(T, r) /\ x = PostOrder(c)[1]
  OBVIOUS
<1> DEFINE Down(s) == /\ ~s.pass.found /\ s.pass.current \in At
                      /\ s.pass.previous = blk[s.pass.current].prev
                      /\ PostOrder(s.pass.current)[1] = x
                      /\ Cardinality(T[s.pass.current]) <= s.left
           Good == {s \in LoopStates : Down(s) \/ Answered(s.pass, x)}
<1>0. /\ MaxResources \in Nat /\ MaxPasses \in Nat /\ MaxResources <= MaxPasses
      /\ \A d \in At : Cardinality(T[d]) \in 1 .. MaxResources /\ d # NULL
  BY HangsLess DEF LinksTyped, MaxPasses
<1>1. LoopStart(i) \in Good
  <2>1. LoopStart(i) \in LoopStates
    BY <1>0 DEF LoopStart, LoopStates, Iterators, Passes
  <2>2. Down(LoopStart(i))
    BY <1>0 DEF LoopStart
  <2> QED
    BY <2>1, <2>2
<1>2. ASSUME NEW s \in Good, ~LoopEnds(s) PROVE LoopNext(s) \in Good
  <2>1. PICK p : p = s.pass
    OBVIOUS
  <2>2. p \in Passes /\ p.current # NULL /\ ~p.found /\ s.left \in 0 .. MaxPasses /\ s.left # 0
    BY <2>1, <1>2 DEF LoopStates, LoopEnds, Stops
  <2>3. Down(s) /\ p.current \in At
    BY <2>1, <2>2 DEF Answered
  <2>4. Pass(p) \in Passes
    BY <2>2, PassTyped
  <2>5. PICK t : t = LoopNext(s)
    OBVIOUS
  <2>6. t \in LoopStates /\ t.pass = Pass(p) /\ t.left = s.left - 1
    BY <2>1, <2>2, <2>4, <2>5, <1>0 DEF LoopNext, LoopStates
  <2>7. PICK b : b = p.current
    OBVIOUS
  <2>8. b \in At /\ p.previous = blk[b].prev /\ PostOrder(b)[1] = x /\ Cardinality(T[b]) <= s.left
    BY <2>1, <2>3, <2>7
  <2>9. CASE blk[b].subRoot = NULL
    <3>1. Answered(Pass(p), b) /\ x = b
      BY <2>2, <2>7, <2>8, <2>9, Turns, FirstBelow
    <3> QED
      BY <3>1, <2>5, <2>6
  <2>10. CASE blk[b].subRoot # NULL
    <3>1. PICK d : d = blk[b].subRoot
      OBVIOUS
    <3>2. Pass(p).previous = b /\ Pass(p).current = d /\ Pass(p).found = p.found
      BY <3>1, <2>2, <2>7, <2>8, <2>10, Turns
    <3>3. d \in At /\ blk[d].prev = b
      BY <3>1, <2>8, <2>10 DEF Forest, InOrder
    <3>4. PostOrder(d)[1] = x
      BY <3>1, <2>8, <2>10, FirstBelow
    <3>5. Cardinality(T[d]) <= s.left - 1
      <4>1. Cardinality(Hang(T, d)) \in 0 .. (Cardinality(T[b]) - 1) /\ Hang(T, d) = T[d]
        BY <3>1, <3>3, <2>8, <1>0, HangsLess DEF Hang
      <4> QED
        BY <4>1, <2>2, <2>8, <1>0
    <3>6. Down(t)
      BY <3>2, <3>3, <3>4, <3>5, <2>2, <2>6
    <3> QED
      BY <3>6, <2>5, <2>6
  <2> QED
    BY <2>9, <2>10
<1>3. Good \in SUBSET LoopStates
  OBVIOUS
<1>4. \A s \in Good : LoopEnds(s) => Answered(s.pass, x)
  <2>1. SUFFICES ASSUME NEW s \in Good, LoopEnds(s), Down(s) PROVE FALSE
    OBVIOUS
  <2>2. s.left = 0
    BY <2>1, <1>0 DEF LoopEnds, Stops
  <2>3. Cardinality(T[s.pass.current]) \in 1 .. MaxResources /\ Cardinality(T[s.pass.current]) <= 0
    BY <2>1, <2>2, <1>0
  <2> QED
    BY <2>3, <1>0
<1> HIDE DEF Good, Down
<1> QED
  BY <1>1, <1>2, <1>3, <1>4, LoopKeeps

(* A call that comes back to where a block points goes back along its list *)
(* to the folder, or out of the root.                                      *)
LEMMA UpWalk ==
  ASSUME NEW T, LinksTyped, Forest(T), NEW r \in Roots, NEW up, IsUp(up, T, r),
         NEW i \in Iterators, NEW b \in OfRoot(T, r),
         i.previous = b, i.current = blk[b].prev, i.next = blk[b].prev
  PROVE  IF up[b] = NULL THEN ~Loop(i).found ELSE Answered(Loop(i), up[b])
<1> PICK At, u : At = OfRoot(T, r) /\ u = up[b]
  OBVIOUS
<1> DEFINE Up(s, d) == /\ d \in At /\ ~s.pass.found /\ s.pass.previous = d
                       /\ s.pass.current = blk[d].prev /\ s.pass.next = blk[d].prev
                       /\ up[d] = u
                       /\ MaxResources + 1 - Cardinality(T[d]) <= s.left
           Good == {s \in LoopStates : (\E d : Up(s, d)) \/ (u # NULL /\ Answered(s.pass, u))}
<1>0. /\ MaxResources \in Nat /\ MaxPasses \in Nat /\ MaxResources <= MaxPasses
      /\ \A d \in At : Cardinality(T[d]) \in 1 .. MaxResources /\ d # NULL
  BY HangsLess DEF LinksTyped, MaxPasses
<1>1. LoopStart(i) \in Good
  <2>1. LoopStart(i) \in LoopStates
    BY <1>0 DEF LoopStart, LoopStates, Iterators, Passes
  <2>2. MaxResources + 1 - Cardinality(T[b]) <= MaxPasses
    BY <1>0
  <2>3. Up(LoopStart(i), b)
    BY <2>2 DEF LoopStart
  <2> QED
    BY <2>1, <2>3
<1>2. ASSUME NEW d \in At, blk[d].prev # NULL
      PROVE  /\ blk[d].prev \in At /\ d # list[r]
             /\ blk[blk[d].prev].subRoot = d \/ blk[blk[d].prev].next = d
             /\ Cardinality(T[d]) < Cardinality(T[blk[d].prev])
  <2>1. d # list[r]
    BY <1>0, <1>2 DEF Forest
  <2> QED
    BY <2>1, HasParent
<1>3. ASSUME NEW s \in Good, ~LoopEnds(s) PROVE LoopNext(s) \in Good
  <2>1. PICK p : p = s.pass
    OBVIOUS
  <2>2. p \in Passes /\ p.current # NULL /\ ~p.found /\ s.left \in 0 .. MaxPasses /\ s.left # 0
    BY <2>1, <1>3 DEF LoopStates, LoopEnds, Stops
  <2>3. PICK d : Up(s, d)
    BY <2>1, <2>2 DEF Answered
  <2>4. Pass(p) \in Passes
    BY <2>2, PassTyped
  <2>5. PICK t : t = LoopNext(s)
    OBVIOUS
  <2>6. t \in LoopStates /\ t.pass = Pass(p) /\ t.left = s.left - 1
    BY <2>1, <2>2, <2>4, <2>5, <1>0 DEF LoopNext, LoopStates
  <2>7. PICK e : e = blk[d].prev
    OBVIOUS
  <2>8. /\ d \in At /\ p.previous = d /\ p.current = e /\ p.next = e /\ up[d] = u
        /\ MaxResources + 1 - Cardinality(T[d]) <= s.left
    BY <2>1, <2>3, <2>7
  <2>9. /\ e \in At /\ e # NULL /\ d # NULL /\ d # list[r] /\ (blk[e].subRoot = d \/ blk[e].next = d)
        /\ Cardinality(T[d]) < Cardinality(T[e])
    BY <2>2, <2>7, <2>8, <1>0, <1>2
  <2>10. CASE blk[e].subRoot = d
    <3>1. Answered(Pass(p), e)
      BY <2>2, <2>8, <2>9, <2>10, Turns
    <3>2. u = e
      BY <2>7, <2>8, <2>9, <2>10 DEF IsUp
    <3> QED
      BY <3>1, <3>2, <2>5, <2>6, <2>9
  <2>11. CASE blk[e].subRoot # d
    <3>1. Pass(p).previous = e /\ Pass(p).current = blk[e].prev /\ Pass(p).next = blk[e].prev
          /\ ~Pass(p).found
      BY <2>2, <2>8, <2>9, <2>11, Turns
    <3>2. up[e] = u
      BY <2>7, <2>8, <2>9, <2>11 DEF IsUp
    <3>3. MaxResources + 1 - Cardinality(T[e]) <= s.left - 1
      <4>1. Cardinality(T[d]) \in 1 .. MaxResources /\ Cardinality(T[e]) \in 1 .. MaxResources
        BY <2>8, <2>9, <1>0
      <4> QED
        BY <4>1, <2>2, <2>8, <2>9, <1>0
    <3>4. Up(t, e)
      BY <3>1, <3>2, <3>3, <2>6, <2>9
    <3> QED
      BY <3>4, <2>5, <2>6
  <2> QED
    BY <2>10, <2>11
<1>4. Good \in SUBSET LoopStates
  OBVIOUS
<1>5. \A s \in Good : LoopEnds(s) => IF u = NULL THEN ~s.pass.found ELSE Answered(s.pass, u)
  <2>1. SUFFICES ASSUME NEW s \in Good, LoopEnds(s), NEW d, Up(s, d)
                 PROVE  u = NULL /\ ~s.pass.found
    OBVIOUS
  <2>2. s.left # 0
    <3>1. Cardinality(T[d]) \in 1 .. MaxResources
      BY <2>1, <1>0
    <3>2. MaxResources + 1 - Cardinality(T[d]) <= s.left
      BY <2>1
    <3> QED
      BY <3>1, <3>2, <1>0
  <2>3. blk[d].prev = NULL
    BY <2>1, <2>2 DEF LoopEnds, Stops
  <2>4. d = list[r]
    <3>1. d # list[r] => blk[d].prev \in At
      BY <2>1, HasParent
    <3> QED
      BY <3>1, <2>3, <1>0
  <2>5. up[d] = NULL
    BY <2>1, <2>3, <2>4 DEF IsUp
  <2> QED
    BY <2>1, <2>5
<1> HIDE DEF Good, Up
<1> QED
  BY <1>1, <1>3, <1>4, <1>5, LoopKeeps

-----------------------------------------------------------------------------
(* The calls of a walk, one after the other.                               *)

(* The iterator after a call that has answered b, in the root n.           *)
AfterOf(n, b) == [rootTmp |-> n, previous |-> b, next |-> Onward(b), current |-> Onward(b)]

LEMMA CallAnswers ==
  ASSUME LinksTyped, NEW i \in Iterators, NEW a
  PROVE  /\ Answered(Loop(i), a) => Stepped(i) = [out |-> a, it |-> AfterOf(i.rootTmp, a)]
         /\ ~Loop(i).found => Stepped(i).out = NULL
<1>1. Loop(i).rootTmp = i.rootTmp
  BY LoopTyped
<1>2. PICK j : j = Loop(i)
  OBVIOUS
<1>3. j.found => Stepped(i) = [out |-> j.previous,
                               it  |-> [rootTmp |-> j.rootTmp, previous |-> j.previous,
                                        next |-> j.next, current |-> j.current]]
  BY <1>2, Zenon DEF Stepped
<1>4. ~j.found => Stepped(i).out = NULL
  BY <1>2 DEF Stepped
<1> QED
  BY <1>1, <1>2, <1>3, <1>4 DEF Answered, AfterOf

LEMMA NextCall ==
  ASSUME NEW T, LinksTyped, Forest(T), NEW n \in 1 .. Len(RootSeq), NEW r, r = RootSeq[n],
         NEW up, IsUp(up, T, r), NEW b \in OfRoot(T, r), NEW a, a = After(up, b)
  PROVE  /\ AfterOf(n, b) \in Iterators
         /\ IF a = NULL THEN Stepped(AfterOf(n, b)).out = NULL
            ELSE Stepped(AfterOf(n, b)) = [out |-> a, it |-> AfterOf(n, a)]
<1> PICK i, c : i = AfterOf(n, b) /\ c = blk[b].next
  OBVIOUS
<1>1. r \in Roots /\ n \in 1 .. Len(RootSeq) + 1
  BY DEF Roots, RootSeq
<1>2. b \in Blocks /\ c \in Links /\ blk[b].prev \in Links /\ InOrder(T, OfRoot(T, r), b) /\ b \in Links
  <2>1. b \in Blocks
    BY <1>1, ForestIsBlocks
  <2> QED
    BY <1>1, <2>1 DEF LinksTyped, Forest, Links
<1>3. i \in Iterators /\ i.rootTmp = n /\ i.previous = b /\ i.next = Onward(b) /\ i.current = Onward(b)
  BY <1>1, <1>2 DEF AfterOf, Iterators, Onward
<1>4. CASE c # NULL
  <2>1. c \in OfRoot(T, r) /\ blk[c].prev = b
    BY <1>2, <1>4 DEF InOrder
  <2>2. a = PostOrder(c)[1] /\ i.current = c
    BY <1>3, <1>4 DEF After, Onward
  <2>3. Answered(Loop(i), a)
    BY <1>1, <1>3, <2>1, <2>2, DownWalk
  <2>4. a # NULL
    BY <1>1, <2>1, <2>2, FirstBelow
  <2> QED
    BY <1>3, <1>1, <2>3, <2>4, CallAnswers
<1>5. CASE c = NULL
  <2>1. a = up[b] /\ i.current = blk[b].prev /\ i.next = blk[b].prev
    BY <1>3, <1>5 DEF After, Onward
  <2>2. IF a = NULL THEN ~Loop(i).found ELSE Answered(Loop(i), a)
    BY <1>1, <1>3, <2>1, UpWalk
  <2> QED
    BY <1>3, <2>2, CallAnswers
<1> QED
  BY <1>4, <1>5

LEMMA FirstCall ==
  ASSUME NEW T, LinksTyped, Forest(T), NEW n \in 1 .. Len(RootSeq), NEW r, r = RootSeq[n]
  PROVE  /\ AtRoot(n) \in Iterators
         /\ list[r] = NULL => Stepped(AtRoot(n)).out = NULL
         /\ list[r] # NULL =>
              Stepped(AtRoot(n)) = [out |-> PostOrder(list[r])[1], it |-> AfterOf(n, PostOrder(list[r])[1])]
<1> PICK i : i = AtRoot(n)
  OBVIOUS
<1>1. r \in Roots /\ n \in 1 .. Len(RootSeq) + 1
  BY DEF Roots, RootSeq
<1>2. list[r] \in Links
  BY <1>1 DEF Forest
<1>3. i \in Iterators /\ i.rootTmp = n /\ i.previous = NULL /\ i.next = NULL /\ i.current = list[r]
  BY <1>1, <1>2 DEF AtRoot, Iterators, Links
<1>4. CASE list[r] # NULL
  <2>1. list[r] \in OfRoot(T, r) /\ blk[list[r]].prev = NULL
    BY <1>1, <1>4 DEF Forest
  <2>2. Answered(Loop(i), PostOrder(list[r])[1])
    BY <1>1, <1>3, <2>1, DownWalk
  <2> QED
    BY <1>3, <1>4, <2>2, CallAnswers
<1>5. CASE list[r] = NULL
  <2> DEFINE Good == {LoopStart(i)}
  <2>1. LoopStart(i) \in LoopStates
    BY <1>3 DEF LoopStart, LoopStates, Iterators, Passes, LinksTyped, MaxPasses
  <2>2. LoopEnds(LoopStart(i)) /\ ~LoopStart(i).pass.found
    BY <1>3, <1>5 DEF LoopStart, LoopEnds, Stops
  <2>3. Good \in SUBSET LoopStates /\ LoopStart(i) \in Good /\ \A s \in Good : s = LoopStart(i)
    BY <2>1
  <2> HIDE DEF Good
  <2>4. \A s \in Good : ~LoopEnds(s) => LoopNext(s) \in Good
    BY <2>2, <2>3
  <2>5. ~Loop(i).found
    BY <1>3, <2>2, <2>3, <2>4, LoopKeeps
  <2> QED
    BY <1>3, <1>5, <2>5, CallAnswers
<1> QED
  BY <1>4, <1>5

(* The recursion of Meets, and that there is such a function.              *)
Meetings == [left : 0 .. MaxResources + 1, step : [out : Links, it : Iterators]]

MeetOf(f, s) ==
  IF s.left = 0 \/ s.step.out = NULL THEN <<>>
  ELSE <<s.step.out>> \o f[[left |-> s.left - 1, step |-> Stepped(s.step.it)]]

IsMeet(f) == f = [s \in Meetings |-> MeetOf(f, s)]

LEMMA MeetGoesOn ==
  ASSUME LinksTyped, list \in [Roots -> Links], NEW s \in Meetings, s.left # 0,
         NEW t, t = [left |-> s.left - 1, step |-> Stepped(s.step.it)]
  PROVE  t \in Meetings /\ t.left = s.left - 1 /\ t.left < s.left /\ t.step = Stepped(s.step.it)
<1>1. s.left - 1 \in 0 .. MaxResources + 1 /\ s.left - 1 < s.left /\ s.step.it \in Iterators
  BY DEF Meetings, LinksTyped
<1>2. PICK i : i = s.step.it
  OBVIOUS
<1>3. Stepped(i).it \in Iterators /\ Stepped(i).out \in Links
  BY <1>1, <1>2, SteppedTyped
<1>4. Stepped(i) = [out |-> Stepped(i).out, it |-> Stepped(i).it]
  BY DEF Stepped
<1>5. Stepped(i) \in [out : Links, it : Iterators]
  <2>1. PICK o, j : o = Stepped(i).out /\ j = Stepped(i).it
    OBVIOUS
  <2> QED
    BY <2>1, <1>3, <1>4
<1> QED
  BY <1>1, <1>2, <1>5 DEF Meetings

LEMMA MeetExists ==
  ASSUME LinksTyped, list \in [Roots -> Links]
  PROVE  \E f : IsMeet(f)
<1> DEFINE Upto(k, f) == \A s \in Meetings : s.left < k => f[s] = MeetOf(f, s)
           Good == {k \in Nat : \E f : f = [s \in Meetings |-> f[s]] /\ Upto(k, f)}
<1>0. \A s \in Meetings : s.left \in Nat /\ s.left < MaxResources + 2
  BY DEF Meetings, LinksTyped
<1>1. 0 \in Good
  <2> DEFINE g == [s \in Meetings |-> <<>>]
  <2>1. g = [s \in Meetings |-> g[s]] /\ Upto(0, g)
    BY <1>0
  <2> HIDE DEF g
  <2> QED
    BY <2>1
<1>2. ASSUME NEW k \in Good PROVE k + 1 \in Good
  <2>1. PICK f : f = [s \in Meetings |-> f[s]] /\ Upto(k, f)
    OBVIOUS
  <2> DEFINE g == [s \in Meetings |-> MeetOf(f, s)]
  <2>2. \A s \in Meetings : g[s] = MeetOf(f, s)
    OBVIOUS
  <2>3. g = [s \in Meetings |-> g[s]]
    OBVIOUS
  <2> HIDE DEF g
  <2>4. ASSUME NEW s \in Meetings, s.left < k + 1 PROVE g[s] = MeetOf(g, s)
    <3>1. CASE s.left = 0 \/ s.step.out = NULL
      BY <3>1, <2>2 DEF MeetOf
    <3>2. CASE s.left # 0 /\ s.step.out # NULL
      <4>1. PICK t : t = [left |-> s.left - 1, step |-> Stepped(s.step.it)]
        OBVIOUS
      <4>2. t \in Meetings /\ t.left < k
        <5>1. t \in Meetings /\ t.left < s.left
          BY <4>1, <3>2, MeetGoesOn
        <5> QED
          BY <5>1, <2>4, <1>0
      <4>3. f[t] = g[t]
        BY <4>2, <2>1, <2>2
      <4>4. MeetOf(f, s) = <<s.step.out>> \o f[t] /\ MeetOf(g, s) = <<s.step.out>> \o g[t]
        BY <4>1, <3>2, Zenon DEF MeetOf
      <4> QED
        BY <4>3, <4>4, <2>2
    <3> QED
      BY <3>1, <3>2
  <2>5. Upto(k + 1, g)
    BY <2>4
  <2> QED
    BY <2>3, <2>5
<1>3. MaxResources + 2 \in Good
  <2>1. MaxResources + 2 \in Nat /\ Good \in SUBSET Nat
    BY DEF LinksTyped
  <2> HIDE DEF Good
  <2> QED
    BY <1>1, <1>2, <2>1, NumberInduction
<1>4. PICK f : f = [s \in Meetings |-> f[s]] /\ Upto(MaxResources + 2, f)
  BY <1>3
<1> HIDE DEF Good
<1>5. \A s \in Meetings : f[s] = MeetOf(f, s)
  BY <1>0, <1>4
<1>6. f = [s \in Meetings |-> MeetOf(f, s)]
  <2>1. [s \in Meetings |-> f[s]] = [s \in Meetings |-> MeetOf(f, s)]
    BY <1>5
  <2> QED
    BY <1>4, <2>1, Zenon
<1> QED
  BY <1>6, Zenon DEF IsMeet

(* v is what w has from its k-th element on.                               *)
Rest(v, w, k) ==
  /\ v \in Seq(Blocks) /\ Len(v) = Len(w) + 1 - k
  /\ \A i \in 1 .. Len(v) : v[i] = w[(k - 1) + i]

LEMMA RestGrows ==
  ASSUME NEW w \in Seq(Blocks), NEW k \in 1 .. Len(w), NEW v, Rest(v, w, k + 1),
         NEW b, b = w[k]
  PROVE  Rest(<<b>> \o v, w, k)
<1>1. PICK p : p = <<b>> \o v
  OBVIOUS
<1>2. v \in Seq(Blocks) /\ Len(v) = Len(w) + 1 - (k + 1) /\ b \in Blocks
      /\ \A i \in 1 .. Len(v) : v[i] = w[((k + 1) - 1) + i]
  <2>1. b \in Blocks
    OBVIOUS
  <2> QED
    BY <2>1, Zenon DEF Rest
<1>3. p \in Seq(Blocks) /\ Len(p) = 1 + Len(v)
      /\ \A i \in 1 .. Len(p) : p[i] = IF i = 1 THEN b ELSE v[i - 1]
  BY <1>1, <1>2
<1>4. Len(p) = Len(w) + 1 - k
  BY <1>2, <1>3
<1>5. ASSUME NEW i \in 1 .. Len(p) PROVE p[i] = w[(k - 1) + i]
  <2>1. CASE i = 1
    <3>1. (k - 1) + i = k
      BY <2>1
    <3> QED
      BY <3>1, <2>1, <1>3
  <2>2. CASE i # 1
    <3>1. i - 1 \in 1 .. Len(v) /\ ((k + 1) - 1) + (i - 1) = (k - 1) + i
      BY <2>2, <1>2, <1>3
    <3>2. v[i - 1] = w[((k + 1) - 1) + (i - 1)]
      BY <3>1, <1>2
    <3> QED
      BY <2>2, <3>1, <3>2, <1>3
  <2> QED
    BY <2>1, <2>2
<1> QED
  BY <1>1, <1>3, <1>4, <1>5 DEF Rest

(* There are not more blocks on a list than in the pool.                   *)
LEMMA ListsAreShort ==
  ASSUME LinksTyped, NEW H, NEW w, Lists(w, H)
  PROVE  Len(w) <= MaxResources
<1>1. w \in Seq(Blocks) /\ Len(w) \in Nat
  BY DEF Lists
<1>2. w \in [1 .. Len(w) -> Blocks] /\ IsInjective(w)
  BY <1>1 DEF Lists, IsInjective
<1>3. w \in Injection(1 .. Len(w), Blocks)
  BY <1>2 DEF Injection
<1>4. IsFiniteSet(Blocks) /\ Cardinality(Blocks) = MaxResources
  BY FS_Interval DEF Blocks, LinksTyped
<1>5. Cardinality(1 .. Len(w)) <= Cardinality(Blocks)
  BY <1>3, <1>4, FS_Injection
<1>6. Cardinality(1 .. Len(w)) = Len(w)
  BY <1>1, FS_Interval, SMTT(20)
<1> QED
  BY <1>4, <1>5, <1>6

(* From each block on, the calls answer what the order of the root has     *)
(* from there on.                                                          *)
LEMMA WalkMeets ==
  ASSUME NEW T, LinksTyped, list \in [Roots -> Links], Forest(T), NEW n \in 1 .. Len(RootSeq)
  PROVE  Meets(AtRoot(n)) = PostOrder(list[RootSeq[n]])
<1> DEFINE f == CHOOSE g : IsMeet(g)
           Start(i) == [left |-> MaxResources + 1, step |-> Stepped(i)]
<1> PICK r, w : r = RootSeq[n] /\ w = PostOrder(list[r])
  OBVIOUS
<1>0. r \in Roots /\ MaxResources \in Nat
  BY DEF Roots, LinksTyped
<1>1. \A i : Meets(i) = f[Start(i)]
  BY Zenon DEF Meets, IsMeet, MeetOf, Meetings
<1>2. IsMeet(f)
  BY MeetExists
<1> HIDE DEF f
<1>3. \A s \in Meetings : f[s] = MeetOf(f, s)
  BY <1>2, Zenon DEF IsMeet
<1>4. PICK up : IsUp(up, T, r)
  BY <1>0, UpExists
<1>5. Lists(w, OfRoot(T, r)) /\ w \in Seq(Blocks) /\ Len(w) \in Nat
  BY <1>0, PostOrderLists DEF Lists
<1>6. Len(w) <= MaxResources
  BY <1>5, ListsAreShort DEF Lists
<1> DEFINE On(s, k) == /\ s.step = [out |-> w[k], it |-> AfterOf(n, w[k])]
                       /\ s.left + k > Len(w)
           Good == {m \in Nat : \A s \in Meetings : \A k \in 1 .. Len(w) :
                      k + m = Len(w) /\ On(s, k) => Rest(f[s], w, k)}
<1>7. ASSUME NEW s \in Meetings, NEW k \in 1 .. Len(w), On(s, k),
             \A t \in Meetings : k < Len(w) /\ On(t, k + 1) => Rest(f[t], w, k + 1)
      PROVE  Rest(f[s], w, k)
  <2>1. s.left # 0 /\ s.left \in Nat
    <3>1. s.left + k > Len(w)
      BY <1>7
    <3>2. s.left \in Nat
      BY <1>0 DEF Meetings
    <3> QED
      BY <3>1, <3>2, <1>5
  <2>2. w[k] \in OfRoot(T, r) /\ w[k] # NULL
    BY <1>0, <1>5, ForestIsBlocks DEF Lists, Blocks, NULL
  <2>3. s.step.out = w[k] /\ s.step.it = AfterOf(n, w[k])
    BY <1>7
  <2>4. PICK t : t = [left |-> s.left - 1, step |-> Stepped(s.step.it)]
    OBVIOUS
  <2>5. t \in Meetings /\ t.left = s.left - 1 /\ t.step = Stepped(AfterOf(n, w[k]))
    BY <2>1, <2>3, <2>4, MeetGoesOn
  <2>6. f[s] = <<w[k]>> \o f[t]
    <3>1. MeetOf(f, s) = <<s.step.out>> \o f[t]
      BY <2>1, <2>2, <2>3, <2>4, Zenon DEF MeetOf
    <3> QED
      BY <3>1, <2>3, <1>3
  <2>7. PICK a : a = After(up, w[k])
    OBVIOUS
  <2>8. /\ a = IF k = Len(w) THEN NULL ELSE w[k + 1]
        /\ IF a = NULL THEN t.step.out = NULL ELSE t.step = [out |-> a, it |-> AfterOf(n, a)]
    <3>1. a = IF k = Len(w) THEN NULL ELSE w[k + 1]
      BY <2>7, <1>0, <1>4, WhatIsNext
    <3>2. IF a = NULL THEN t.step.out = NULL ELSE t.step = [out |-> a, it |-> AfterOf(n, a)]
      BY <2>2, <2>5, <2>7, <1>4, NextCall
    <3> QED
      BY <3>1, <3>2
  <2>9. CASE k = Len(w)
    <3>1. t.step.out = NULL
      BY <2>8, <2>9
    <3>2. f[t] = <<>>
      BY <3>1, <2>5, <1>3 DEF MeetOf
    <3>3. Rest(f[t], w, k + 1)
      BY <3>2, <2>9, <1>5 DEF Rest
    <3> QED
      BY <3>3, <2>6, <1>5, RestGrows
  <2>10. CASE k # Len(w)
    <3>1. k < Len(w) /\ k + 1 \in 1 .. Len(w)
      BY <2>10, <1>5
    <3>2. w[k + 1] # NULL
      <4>1. w[k + 1] \in Blocks
        BY <3>1, <1>5
      <4> QED
        BY <4>1 DEF Blocks, NULL
    <3>3. t.step = [out |-> w[k + 1], it |-> AfterOf(n, w[k + 1])]
      BY <3>2, <2>8, <2>10
    <3>4. t.left + (k + 1) > Len(w)
      <4>1. s.left + k > Len(w)
        BY <1>7
      <4> QED
        BY <4>1, <2>1, <2>5, <1>5
    <3>5. Rest(f[t], w, k + 1)
      BY <3>1, <3>3, <3>4, <2>5, <1>7
    <3> QED
      BY <3>5, <2>6, <1>5, RestGrows
  <2> QED
    BY <2>9, <2>10
<1> HIDE DEF On
<1>8. 0 \in Good
  BY <1>5, <1>7
<1>9. ASSUME NEW m \in Good PROVE m + 1 \in Good
  <2>1. SUFFICES ASSUME NEW s \in Meetings, NEW k \in 1 .. Len(w), k + (m + 1) = Len(w), On(s, k)
                 PROVE  Rest(f[s], w, k)
    OBVIOUS
  <2>2. k + 1 \in 1 .. Len(w) /\ (k + 1) + m = Len(w)
    BY <2>1, <1>5
  <2>3. \A t \in Meetings : On(t, k + 1) => Rest(f[t], w, k + 1)
    BY <2>2, <1>9
  <2> QED
    BY <2>1, <2>3, <1>7
<1>10. \A m \in Nat : m \in Good
  <2>1. Good \in SUBSET Nat
    OBVIOUS
  <2> HIDE DEF Good
  <2> QED
    BY <2>1, <1>8, <1>9, NumberInduction
<1>11. PICK i, s : i = AtRoot(n) /\ s = Start(i)
  OBVIOUS
<1>12. i \in Iterators /\ Meets(i) = f[s]
  BY <1>1, <1>11, FirstCall
<1>13. s \in Meetings /\ s.left = MaxResources + 1 /\ s.step = Stepped(i)
  <2>1. Stepped(i).it \in Iterators /\ Stepped(i).out \in Links
    BY <1>12, SteppedTyped
  <2>2. Stepped(i) = [out |-> Stepped(i).out, it |-> Stepped(i).it]
    BY DEF Stepped
  <2>3. Stepped(i) \in [out : Links, it : Iterators]
    <3>1. PICK o, j : o = Stepped(i).out /\ j = Stepped(i).it
      OBVIOUS
    <3> QED
      BY <3>1, <2>1, <2>2
  <2>4. MaxResources + 1 \in 0 .. MaxResources + 1
    BY <1>0
  <2> QED
    BY <2>3, <2>4, <1>11 DEF Meetings
<1>14. CASE list[r] = NULL
  <2>1. f[s] = <<>>
    BY <1>3, <1>11, <1>13, <1>14, FirstCall DEF MeetOf
  <2>2. w = <<>>
    BY <1>0, <1>14, OrderUnfolds
  <2> QED
    BY <2>1, <2>2, <1>11, <1>12
<1>15. CASE list[r] # NULL
  <2>1. list[r] \in OfRoot(T, r)
    BY <1>0, <1>15 DEF Forest
  <2>2. Len(w) >= 1
    BY <2>1, <1>0, FirstBelow
  <2>3. 1 \in 1 .. Len(w) /\ Len(w) - 1 \in Nat /\ 1 + (Len(w) - 1) = Len(w)
    BY <2>2, <1>5
  <2>4. On(s, 1)
    <3>1. s.step = [out |-> w[1], it |-> AfterOf(n, w[1])]
      BY <1>11, <1>13, <1>15, FirstCall
    <3>2. s.left + 1 > Len(w)
      BY <1>0, <1>5, <1>6, <1>13
    <3> QED
      BY <3>1, <3>2 DEF On
  <2>5. Rest(f[s], w, 1)
    BY <2>3, <2>4, <1>10, <1>13
  <2>6. PICK v : v = f[s]
    OBVIOUS
  <2>7. v \in Seq(Blocks) /\ Len(v) = Len(w) + 1 - 1 /\ \A j \in 1 .. Len(v) : v[j] = w[(1 - 1) + j]
    BY <2>5, <2>6, Zenon DEF Rest
  <2>8. Len(v) = Len(w) /\ \A j \in 1 .. Len(v) : v[j] = w[j]
    BY <2>7, <1>5
  <2>9. v = w
    BY <2>7, <2>8, <1>5
  <2> QED
    BY <2>6, <2>9, <1>11, <1>12
<1> QED
  BY <1>14, <1>15

(* The header promises that the calls that continue a walk go through the  *)
(* resources (emma-resource.h:140): with the few words of the iterator     *)
(* the walk that get_next_resource_name_by_root starts at a root answers   *)
(* every resource of the root once, a folder behind its content, and then  *)
(* the name of the root, in whatever tree adds and deletes have built.     *)
THEOREM WalksMeetAll == Spec => []WalkMeetsEach
<1>1. TreeInv => WalkMeetsEach
  <2> SUFFICES ASSUME TreeInv, NEW n \in 1 .. Len(RootSeq)
               PROVE  Meets(AtRoot(n)) = PostOrder(list[RootSeq[n]])
    BY DEF WalkMeetsEach
  <2>1. PICK T : Forest(T)
    BY DEF TreeInv
  <2>2. LinksTyped /\ list \in [Roots -> Links]
    BY TypedLinks DEF TreeInv, TreeTyped
  <2> QED
    BY <2>1, <2>2, WalkMeets
<1> QED
  BY <1>1, TreeInvariant, PTL

-----------------------------------------------------------------------------
(* An add at a root while a walk is under way.                             *)

(* The links of a block lead to blocks in use, which lead back.            *)
Backed(b) ==
  /\ {blk[b].prev, blk[b].next, blk[b].subRoot} \subseteq used \cup {NULL}
  /\ blk[b].next # NULL => blk[blk[b].next].prev = b /\ blk[b].next # blk[b].subRoot
  /\ blk[b].subRoot # NULL => blk[blk[b].subRoot].prev = b
  /\ blk[b].prev # NULL => b \in {blk[blk[b].prev].next, blk[blk[b].prev].subRoot}

(* The forest says it of the blocks that are linked; a block that was      *)
(* taken and never linked has no links.                                    *)
UsedBacked == \A b \in used : Backed(b)

LEMMA LinksUnchanged ==
  ASSUME TreeTyped, UsedBacked, used' = used,
         \A b \in used : /\ blk'[b].next = blk[b].next /\ blk'[b].prev = blk[b].prev
                         /\ blk'[b].subRoot = blk[b].subRoot
  PROVE  UsedBacked'
<1> SUFFICES ASSUME NEW b \in used PROVE Backed(b)'
  BY DEF UsedBacked
<1>1. Backed(b)
  BY DEF UsedBacked
<1>2. /\ blk[b].next # NULL => blk[b].next \in used
      /\ blk[b].prev # NULL => blk[b].prev \in used
      /\ blk[b].subRoot # NULL => blk[b].subRoot \in used
  BY <1>1 DEF Backed
<1>3. blk'[b].next = blk[b].next /\ blk'[b].prev = blk[b].prev /\ blk'[b].subRoot = blk[b].subRoot
  OBVIOUS
<1> QED
  BY <1>1, <1>2, <1>3 DEF Backed

(* A block that gets a new content keeps its links.                        *)
LEMMA FieldUnlinked ==
  ASSUME TreeTyped, UsedBacked, NEW l, NEW new, SetField(l, new), l.resource \in Links,
         LET b == blk[l.resource] IN
           new.next = b.next /\ new.prev = b.prev /\ new.subRoot = b.subRoot
  PROVE  UsedBacked'
<1>1. l.resource \in Blocks /\ blk' = [blk EXCEPT ![l.resource] = new] /\ used' = used
  BY DEF SetField, Links
<1>2. \A b \in used : /\ blk'[b].next = blk[b].next /\ blk'[b].prev = blk[b].prev
                      /\ blk'[b].subRoot = blk[b].subRoot
  <2> TAKE b \in used
  <2>1. b \in Blocks /\ DOMAIN blk = Blocks
    BY DEF TreeTyped
  <2>2. CASE b = l.resource
    BY <2>1, <2>2, <1>1
  <2>3. CASE b # l.resource
    BY <2>1, <2>3, <1>1
  <2> QED
    BY <2>2, <2>3
<1> QED
  BY <1>1, <1>2, LinksUnchanged

LEMMA FieldsKeepBacked ==
  ASSUME TreeInv, UsedBacked, NEW u \in Uris, NEW l, l = Lookup(u),
         \/ Lock(l) \/ Release(l)
         \/ \E k \in Keys : SetLastModified(l, k)
         \/ \E t \in Times : SetClocktime(l, t)
  PROVE  UsedBacked'
<1>0. TreeTyped /\ LinksTyped /\ u.root \in Roots
  BY TypedLinks, TreeAssumption DEF TreeInv
<1>1. l.resource \in Links /\ (l.resource # NULL => blk[l.resource] \in Block)
  <2>1. PICK T : Forest(T) /\ DataOwn(T)
    BY DEF TreeInv
  <2>2. l.resource \in OfRoot(T, u.root) \cup {NULL}
    BY <2>1, <1>0, LookupFinds DEF Found
  <2>3. OfRoot(T, u.root) \in SUBSET Blocks
    BY <2>1, <1>0, ForestIsBlocks
  <2> QED
    BY <2>2, <2>3, <1>0 DEF Links, TreeTyped
<1>2. PICK b : b = blk[l.resource]
  OBVIOUS
<1>3. \E k, t : \E new \in {[b EXCEPT !.mutex = TRUE], [b EXCEPT !.mutex = FALSE],
                            [b EXCEPT !.lastModified = k], [b EXCEPT !.clocktime = t]} : SetField(l, new)
  BY <1>2 DEF Lock, Release, SetLastModified, SetClocktime
<1>4. PICK k, t, new : /\ new \in {[b EXCEPT !.mutex = TRUE], [b EXCEPT !.mutex = FALSE],
                                   [b EXCEPT !.lastModified = k], [b EXCEPT !.clocktime = t]}
                       /\ SetField(l, new)
  BY <1>3
<1>5. b \in Block
  BY <1>1, <1>2, <1>4 DEF SetField
<1>6. new.next = b.next /\ new.prev = b.prev /\ new.subRoot = b.subRoot
  BY <1>4, <1>5 DEF Block
<1> QED
  BY <1>0, <1>1, <1>2, <1>4, <1>6, FieldUnlinked

(* A block is linked before first, in its folder or at the root.           *)
LEMMA LinkBacked ==
  ASSUME NEW T, TreeTyped, Forest(T), UsedBacked, NEW u \in Uris, NEW S, NEW n,
         NEW folder, NEW first, LinkedNow(T, S, u, n, folder, first), used' = used \cup {n},
         \/ folder = NULL /\ first = list[u.root]
         \/ folder \in OfRoot(T, u.root) /\ first = blk[folder].subRoot
  PROVE  UsedBacked'
<1>0. n \in Blocks \ used /\ n # NULL /\ u.root \in Roots /\ used \subseteq Blocks /\ NULL \notin used
  BY TreeAssumption DEF LinkedNow, TreeTyped, Blocks, NULL
<1>1. first = NULL \/ (first \in used /\ blk[first].prev = folder)
  <2>1. CASE folder = NULL /\ first = list[u.root]
    <3>1. first # NULL => first \in OfRoot(T, u.root) /\ blk[first].prev = NULL
      BY <2>1, <1>0 DEF Forest
    <3> QED
      BY <3>1, <2>1, <1>0 DEF Forest, InOrder
  <2>2. CASE folder \in OfRoot(T, u.root) /\ first = blk[folder].subRoot
    <3>1. folder \in used
      BY <2>2, <1>0 DEF Forest, InOrder
    <3> QED
      BY <2>2, <3>1 DEF UsedBacked, Backed
  <2> QED
    BY <2>1, <2>2
<1>2. folder = NULL \/ (folder \in used /\ blk[folder].subRoot = first)
  BY <1>0 DEF Forest, InOrder
<1>3. /\ blk'[n].prev = folder /\ blk'[n].next = first /\ blk'[n].subRoot = NULL
      /\ \A c \in used : /\ blk'[c].next = blk[c].next
                         /\ blk'[c].prev = IF c = first THEN n ELSE blk[c].prev
                         /\ blk'[c].subRoot = IF c = folder THEN n ELSE blk[c].subRoot
  BY <1>0 DEF LinkedNow
<1>4. Backed(n)'
  BY <1>0, <1>1, <1>2, <1>3 DEF Backed
<1>5. ASSUME NEW b \in used PROVE Backed(b)'
  <2> PICK p, x, s : p = blk[b].prev /\ x = blk[b].next /\ s = blk[b].subRoot
    OBVIOUS
  <2>1. /\ {p, x, s} \subseteq used \cup {NULL}
        /\ x # NULL => blk[x].prev = b /\ x # s
        /\ s # NULL => blk[s].prev = b
        /\ p # NULL => b \in {blk[p].next, blk[p].subRoot}
    BY DEF UsedBacked, Backed
  <2>2. blk'[b].next = x /\ blk'[b].prev = (IF b = first THEN n ELSE p)
        /\ blk'[b].subRoot = (IF b = folder THEN n ELSE s)
    BY <1>3
  <2>3. x # NULL => blk'[x].prev = b
    BY <2>1, <1>0, <1>1, <1>2, <1>3
  <2>4. blk'[b].subRoot # NULL => blk'[blk'[b].subRoot].prev = b
    BY <2>1, <2>2, <1>0, <1>1, <1>2, <1>3
  <2>5. blk'[b].prev # NULL => b \in {blk'[blk'[b].prev].next, blk'[blk'[b].prev].subRoot}
    BY <2>1, <2>2, <1>0, <1>1, <1>2, <1>3
  <2>6. {blk'[b].prev, blk'[b].next, blk'[b].subRoot} \subseteq used' \cup {NULL}
    BY <2>1, <2>2
  <2>7. x # NULL => x # blk'[b].subRoot
    BY <2>1, <2>2, <1>0, <1>1, <1>2
  <2> QED
    BY <2>2, <2>3, <2>4, <2>5, <2>6, <2>7 DEF Backed
<1> QED
  BY <1>4, <1>5 DEF UsedBacked

(* A block is unlinked.                                                    *)
LEMMA UnlinkBacked ==
  ASSUME NEW T, TreeTyped, Forest(T), UsedBacked, NEW r \in Roots, NEW S, NEW b,
         NEW before, NEW first, UnlinkedNow(T, S, r, b, before, first), used' = used \ {b}
  PROVE  UsedBacked'
<1>0. /\ used \subseteq Blocks /\ NULL \notin used /\ b \in used /\ blk[b].subRoot = NULL
      /\ before = NULL \/ before \in used
      /\ LinkedFrom(OfRoot(T, r), r, b, before, first)
  BY DEF UnlinkedNow, TreeTyped, Blocks, NULL, Forest, InOrder, LinkedFrom
<1> PICK after : after = blk[b].next
  OBVIOUS
<1>1. /\ blk[b].prev = before /\ before # b
      /\ after # NULL => after # before /\ after \in used /\ blk[after].prev = b
  <2>1. blk[b].prev = before /\ before # b /\ (after # NULL => after # before)
    BY LinkedOnce DEF UnlinkedNow
  <2> QED
    BY <2>1, <1>0 DEF UsedBacked, Backed
<1>2. /\ before # NULL /\ first => blk[before].subRoot = b
      /\ before # NULL /\ ~first => blk[before].next = b
      /\ first \in BOOLEAN
  BY <1>0 DEF LinkedFrom, UnlinkedNow
<1>3. \A c \in used \ {b} :
        /\ blk'[c].next = (IF c = before /\ ~first THEN after ELSE blk[c].next)
        /\ blk'[c].subRoot = (IF c = before /\ first THEN after ELSE blk[c].subRoot)
        /\ blk'[c].prev = (IF c = after THEN before ELSE blk[c].prev)
  BY <1>0 DEF UnlinkedNow, Unlinks
<1> SUFFICES ASSUME NEW c \in used \ {b} PROVE Backed(c)'
  BY DEF UsedBacked
<1> PICK p, x, s : p = blk[c].prev /\ x = blk[c].next /\ s = blk[c].subRoot
  OBVIOUS
<1>4. /\ {p, x, s} \subseteq used \cup {NULL}
      /\ x # NULL => blk[x].prev = c /\ x # s
      /\ s # NULL => blk[s].prev = c
      /\ p # NULL => c \in {blk[p].next, blk[p].subRoot}
  BY DEF UsedBacked, Backed
<1>5. /\ x = b => c = before /\ ~first
      /\ s = b => c = before /\ first
      /\ p = b => c = after
  BY <1>0, <1>1, <1>2, <1>4
<1>6. blk'[c].next # NULL => /\ blk'[c].next \in used' /\ blk'[blk'[c].next].prev = c
                             /\ blk'[c].next # blk'[c].subRoot
  BY <1>0, <1>1, <1>2, <1>3, <1>4, <1>5
<1>7. blk'[c].subRoot # NULL => blk'[c].subRoot \in used' /\ blk'[blk'[c].subRoot].prev = c
  BY <1>0, <1>1, <1>2, <1>3, <1>4, <1>5
<1>8. blk'[c].prev # NULL => blk'[c].prev \in used' /\ c \in {blk'[blk'[c].prev].next, blk'[blk'[c].prev].subRoot}
  BY <1>0, <1>1, <1>2, <1>3, <1>4, <1>5
<1> QED
  BY <1>6, <1>7, <1>8 DEF Backed

(* emma_resource_add and emma_resource_del.                                *)
LEMMA AddKeepsBacked ==
  ASSUME TreeInv, UsedBacked, NEW u \in Uris, NEW l, l = Lookup(u), Add(u, l)
  PROVE  UsedBacked'
<1>0. TreeTyped /\ LinksTyped /\ u.root \in Roots
  BY TypedLinks, TreeAssumption DEF TreeInv
<1>1. PICK T : Forest(T) /\ DataOwn(T)
  BY DEF TreeInv
<1>2. Found(T, u.root, l)
  BY <1>0, <1>1, LookupFinds
<1>3. CASE AddNoBlock(u, l)
  BY <1>3, <1>0, LinksUnchanged DEF AddNoBlock
<1>4. CASE AddRootFull(u, l)
  <2>1. PICK n : n = FreeBlock
    OBVIOUS
  <2>2. n \in Blocks \ used
    BY <2>1, <1>0, <1>4, FreeBlockIs DEF AddRootFull, TreeTyped, LinksTyped
  <2>3. blk' = [blk EXCEPT ![n] = Cleaned(n)] /\ used' = used
    BY <2>1, <1>4 DEF AddRootFull
  <2>4. \A b \in used : blk'[b] = blk[b]
    BY <2>2, <2>3, <1>0 DEF TreeTyped
  <2> QED
    BY <2>3, <2>4, <1>0, LinksUnchanged
<1>5. CASE AddInFolder(u, l)
  <2>1. PICK folder, first : folder = l.folder /\ first = blk[l.folder].subRoot
    OBVIOUS
  <2>2. folder \in OfRoot(T, u.root) /\ first = blk[folder].subRoot
    BY <2>1, <1>2, <1>5 DEF AddInFolder, Found
  <2>3. LinkBefore(u, folder, first) /\ list' = list /\ Take(u) /\ used # Blocks /\ pool[u.root] # Slots(u.root)
    BY <2>1, <1>5, Zenon DEF AddInFolder, CanTake
  <2>4. LinkedNow(T, Grown(T, FreeBlock, folder, first), u, FreeBlock, folder, first)
    BY <2>2, <2>3, <1>0, <1>1, LinkKeeps
  <2> QED
    BY <2>2, <2>3, <2>4, <1>0, <1>1, LinkBacked DEF Take
<1>6. CASE AddAtRoot(u, l)
  <2>1. PICK folder, first : folder = NULL /\ first = list[u.root]
    OBVIOUS
  <2>2. LinkBefore(u, folder, first) /\ Take(u) /\ used # Blocks /\ pool[u.root] # Slots(u.root)
        /\ list' = [list EXCEPT ![u.root] = FreeBlock]
    BY <2>1, <1>6, Zenon DEF AddAtRoot, CanTake
  <2>3. LinkedNow(T, Grown(T, FreeBlock, folder, first), u, FreeBlock, folder, first)
    BY <2>1, <2>2, <1>0, <1>1, LinkKeeps
  <2> QED
    BY <2>1, <2>2, <2>3, <1>0, <1>1, LinkBacked DEF Take
<1>7. CASE AddNoFolder(u, l)
  <2>1. PICK n, new : n = FreeBlock /\ new = NewBlock(u, NULL, NULL)
    OBVIOUS
  <2>2. n \in Blocks \ used
    BY <2>1, <1>0, <1>7, FreeBlockIs DEF AddNoFolder, CanTake, TreeTyped, LinksTyped
  <2>3. new.prev = NULL /\ new.next = NULL /\ new.subRoot = NULL
    BY <2>1 DEF NewBlock, BlockOf
  <2>4. blk' = [blk EXCEPT ![n] = new] /\ used' = used \cup {n}
    BY <2>1, <1>7 DEF AddNoFolder, Take
  <2>5. blk'[n] = new /\ \A b \in used : blk'[b] = blk[b]
    BY <2>2, <2>4, <1>0 DEF TreeTyped
  <2>6. Backed(n)'
    BY <2>3, <2>5 DEF Backed
  <2>7. ASSUME NEW b \in used PROVE Backed(b)'
    <3>1. Backed(b) /\ blk'[b] = blk[b] /\ NULL \notin used
      BY <2>5, <1>0 DEF UsedBacked, TreeTyped, Blocks, NULL
    <3>2. \A c \in {blk[b].prev, blk[b].next, blk[b].subRoot} : c # NULL => c \in used /\ blk'[c] = blk[c]
      BY <3>1, <2>5 DEF Backed
    <3> QED
      BY <3>1, <3>2, <2>4 DEF Backed
  <2> QED
    BY <2>4, <2>6, <2>7 DEF UsedBacked
<1> QED
  BY <1>3, <1>4, <1>5, <1>6, <1>7 DEF Add

LEMMA DelKeepsBacked ==
  ASSUME TreeInv, UsedBacked, NEW u \in Uris, NEW l, l = Lookup(u), Del(u, l)
  PROVE  UsedBacked'
<1>0. TreeTyped /\ LinksTyped /\ u.root \in Roots
  BY TypedLinks, TreeAssumption DEF TreeInv
<1>1. PICK T : Forest(T) /\ DataOwn(T)
  BY DEF TreeInv
<1>2. CASE DelRefused(l)
  BY <1>2, <1>0, LinksUnchanged DEF DelRefused
<1>3. CASE DelUnlinked(u, l)
  <2>1. Found(T, u.root, l)
    BY <1>0, <1>1, LookupFinds
  <2>2. PICK S : S = Shrunk(T, l.resource)
    OBVIOUS
  <2>3. PICK before, first : UnlinkedNow(T, S, u.root, l.resource, before, first)
    BY <2>1, <2>2, <1>0, <1>1, <1>3, UnlinkKeeps
  <2>4. used' = used \ {l.resource}
    BY <1>3, Zenon DEF DelUnlinked
  <2> QED
    BY <2>3, <2>4, <1>0, <1>1, UnlinkBacked
<1> QED
  BY <1>2, <1>3 DEF Del

(* The iterator looks ahead to the block it goes on from, or not at all.   *)
Ahead == it.next \in {NULL, it.current}

LEMMA SteppedAhead ==
  ASSUME LinksTyped, list \in [Roots -> Links], NEW i \in Iterators
  PROVE  Stepped(i).it.next \in {NULL, Stepped(i).it.current}
<1> DEFINE Good == {s \in LoopStates : s.pass.found => s.pass.next = s.pass.current}
           j == Loop(i)
           onward == [rootTmp |-> j.rootTmp, previous |-> j.previous, next |-> j.next,
                      current |-> j.current]
           past == [rootTmp |-> Len(RootSeq) + 1, previous |-> NULL, next |-> NULL, current |-> NULL]
<1>0. MaxPasses \in Nat
  BY DEF LinksTyped, MaxPasses
<1>1. LoopStart(i) \in Good
  BY <1>0 DEF LoopStart, LoopStates, Iterators, Passes
<1>2. ASSUME NEW s \in Good, ~LoopEnds(s) PROVE LoopNext(s) \in Good
  <2>1. s.pass \in Passes /\ s.pass.current # NULL /\ s.left \in 0 .. MaxPasses /\ s.left # 0
    BY <1>2 DEF LoopStates, LoopEnds, Stops
  <2>2. Pass(s.pass) \in Passes
    BY <2>1, PassTyped
  <2>3. s.left - 1 \in 0 .. MaxPasses
    BY <2>1, <1>0
  <2>4. Pass(s.pass).next = Pass(s.pass).current
    BY <2>1 DEF Pass, Passes
  <2> QED
    BY <2>2, <2>3, <2>4 DEF LoopNext, LoopStates
<1>3. Good \in SUBSET LoopStates
  OBVIOUS
<1> HIDE DEF Good
<1>4. PICK s \in Good : Loop(i) = s.pass
  BY <1>1, <1>2, <1>3, LoopKeeps
<1>5. j.found => j.next = j.current
  BY <1>4 DEF Good
<1>6. /\ j.found => Stepped(i) = [out |-> j.previous, it |-> onward]
      /\ ~j.found => Stepped(i) = [out |-> NULL, it |-> IF j.rootTmp < Len(RootSeq)
                                                      THEN AtRoot(j.rootTmp + 1) ELSE past]
  BY Zenon DEF Stepped
<1> HIDE DEF j
<1> QED
  BY <1>5, <1>6 DEF AtRoot

(* Every call keeps both.                                                  *)
LEMMA BackedStep ==
  TreeInv /\ it \in Iterators /\ UsedBacked /\ Ahead /\ [Next]_vars => UsedBacked' /\ Ahead'
<1> SUFFICES ASSUME TreeInv, it \in Iterators, UsedBacked, Ahead, [Next]_vars
             PROVE  UsedBacked' /\ Ahead'
  OBVIOUS
<1>0. TreeTyped /\ LinksTyped /\ list \in [Roots -> Links]
  BY TypedLinks DEF TreeInv, TreeTyped
<1>1. ASSUME NEW u \in Uris, NEW l, l = Lookup(u),
             \/ Add(u, l) \/ Del(u, l) \/ Lock(l) \/ Release(l)
             \/ \E k \in Keys : SetLastModified(l, k)
             \/ \E t \in Times : SetClocktime(l, t)
      PROVE  UsedBacked' /\ Ahead'
  <2>1. CASE Add(u, l)
    <3>1. it' = it
      BY <2>1 DEF Add, AddNoBlock, AddRootFull, AddInFolder, AddAtRoot, AddNoFolder, Take
    <3> QED
      BY <2>1, <3>1, <1>1, AddKeepsBacked DEF Ahead
  <2>2. CASE Del(u, l)
    <3>1. it' = AtRoot(1)
      BY <2>2, Zenon DEF Del, DelRefused, DelUnlinked
    <3>2. Ahead'
      BY <3>1 DEF Ahead, AtRoot
    <3> QED
      BY <2>2, <3>2, <1>1, DelKeepsBacked
  <2>3. CASE ~Add(u, l) /\ ~Del(u, l)
    <3>1. it' = it
      BY <2>3, <1>1 DEF Lock, Release, SetLastModified, SetClocktime, SetField
    <3> QED
      BY <2>3, <3>1, <1>1, FieldsKeepBacked DEF Ahead
  <2> QED
    BY <2>1, <2>2, <2>3
<1>2. ASSUME NEW k \in Keys, SetLastModifiedNode(k) PROVE UsedBacked' /\ Ahead'
  BY <1>0, <1>2, LinksUnchanged DEF SetLastModifiedNode, Ahead
<1>3. ASSUME NEW i \in Iterators, Walk(i) PROVE UsedBacked' /\ Ahead'
  <2>1. UNCHANGED <<used, blk, list, pool, lastModifier>> /\ (it' = it \/ it' = Stepped(i).it)
    BY <1>3 DEF Walk
  <2>2. Ahead'
    BY <2>1, <1>0, SteppedAhead DEF Ahead
  <2> QED
    BY <2>1, <2>2, <1>0, LinksUnchanged
<1>4. ASSUME NEW r \in 1 .. Len(RootSeq), StartWalk(r) PROVE UsedBacked' /\ Ahead'
  <2>1. Len(RootSeq) = 3 /\ RootSeq[r] \in Roots
    BY DEF RootSeq, Roots
  <2>2. AtRoot(r) \in Iterators
    BY <2>1, <1>0 DEF AtRoot, Iterators, Links
  <2> QED
    BY <2>2, <1>3, <1>4 DEF StartWalk
<1>5. CASE ContinueWalk
  BY <1>3, <1>5 DEF ContinueWalk
<1>6. CASE UNCHANGED vars
  BY <1>0, <1>6, LinksUnchanged DEF vars, Ahead
<1>7. CASE Next
  <2>1. \/ \E u \in Uris : \E l \in {Lookup(u)} :
          \/ Add(u, l) \/ Del(u, l) \/ Lock(l) \/ Release(l)
          \/ \E k \in Keys : SetLastModified(l, k)
          \/ \E t \in Times : SetClocktime(l, t)
        \/ \E k \in Keys : SetLastModifiedNode(k)
        \/ \E r \in 1 .. Len(RootSeq) : StartWalk(r)
        \/ ContinueWalk
    BY <1>7 DEF Next
  <2> QED
    BY <2>1, <1>1, <1>2, <1>4, <1>5
<1> QED
  BY <1>6, <1>7

LEMMA BackedInit == Init => UsedBacked /\ Ahead
<1> SUFFICES ASSUME Init PROVE UsedBacked /\ Ahead
  OBVIOUS
<1>0. it = [rootTmp |-> 1, previous |-> NULL, next |-> NULL, current |-> NULL]
  BY DEF Init
<1>1. PICK n : n = Len(BootNames)
  OBVIOUS
<1>2. n \in Nat /\ n <= MaxResources /\ MaxResources \in Nat /\ used = 1 .. n
  BY <1>1, TreeAssumption DEF Init
<1>3. \A b \in 1 .. n : /\ b \in Blocks /\ b # NULL
                        /\ blk[b].prev = (IF b = n THEN NULL ELSE b + 1)
                        /\ blk[b].next = b - 1 /\ blk[b].subRoot = NULL
  BY <1>1, <1>2 DEF Init, Blocks, NULL, BlockOf
<1>4. ASSUME NEW b \in used PROVE Backed(b)
  <2>1. blk[b].prev # NULL => blk[b].prev \in 1 .. n /\ blk[blk[b].prev].next = b
    BY <1>2, <1>3 DEF NULL
  <2>2. blk[b].next # NULL => blk[b].next \in 1 .. n /\ blk[blk[b].next].prev = b
    BY <1>2, <1>3 DEF NULL
  <2>3. blk[b].subRoot = NULL
    BY <1>2, <1>3
  <2> QED
    BY <2>1, <2>2, <2>3, <1>2 DEF Backed
<1> QED
  BY <1>0, <1>4 DEF UsedBacked, Ahead

(* What an add at the head h of a root's list does to the links that an    *)
(* iterator can meet, when no folder has content.                          *)
HeadsList(n, h) ==
  /\ n \in Blocks \ used /\ h \in used \cup {NULL}
  /\ h # NULL => blk[h].prev = NULL
  /\ blk'[n].next = h /\ blk'[n].prev = NULL /\ blk'[n].subRoot = NULL
  /\ \A b \in used : /\ {blk[b].prev, blk[b].next} \subseteq used \cup {NULL}
                     /\ blk[b].subRoot = NULL /\ blk'[b].subRoot = NULL
                     /\ blk'[b].next = blk[b].next
                     /\ blk'[b].prev = IF b = h THEN n ELSE blk[b].prev

(* The iterator without the new block, i, and with it, j: the same, or i   *)
(* at the end and j at the new block, come back from the former head.      *)
OnUsed(i) == {i.previous, i.current} \subseteq used \cup {NULL} /\ i.next \in {NULL, i.current}

AtNew(i, j, n, h) ==
  /\ i.rootTmp = j.rootTmp /\ i.current = NULL
  /\ h # NULL /\ i.previous = h /\ j.previous = h /\ j.current = n /\ j.next = n

Alike(i, j, n, h) == (i = j /\ OnUsed(i)) \/ AtNew(i, j, n, h)

(* One turn of the loop at a block that holds nothing, with the block p    *)
(* before it and x behind it.                                              *)
FlatTurn(i, p, x) ==
  LET back == IF x \in {NULL, i.current} THEN p ELSE x
      to(found, y) == [rootTmp |-> i.rootTmp, previous |-> i.current, next |-> y, current |-> y, found |-> found]
  IN IF i.previous \in {p, NULL} \/ i.next = NULL THEN to(TRUE, back)
     ELSE IF i.previous = x THEN to(FALSE, p) ELSE i

TurnsFlat ==
  \A i \in Passes : ~i.found /\ i.current # NULL /\ i.next \in {NULL, i.current} /\ blk[i.current].subRoot = NULL
                    => Pass(i) = FlatTurn(i, blk[i.current].prev, blk[i.current].next)

LEMMA TurnIsFlat == TurnsFlat
<1> SUFFICES ASSUME NEW i \in Passes, ~i.found, i.current # NULL, i.next \in {NULL, i.current},
                    blk[i.current].subRoot = NULL
             PROVE  Pass(i) = FlatTurn(i, blk[i.current].prev, blk[i.current].next)
  BY DEF TurnsFlat
<1> DEFINE b == blk[i.current]
           i1 == IF i.previous = b.prev THEN [i EXCEPT !.previous = i.current, !.next = b.subRoot] ELSE i
           i2 == IF i1.next = NULL \/ i1.previous = b.subRoot
                 THEN [i1 EXCEPT !.found = TRUE, !.previous = i.current, !.next = b.next] ELSE i1
           i3 == IF i2.next = NULL \/ i2.previous = b.next
                 THEN [i2 EXCEPT !.previous = i.current, !.next = b.prev] ELSE i2
           to(found, y) == [rootTmp |-> i.rootTmp, previous |-> i.current, next |-> y,
                            current |-> i.current, found |-> found]
<1>1. Pass(i) = [i3 EXCEPT !.current = i3.next]
  BY DEF Pass
<1>2. b.subRoot = NULL
  OBVIOUS
<1> HIDE DEF b
<1>3. i = [rootTmp |-> i.rootTmp, previous |-> i.previous, next |-> i.next,
           current |-> i.current, found |-> FALSE]
  BY DEF Passes
<1>4. ASSUME i.previous \in {b.prev, NULL} \/ i.next = NULL PROVE Pass(i) = FlatTurn(i, b.prev, b.next)
  <2>1. i2 = to(TRUE, b.next)
    BY <1>2, <1>3, <1>4
  <2> HIDE DEF i2
  <2> PICK y : y = IF b.next \in {NULL, i.current} THEN b.prev ELSE b.next
    OBVIOUS
  <2>2. i3 = to(TRUE, y)
    BY <2>1
  <2> HIDE DEF i3
  <2>3. Pass(i) = [rootTmp |-> i.rootTmp, previous |-> i.current, next |-> y, current |-> y, found |-> TRUE]
    BY <2>2, <1>1
  <2> QED
    BY <2>3, <1>4 DEF FlatTurn
<1>5. ASSUME i.previous \notin {b.prev, NULL}, i.next # NULL PROVE Pass(i) = FlatTurn(i, b.prev, b.next)
  <2>1. i2 = i
    BY <1>2, <1>5
  <2> HIDE DEF i2
  <2>2. CASE i.previous = b.next
    <3>1. i3 = [i EXCEPT !.previous = i.current, !.next = b.prev]
      BY <2>1, <2>2
    <3> HIDE DEF i3
    <3>2. i3 = to(FALSE, b.prev)
      <4>1. i3 = [rootTmp |-> i.rootTmp, previous |-> i.current, next |-> b.prev,
                  current |-> i.current, found |-> i.found]
        BY <3>1 DEF Passes
      <4>2. i.found = FALSE
        BY DEF Passes
      <4> QED
        BY <4>1, <4>2
    <3>3. Pass(i) = [rootTmp |-> i.rootTmp, previous |-> i.current, next |-> b.prev, current |-> b.prev, found |-> FALSE]
      BY <3>2, <1>1
    <3> QED
      BY <3>3, <2>2, <1>5 DEF FlatTurn
  <2>3. CASE i.previous # b.next
    <3>1. i3 = i
      BY <2>1, <2>3, <1>5
    <3> HIDE DEF i3
    <3>2. [i EXCEPT !.current = i.next] = i
      BY <1>3, <1>5
    <3>3. Pass(i) = i
      BY <3>1, <3>2, <1>1
    <3> QED
      BY <3>3, <2>3, <1>5 DEF FlatTurn
  <2> QED
    BY <2>2, <2>3
<1> QED
  BY <1>4, <1>5 DEF b

LEMMA PassAlike ==
  ASSUME used \subseteq Blocks, NEW n, NEW h, HeadsList(n, h), NEW i \in Passes, ~Stops(i), OnUsed(i)
  PROVE  Pass(i).found = Pass(i)'.found /\ Alike(Pass(i), Pass(i)', n, h)
<1> PICK p, q, x : p = blk[i.current].prev /\ q = blk'[i.current].prev /\ x = blk[i.current].next
  OBVIOUS
<1>0. /\ i.current \in used /\ NULL \notin used /\ i.previous \in used \cup {NULL}
      /\ i.next \in {NULL, i.current} /\ ~i.found /\ i.current # NULL
      /\ n \notin used /\ n # NULL
  BY DEF OnUsed, Stops, HeadsList, Blocks, NULL, Passes
<1>1. /\ blk[i.current].subRoot = NULL /\ blk'[i.current].subRoot = NULL /\ blk'[i.current].next = x
      /\ x \in used \cup {NULL} /\ p \in used \cup {NULL}
      /\ i.current # h => q = p
      /\ i.current = h => q = n /\ p = NULL
  BY <1>0 DEF HeadsList
<1>2. Pass(i) = FlatTurn(i, p, x)
  BY <1>0, <1>1, TurnIsFlat DEF TurnsFlat
<1>3. Pass(i)' = FlatTurn(i, q, x)
  <2>1. TurnsFlat'
    BY TurnIsFlat, PTL
  <2>2. Pass(i)' = FlatTurn(i, blk'[i.current].prev, blk'[i.current].next)
    BY <2>1, <1>0, <1>1 DEF TurnsFlat, FlatTurn, Passes
  <2> QED
    BY <2>2, <1>1
<1>4. CASE i.current # h
  <2>1. FlatTurn(i, q, x) = FlatTurn(i, p, x)
    BY <1>1, <1>4
  <2>2. OnUsed(FlatTurn(i, p, x))
    BY <1>0, <1>1 DEF OnUsed, FlatTurn
  <2> QED
    BY <2>1, <2>2, <1>2, <1>3 DEF Alike
<1>5. CASE i.current = h
  <2>1. i.previous # n
    BY <1>0
  <2>2. CASE i.previous = NULL \/ i.next = NULL \/ (i.previous = x)
    <3>1. PICK f \in BOOLEAN : f = (i.previous = NULL \/ i.next = NULL)
      OBVIOUS
    <3> PICK r : r = i.rootTmp
      OBVIOUS
    <3>2. CASE (f => x \in {NULL, h})
      <4>1. Pass(i) = [rootTmp |-> r, previous |-> h, next |-> NULL, current |-> NULL, found |-> f]
        BY <3>1, <3>2, <2>2, <1>1, <1>2, <1>5 DEF FlatTurn
      <4>2. Pass(i)' = [rootTmp |-> r, previous |-> h, next |-> n, current |-> n, found |-> f]
        BY <3>1, <3>2, <2>1, <2>2, <1>1, <1>3, <1>5 DEF FlatTurn
      <4> QED
        BY <4>1, <4>2, <1>0, <1>5 DEF Alike, AtNew
    <3>3. CASE f /\ x \notin {NULL, h}
      <4>1. Pass(i) = [rootTmp |-> r, previous |-> h, next |-> x, current |-> x, found |-> TRUE]
        BY <3>1, <3>3, <2>2, <1>1, <1>2, <1>5 DEF FlatTurn
      <4>2. Pass(i)' = [rootTmp |-> r, previous |-> h, next |-> x, current |-> x, found |-> TRUE]
        BY <3>1, <3>3, <2>1, <2>2, <1>1, <1>3, <1>5 DEF FlatTurn
      <4> QED
        BY <4>1, <4>2, <1>0, <1>1, <1>5 DEF Alike, OnUsed
    <3> QED
      BY <3>2, <3>3
  <2>3. CASE i.previous # NULL /\ i.next # NULL /\ i.previous # x
    <3>1. Pass(i) = i /\ Pass(i)' = i
      BY <2>1, <2>3, <1>1, <1>2, <1>3, <1>5 DEF FlatTurn
    <3> QED
      BY <3>1 DEF Alike
  <2> QED
    BY <2>2, <2>3
<1> QED
  BY <1>4, <1>5

(* A call of the iterator.                                                 *)
LEMMA LoopAlike ==
  ASSUME LinksTyped, LinksTyped', used \subseteq Blocks, NEW n, NEW h, HeadsList(n, h),
         NEW i \in Iterators, NEW j \in Iterators, Alike(i, j, n, h)
  PROVE  /\ Loop(i).found = Loop(j)'.found
         /\ Loop(i).found => Alike(Loop(i), Loop(j)', n, h)
<1> DEFINE Same(x, y) == x.found = y.found /\ Alike(x, y, n, h)
           Agree(x, y) == x.found = y.found /\ (x.found => Alike(x, y, n, h))
<1>0. /\ MaxPasses \in Nat /\ MaxPasses # 0 /\ NULL \notin used /\ n # NULL /\ n \in Blocks
      /\ n \notin used /\ (h # NULL => h \in used)
  BY DEF LinksTyped, MaxPasses, HeadsList, Blocks, NULL
<1>1. PICK f : /\ \A s \in LoopStates : f[s] = IF LoopEnds(s) THEN s.pass ELSE f[LoopNext(s)]
               /\ \A s \in LoopStates : ~LoopEnds(s) => LoopNext(s) \in LoopStates /\ LoopNext(s).left < s.left
               /\ Loop(i) = f[LoopStart(i)]
  BY LoopRuns DEF LoopHasRun, RunsLoop
<1>2. PICK g : /\ \A s \in LoopStates : g[s] = IF LoopEnds(s) THEN s.pass ELSE g[LoopNext(s)']
               /\ \A s \in LoopStates : ~LoopEnds(s) => LoopNext(s)' \in LoopStates
               /\ Loop(j)' = g[LoopStart(j)]
  <2>1. LoopHasRun'
    BY LoopRuns, PTL
  <2>2. PICK g : RunsLoop(g)'
    BY <2>1 DEF LoopHasRun
  <2> QED
    BY <2>2 DEF RunsLoop
<1> DEFINE Good == {k \in Nat : \A s, t \in LoopStates :
                      s.left = k /\ t.left = k /\ Same(s.pass, t.pass) => Agree(f[s], g[t])}
<1>3. ASSUME NEW s \in LoopStates, NEW t \in LoopStates, Same(s.pass, t.pass), LoopEnds(s), LoopEnds(t)
      PROVE  Agree(f[s], g[t])
  BY <1>1, <1>2, <1>3
<1>4. 0 \in Good
  BY <1>3 DEF LoopEnds
<1>5. ASSUME NEW k \in Good PROVE k + 1 \in Good
  <2> SUFFICES ASSUME NEW s \in LoopStates, NEW t \in LoopStates, s.left = k + 1, t.left = k + 1,
                      Same(s.pass, t.pass)
               PROVE  Agree(f[s], g[t])
    OBVIOUS
  <2> PICK x, y : x = s.pass /\ y = t.pass
    OBVIOUS
  <2>0. x \in Passes /\ y \in Passes /\ k \in Nat /\ k + 1 # 0 /\ Same(x, y)
    BY DEF LoopStates
  <2>1. CASE Stops(x) /\ x = y
    BY <2>1, <1>3 DEF LoopEnds
  <2>2. CASE ~Stops(x) /\ x = y /\ OnUsed(x)
    <3>1. Same(Pass(x), Pass(x)')
      BY <2>0, <2>2, PassAlike
    <3>2. ~LoopEnds(s) /\ ~LoopEnds(t)
      BY <2>0, <2>2 DEF LoopEnds
    <3>3. PICK sn, tn : sn = LoopNext(s) /\ tn = LoopNext(t)'
      OBVIOUS
    <3>4. sn \in LoopStates /\ tn \in LoopStates /\ f[s] = f[sn] /\ g[t] = g[tn]
      BY <3>2, <3>3, <1>1, <1>2
    <3>5. sn.left = k /\ tn.left = k /\ sn.pass = Pass(x) /\ tn.pass = Pass(x)'
      <4>1. /\ sn.left = s.left - 1 /\ sn.pass = Pass(s.pass)
            /\ tn.left = t.left - 1 /\ tn.pass = Pass(t.pass)'
        BY <3>3 DEF LoopNext
      <4>2. s.pass = x /\ t.pass = x /\ s.left - 1 = k /\ t.left - 1 = k
        BY <2>0, <2>2
      <4> HIDE DEF Good
      <4> QED
        BY <4>1, <4>2
    <3>6. Agree(f[sn], g[tn])
      <4> HIDE DEF Same, Agree
      <4> QED
        BY <3>1, <3>4, <3>5
    <3> QED
      BY <3>4, <3>6
  <2>3. CASE AtNew(x, y, n, h)
    <3>1. LoopEnds(s) /\ f[s] = x
      BY <2>3, <1>1 DEF AtNew, LoopEnds, Stops
    <3>2. CASE y.found
      BY <3>2, <3>1, <1>3 DEF LoopEnds, Stops
    <3>3. CASE ~y.found
      <4>1. ~LoopEnds(t)
        BY <2>0, <2>3, <3>3, <1>0 DEF AtNew, LoopEnds, Stops
      <4>2. PICK tn : tn = LoopNext(t)'
        OBVIOUS
      <4>3. tn \in LoopStates /\ g[t] = g[tn] /\ tn.pass = Pass(y)'
        BY <4>1, <4>2, <1>2 DEF LoopNext
      <4>4. Pass(y)'.found = FALSE /\ Pass(y)'.current = NULL
        <5>1. blk'[n].subRoot = NULL /\ blk'[n].prev = NULL /\ blk'[n].next = h
          BY DEF HeadsList
        <5>2. TurnsFlat'
          BY TurnIsFlat, PTL
        <5>3. Pass(y)' = FlatTurn(y, NULL, h)
          BY <2>0, <2>3, <3>3, <1>0, <5>1, <5>2, ZenonT(60) DEF TurnsFlat, FlatTurn, AtNew, Passes
        <5> QED
          BY <5>3, <2>3, <1>0 DEF AtNew, FlatTurn
      <4>5. LoopEnds(tn) /\ g[t] = tn.pass
        BY <4>3, <4>4, <1>2 DEF LoopEnds, Stops
      <4>6. x.found = FALSE
        BY <2>0, <3>3 DEF Passes
      <4> QED
        BY <3>1, <4>3, <4>4, <4>5, <4>6
    <3> QED
      BY <3>2, <3>3
  <2> QED
    BY <2>0, <2>1, <2>2, <2>3 DEF Alike
<1>6. MaxPasses \in Good
  <2>1. Good \in SUBSET Nat
    OBVIOUS
  <2> HIDE DEF Good
  <2> QED
    BY <2>1, <1>0, <1>4, <1>5, NumberInduction
<1>7. PICK s, t : s = LoopStart(i) /\ t = LoopStart(j)
  OBVIOUS
<1>8. s \in LoopStates /\ t \in LoopStates /\ s.left = MaxPasses /\ t.left = MaxPasses
  BY <1>0, <1>7 DEF LoopStart, LoopStates, Iterators, Passes
<1>9. Same(s.pass, t.pass)
  BY <1>7 DEF LoopStart, Alike, OnUsed, AtNew
<1>10. Agree(f[s], g[t])
  <2> HIDE DEF Same, Agree
  <2> QED
    BY <1>6, <1>8, <1>9
<1> QED
  BY <1>1, <1>2, <1>7, <1>10

LEMMA StepAlike ==
  ASSUME LinksTyped, LinksTyped', used \subseteq Blocks, NEW n, NEW h, HeadsList(n, h),
         NEW i \in Iterators, NEW j \in Iterators, Alike(i, j, n, h)
  PROVE  /\ Stepped(i).out = Stepped(j)'.out
         /\ Stepped(i).out # NULL => Alike(Stepped(i).it, Stepped(j)'.it, n, h)
<1> DEFINE On(x) == [rootTmp |-> x.rootTmp, previous |-> x.previous, next |-> x.next, current |-> x.current]
<1> PICK x, y : x = Loop(i) /\ y = Loop(j)'
  OBVIOUS
<1>1. x.found = y.found /\ (x.found => Alike(x, y, n, h))
  BY LoopAlike
<1>2. /\ x.found => Stepped(i).out = x.previous /\ Stepped(i).it = On(x)
      /\ ~x.found => Stepped(i).out = NULL
  BY DEF Stepped
<1>3. /\ y.found => Stepped(j)'.out = y.previous /\ Stepped(j)'.it = On(y)
      /\ ~y.found => Stepped(j)'.out = NULL
  BY DEF Stepped
<1>4. CASE x.found
  <2>1. x.previous = y.previous /\ Alike(On(x), On(y), n, h)
    BY <1>1, <1>4 DEF Alike, AtNew, OnUsed
  <2> QED
    BY <2>1, <1>1, <1>2, <1>3, <1>4
<1>5. CASE ~x.found
  BY <1>1, <1>2, <1>3, <1>5
<1> QED
  BY <1>4, <1>5

(* The rest of the walk.                                                   *)
MeetStart(i) == [left |-> MaxResources + 1, step |-> Stepped(i)]

MeetingsRun ==
  LinksTyped /\ list \in [Roots -> Links] =>
    \E f : IsMeet(f) /\ \A i : Meets(i) = f[MeetStart(i)]

LEMMA MeetsRun == MeetingsRun
<1> SUFFICES ASSUME LinksTyped, list \in [Roots -> Links]
             PROVE  \E f : IsMeet(f) /\ \A i : Meets(i) = f[MeetStart(i)]
  BY DEF MeetingsRun
<1> DEFINE f == CHOOSE g : IsMeet(g)
<1>1. \A i : Meets(i) = f[MeetStart(i)]
  BY Zenon DEF Meets, IsMeet, MeetOf, Meetings, MeetStart
<1>2. IsMeet(f)
  BY MeetExists
<1> QED
  BY <1>1, <1>2

StartsMeet ==
  LinksTyped /\ list \in [Roots -> Links] =>
    \A i \in Iterators : /\ MeetStart(i) \in Meetings /\ MeetStart(i).left = MaxResources + 1
                         /\ MeetStart(i).step = Stepped(i)

LEMMA MeetStarts == StartsMeet
<1> SUFFICES ASSUME LinksTyped, list \in [Roots -> Links], NEW i \in Iterators
             PROVE  /\ MeetStart(i) \in Meetings /\ MeetStart(i).left = MaxResources + 1
                    /\ MeetStart(i).step = Stepped(i)
  BY DEF StartsMeet
<1>1. Stepped(i).it \in Iterators /\ Stepped(i).out \in Links
  BY SteppedTyped
<1>2. Stepped(i) = [out |-> Stepped(i).out, it |-> Stepped(i).it]
  BY DEF Stepped
<1>3. Stepped(i) \in [out : Links, it : Iterators]
  <2>1. PICK o, j : o = Stepped(i).out /\ j = Stepped(i).it
    OBVIOUS
  <2> QED
    BY <2>1, <1>1, <1>2
<1>4. MaxResources + 1 \in 0 .. MaxResources + 1
  BY DEF LinksTyped
<1> QED
  BY <1>3, <1>4 DEF Meetings, MeetStart

(* The calls that follow on a step.                                        *)
MeetsOn ==
  LinksTyped /\ list \in [Roots -> Links] =>
    \A s \in Meetings : s.left # 0 =>
      \E t \in Meetings : /\ t = [left |-> s.left - 1, step |-> Stepped(s.step.it)]
                          /\ t.left = s.left - 1 /\ t.step = Stepped(s.step.it)

LEMMA MeetsGoOn == MeetsOn
<1> SUFFICES ASSUME LinksTyped, list \in [Roots -> Links], NEW s \in Meetings, s.left # 0
             PROVE  \E t \in Meetings : /\ t = [left |-> s.left - 1, step |-> Stepped(s.step.it)]
                                        /\ t.left = s.left - 1 /\ t.step = Stepped(s.step.it)
  BY DEF MeetsOn
<1>1. PICK t : t = [left |-> s.left - 1, step |-> Stepped(s.step.it)]
  OBVIOUS
<1> QED
  BY <1>1, MeetGoesOn

LEMMA MeetsAlike ==
  ASSUME LinksTyped, list \in [Roots -> Links], LinksTyped', list' \in [Roots -> Links],
         used \subseteq Blocks, NEW n, NEW h, HeadsList(n, h),
         NEW i \in Iterators, NEW j \in Iterators, Alike(i, j, n, h)
  PROVE  Meets(i) = Meets(j)'
<1> DEFINE Same(s, t) == s.step.out = t.step.out /\ (s.step.out # NULL => Alike(s.step.it, t.step.it, n, h))
<1>1. PICK f : IsMeet(f) /\ Meets(i) = f[MeetStart(i)]
  BY MeetsRun DEF MeetingsRun
<1>2. PICK g : IsMeet(g)' /\ Meets(j)' = g[MeetStart(j)']
  <2>1. MeetingsRun'
    BY MeetsRun, PTL
  <2> QED
    BY <2>1 DEF MeetingsRun
<1>3. \A s \in Meetings : f[s] = MeetOf(f, s)
  BY <1>1, Zenon DEF IsMeet
<1>4. \A s \in Meetings : g[s] = MeetOf(g, s)'
  BY <1>2, Zenon DEF IsMeet
<1> DEFINE Good == {k \in Nat : \A s, t \in Meetings : s.left = k /\ t.left = k /\ Same(s, t) => f[s] = g[t]}
<1>5. 0 \in Good
  <2> SUFFICES ASSUME NEW s \in Meetings, NEW t \in Meetings, s.left = 0, t.left = 0 PROVE f[s] = g[t]
    OBVIOUS
  <2>1. MeetOf(f, s) = <<>> /\ MeetOf(g, t)' = <<>>
    BY DEF MeetOf
  <2> QED
    BY <2>1, <1>3, <1>4
<1>6. ASSUME NEW k \in Good PROVE k + 1 \in Good
  <2> SUFFICES ASSUME NEW s \in Meetings, NEW t \in Meetings, s.left = k + 1, t.left = k + 1, Same(s, t)
               PROVE  f[s] = g[t]
    OBVIOUS
  <2> PICK o : o = s.step.out
    OBVIOUS
  <2>0. t.step.out = o /\ s.left # 0 /\ t.left # 0
    <3>1. k \in Nat
      OBVIOUS
    <3> QED
      BY <3>1
  <2>1. CASE o = NULL
    <3>1. MeetOf(f, s) = <<>> /\ MeetOf(g, t)' = <<>>
      BY <2>0, <2>1 DEF MeetOf
    <3> QED
      BY <3>1, <1>3, <1>4
  <2>2. CASE o # NULL
    <3>1. PICK a, b : a = s.step.it /\ b = t.step.it
      OBVIOUS
    <3>2. a \in Iterators /\ b \in Iterators /\ Alike(a, b, n, h)
      BY <2>2, <3>1 DEF Meetings
    <3>3. PICK x \in Meetings : /\ x = [left |-> s.left - 1, step |-> Stepped(s.step.it)]
                                /\ x.left = s.left - 1 /\ x.step = Stepped(a)
      BY <2>0, <3>1, MeetsGoOn DEF MeetsOn
    <3>4. PICK y \in Meetings : /\ y = [left |-> t.left - 1, step |-> Stepped(t.step.it)']
                                /\ y.left = t.left - 1 /\ y.step = Stepped(b)'
      <4>1. MeetsOn'
        BY MeetsGoOn, PTL
      <4> QED
        BY <4>1, <2>0, <3>1 DEF MeetsOn
    <3>5. /\ Stepped(a).out = Stepped(b)'.out
          /\ Stepped(a).out # NULL => Alike(Stepped(a).it, Stepped(b)'.it, n, h)
      BY <3>2, StepAlike
    <3>6. Same(x, y)
      BY <3>3, <3>4, <3>5
    <3>7. x.left = k /\ y.left = k
      <4>1. s.left - 1 = k /\ t.left - 1 = k
        OBVIOUS
      <4> QED
        BY <4>1, <3>3, <3>4
    <3>8. f[x] = g[y]
      <4> HIDE DEF Same
      <4> QED
        BY <3>3, <3>4, <3>6, <3>7
    <3>9. MeetOf(f, s) = <<o>> \o f[x]
      BY <2>0, <2>2, <3>3, Zenon DEF MeetOf
    <3>10. MeetOf(g, t)' = <<o>> \o g[y]
      BY <2>0, <2>2, <3>4, Zenon DEF MeetOf
    <3> QED
      BY <3>8, <3>9, <3>10, <1>3, <1>4
  <2> QED
    BY <2>1, <2>2
<1>7. MaxResources + 1 \in Good
  <2>1. Good \in SUBSET Nat /\ MaxResources + 1 \in Nat
    BY DEF LinksTyped
  <2> HIDE DEF Good
  <2> QED
    BY <2>1, <1>5, <1>6, NumberInduction
<1>8. PICK s : /\ s = MeetStart(i) /\ s \in Meetings /\ s.left = MaxResources + 1 /\ s.step = Stepped(i)
  BY MeetStarts DEF StartsMeet
<1>9. PICK t : /\ t = MeetStart(j)' /\ t \in Meetings /\ t.left = MaxResources + 1 /\ t.step = Stepped(j)'
  <2>1. StartsMeet'
    BY MeetStarts, PTL
  <2> QED
    BY <2>1 DEF StartsMeet
<1>10. Same(s, t)
  BY <1>8, <1>9, StepAlike
<1>11. f[s] = g[t]
  <2> HIDE DEF Same
  <2> QED
    BY <1>7, <1>8, <1>9, <1>10
<1> QED
  BY <1>1, <1>2, <1>8, <1>9, <1>11

(* emma_resource_add puts a new resource before the head of a root's list, *)
(* and an iterator under way knows only where it came from: whether it has *)
(* passed the head, stands on it or comes back to it from behind, a walk   *)
(* that the client or the watchdog goes on with after a request meets what *)
(* it would have met without it. It holds of every tree, of any size, that *)
(* has no folders with content, with all blocks that adds have leaked, and *)
(* wherever dels have left the iterator.                                   *)
THEOREM WalksOutlastAdds == Spec => AddsAtRootKeepWalk
<1> DEFINE Kept == (/\ \E u \in Uris : AddAtRoot(u, Lookup(u))
                    /\ it.rootTmp <= Len(RootSeq)
                    /\ {it.previous, it.current} \subseteq used \cup {NULL}
                    /\ \A b \in used : blk[b].subRoot = NULL
                    => Meets(it)' = Meets(it))
<1>1. ASSUME TreeInv, TreeInv', it \in Iterators, UsedBacked, Ahead, NEW u \in Uris, AddAtRoot(u, Lookup(u)),
             {it.previous, it.current} \subseteq used \cup {NULL}, \A b \in used : blk[b].subRoot = NULL
      PROVE  Meets(it)' = Meets(it)
  <2>0. /\ TreeTyped /\ LinksTyped /\ u.root \in Roots /\ used \subseteq Blocks /\ NULL \notin used
        /\ list \in [Roots -> Links] /\ it' = it
    BY <1>1, TypedLinks, TreeAssumption DEF TreeInv, TreeTyped, Blocks, NULL, AddAtRoot, Take
  <2>1. LinksTyped' /\ list' \in [Roots -> Links]
    <3>1. /\ MaxResources \in Nat
          /\ blk' \in [Blocks -> Block]
          /\ list' \in [Roots -> Links]
      BY <1>1, TreeAssumption DEF TreeInv, TreeTyped
    <3>2. \A b \in Blocks : blk'[b] \in Block
      BY <3>1
    <3>3. \A b \in Blocks : blk'[b].next \in Links /\ blk'[b].subRoot \in Links /\ blk'[b].prev \in Links
      BY <3>2 DEF Block
    <3> QED
      BY <3>1, <3>3 DEF LinksTyped
  <2>2. PICK T : Forest(T) /\ DataOwn(T)
    BY <1>1 DEF TreeInv
  <2>3. PICK n, first : n = FreeBlock /\ first = list[u.root]
    OBVIOUS
  <2>4. LinkBefore(u, NULL, first) /\ Take(u) /\ used # Blocks /\ pool[u.root] # Slots(u.root)
        /\ list' = [list EXCEPT ![u.root] = FreeBlock]
    BY <2>3, <1>1, Zenon DEF AddAtRoot, CanTake
  <2>5. LinkedNow(T, Grown(T, n, NULL, first), u, n, NULL, first)
    BY <2>0, <2>2, <2>3, <2>4, LinkKeeps
  <2>6. first # NULL => first \in used /\ blk[first].prev = NULL
    <3>1. first # NULL => first \in OfRoot(T, u.root) /\ blk[first].prev = NULL
      BY <2>0, <2>2, <2>3 DEF Forest
    <3> QED
      BY <3>1, <2>0, <2>2 DEF Forest, InOrder
  <2>7. HeadsList(n, first)
    <3>1. /\ n \in Blocks \ used /\ blk'[n].next = first /\ blk'[n].prev = NULL /\ blk'[n].subRoot = NULL
          /\ \A b \in used : /\ blk'[b].subRoot = blk[b].subRoot
                             /\ blk'[b].next = blk[b].next
                             /\ blk'[b].prev = IF b = first THEN n ELSE blk[b].prev
      BY <2>0, <2>5 DEF LinkedNow
    <3>2. \A b \in used : {blk[b].prev, blk[b].next} \subseteq used \cup {NULL}
      BY <1>1 DEF UsedBacked, Backed
    <3> QED
      BY <3>1, <3>2, <2>6, <1>1 DEF HeadsList
  <2>8. PICK i : i = it
    OBVIOUS
  <2>9. Alike(i, i, n, first) /\ i \in Iterators
    BY <2>8, <1>1 DEF Alike, OnUsed, Ahead
  <2>10. Meets(i) = Meets(i)'
    BY <2>0, <2>1, <2>7, <2>9, MeetsAlike
  <2> QED
    BY <2>0, <2>8, <2>10
<1>2. (TreeInv /\ it \in Iterators /\ UsedBacked /\ Ahead) /\ TreeInv' /\ [Next]_vars => [Kept]_vars
  BY <1>1
<1>3. Spec => [](TreeInv /\ it \in Iterators)
  BY TreeInvariant
<1>4. Spec => [](UsedBacked /\ Ahead)
  BY <1>3, BackedInit, BackedStep, PTL DEF Spec
<1> QED
  BY <1>2, <1>3, <1>4, PTL DEF Spec, AddsAtRootKeepWalk

=============================================================================
