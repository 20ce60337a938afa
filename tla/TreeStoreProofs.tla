---------------------------- MODULE TreeStoreProofs ----------------------------
(***************************************************************************)
(* The linked blocks implement the resource store: every call does to the  *)
(* resources, and to the order they are walked in, what ResourceStore says *)
(* it does, for pools of any size and names of any depth.                  *)
(***************************************************************************)
EXTENDS TreeStore, ResourceTreeWalkProofs

-----------------------------------------------------------------------------
(* Names. Two uris agree on k names if they are named alike so far.        *)

Level(u) == Len(u.path)

Agree(u, v, k) ==
  /\ k <= Level(u) /\ k <= Level(v)
  /\ \A i \in 1 .. k : u.path[i] = v.path[i]

LEMMA UriIs ==
  ASSUME NEW u \in Uris
  PROVE  /\ u.root \in Roots /\ u.path \in Seq(STRING) /\ Level(u) \in Nat /\ Level(u) > 0
         /\ u = [root |-> u.root, path |-> u.path]
<1>1. u \in [root : Roots, path : Seq(STRING) \ {<<>>}]
  BY TreeAssumption
<1>2. u.path \in Seq(STRING) /\ u.path # <<>>
  BY <1>1
<1>3. Len(u.path) \in Nat /\ Len(u.path) # 0
  BY <1>2
<1> QED
  BY <1>1, <1>2, <1>3 DEF Level

LEMMA SameUri ==
  ASSUME NEW u \in Uris, NEW v \in Uris, u.root = v.root, Level(u) = Level(v), Agree(u, v, Level(u))
  PROVE  u = v
<1>1. u.path = v.path
  BY UriIs DEF Agree, Level
<1> QED
  BY <1>1, UriIs

LEMMA FolderIs ==
  ASSUME NEW u \in Uris, NEW v \in Uris, Level(u) > 1
  PROVE  /\ Folder(u) \in Uris
         /\ v = Folder(u) <=> v.root = u.root /\ Level(v) = Level(u) - 1 /\ Agree(u, v, Level(v))
<1> DEFINE w == Folder(u)
<1>1. w \in Uris
  BY NamingAssumption DEF Level
<1>2. w.root = u.root /\ w.path = SubSeq(u.path, 1, Len(u.path) - 1)
  BY UriIs DEF Folder
<1>3. Level(w) = Level(u) - 1 /\ \A i \in 1 .. Level(w) : w.path[i] = u.path[i]
  BY <1>2, UriIs DEF Level
<1>4. Agree(u, w, Level(w))
  BY <1>3, UriIs DEF Agree
<1> HIDE DEF w
<1>5. ASSUME v.root = u.root, Level(v) = Level(u) - 1, Agree(u, v, Level(v)) PROVE v = w
  <2>1. Agree(v, w, Level(v))
    BY <1>3, <1>5, UriIs DEF Agree
  <2> QED
    BY <2>1, <1>1, <1>2, <1>3, <1>5, SameUri
<1> QED
  BY <1>1, <1>2, <1>3, <1>4, <1>5 DEF w

-----------------------------------------------------------------------------
(* P[b] is the uri of a block that is linked: what is on one list differs  *)
(* in the last name, and the content of a folder is named in the folder.   *)

Named(T, P) ==
  /\ \A r \in Roots : list[r] # NULL => Level(P[list[r]]) = 1
  /\ \A r \in Roots : \A b \in OfRoot(T, r) :
       /\ P[b] \in Uris /\ P[b].root = r /\ blk[b].name = P[b].path[Level(P[b])]
       /\ blk[b].subRoot # NULL =>
            /\ Level(P[blk[b].subRoot]) = Level(P[b]) + 1
            /\ Agree(P[blk[b].subRoot], P[b], Level(P[b]))
       /\ blk[b].next # NULL =>
            /\ Level(P[blk[b].next]) = Level(P[b])
            /\ Agree(P[blk[b].next], P[b], Level(P[b]) - 1)
  /\ \A r \in Roots : \A b, c \in OfRoot(T, r) : P[b] = P[c] => b = c

(* The block that stands, among what hangs at a list of level n, for the   *)
(* first k names of the uri of b, which is itself or hangs below it.       *)
StandsAbove(T, P, b, k, e) ==
  /\ Level(P[e]) = k /\ Agree(P[e], P[b], k)
  /\ b = e \/ b \in Hang(T, blk[e].subRoot)

(* What hangs at a block shares the folder of the block, and has all its   *)
(* folders from there on in what hangs at the block too.                   *)
LEMMA Ancestors ==
  ASSUME NEW T, NEW P, LinksTyped, Forest(T), Named(T, P), NEW r \in Roots
  PROVE  \A d \in OfRoot(T, r) : \A b \in T[d] :
           /\ Level(P[d]) <= Level(P[b]) /\ Agree(P[b], P[d], Level(P[d]) - 1)
           /\ \A k \in Level(P[d]) .. Level(P[b]) : \E e \in T[d] : StandsAbove(T, P, b, k, e)
<1> PICK At : At = OfRoot(T, r)
  OBVIOUS
<1> DEFINE rank == [c \in At |-> Cardinality(T[c])]
           Has(d, b) == /\ Level(P[d]) <= Level(P[b]) /\ Agree(P[b], P[d], Level(P[d]) - 1)
                        /\ \A k \in Level(P[d]) .. Level(P[b]) : \E e \in T[d] : StandsAbove(T, P, b, k, e)
           Good == {d \in At : \A b \in T[d] : Has(d, b)}
<1>0. \A c \in At : /\ rank[c] \in Nat /\ c # NULL /\ c \in T[c] /\ T[c] = Hang(T, c)
                    /\ Cardinality(Hang(T, blk[c].subRoot)) < rank[c]
                    /\ Cardinality(Hang(T, blk[c].next)) < rank[c]
                    /\ InOrder(T, At, c)
  <2> TAKE c \in At
  <2>1. /\ Cardinality(T[c]) \in 1 .. MaxResources /\ c # NULL /\ c \in T[c] /\ T[c] = Hang(T, c)
        /\ Cardinality(Hang(T, blk[c].subRoot)) \in 0 .. (Cardinality(T[c]) - 1)
        /\ Cardinality(Hang(T, blk[c].next)) \in 0 .. (Cardinality(T[c]) - 1)
    BY HangsLess
  <2>2. InOrder(T, At, c) /\ rank[c] = Cardinality(T[c])
    BY DEF Forest
  <2> QED
    BY <2>1, <2>2 DEF LinksTyped
<1>1. rank \in [At -> Nat]
  BY <1>0
<1> HIDE DEF rank
<1>2. \A c \in At : P[c] \in Uris /\ Level(P[c]) \in Nat /\ Level(P[c]) > 0
  BY UriIs DEF Named
<1>3. ASSUME NEW d \in At, \A c \in At : rank[c] < rank[d] => c \in Good
      PROVE  d \in Good
  <2>1. SUFFICES ASSUME NEW b \in T[d] PROVE Has(d, b)
    OBVIOUS
  <2>2. b \in At /\ T[d] = Hang(T, blk[d].subRoot) \cup {d} \cup Hang(T, blk[d].next)
    BY <1>0 DEF InOrder
  <2> PICK n, m : n = Level(P[d]) /\ m = Level(P[b])
    OBVIOUS
  <2>3. n \in Nat /\ m \in Nat /\ n > 0 /\ m > 0
    BY <2>2, <1>2
  <2>4. CASE b = d
    <3>1. Agree(P[b], P[d], n - 1) /\ StandsAbove(T, P, b, n, d)
      BY <2>3, <2>4 DEF Agree, StandsAbove
    <3> QED
      BY <3>1, <2>3, <2>4, <1>0
  <2>5. CASE b \in Hang(T, blk[d].subRoot)
    <3>1. PICK c : c = blk[d].subRoot
      OBVIOUS
    <3>2. c # NULL /\ c \in At /\ b \in T[c] /\ T[c] \subseteq T[d] /\ rank[c] < rank[d]
      <4>1. c # NULL /\ c \in At
        BY <3>1, <2>5, <1>0 DEF Hang, InOrder
      <4>2. T[c] = Hang(T, c) /\ rank[c] = Cardinality(T[c])
        BY <4>1, <1>0 DEF rank
      <4> QED
        BY <4>1, <4>2, <3>1, <2>2, <2>5, <1>0
    <3>3. Has(c, b)
      BY <3>2, <1>3
    <3>4. Level(P[c]) = n + 1 /\ Agree(P[c], P[d], n)
      BY <3>1, <3>2 DEF Named
    <3>5. n + 1 <= m /\ Agree(P[b], P[c], n)
      BY <3>3, <3>4, <2>3
    <3>6. Agree(P[b], P[d], n) /\ Agree(P[b], P[d], n - 1) /\ Agree(P[d], P[b], n)
      BY <3>4, <3>5, <2>3 DEF Agree
    <3>7. StandsAbove(T, P, b, n, d)
      BY <3>6, <2>5 DEF StandsAbove
    <3>8. ASSUME NEW k \in n .. m PROVE \E e \in T[d] : StandsAbove(T, P, b, k, e)
      <4>1. CASE k = n
        BY <4>1, <3>7, <1>0
      <4>2. CASE k # n
        <5>1. k \in Level(P[c]) .. Level(P[b])
          BY <4>2, <3>4, <2>3
        <5> QED
          BY <5>1, <3>2, <3>3
      <4> QED
        BY <4>1, <4>2
    <3> QED
      BY <3>5, <3>6, <3>8, <2>3
  <2>6. CASE b \in Hang(T, blk[d].next)
    <3>1. PICK c : c = blk[d].next
      OBVIOUS
    <3>2. c # NULL /\ c \in At /\ b \in T[c] /\ T[c] \subseteq T[d] /\ rank[c] < rank[d]
      <4>1. c # NULL /\ c \in At
        BY <3>1, <2>6, <1>0 DEF Hang, InOrder
      <4>2. T[c] = Hang(T, c) /\ rank[c] = Cardinality(T[c])
        BY <4>1, <1>0 DEF rank
      <4> QED
        BY <4>1, <4>2, <3>1, <2>2, <2>6, <1>0
    <3>3. Has(c, b)
      BY <3>2, <1>3
    <3>4. Level(P[c]) = n /\ Agree(P[c], P[d], n - 1)
      BY <3>1, <3>2 DEF Named
    <3>5. Agree(P[b], P[d], n - 1)
      BY <3>3, <3>4, <2>3 DEF Agree
    <3> QED
      BY <3>2, <3>3, <3>4, <3>5
  <2> QED
    BY <2>2, <2>4, <2>5, <2>6
<1>4. Good = At
  <2>1. Good \in SUBSET At
    OBVIOUS
  <2> HIDE DEF Good
  <2> QED
    BY <2>1, <1>1, <1>3, RankInduction
<1> QED
  BY <1>4

(* What is named in a folder hangs below it, and nothing else does.        *)
LEMMA Below ==
  ASSUME NEW T, NEW P, LinksTyped, Forest(T), Named(T, P), NEW r \in Roots,
         NEW f \in OfRoot(T, r), NEW b \in OfRoot(T, r)
  PROVE  /\ Agree(P[b], P[f], Level(P[f])) => b = f \/ b \in Hang(T, blk[f].subRoot)
         /\ b \in Hang(T, blk[f].subRoot) => Agree(P[b], P[f], Level(P[f])) /\ Level(P[f]) < Level(P[b])
<1> PICK At : At = OfRoot(T, r)
  OBVIOUS
<1>0. \A c \in At : P[c] \in Uris /\ P[c].root = r /\ Level(P[c]) \in Nat /\ Level(P[c]) > 0
  BY UriIs DEF Named
<1>1. ASSUME Agree(P[b], P[f], Level(P[f])) PROVE b = f \/ b \in Hang(T, blk[f].subRoot)
  <2>1. list[r] \in At /\ T[list[r]] = At /\ Level(P[list[r]]) = 1
    BY DEF Forest, OfRoot, Hang, Named
  <2>2. Level(P[f]) \in 1 .. Level(P[b])
    BY <1>0, <1>1 DEF Agree
  <2>3. PICK e \in At : StandsAbove(T, P, b, Level(P[f]), e)
    BY <2>1, <2>2, Ancestors
  <2>4. Level(P[e]) = Level(P[f]) /\ Agree(P[e], P[f], Level(P[e]))
    BY <1>0, <1>1, <2>3 DEF StandsAbove, Agree
  <2>5. P[e] = P[f]
    BY <1>0, <2>4, SameUri
  <2>6. e = f
    BY <2>5 DEF Named
  <2> QED
    BY <2>3, <2>6 DEF StandsAbove
<1>2. ASSUME b \in Hang(T, blk[f].subRoot)
      PROVE  Agree(P[b], P[f], Level(P[f])) /\ Level(P[f]) < Level(P[b])
  <2>1. PICK c : c = blk[f].subRoot
    OBVIOUS
  <2>2. c # NULL /\ c \in At /\ b \in T[c]
    BY <2>1, <1>2 DEF Hang, InOrder, Forest
  <2>3. Level(P[c]) = Level(P[f]) + 1 /\ Agree(P[c], P[f], Level(P[f]))
    BY <2>1, <2>2 DEF Named
  <2>4. Level(P[c]) <= Level(P[b]) /\ Agree(P[b], P[c], Level(P[c]) - 1)
    BY <2>2, Ancestors
  <2> QED
    BY <2>3, <2>4, <1>0 DEF Agree
<1> QED
  BY <1>1, <1>2

-----------------------------------------------------------------------------
(* The lookup (emma_get_resource).                                         *)

(* What is found on a list of level n has the name, and everything named   *)
(* so that hangs at the list hangs at what is found.                       *)
FoundOn(T, P, r, first, n, name, hit) ==
  /\ hit.resource \in OfRoot(T, r) \cup {NULL}
  /\ hit.resource # NULL =>
       /\ first # NULL /\ Level(P[hit.resource]) = n
       /\ Agree(P[hit.resource], P[first], n - 1) /\ P[hit.resource].path[n] = name
  /\ \A b \in Hang(T, first) : P[b].path[n] = name =>
       /\ hit.resource # NULL
       /\ b = hit.resource \/ b \in Hang(T, blk[hit.resource].subRoot)

LEMMA OnListFinds ==
  ASSUME NEW T, NEW P, LinksTyped, Forest(T), Named(T, P), NEW r \in Roots,
         NEW first \in OfRoot(T, r) \cup {NULL}, NEW n \in Nat, n > 0,
         first # NULL => Level(P[first]) = n, NEW name, NEW hit, hit = OnList(first, name)
  PROVE  FoundOn(T, P, r, first, n, name, hit)
<1> PICK At : At = OfRoot(T, r)
  OBVIOUS
<1> DEFINE Wanted == {b \in Hang(T, first) : P[b].path[n] = name}
           Good == {s \in Scans :
                      /\ s.resource \in At \cup {NULL}
                      /\ Cardinality(Hang(T, s.resource)) <= s.left
                      /\ s.resource # NULL => /\ first # NULL /\ Level(P[s.resource]) = n
                                              /\ Agree(P[s.resource], P[first], n - 1)
                      /\ \A b \in Wanted : b \in Hang(T, s.resource)}
           start == [left |-> MaxResources, previousResource |-> first, resource |-> first]
<1>0. \A c \in At : /\ P[c] \in Uris /\ P[c].root = r /\ Level(P[c]) \in Nat /\ Level(P[c]) > 0
                    /\ blk[c].name = P[c].path[Level(P[c])]
  BY UriIs DEF Named
<1>1. \A c \in At : /\ c \in Blocks /\ c # NULL /\ c \in T[c] /\ T[c] = Hang(T, c)
                    /\ Cardinality(T[c]) \in 1 .. MaxResources
                    /\ Cardinality(Hang(T, blk[c].next)) \in 0 .. (Cardinality(T[c]) - 1)
                    /\ InOrder(T, At, c)
  BY HangsLess DEF Forest
<1>2. start \in Good
  <2>1. first \in Links /\ MaxResources \in Nat
    BY <1>1 DEF Links, LinksTyped
  <2>2. Cardinality(Hang(T, first)) <= MaxResources
    BY <1>1, <2>1, FS_EmptySet DEF Hang
  <2>3. first # NULL => Agree(P[first], P[first], n - 1)
    BY <1>0 DEF Agree
  <2> QED
    BY <2>1, <2>2, <2>3 DEF Scans
<1>3. ASSUME NEW s \in Good, ~ScanEnds(s, name) PROVE ScanGoesOn(s) \in Good
  <2>1. PICK c, d, left : c = s.resource /\ d = blk[c].next /\ left = s.left
    OBVIOUS
  <2>2. c \in At /\ c # NULL /\ left \in 1 .. MaxResources /\ blk[c].name # name
        /\ Level(P[c]) = n /\ Agree(P[c], P[first], n - 1) /\ Cardinality(Hang(T, c)) <= left /\ first # NULL
        /\ \A b \in Wanted : b \in Hang(T, c)
    BY <2>1, <1>3, <1>1 DEF ScanEnds, Scans, LinksTyped
  <2>3. d \in At \cup {NULL} /\ T[c] = Hang(T, blk[c].subRoot) \cup {c} \cup Hang(T, d) /\ d \in Links
    BY <2>1, <2>2, <1>1 DEF InOrder, LinksTyped
  <2>4. ScanGoesOn(s) = [left |-> left - 1, previousResource |-> c, resource |-> d]
    BY <2>1 DEF ScanGoesOn
  <2>5. ScanGoesOn(s) \in Scans
    BY <2>2, <2>3, <2>4, <1>1 DEF Scans, Links, LinksTyped
  <2>6. Cardinality(Hang(T, d)) <= left - 1
    <3>1. PICK x, y : x = Cardinality(Hang(T, d)) /\ y = Cardinality(T[c])
      OBVIOUS
    <3>2. y \in 1 .. MaxResources /\ x \in 0 .. (y - 1) /\ y <= left
      BY <3>1, <2>1, <2>2, <1>1
    <3>3. x <= left - 1
      BY <3>2, <2>2 DEF LinksTyped
    <3> QED
      BY <3>1, <3>3
  <2>7. d # NULL => Level(P[d]) = n /\ Agree(P[d], P[first], n - 1)
    <3>1. d # NULL => Level(P[d]) = Level(P[c]) /\ Agree(P[d], P[c], Level(P[c]) - 1)
      BY <2>1, <2>2 DEF Named
    <3> QED
      BY <3>1, <2>2, <2>3, <1>0 DEF Agree
  <2>8. ASSUME NEW b \in Wanted PROVE b \in Hang(T, d)
    <3>1. b \in T[c] /\ P[b].path[n] = name /\ b \in At
      BY <2>2, <2>8, <1>1 DEF InOrder
    <3>2. ASSUME b = c \/ b \in Hang(T, blk[c].subRoot) PROVE FALSE
      <4>1. Agree(P[b], P[c], n)
        BY <2>2, <3>1, <3>2, <1>0, Below DEF Agree
      <4>2. P[b].path[n] = P[c].path[n]
        BY <4>1 DEF Agree
      <4> QED
        BY <4>2, <3>1, <2>2, <1>0
    <3> QED
      BY <3>1, <3>2, <2>3
  <2> QED
    BY <2>2, <2>3, <2>4, <2>5, <2>6, <2>7, <2>8
<1>4. OnList(first, name) \in Good /\ ScanEnds(OnList(first, name), name)
  <2>1. Good \in SUBSET Scans /\ first \in Links
    BY <1>1 DEF Links
  <2> HIDE DEF Good
  <2> QED
    BY <2>1, <1>2, <1>3, OnListKeeps
<1>5. hit \in Good /\ ScanEnds(hit, name)
  BY <1>4, Zenon
<1> PICK c : c = hit.resource
  OBVIOUS
<1>6. c \in At \cup {NULL} /\ (hit.left = 0 => Cardinality(Hang(T, c)) <= 0)
      /\ (c # NULL => Level(P[c]) = n /\ Agree(P[c], P[first], n - 1) /\ first # NULL)
      /\ \A b \in Wanted : b \in Hang(T, c)
  BY <1>5
<1>7. ASSUME c # NULL PROVE blk[c].name = name /\ P[c].path[n] = name
  <2>1. hit.left # 0
    BY <1>1, <1>6, <1>7 DEF LinksTyped
  <2> QED
    BY <2>1, <1>0, <1>5, <1>6, <1>7 DEF ScanEnds
<1>8. ASSUME NEW b \in Wanted PROVE c # NULL /\ (b = c \/ b \in Hang(T, blk[c].subRoot))
  <2>1. b \in Hang(T, c) /\ c # NULL /\ c \in At /\ b \in T[c] /\ b \in At /\ P[b].path[n] = name
    BY <1>6, <1>8, <1>1 DEF Hang, InOrder
  <2>2. Level(P[c]) <= Level(P[b]) /\ Agree(P[b], P[c], Level(P[c]) - 1)
    BY <2>1, Ancestors
  <2>3. Agree(P[b], P[c], n)
    BY <2>1, <2>2, <1>0, <1>6, <1>7 DEF Agree
  <2> QED
    BY <2>1, <2>3, <1>6, Below
<1> QED
  BY <1>6, <1>7, <1>8 DEF FoundOn

(* b is the block of the folder named by the first names of u, or of u.    *)
OnWay(P, u, b) == Agree(P[b], u, Level(P[b]))

(* The lookup of u finds the block that is named u, if there is one, and   *)
(* its folder if that is there.                                            *)
LEMMA LookupIs ==
  ASSUME NEW T, NEW P, LinksTyped, Forest(T), Named(T, P), NEW u \in Uris, NEW l, l = Lookup(u)
  PROVE  /\ l.resource # NULL => l.resource \in OfRoot(T, u.root) /\ P[l.resource] = u
         /\ \A b \in OfRoot(T, u.root) : P[b] = u => l.resource = b
         /\ l.folder # NULL =>
              l.folder \in OfRoot(T, u.root) /\ Level(u) > 1 /\ P[l.folder] = Folder(u)
         /\ Level(u) > 1 => \A b \in OfRoot(T, u.root) : P[b] = Folder(u) => l.folder = b
<1> PICK r, At, m : r = u.root /\ At = OfRoot(T, r) /\ m = Level(u)
  OBVIOUS
<1> DEFINE Right(s) ==
             /\ s.folder \in At \cup {NULL} /\ s.first \in At \cup {NULL}
             /\ s.folder = NULL => s.level = 1
             /\ s.folder # NULL => Level(P[s.folder]) = s.level - 1 /\ OnWay(P, u, s.folder)
             /\ s.first # NULL => Level(P[s.first]) = s.level /\ Agree(P[s.first], u, s.level - 1)
             /\ \A b \in At : OnWay(P, u, b) /\ Level(P[b]) >= s.level => b \in Hang(T, s.first)
           Good == {s \in LookupStates(u) : Right(s)}
           start == [level |-> 1, folder |-> NULL, first |-> list[u.root]]
<1>0. /\ r \in Roots /\ u.path \in Seq(STRING) /\ m \in Nat /\ m > 0 /\ u.path # <<>>
      /\ \A c \in At : /\ P[c] \in Uris /\ P[c].root = r /\ Level(P[c]) \in Nat /\ Level(P[c]) > 0
  BY UriIs, TreeAssumption DEF Named
<1>1. \A c \in At : c \in Blocks /\ c # NULL /\ T[c] = Hang(T, c) /\ c \in T[c] /\ InOrder(T, At, c)
  BY <1>0, HangsLess DEF Forest
<1>2. start \in Good
  <2>1. list[r] \in At \cup {NULL} /\ list[r] \in Links /\ Hang(T, list[r]) = At
    BY <1>0 DEF Forest, OfRoot
  <2>2. list[r] # NULL => Level(P[list[r]]) = 1
    BY <1>0 DEF Named
  <2>3. list[r] # NULL => Agree(P[list[r]], u, 0)
    BY <2>1, <1>0 DEF Agree
  <2>4. PICK t : t = start
    OBVIOUS
  <2>5. t.level = 1 /\ t.folder = NULL /\ t.first = list[r]
    BY <2>4
  <2>6. t \in LookupStates(u)
    BY <2>1, <2>4, <1>0 DEF LookupStates, Level, Links
  <2>7. Right(t)
    BY <2>1, <2>2, <2>3, <2>5
  <2> QED
    BY <2>4, <2>6, <2>7
<1>3. ASSUME NEW s \in Good PROVE
        \E hit : /\ hit = LookupHit(u, s) /\ hit.resource \in At \cup {NULL}
                 /\ hit.resource # NULL => Level(P[hit.resource]) = s.level /\ OnWay(P, u, hit.resource)
                 /\ \A b \in At : OnWay(P, u, b) /\ Level(P[b]) >= s.level =>
                      hit.resource # NULL /\ (b = hit.resource \/ b \in Hang(T, blk[hit.resource].subRoot))
  <2>1. PICK hit, first, n, name : /\ hit = LookupHit(u, s) /\ first = s.first
                                   /\ n = s.level /\ name = u.path[n]
    OBVIOUS
  <2>2. /\ first \in At \cup {NULL} /\ n \in 1 .. m /\ n \in Nat /\ n > 0
        /\ first # NULL => Level(P[first]) = n /\ Agree(P[first], u, n - 1)
        /\ \A b \in At : OnWay(P, u, b) /\ Level(P[b]) >= n => b \in Hang(T, first)
    BY <2>1, <1>0 DEF LookupStates, Level
  <2>3. hit = OnList(first, name)
    BY <2>1 DEF LookupHit
  <2> HIDE DEF Good
  <2>4. /\ hit.resource \in At \cup {NULL}
        /\ hit.resource # NULL =>
              /\ first # NULL /\ Level(P[hit.resource]) = n
              /\ Agree(P[hit.resource], P[first], n - 1) /\ P[hit.resource].path[n] = name
        /\ \A b \in Hang(T, first) : P[b].path[n] = name =>
              /\ hit.resource # NULL
              /\ b = hit.resource \/ b \in Hang(T, blk[hit.resource].subRoot)
    <3>1. r \in Roots /\ first \in OfRoot(T, r) \cup {NULL} /\ n \in Nat /\ n > 0
          /\ (first # NULL => Level(P[first]) = n)
      BY <2>2, <1>0
    <3>2. FoundOn(T, P, r, first, n, name, hit)
      BY <3>1, <2>3, OnListFinds
    <3> QED
      BY <3>2 DEF FoundOn
  <2>5. ASSUME hit.resource # NULL PROVE OnWay(P, u, hit.resource)
    <3>1. Agree(P[hit.resource], P[first], n - 1) /\ Agree(P[first], u, n - 1)
          /\ P[hit.resource].path[n] = u.path[n] /\ Level(P[hit.resource]) = n
      BY <2>1, <2>2, <2>4, <2>5
    <3> QED
      BY <3>1, <2>2, <1>0 DEF OnWay, Agree
  <2>6. ASSUME NEW b \in At, OnWay(P, u, b), Level(P[b]) >= n PROVE P[b].path[n] = name
    BY <2>1, <2>2, <2>6, <1>0 DEF OnWay, Agree
  <2>7. \A b \in At : OnWay(P, u, b) /\ Level(P[b]) >= n =>
          hit.resource # NULL /\ (b = hit.resource \/ b \in Hang(T, blk[hit.resource].subRoot))
    BY <2>2, <2>4, <2>6
  <2> QED
    BY <2>1, <2>4, <2>5, <2>7
<1>4. ASSUME NEW s \in Good, ~LookupEnds(u, s) PROVE LookupNext(u, s) \in Good
  <2>1. PICK hit : /\ hit = LookupHit(u, s) /\ hit.resource \in At \cup {NULL}
                   /\ hit.resource # NULL => Level(P[hit.resource]) = s.level /\ OnWay(P, u, hit.resource)
                   /\ \A b \in At : OnWay(P, u, b) /\ Level(P[b]) >= s.level =>
                        hit.resource # NULL /\ (b = hit.resource \/ b \in Hang(T, blk[hit.resource].subRoot))
    BY <1>3
  <2>2. PICK c, n, first : c = hit.resource /\ n = s.level /\ first = blk[c].subRoot
    OBVIOUS
  <2>3. c \in At /\ c # NULL /\ n \in 1 .. m /\ n # m /\ Level(P[c]) = n /\ OnWay(P, u, c)
    BY <2>1, <2>2, <1>4 DEF LookupEnds, LookupStates, Level
  <2>4. first \in At \cup {NULL} /\ first \in Links /\ c \in Links
    BY <2>2, <2>3, <1>1 DEF InOrder, LinksTyped, Links
  <2>5. LookupNext(u, s) = [level |-> n + 1, folder |-> c, first |-> first]
    BY <2>1, <2>2 DEF LookupNext
  <2>6. LookupNext(u, s) \in LookupStates(u)
    BY <2>3, <2>4, <2>5, <1>0 DEF LookupStates, Level
  <2>7. ASSUME first # NULL PROVE Level(P[first]) = n + 1 /\ Agree(P[first], u, n)
    <3>1. Level(P[first]) = n + 1 /\ Agree(P[first], P[c], n)
      BY <2>2, <2>3, <2>7, <1>0 DEF Named
    <3> QED
      BY <3>1, <2>3, <2>4, <2>7, <1>0 DEF OnWay, Agree
  <2>8. ASSUME NEW b \in At, OnWay(P, u, b), Level(P[b]) >= n + 1 PROVE b \in Hang(T, first)
    <3>1. Level(P[b]) >= n /\ b # c
      BY <2>3, <2>8, <1>0
    <3> QED
      BY <3>1, <2>1, <2>2, <2>8
  <2>9. n + 1 - 1 = n /\ n + 1 # 1
    BY <2>3
  <2>10. PICK t : t = LookupNext(u, s)
    OBVIOUS
  <2>11. t \in LookupStates(u) /\ t.level = n + 1 /\ t.folder = c /\ t.first = first
    BY <2>5, <2>6, <2>10
  <2>12. Right(t)
    BY <2>3, <2>4, <2>7, <2>8, <2>9, <2>11
  <2> QED
    BY <2>10, <2>11, <2>12
<1>5. PICK s \in Good : LookupEnds(u, s) /\ l = LookupResult(u, s)
  <2>1. Good \in SUBSET LookupStates(u) /\ list[u.root] \in Links
    BY <1>0 DEF Forest
  <2> HIDE DEF Good
  <2>2. \A s \in Good : ~LookupEnds(u, s) => LookupNext(u, s) \in Good
    BY <1>4
  <2> QED
    BY <1>0, <1>2, <2>1, <2>2, LookupKeeps
<1>6. PICK hit : /\ hit = LookupHit(u, s) /\ hit.resource \in At \cup {NULL}
                 /\ hit.resource # NULL => Level(P[hit.resource]) = s.level /\ OnWay(P, u, hit.resource)
                 /\ \A b \in At : OnWay(P, u, b) /\ Level(P[b]) >= s.level =>
                      hit.resource # NULL /\ (b = hit.resource \/ b \in Hang(T, blk[hit.resource].subRoot))
  BY <1>3
<1> PICK n, c : n = s.level /\ c = hit.resource
  OBVIOUS
<1>7. /\ l.folder = (IF n = m THEN s.folder ELSE NULL) /\ l.resource = c
      /\ n \in 1 .. m /\ (n = m \/ c = NULL) /\ Right(s)
  BY <1>5, <1>6 DEF LookupResult, LookupEnds, LookupStates, Level
<1> HIDE DEF Good
<1>8. \A b \in At : P[b] = u => OnWay(P, u, b) /\ Level(P[b]) = m
  BY <1>0 DEF OnWay, Agree
<1>9. ASSUME c # NULL PROVE c \in At /\ P[c] = u
  <2>1. n = m /\ c \in At /\ Level(P[c]) = m /\ Agree(P[c], u, m)
    BY <1>6, <1>7, <1>9 DEF OnWay
  <2> QED
    BY <2>1, <1>0, SameUri
<1>10. ASSUME NEW b \in At, P[b] = u PROVE c = b
  <2>1. c # NULL
    BY <1>6, <1>7, <1>8, <1>10, <1>0
  <2> QED
    BY <2>1, <1>0, <1>9, <1>10 DEF Named
<1>11. ASSUME l.folder # NULL PROVE l.folder \in At /\ m > 1 /\ P[l.folder] = Folder(u)
  <2>1. n = m /\ l.folder = s.folder /\ l.folder \in At
        /\ Level(P[l.folder]) = m - 1 /\ Agree(P[l.folder], u, m - 1)
    BY <1>7, <1>11 DEF OnWay
  <2>2. m > 1
    BY <2>1, <1>0
  <2>3. Agree(u, P[l.folder], Level(P[l.folder]))
    BY <2>1 DEF Agree
  <2> QED
    BY <2>1, <2>2, <2>3, <1>0, FolderIs
<1>12. ASSUME m > 1, NEW b \in At, P[b] = Folder(u) PROVE l.folder = b
  <2>1. Level(P[b]) = m - 1 /\ OnWay(P, u, b)
    BY <1>0, <1>12, FolderIs DEF OnWay, Agree
  <2>2. n = m
    <3>1. SUFFICES ASSUME n # m PROVE FALSE
      OBVIOUS
    <3>2. c = NULL /\ Level(P[b]) >= n
      BY <3>1, <2>1, <1>0, <1>7
    <3> QED
      BY <3>2, <2>1, <1>6, <1>12
  <2>3. l.folder # NULL
    BY <2>2, <1>7, <1>12
  <2> QED
    BY <2>3, <1>0, <1>11, <1>12 DEF Named
<1> QED
  BY <1>7, <1>9, <1>10, <1>11, <1>12

-----------------------------------------------------------------------------
(* The order of a root: the names of the blocks, as PostOrder lists them.  *)

Names(P, w) == [i \in 1 .. Len(w) |-> P[w[i]]]

Walks == [left : 0 .. MaxResources, block : Links, folder : Seq(STRING \cup {NoName})]

PathOf(s) == Append(s.folder, blk[s.block].name)

WalkDown(s) == [left |-> s.left - 1, block |-> blk[s.block].subRoot, folder |-> PathOf(s)]

WalkAlong(s) == [left |-> s.left - 1, block |-> blk[s.block].next, folder |-> s.folder]

WalkOf(f, r, s) ==
  IF s.left = 0 \/ s.block = NULL THEN <<>>
  ELSE f[WalkDown(s)] \o <<[root |-> r, path |-> PathOf(s)]>> \o f[WalkAlong(s)]

IsWalk(f, r) == f = [s \in Walks |-> WalkOf(f, r, s)]

LEMMA WalkDescends ==
  ASSUME TreeTyped, NEW s \in Walks, s.left # 0, s.block # NULL
  PROVE  /\ PathOf(s) \in Seq(STRING \cup {NoName}) /\ Len(PathOf(s)) = Len(s.folder) + 1
         /\ \A i \in 1 .. Len(s.folder) : PathOf(s)[i] = s.folder[i]
         /\ PathOf(s)[Len(s.folder) + 1] = blk[s.block].name
         /\ WalkDown(s) \in Walks /\ WalkDown(s).left = s.left - 1
         /\ WalkDown(s).block = blk[s.block].subRoot /\ WalkDown(s).folder = PathOf(s)
         /\ WalkAlong(s) \in Walks /\ WalkAlong(s).left = s.left - 1
         /\ WalkAlong(s).block = blk[s.block].next /\ WalkAlong(s).folder = s.folder
<1>1. s.left \in 0 .. MaxResources /\ s.block \in Blocks /\ s.folder \in Seq(STRING \cup {NoName}) /\ MaxResources \in Nat
  BY TreeAssumption DEF Walks, Links
<1>2. blk[s.block] \in Block
  BY <1>1 DEF TreeTyped
<1>3. blk[s.block].name \in STRING \cup {NoName} /\ blk[s.block].subRoot \in Links /\ blk[s.block].next \in Links
  BY <1>2 DEF Block
<1>4. /\ PathOf(s) \in Seq(STRING \cup {NoName}) /\ Len(PathOf(s)) = Len(s.folder) + 1
      /\ \A i \in 1 .. Len(s.folder) : PathOf(s)[i] = s.folder[i]
      /\ PathOf(s)[Len(s.folder) + 1] = blk[s.block].name
  BY <1>1, <1>3 DEF PathOf
<1>5. s.left - 1 \in 0 .. MaxResources
  BY <1>1
<1>6. /\ WalkDown(s) = [left |-> s.left - 1, block |-> blk[s.block].subRoot, folder |-> PathOf(s)]
      /\ WalkAlong(s) = [left |-> s.left - 1, block |-> blk[s.block].next, folder |-> s.folder]
  BY DEF WalkDown, WalkAlong
<1> PICK sub, next, path : sub = blk[s.block].subRoot /\ next = blk[s.block].next /\ path = PathOf(s)
  OBVIOUS
<1>7. WalkDown(s) \in Walks /\ WalkAlong(s) \in Walks
  BY <1>1, <1>3, <1>4, <1>5, <1>6 DEF Walks
<1> QED
  BY <1>4, <1>6, <1>7

LEMMA WalkExists ==
  ASSUME TreeTyped, NEW r
  PROVE  \E f : IsWalk(f, r)
<1> DEFINE Upto(k, f) == \A s \in Walks : s.left < k => f[s] = WalkOf(f, r, s)
           Good == {k \in Nat : \E f : f = [s \in Walks |-> f[s]] /\ Upto(k, f)}
<1>0. MaxResources \in Nat /\ \A s \in Walks : s.left \in 0 .. MaxResources /\ s.left \in Nat
  BY TreeAssumption DEF Walks
<1>1. 0 \in Good
  <2> DEFINE g == [s \in Walks |-> <<>>]
  <2>1. g = [s \in Walks |-> g[s]] /\ Upto(0, g)
    BY <1>0
  <2> HIDE DEF g
  <2> QED
    BY <2>1
<1>2. ASSUME NEW k \in Good PROVE k + 1 \in Good
  <2>1. PICK f : f = [s \in Walks |-> f[s]] /\ Upto(k, f)
    OBVIOUS
  <2> DEFINE g == [s \in Walks |-> WalkOf(f, r, s)]
  <2>2. \A s \in Walks : g[s] = WalkOf(f, r, s)
    OBVIOUS
  <2>3. g = [s \in Walks |-> g[s]]
    OBVIOUS
  <2> HIDE DEF g
  <2>4. ASSUME NEW s \in Walks, s.left < k + 1 PROVE g[s] = WalkOf(g, r, s)
    <3>1. CASE s.left = 0 \/ s.block = NULL
      BY <3>1, <2>2 DEF WalkOf
    <3>2. CASE s.left # 0 /\ s.block # NULL
      <4>1. PICK sub, next : sub = WalkDown(s) /\ next = WalkAlong(s)
        OBVIOUS
      <4>2. sub \in Walks /\ sub.left < k /\ next \in Walks /\ next.left < k
        BY <4>1, <3>2, <2>4, <1>0, WalkDescends
      <4>3. f[sub] = g[sub] /\ f[next] = g[next]
        BY <4>2, <2>1, <2>2
      <4>4. \A h : WalkOf(h, r, s) = h[sub] \o <<[root |-> r, path |-> PathOf(s)]>> \o h[next]
        BY <4>1, <3>2, Zenon DEF WalkOf
      <4>5. WalkOf(f, r, s) = WalkOf(g, r, s)
        BY <4>3, <4>4, Zenon
      <4> QED
        BY <4>5, <2>2
    <3> QED
      BY <3>1, <3>2
  <2>5. Upto(k + 1, g)
    BY <2>4
  <2> QED
    BY <2>3, <2>5
<1>3. MaxResources + 1 \in Good
  <2>1. MaxResources + 1 \in Nat /\ Good \in SUBSET Nat
    BY <1>0
  <2> HIDE DEF Good
  <2> QED
    BY <1>1, <1>2, <2>1, NumberInduction
<1>4. PICK f : f = [s \in Walks |-> f[s]] /\ Upto(MaxResources + 1, f)
  BY <1>3
<1> HIDE DEF Good
<1>5. \A s \in Walks : f[s] = WalkOf(f, r, s)
  <2>1. \A s \in Walks : s.left < MaxResources + 1
    BY <1>0
  <2> QED
    BY <2>1, <1>4
<1>6. f = [s \in Walks |-> WalkOf(f, r, s)]
  <2>1. [s \in Walks |-> f[s]] = [s \in Walks |-> WalkOf(f, r, s)]
    BY <1>5
  <2> QED
    BY <1>4, <2>1, Zenon
<1> QED
  BY <1>6, Zenon DEF IsWalk

NamesOf(P, w, v) ==
  /\ v \in Seq({P[b] : b \in Blocks}) /\ Len(v) = Len(w)
  /\ \A i \in 1 .. Len(w) : v[i] = P[w[i]]

LEMMA NamesAre ==
  ASSUME NEW P, NEW w \in Seq(Blocks)
  PROVE  NamesOf(P, w, Names(P, w))
<1>1. Len(w) \in Nat /\ \A i \in 1 .. Len(w) : w[i] \in Blocks
  OBVIOUS
<1> PICK n, V : n = Len(w) /\ V = {P[b] : b \in Blocks}
  OBVIOUS
<1>2. \A i \in 1 .. n : P[w[i]] \in V
  BY <1>1
<1>3. [i \in 1 .. n |-> P[w[i]]] \in Seq(V)
  BY <1>1, <1>2
<1> QED
  BY <1>1, <1>3 DEF Names, NamesOf

LEMMA NamesAround ==
  ASSUME NEW P, NEW p \in Seq(Blocks), NEW q \in Seq(Blocks), NEW b \in Blocks
  PROVE  Names(P, p \o <<b>> \o q) = Names(P, p) \o <<P[b]>> \o Names(P, q)
<1> PICK w, np, nq, V, x : /\ w = p \o <<b>> \o q /\ np = Names(P, p) /\ nq = Names(P, q)
                           /\ V = {P[c] : c \in Blocks} /\ x = P[b]
  OBVIOUS
<1>1. /\ w \in Seq(Blocks) /\ Len(w) = Len(p) + 1 + Len(q)
      /\ \A i \in 1 .. Len(w) :
           w[i] = IF i <= Len(p) THEN p[i] ELSE IF i = Len(p) + 1 THEN b ELSE q[i - (Len(p) + 1)]
  BY Around
<1>2. /\ np \in Seq(V) /\ Len(np) = Len(p) /\ \A i \in 1 .. Len(p) : np[i] = P[p[i]]
      /\ nq \in Seq(V) /\ Len(nq) = Len(q) /\ \A i \in 1 .. Len(q) : nq[i] = P[q[i]]
  BY NamesAre DEF NamesOf
<1>3. PICK v : v = np \o <<x>> \o nq
  OBVIOUS
<1>4. /\ v \in Seq(V) /\ Len(v) = Len(np) + 1 + Len(nq)
      /\ \A i \in 1 .. Len(v) :
           v[i] = IF i <= Len(np) THEN np[i] ELSE IF i = Len(np) + 1 THEN x ELSE nq[i - (Len(np) + 1)]
  <2>1. x \in V
    OBVIOUS
  <2>2. np \in Seq(V) /\ nq \in Seq(V)
    BY <1>2
  <2> QED
    BY <2>1, <2>2, <1>3, Around
<1>5. PICK nw : nw = Names(P, w)
  OBVIOUS
<1>6. nw \in Seq(V) /\ Len(nw) = Len(w) /\ \A i \in 1 .. Len(w) : nw[i] = P[w[i]]
  <2>1. NamesOf(P, w, Names(P, w))
    BY <1>1, NamesAre
  <2> QED
    BY <2>1, <1>5 DEF NamesOf
<1>7. Len(p) \in Nat /\ Len(q) \in Nat
  OBVIOUS
<1>8. ASSUME NEW i \in 1 .. Len(w) PROVE nw[i] = v[i]
  <2>1. CASE i <= Len(p)
    <3>1. i \in 1 .. Len(p) /\ w[i] = p[i]
      BY <2>1, <1>1, <1>7
    <3>2. i \in 1 .. Len(v) /\ v[i] = np[i]
      BY <2>1, <1>1, <1>2, <1>4, <1>7
    <3> QED
      BY <3>1, <3>2, <1>2, <1>6, ZenonT(60)
  <2>2. CASE i = Len(p) + 1
    BY <2>2, <1>1, <1>2, <1>4, <1>6, <1>7
  <2>3. CASE i > Len(p) + 1
    <3>1. i - (Len(p) + 1) \in 1 .. Len(q)
      BY <2>3, <1>1, <1>7
    <3>2. w[i] = q[i - (Len(p) + 1)] /\ v[i] = nq[i - (Len(p) + 1)]
      BY <2>3, <1>1, <1>2, <1>4, <1>7
    <3> QED
      BY <3>1, <3>2, <1>2, <1>6, ZenonT(60)
  <2> QED
    BY <2>1, <2>2, <2>3, <1>1, <1>7
<1>9. nw = v
  BY <1>1, <1>2, <1>4, <1>6, <1>8
<1> QED
  BY <1>3, <1>5, <1>9

(* The names of the folder a walk is in, when it is at the block b.        *)
InFolderOf(P, b, folder) ==
  b # NULL => /\ Len(folder) = Level(P[b]) - 1
              /\ \A i \in 1 .. Len(folder) : folder[i] = P[b].path[i]

(* The uris of a root are the names of its blocks, in their order.         *)
LEMMA WalkNames ==
  ASSUME NEW T, NEW P, TreeTyped, Forest(T), Named(T, P), NEW r \in Roots
  PROVE  UriWalk(r) = Names(P, PostOrder(list[r]))
<1> PICK At : At = OfRoot(T, r)
  OBVIOUS
<1> DEFINE f == CHOOSE h : IsWalk(h, r)
           g == CHOOSE h : IsBelow(h)
           start == [left |-> MaxResources, block |-> list[r], folder |-> <<>>]
           from == [left |-> MaxResources, block |-> list[r]]
<1>1. UriWalk(r) = f[start]
  BY Zenon DEF UriWalk, IsWalk, WalkOf, Walks, WalkDown, WalkAlong, PathOf
<1>2. PostOrder(list[r]) = g[from]
  BY Zenon DEF PostOrder, IsBelow, BelowOf, Belows
<1>3. LinksTyped
  BY TypedLinks
<1>4. IsWalk(f, r) /\ IsBelow(g)
  BY <1>3, BelowExists, WalkExists
<1> HIDE DEF f, g
<1>5. /\ \A s \in Walks : f[s] = WalkOf(f, r, s)
      /\ \A s \in Belows : g[s] = BelowOf(g, s)
  BY <1>4, Zenon DEF IsWalk, IsBelow
<1>6. /\ MaxResources \in Nat /\ At \in SUBSET Blocks /\ NULL \notin At
      /\ \A c \in At : /\ P[c] \in Uris /\ P[c].root = r /\ P[c].path \in Seq(STRING)
                       /\ Level(P[c]) \in Nat /\ Level(P[c]) > 0 /\ P[c] = [root |-> r, path |-> P[c].path]
                       /\ blk[c].name = P[c].path[Level(P[c])]
                       /\ blk[c].subRoot \in At \cup {NULL} /\ blk[c].next \in At \cup {NULL}
  <2>1. MaxResources \in Nat /\ At \in SUBSET Blocks /\ NULL \notin At
    BY <1>3, ForestIsBlocks DEF LinksTyped, Blocks, NULL
  <2>2. \A c \in At : /\ P[c] \in Uris /\ P[c].root = r /\ blk[c].name = P[c].path[Level(P[c])]
    BY DEF Named
  <2>3. \A c \in At : blk[c].subRoot \in At \cup {NULL} /\ blk[c].next \in At \cup {NULL}
    BY DEF Forest, InOrder
  <2> QED
    BY <2>1, <2>2, <2>3, UriIs
<1> DEFINE Fits(s) == s.block \in At \cup {NULL} /\ InFolderOf(P, s.block, s.folder)
           Plain(s) == [left |-> s.left, block |-> s.block]
           Good == {k \in Nat : \A s \in Walks : s.left <= k /\ Fits(s) =>
                      g[Plain(s)] \in Seq(Blocks) /\ f[s] = Names(P, g[Plain(s)])}
<1>7. \A s \in Walks : Plain(s) \in Belows /\ s.left \in Nat
  BY <1>6 DEF Walks, Belows
<1>8. ASSUME NEW s \in Walks, s.left = 0 \/ s.block = NULL
      PROVE  g[Plain(s)] \in Seq(Blocks) /\ f[s] = Names(P, g[Plain(s)])
  <2>1. f[s] = <<>>
    BY <1>5, <1>8 DEF WalkOf
  <2>2. g[Plain(s)] = <<>>
    BY <1>5, <1>7, <1>8 DEF BelowOf
  <2>3. Names(P, <<>>) = <<>>
    BY DEF Names
  <2> QED
    BY <2>1, <2>2, <2>3
<1>9. 0 \in Good
  <2>1. \A s \in Walks : s.left <= 0 => s.left = 0
    <3>1. \A s \in Walks : s.left \in Nat
      BY <1>6 DEF Walks
    <3> QED
      BY <3>1
  <2> QED
    BY <2>1, <1>8
<1>10. ASSUME NEW k \in Good PROVE k + 1 \in Good
  <2>1. SUFFICES ASSUME NEW s \in Walks, s.left <= k + 1, Fits(s), s.left # 0, s.block # NULL
                 PROVE  g[Plain(s)] \in Seq(Blocks) /\ f[s] = Names(P, g[Plain(s)])
    BY <1>8
  <2> PICK b, path : b = s.block /\ path = PathOf(s)
    OBVIOUS
  <2>2. b \in At /\ InFolderOf(P, b, s.folder) /\ b # NULL /\ b \in Blocks
    BY <2>1, <1>6
  <2>3. PICK sub, next : sub = WalkDown(s) /\ next = WalkAlong(s)
    OBVIOUS
  <2>4. /\ path \in Seq(STRING \cup {NoName}) /\ Len(path) = Len(s.folder) + 1
        /\ \A i \in 1 .. Len(s.folder) : path[i] = s.folder[i]
        /\ path[Len(s.folder) + 1] = blk[b].name
        /\ sub \in Walks /\ sub.left = s.left - 1 /\ sub.block = blk[b].subRoot /\ sub.folder = path
        /\ next \in Walks /\ next.left = s.left - 1 /\ next.block = blk[b].next /\ next.folder = s.folder
    BY <2>1, <2>3, WalkDescends
  <2>5. path = P[b].path
    <3> PICK l, full : l = Level(P[b]) /\ full = P[b].path
      OBVIOUS
    <3>1. l \in Nat /\ l > 0 /\ full \in Seq(STRING) /\ Len(full) = l /\ Len(s.folder) = l - 1
          /\ \A i \in 1 .. (l - 1) : s.folder[i] = full[i]
      BY <2>2, <1>6 DEF InFolderOf, Level
    <3>2. Len(path) = l /\ \A i \in 1 .. l : path[i] = full[i]
      <4>1. Len(path) = l /\ (\A i \in 1 .. (l - 1) : path[i] = full[i]) /\ path[l] = full[l]
        <5>1. Len(path) = l /\ l = (l - 1) + 1 /\ Len(s.folder) + 1 = l
          BY <3>1, <2>4
        <5>2. path[l] = blk[b].name /\ blk[b].name = full[l]
          BY <5>1, <2>2, <2>4, <1>6
        <5>3. \A i \in 1 .. (l - 1) : path[i] = s.folder[i]
          BY <3>1, <2>4
        <5> QED
          BY <5>1, <5>2, <5>3, <3>1
      <4>2. \A i \in 1 .. l : i = l \/ i \in 1 .. (l - 1)
        BY <3>1
      <4> QED
        BY <4>1, <4>2
    <3> QED
      BY <3>1, <3>2, <2>4
  <2>6. Fits(sub) /\ Fits(next)
    <3> PICK c, d : c = blk[b].subRoot /\ d = blk[b].next
      OBVIOUS
    <3>1. c \in At \cup {NULL} /\ d \in At \cup {NULL}
      BY <2>2, <1>6
    <3>2. InFolderOf(P, c, path)
      <4>1. SUFFICES ASSUME c # NULL
                     PROVE  Len(path) = Level(P[c]) - 1 /\ \A i \in 1 .. Len(path) : path[i] = P[c].path[i]
        BY DEF InFolderOf
      <4>2. Level(P[c]) = Level(P[b]) + 1 /\ Agree(P[c], P[b], Level(P[b]))
        BY <4>1, <2>2 DEF Named
      <4> QED
        BY <4>2, <2>2, <2>5, <1>6 DEF Agree, Level
    <3>3. InFolderOf(P, d, s.folder)
      <4>1. SUFFICES ASSUME d # NULL
                     PROVE  Len(s.folder) = Level(P[d]) - 1
                            /\ \A i \in 1 .. Len(s.folder) : s.folder[i] = P[d].path[i]
        BY DEF InFolderOf
      <4>2. Level(P[d]) = Level(P[b]) /\ Agree(P[d], P[b], Level(P[b]) - 1)
        BY <4>1, <2>2 DEF Named
      <4> QED
        BY <4>2, <2>2, <1>6 DEF Agree, InFolderOf
    <3> QED
      BY <3>1, <3>2, <3>3, <2>4
  <2> PICK p, q : p = g[Plain(sub)] /\ q = g[Plain(next)]
    OBVIOUS
  <2>7. p \in Seq(Blocks) /\ f[sub] = Names(P, p) /\ q \in Seq(Blocks) /\ f[next] = Names(P, q)
    <3>1. sub.left <= k /\ next.left <= k
      <4>1. k \in Nat /\ s.left \in Nat
        BY <1>6 DEF Walks
      <4> HIDE DEF Good
      <4> QED
        BY <4>1, <2>1, <2>4
    <3> QED
      BY <3>1, <2>4, <2>6
  <2>8. g[Plain(s)] = p \o <<b>> \o q
    <3>1. /\ Plain(sub) = [left |-> Plain(s).left - 1, block |-> blk[Plain(s).block].subRoot]
          /\ Plain(next) = [left |-> Plain(s).left - 1, block |-> blk[Plain(s).block].next]
          /\ Plain(s).left # 0 /\ Plain(s).block # NULL /\ Plain(s).block = b
      BY <2>1, <2>4
    <3>2. g[Plain(s)] = BelowOf(g, Plain(s))
      BY <1>5, <1>7
    <3> HIDE DEF Plain
    <3> QED
      BY <3>1, <3>2 DEF BelowOf
  <2>9. f[s] = f[sub] \o <<P[b]>> \o f[next]
    <3>1. [root |-> r, path |-> PathOf(s)] = P[b]
      BY <2>2, <2>5, <1>6
    <3>2. f[s] = WalkOf(f, r, s)
      BY <1>5
    <3> QED
      BY <3>1, <3>2, <2>1, <2>3, Zenon DEF WalkOf
  <2>10. p \o <<b>> \o q \in Seq(Blocks) /\ Names(P, p \o <<b>> \o q) = f[s]
    <3>1. p \o <<b>> \o q \in Seq(Blocks)
      BY <2>2, <2>7
    <3>2. Names(P, p \o <<b>> \o q) = Names(P, p) \o <<P[b]>> \o Names(P, q)
      BY <2>2, <2>7, NamesAround, ZenonT(60)
    <3> QED
      BY <3>1, <3>2, <2>7, <2>9
  <2> QED
    BY <2>8, <2>10
<1>11. \A k \in Nat : k \in Good
  <2>1. Good \in SUBSET Nat
    OBVIOUS
  <2> HIDE DEF Good
  <2> QED
    BY <2>1, <1>9, <1>10, NumberInduction
<1>12. start \in Walks /\ start.left = MaxResources /\ Fits(start) /\ Plain(start) = from
  <2>1. list[r] \in At \cup {NULL} /\ list[r] \in Links
    BY DEF Forest
  <2>2. list[r] # NULL => Level(P[list[r]]) = 1
    BY DEF Named
  <2>3. <<>> \in Seq(STRING \cup {NoName}) /\ Len(<<>>) = 0
    OBVIOUS
  <2> QED
    BY <2>1, <2>2, <2>3, <1>6 DEF Walks, InFolderOf
<1> QED
  BY <1>1, <1>2, <1>6, <1>11, <1>12

-----------------------------------------------------------------------------
(* Where a block that is linked stands in the order, and what it is before.*)

(* v is w with x at the place k.                                           *)
Inserts(w, v, k, x) ==
  /\ w \in Seq(Blocks) /\ v \in Seq(Blocks)
  /\ k \in 1 .. Len(w) + 1 /\ Len(v) = Len(w) + 1
  /\ \A i \in 1 .. Len(v) : v[i] = IF i < k THEN w[i] ELSE IF i = k THEN x ELSE w[i - 1]

(* k is where w first meets F.                                             *)
MeetsAt(w, k, F) == k \in 1 .. Len(w) /\ w[k] \in F /\ \A i \in 1 .. k - 1 : w[i] \notin F

LEMMA InsertsLeft ==
  ASSUME NEW p, NEW p2, NEW q \in Seq(Blocks), NEW b \in Blocks, NEW k, NEW x, Inserts(p, p2, k, x)
  PROVE  Inserts(p \o <<b>> \o q, p2 \o <<b>> \o q, k, x)
<1>1. /\ p \in Seq(Blocks) /\ p2 \in Seq(Blocks) /\ k \in 1 .. Len(p) + 1 /\ Len(p2) = Len(p) + 1
      /\ \A i \in 1 .. Len(p2) : p2[i] = IF i < k THEN p[i] ELSE IF i = k THEN x ELSE p[i - 1]
  BY DEF Inserts
<1>2. PICK w, v : w = p \o <<b>> \o q /\ v = p2 \o <<b>> \o q
  OBVIOUS
<1> PICK m, l : m = Len(p) /\ l = Len(q)
  OBVIOUS
<1>3. /\ w \in Seq(Blocks) /\ Len(w) = m + 1 + l
      /\ \A i \in 1 .. Len(w) :
           w[i] = IF i <= m THEN p[i] ELSE IF i = m + 1 THEN b ELSE q[i - (m + 1)]
  BY <1>1, <1>2, Around
<1>4. /\ v \in Seq(Blocks) /\ Len(v) = Len(p2) + 1 + l
      /\ \A i \in 1 .. Len(v) :
           v[i] = IF i <= Len(p2) THEN p2[i] ELSE IF i = Len(p2) + 1 THEN b ELSE q[i - (Len(p2) + 1)]
  <2>1. p2 \in Seq(Blocks) /\ q \in Seq(Blocks) /\ v = p2 \o <<b>> \o q
    BY <1>1, <1>2
  <2> QED
    BY <2>1, Around
<1>5. m \in Nat /\ l \in Nat /\ Len(p2) = m + 1
  BY <1>1
<1>6. ASSUME NEW i \in 1 .. Len(v)
      PROVE  v[i] = IF i < k THEN w[i] ELSE IF i = k THEN x ELSE w[i - 1]
  <2>1. i \in 1 .. m + 2 + l /\ k \in 1 .. m + 1
    BY <1>1, <1>4, <1>5
  <2>2. CASE i <= m + 1
    <3>1. v[i] = p2[i] /\ p2[i] = IF i < k THEN p[i] ELSE IF i = k THEN x ELSE p[i - 1]
      BY <2>1, <2>2, <1>1, <1>4, <1>5
    <3>2. i < k => w[i] = p[i]
      BY <2>1, <1>3, <1>5
    <3>3. ASSUME i > k PROVE w[i - 1] = p[i - 1]
      <4>1. i - 1 \in 1 .. Len(w) /\ i - 1 <= m
        BY <2>1, <2>2, <3>3, <1>3, <1>5
      <4> QED
        BY <4>1, <1>3
    <3> QED
      BY <2>1, <3>1, <3>2, <3>3
  <2>3. CASE i = m + 2
    <3>1. v[i] = b /\ w[i - 1] = b /\ ~(i < k) /\ i # k
      BY <2>1, <2>3, <1>3, <1>4, <1>5
    <3> QED
      BY <3>1
  <2>4. CASE i > m + 2
    <3>1. v[i] = q[i - (m + 2)]
      BY <2>1, <2>4, <1>4, <1>5
    <3>2. w[i - 1] = q[i - (m + 2)]
      <4>1. i - 1 \in 1 .. Len(w) /\ i - 1 > m + 1 /\ (i - 1) - (m + 1) = i - (m + 2)
        BY <2>1, <2>4, <1>3, <1>5
      <4>2. ~(i - 1 <= m) /\ i - 1 # m + 1
        BY <4>1, <1>5
      <4>3. w[i - 1] = q[(i - 1) - (m + 1)]
        BY <4>1, <4>2, <1>3
      <4> QED
        BY <4>1, <4>3, Zenon
    <3>3. ~(i < k) /\ i # k
      BY <2>1, <2>4, <1>5
    <3> QED
      BY <3>1, <3>2, <3>3
  <2> QED
    BY <2>1, <2>2, <2>3, <2>4, <1>5
<1>7. k \in 1 .. Len(w) + 1 /\ Len(v) = Len(w) + 1
  BY <1>1, <1>3, <1>4, <1>5
<1> QED
  BY <1>2, <1>3, <1>4, <1>6, <1>7 DEF Inserts

LEMMA InsertsRight ==
  ASSUME NEW p \in Seq(Blocks), NEW q, NEW q2, NEW b \in Blocks, NEW k, NEW x, Inserts(q, q2, k, x)
  PROVE  Inserts(p \o <<b>> \o q, p \o <<b>> \o q2, Len(p) + 1 + k, x)
<1>1. /\ q \in Seq(Blocks) /\ q2 \in Seq(Blocks) /\ k \in 1 .. Len(q) + 1 /\ Len(q2) = Len(q) + 1
      /\ \A i \in 1 .. Len(q2) : q2[i] = IF i < k THEN q[i] ELSE IF i = k THEN x ELSE q[i - 1]
  BY DEF Inserts
<1>2. PICK w, v : w = p \o <<b>> \o q /\ v = p \o <<b>> \o q2
  OBVIOUS
<1> PICK m, l, k2 : m = Len(p) /\ l = Len(q) /\ k2 = m + 1 + k
  OBVIOUS
<1>3. /\ w \in Seq(Blocks) /\ Len(w) = m + 1 + l
      /\ \A i \in 1 .. Len(w) :
           w[i] = IF i <= m THEN p[i] ELSE IF i = m + 1 THEN b ELSE q[i - (m + 1)]
  BY <1>1, <1>2, Around
<1>4. /\ v \in Seq(Blocks) /\ Len(v) = m + 1 + Len(q2)
      /\ \A i \in 1 .. Len(v) :
           v[i] = IF i <= m THEN p[i] ELSE IF i = m + 1 THEN b ELSE q2[i - (m + 1)]
  <2>1. p \in Seq(Blocks) /\ q2 \in Seq(Blocks) /\ v = p \o <<b>> \o q2
    BY <1>1, <1>2
  <2> QED
    BY <2>1, Around
<1>5. m \in Nat /\ l \in Nat /\ Len(q2) = l + 1 /\ k \in 1 .. l + 1 /\ k2 \in Nat
  BY <1>1
<1>6. ASSUME NEW i \in 1 .. Len(v)
      PROVE  v[i] = IF i < k2 THEN w[i] ELSE IF i = k2 THEN x ELSE w[i - 1]
  <2>1. i \in 1 .. m + 2 + l
    BY <1>4, <1>5
  <2>2. CASE i <= m + 1
    <3>1. i < k2 /\ i \in 1 .. Len(w)
      BY <2>1, <2>2, <1>3, <1>5
    <3>2. v[i] = w[i]
      <4>1. v[i] = IF i <= m THEN p[i] ELSE IF i = m + 1 THEN b ELSE q2[i - (m + 1)]
        BY <1>4, Zenon
      <4>2. w[i] = IF i <= m THEN p[i] ELSE IF i = m + 1 THEN b ELSE q[i - (m + 1)]
        BY <3>1, <1>3, Zenon
      <4>3. i <= m \/ (i = m + 1 /\ ~(i <= m))
        BY <2>1, <2>2, <1>5
      <4> QED
        BY <4>1, <4>2, <4>3
    <3> QED
      BY <3>1, <3>2
  <2>3. CASE i > m + 1
    <3>0. PICK j : j = i - (m + 1)
      OBVIOUS
    <3>1. j \in 1 .. l + 1 /\ v[i] = q2[j] /\ q2[j] = IF j < k THEN q[j] ELSE IF j = k THEN x ELSE q[j - 1]
      <4>1. v[i] = IF i <= m THEN p[i] ELSE IF i = m + 1 THEN b ELSE q2[i - (m + 1)]
        BY <1>4, Zenon
      <4>2. ~(i <= m) /\ i # m + 1 /\ j \in 1 .. l + 1
        BY <2>1, <2>3, <3>0, <1>5
      <4>3. v[i] = q2[j]
        BY <4>1, <4>2, <3>0, Zenon
      <4>4. j \in 1 .. Len(q2)
        BY <4>2, <1>5
      <4>5. q2[j] = IF j < k THEN q[j] ELSE IF j = k THEN x ELSE q[j - 1]
        BY <4>4, <1>1, Zenon
      <4> QED
        BY <4>2, <4>3, <4>5
    <3>2. (i < k2 <=> j < k) /\ (i = k2 <=> j = k)
      BY <2>1, <3>0, <1>5
    <3>3. j < k => w[i] = q[j]
      BY <2>1, <2>3, <3>0, <1>3, <1>5
    <3>4. ASSUME j > k PROVE w[i - 1] = q[j - 1]
      <4>1. i - 1 \in 1 .. Len(w) /\ i - 1 > m + 1 /\ (i - 1) - (m + 1) = j - 1
        BY <2>1, <3>0, <3>1, <3>4, <1>3, <1>5
      <4>2. ~(i - 1 <= m) /\ i - 1 # m + 1
        BY <4>1, <1>5
      <4>3. w[i - 1] = q[(i - 1) - (m + 1)]
        BY <4>1, <4>2, <1>3
      <4> QED
        BY <4>1, <4>3, Zenon
    <3> QED
      BY <3>1, <3>2, <3>3, <3>4, <1>5
  <2> QED
    BY <2>1, <2>2, <2>3, <1>5
<1>7. k2 \in 1 .. Len(w) + 1 /\ Len(v) = Len(w) + 1
  BY <1>3, <1>4, <1>5
<1> QED
  BY <1>2, <1>3, <1>4, <1>6, <1>7 DEF Inserts

LEMMA InsertsHead ==
  ASSUME NEW q \in Seq(Blocks), NEW x \in Blocks
  PROVE  Inserts(q, <<>> \o <<x>> \o q, 1, x)
<1>1. PICK p, v : p = <<>> /\ v = p \o <<x>> \o q
  OBVIOUS
<1>2. p \in Seq(Blocks) /\ Len(p) = 0
  BY <1>1
<1>3. /\ v \in Seq(Blocks) /\ Len(v) = Len(p) + 1 + Len(q)
      /\ \A i \in 1 .. Len(v) :
           v[i] = IF i <= Len(p) THEN p[i] ELSE IF i = Len(p) + 1 THEN x ELSE q[i - (Len(p) + 1)]
  BY <1>1, <1>2, Around
<1>4. \A i \in 1 .. Len(v) : v[i] = IF i < 1 THEN q[i] ELSE IF i = 1 THEN x ELSE q[i - 1]
  BY <1>2, <1>3
<1>5. Len(v) = Len(q) + 1 /\ 1 \in 1 .. Len(q) + 1
  BY <1>2, <1>3
<1> QED
  BY <1>1, <1>3, <1>4, <1>5 DEF Inserts

LEMMA MeetsLeft ==
  ASSUME NEW p \in Seq(Blocks), NEW q \in Seq(Blocks), NEW b \in Blocks, NEW k, NEW F, MeetsAt(p, k, F)
  PROVE  MeetsAt(p \o <<b>> \o q, k, F)
<1>1. PICK w : w = p \o <<b>> \o q
  OBVIOUS
<1>2. /\ w \in Seq(Blocks) /\ Len(w) = Len(p) + 1 + Len(q)
      /\ \A i \in 1 .. Len(w) :
           w[i] = IF i <= Len(p) THEN p[i] ELSE IF i = Len(p) + 1 THEN b ELSE q[i - (Len(p) + 1)]
  BY <1>1, Around
<1>3. Len(p) \in Nat /\ Len(q) \in Nat
  OBVIOUS
<1>4. \A i \in 1 .. Len(p) : i \in 1 .. Len(w) /\ w[i] = p[i]
  BY <1>2, <1>3
<1> QED
  BY <1>1, <1>2, <1>3, <1>4 DEF MeetsAt

LEMMA MeetsRight ==
  ASSUME NEW p \in Seq(Blocks), NEW q \in Seq(Blocks), NEW b \in Blocks, NEW k, NEW F, MeetsAt(q, k, F),
         \A i \in 1 .. Len(p) : p[i] \notin F, b \notin F
  PROVE  MeetsAt(p \o <<b>> \o q, Len(p) + 1 + k, F)
<1>1. PICK w, m, l : w = p \o <<b>> \o q /\ m = Len(p) /\ l = Len(q)
  OBVIOUS
<1>2. /\ w \in Seq(Blocks) /\ Len(w) = m + 1 + l
      /\ \A i \in 1 .. Len(w) :
           w[i] = IF i <= m THEN p[i] ELSE IF i = m + 1 THEN b ELSE q[i - (m + 1)]
  BY <1>1, Around
<1>3. m \in Nat /\ l \in Nat /\ k \in 1 .. l /\ q[k] \in F
  BY <1>1 DEF MeetsAt
<1>4. m + 1 + k \in 1 .. Len(w) /\ w[m + 1 + k] = q[k]
  <2>1. m + 1 + k \in 1 .. Len(w) /\ m + 1 + k > m + 1 /\ (m + 1 + k) - (m + 1) = k
    BY <1>2, <1>3
  <2> QED
    BY <2>1, <1>2, <1>3
<1>5. ASSUME NEW i \in 1 .. (m + 1 + k) - 1 PROVE w[i] \notin F
  <2>1. i \in 1 .. Len(w) /\ i \in 1 .. m + k
    BY <1>2, <1>3
  <2>2. CASE i <= m
    <3>1. i \in 1 .. m /\ w[i] = p[i]
      BY <2>1, <2>2, <1>2, <1>3
    <3> QED
      BY <3>1, <1>1
  <2>3. CASE i = m + 1
    <3>1. w[i] = b
      BY <2>1, <2>3, <1>2, <1>3
    <3> QED
      BY <3>1
  <2>4. CASE i > m + 1
    <3>1. w[i] = q[i - (m + 1)] /\ i - (m + 1) \in 1 .. k - 1
      BY <2>1, <2>4, <1>2, <1>3
    <3> QED
      BY <3>1 DEF MeetsAt
  <2> QED
    BY <2>1, <2>2, <2>3, <2>4, <1>3
<1> QED
  BY <1>1, <1>3, <1>4, <1>5 DEF MeetsAt

-----------------------------------------------------------------------------
(* The order before and after a block is linked or unlinked.               *)

Unfolded(T, r) ==
  /\ PostOrder(NULL) = <<>>
  /\ \A b \in OfRoot(T, r) :
       PostOrder(b) = PostOrder(blk[b].subRoot) \o <<b>> \o PostOrder(blk[b].next)
  /\ \A b \in OfRoot(T, r) \cup {NULL} : Lists(PostOrder(b), Hang(T, b))

AllUnfold == \A T : \A r \in Roots : LinksTyped /\ Forest(T) => Unfolded(T, r)

LEMMA OrdersUnfold == AllUnfold
<1> SUFFICES ASSUME NEW T, NEW r \in Roots, LinksTyped, Forest(T) PROVE Unfolded(T, r)
  BY DEF AllUnfold
<1> QED
  BY OrderUnfolds DEF Unfolded

LEMMA OrdersUnfoldThen == AllUnfold'
BY OrdersUnfold, PTL

(* The links of a step that puts n before first, in folder or at the root. *)
Links2(T, r, n, folder, first) ==
  /\ \/ folder = NULL /\ first = list[r] /\ list' = [list EXCEPT ![r] = n]
     \/ folder \in OfRoot(T, r) /\ first = blk[folder].subRoot /\ list' = list
  /\ blk'[n].subRoot = NULL /\ blk'[n].next = first
  /\ \A c \in Blocks \ {n} :
       /\ blk'[c].next = blk[c].next
       /\ blk'[c].subRoot = (IF c = folder THEN n ELSE blk[c].subRoot)

LEMMA LinkBelow ==
  ASSUME NEW T, NEW S, LinksTyped, Forest(T), LinksTyped', Forest(S)',
         NEW r \in Roots, NEW n \in Blocks \ used, NEW folder, NEW first, Links2(T, r, n, folder, first),
         NEW q \in Roots, OfRoot(T, q) \subseteq OfRoot(S, q)', folder \in OfRoot(T, q) => n \in OfRoot(S, q)',
         NEW F, F = {folder} \cup Hang(T, first)
  PROVE  /\ \A d \in OfRoot(T, q) \cup {NULL} : folder \notin Hang(T, d) \/ folder = NULL =>
              PostOrder(d)' = PostOrder(d)
         /\ \A d \in OfRoot(T, q) : folder \in T[d] /\ folder # NULL =>
              \E k : /\ Inserts(PostOrder(d), PostOrder(d)', k, n)
                     /\ MeetsAt(PostOrder(d), k, F)
<1> PICK At : At = OfRoot(T, q)
  OBVIOUS
<1>1. PICK O, O2 : O = [d \in Links |-> PostOrder(d)] /\ O2 = [d \in Links |-> PostOrder(d)']
  OBVIOUS
<1>2. \A c \in At : /\ c \in Blocks /\ c # NULL /\ c \in T[c] /\ T[c] = Hang(T, c) /\ InOrder(T, At, c)
                    /\ Cardinality(T[c]) \in Nat /\ c # n /\ c \in used
                    /\ Cardinality(Hang(T, blk[c].subRoot)) < Cardinality(T[c])
                    /\ Cardinality(Hang(T, blk[c].next)) < Cardinality(T[c])
  <2> TAKE c \in At
  <2>1. /\ Cardinality(T[c]) \in 1 .. MaxResources /\ c \in Blocks /\ c # NULL /\ c \in T[c] /\ T[c] = Hang(T, c)
        /\ Cardinality(Hang(T, blk[c].subRoot)) \in 0 .. (Cardinality(T[c]) - 1)
        /\ Cardinality(Hang(T, blk[c].next)) \in 0 .. (Cardinality(T[c]) - 1)
    BY HangsLess
  <2>2. InOrder(T, At, c)
    BY DEF Forest
  <2>3. c \in used
    BY <2>2 DEF InOrder
  <2> QED
    BY <2>1, <2>2, <2>3 DEF LinksTyped
<1>3. /\ \A d \in At \cup {NULL} : d \in Links /\ Lists(O[d], Hang(T, d)) /\ O[d] \in Seq(Blocks)
      /\ \A d \in At : O[d] = O[blk[d].subRoot] \o <<d>> \o O[blk[d].next]
      /\ O[NULL] = <<>>
  <2>1. Unfolded(T, q)
    BY OrdersUnfold DEF AllUnfold
  <2>2. \A d \in At \cup {NULL} : d \in Links
    BY <1>2 DEF Links
  <2>3. \A d \in At : blk[d].subRoot \in Links /\ blk[d].next \in Links
    BY <1>2 DEF LinksTyped
  <2>4. NULL \in Links
    BY DEF Links
  <2>5. \A d \in Links : O[d] = PostOrder(d)
    BY <1>1
  <2>6. \A d \in At \cup {NULL} : d \in Links /\ Lists(O[d], Hang(T, d))
    BY <2>1, <2>2, <2>4, <2>5 DEF Unfolded
  <2>7. \A d \in At : O[d] = O[blk[d].subRoot] \o <<d>> \o O[blk[d].next]
    BY <2>1, <2>2, <2>3, <2>5 DEF Unfolded
  <2>8. O[NULL] = <<>>
    BY <2>1, <2>4, <2>5 DEF Unfolded
  <2> QED
    BY <2>6, <2>7, <2>8 DEF Lists
<1>4. /\ \A d \in At : O2[d] = O2[blk'[d].subRoot] \o <<d>> \o O2[blk'[d].next]
      /\ O2[NULL] = <<>>
      /\ folder \in At => O2[n] = O2[NULL] \o <<n>> \o O2[first]
  <2>1. Unfolded(S, q)'
    BY OrdersUnfoldThen DEF AllUnfold
  <2>2. \A d \in At : d \in OfRoot(S, q)' /\ d \in Links
    BY <1>2 DEF Links
  <2>3. \A d \in At : blk'[d].subRoot \in Links /\ blk'[d].next \in Links
    BY <1>2 DEF LinksTyped
  <2>4. NULL \in Links /\ n \in Links
    BY DEF Links
  <2>5. folder \in At => PostOrder(n)' = PostOrder(NULL)' \o <<n>> \o PostOrder(first)'
    BY <2>1 DEF Unfolded, Links2
  <2>6. blk'[n].next \in Links /\ blk'[n].next = first
    BY DEF LinksTyped, Links2
  <2> QED
    BY <2>1, <2>2, <2>3, <2>4, <2>5, <2>6, <1>1 DEF Unfolded
<1>5. folder \in At => first = blk[folder].subRoot /\ folder # NULL
  BY <1>2 DEF Links2
<1> DEFINE rank == [c \in At |-> Cardinality(T[c])]
           Same(d) == folder \notin T[d] => O2[d] = O[d]
           More(d) == folder \in T[d] => /\ F \subseteq T[d]
                                         /\ \E k : Inserts(O[d], O2[d], k, n) /\ MeetsAt(O[d], k, F)
           Good == {d \in At : Same(d) /\ More(d)}
<1>6. ASSUME NEW d \in At, \A c \in At : rank[c] < rank[d] => c \in Good
      PROVE  d \in Good
  <2> PICK c, e : c = blk[d].subRoot /\ e = blk[d].next
    OBVIOUS
  <2>1. /\ c \in At \cup {NULL} /\ e \in At \cup {NULL} /\ T[d] = Hang(T, c) \cup {d} \cup Hang(T, e)
        /\ d \notin Hang(T, c) /\ d \notin Hang(T, e) /\ Hang(T, c) \cap Hang(T, e) = {}
    BY <1>2 DEF InOrder
  <2>2. \A x \in {c, e} : x # NULL => x \in Good /\ Hang(T, x) = T[x]
    BY <2>1, <1>2, <1>6, ZenonT(60)
  <2>3. \A x \in {c, e} : /\ folder \notin Hang(T, x) => O2[x] = O[x]
                          /\ folder \in Hang(T, x) => x # NULL /\ More(x)
    BY <2>1, <2>2, <1>3, <1>4 DEF Hang
  <2>4. /\ O[d] = O[c] \o <<d>> \o O[e] /\ O[c] \in Seq(Blocks) /\ O[e] \in Seq(Blocks)
        /\ O2[d] = O2[blk'[d].subRoot] \o <<d>> \o O2[blk'[d].next]
        /\ blk'[d].next = e /\ blk'[d].subRoot = IF d = folder THEN n ELSE c
    BY <2>1, <1>2, <1>3, <1>4 DEF Links2
  <2>a. PICK p, pe, w, v : p = O[c] /\ pe = O[e] /\ w = O[d] /\ v = O2[d]
    OBVIOUS
  <2>b. w = p \o <<d>> \o pe /\ p \in Seq(Blocks) /\ pe \in Seq(Blocks) /\ d \in Blocks
    BY <2>a, <2>4, <1>2
  <2> HIDE DEF Good
  <2>5. CASE folder \notin T[d]
    <3>1. folder \notin Hang(T, c) /\ folder \notin Hang(T, e) /\ d # folder
      BY <2>1, <2>5
    <3>2. O2[d] = O[d]
      BY <3>1, <2>3, <2>4
    <3> QED
      BY <3>2, <2>5 DEF Good
  <2>6. CASE d = folder
    <3>1. folder \notin Hang(T, c) /\ folder \notin Hang(T, e) /\ first = c /\ F = {d} \cup Hang(T, c) /\ F \subseteq T[d]
      BY <2>1, <2>6, <1>5
    <3>2. O2[d] = (<<>> \o <<n>> \o O[c]) \o <<d>> \o O[e]
      BY <3>1, <2>3, <2>4, <2>6, <1>4
    <3>3. Inserts(O[d], O2[d], 1, n)
      <4>1. PICK p2 : p2 = <<>> \o <<n>> \o p
        OBVIOUS
      <4>2. Inserts(p, p2, 1, n)
        BY <4>1, <2>b, InsertsHead
      <4>3. v = p2 \o <<d>> \o pe
        BY <4>1, <3>2, <2>a
      <4>4. Inserts(p \o <<d>> \o pe, p2 \o <<d>> \o pe, 1, n)
        BY <4>2, <2>b, InsertsLeft
      <4> QED
        BY <4>3, <4>4, <2>a, <2>b
    <3>4. MeetsAt(O[d], 1, F)
      <4>1. Lists(O[c], Hang(T, c))
        BY <2>1, <1>3
      <4>a. Len(p) \in Nat
        BY <2>b
      <4>b. p = O[c]
        BY <2>a
      <4>2. Lists(p, Hang(T, c)) /\ Len(p) \in Nat
        BY <4>1, <4>a, <4>b, Zenon
      <4>3. CASE Len(p) > 0
        <5>1. MeetsAt(p, 1, F)
          <6>1. 1 \in 1 .. Len(p) /\ p[1] \in Hang(T, c)
            BY <4>2, <4>3 DEF Lists
          <6> QED
            BY <6>1, <3>1 DEF MeetsAt
        <5>2. MeetsAt(p \o <<d>> \o pe, 1, F)
          BY <5>1, <2>b, MeetsLeft
        <5> QED
          BY <5>2, <2>a, <2>b
      <4>4. CASE Len(p) = 0
        <5>1. /\ w \in Seq(Blocks) /\ Len(w) = Len(p) + 1 + Len(pe)
              /\ \A i \in 1 .. Len(w) :
                   w[i] = IF i <= Len(p) THEN p[i] ELSE IF i = Len(p) + 1 THEN d ELSE pe[i - (Len(p) + 1)]
          BY <2>b, Around
        <5>2. Len(pe) \in Nat
          BY <2>b
        <5>3. 1 \in 1 .. Len(w) /\ ~(1 <= Len(p)) /\ 1 = Len(p) + 1
          BY <5>1, <5>2, <4>4
        <5>4. w[1] = d
          BY <5>1, <5>3
        <5> QED
          BY <5>3, <5>4, <3>1, <2>a DEF MeetsAt
      <4> QED
        BY <4>2, <4>3, <4>4
    <3> QED
      BY <3>1, <3>3, <3>4, <2>6, <1>2 DEF Good
  <2>7. CASE folder \in Hang(T, c)
    <3>1. folder \notin Hang(T, e) /\ d # folder /\ c # NULL
      BY <2>1, <2>3, <2>7
    <3>a. PICK p2 : p2 = O2[c]
      OBVIOUS
    <3>2. PICK k : Inserts(O[c], O2[c], k, n) /\ MeetsAt(O[c], k, F)
      BY <2>2, <2>3, <2>7
    <3>3. v = p2 \o <<d>> \o pe
      BY <3>1, <3>a, <2>3, <2>4, <2>a
    <3>4. Inserts(O[d], O2[d], k, n)
      <4>1. Inserts(p, p2, k, n)
        BY <3>2, <3>a, <2>a
      <4>2. Inserts(p \o <<d>> \o pe, p2 \o <<d>> \o pe, k, n)
        BY <4>1, <2>b, InsertsLeft
      <4> QED
        BY <4>2, <3>3, <2>a, <2>b
    <3>5. MeetsAt(O[d], k, F)
      <4>1. MeetsAt(p, k, F)
        BY <3>2, <2>a
      <4>2. MeetsAt(p \o <<d>> \o pe, k, F)
        BY <4>1, <2>b, MeetsLeft
      <4> QED
        BY <4>2, <2>a, <2>b
    <3>6. F \subseteq T[d]
      BY <3>1, <2>1, <2>2, <2>3, <2>7
    <3> QED
      BY <3>4, <3>5, <3>6, <2>1, <2>7 DEF Good
  <2>8. CASE folder \in Hang(T, e)
    <3>1. folder \notin Hang(T, c) /\ d # folder /\ e # NULL /\ Hang(T, e) = T[e]
      BY <2>1, <2>2, <2>3, <2>8
    <3>2. F \subseteq Hang(T, e) /\ \E k : Inserts(O[e], O2[e], k, n) /\ MeetsAt(O[e], k, F)
      BY <3>1, <2>3, <2>8
    <3>3. PICK k : Inserts(O[e], O2[e], k, n) /\ MeetsAt(O[e], k, F)
      BY <3>2
    <3>4. O2[d] = O[c] \o <<d>> \o O2[e]
      BY <3>1, <2>3, <2>4
    <3>5. Inserts(O[d], O2[d], Len(O[c]) + 1 + k, n)
      BY <3>3, <3>4, <2>4, <1>2, InsertsRight
    <3>6. d \notin F /\ \A i \in 1 .. Len(O[c]) : O[c][i] \notin F
      <4>1. Lists(O[c], Hang(T, c))
        BY <2>1, <1>3
      <4> QED
        BY <4>1, <3>2, <2>1 DEF Lists
    <3>7. MeetsAt(O[d], Len(O[c]) + 1 + k, F)
      <4>1. PICK x, y : x = O[c] /\ y = O[e]
        OBVIOUS
      <4>2. /\ x \in Seq(Blocks) /\ y \in Seq(Blocks) /\ d \in Blocks /\ MeetsAt(y, k, F) /\ d \notin F
            /\ \A i \in 1 .. Len(x) : x[i] \notin F
        BY <4>1, <3>3, <3>6, <2>4, <1>2
      <4>3. MeetsAt(x \o <<d>> \o y, Len(x) + 1 + k, F)
        BY <4>2, MeetsRight
      <4> QED
        BY <4>1, <4>3, <2>4
    <3>8. F \subseteq T[d]
      BY <3>2, <2>1
    <3> QED
      BY <3>5, <3>7, <3>8, <2>1, <2>8 DEF Good
  <2> QED
    BY <2>1, <2>5, <2>6, <2>7, <2>8
<1>7. Good = At
  <2>1. rank \in [At -> Nat] /\ Good \in SUBSET At
    BY <1>2
  <2> HIDE DEF Good, rank
  <2> QED
    BY <2>1, <1>6, RankInduction
<1>8. \A d \in At : Same(d) /\ More(d) /\ O[d] = PostOrder(d) /\ O2[d] = PostOrder(d)' /\ Hang(T, d) = T[d]
  BY <1>1, <1>2, <1>3, <1>7
<1>9. PostOrder(NULL)' = PostOrder(NULL)
  <2>1. NULL \in Links
    BY DEF Links
  <2> QED
    BY <2>1, <1>1, <1>3, <1>4
<1>10. \A d \in At : NULL \notin T[d]
  BY <1>2 DEF InOrder
<1> QED
  BY <1>8, <1>9, <1>10

TakesOut(T, S, r, b, before, first) ==
  /\ LinksTyped /\ Forest(T) /\ LinksTyped' /\ Forest(S)'
  /\ r \in Roots /\ b \in OfRoot(T, r) /\ first \in BOOLEAN /\ blk[b].subRoot = NULL
  /\ LinkedFrom(OfRoot(T, r), r, b, before, first) /\ Unlinks(r, b, before, first)

OrdersWithout(T, q, b, nb) ==
  /\ \A d \in OfRoot(T, q) \cup {NULL} : b \notin Hang(T, d) => PostOrder(d)' = PostOrder(d)
  /\ \A d \in OfRoot(T, q) : b \in T[d] =>
       \E k : Inserts((IF d = b THEN PostOrder(nb)' ELSE PostOrder(d)'), PostOrder(d), k, b)

LEMMA UnlinkBelow ==
  ASSUME NEW T, NEW S, NEW r, NEW b, NEW before, NEW first, TakesOut(T, S, r, b, before, first),
         NEW q \in Roots, OfRoot(S, q)' = OfRoot(T, q) \ {b}, NEW nb, nb = blk[b].next
  PROVE  OrdersWithout(T, q, b, nb)
<1> SUFFICES ASSUME LinksTyped, Forest(T), LinksTyped', Forest(S)', r \in Roots, b \in OfRoot(T, r),
                    first \in BOOLEAN, LinkedFrom(OfRoot(T, r), r, b, before, first),
                    Unlinks(r, b, before, first), blk[b].subRoot = NULL
             PROVE  /\ \A d \in OfRoot(T, q) \cup {NULL} : b \notin Hang(T, d) =>
                         PostOrder(d)' = PostOrder(d)
                    /\ \A d \in OfRoot(T, q) : b \in T[d] =>
                         \E k : Inserts((IF d = b THEN PostOrder(nb)' ELSE PostOrder(d)'), PostOrder(d), k, b)
  BY DEF TakesOut, OrdersWithout
<1> PICK At : At = OfRoot(T, q)
  OBVIOUS
<1>1. PICK O, O2 : O = [d \in Links |-> PostOrder(d)] /\ O2 = [d \in Links |-> PostOrder(d)']
  OBVIOUS
<1>2. \A c \in At : /\ c \in Blocks /\ c # NULL /\ c \in T[c] /\ T[c] = Hang(T, c) /\ InOrder(T, At, c)
                    /\ Cardinality(T[c]) \in Nat
                    /\ Cardinality(Hang(T, blk[c].subRoot)) < Cardinality(T[c])
                    /\ Cardinality(Hang(T, blk[c].next)) < Cardinality(T[c])
  <2> TAKE c \in At
  <2>1. /\ Cardinality(T[c]) \in 1 .. MaxResources /\ c \in Blocks /\ c # NULL /\ c \in T[c] /\ T[c] = Hang(T, c)
        /\ Cardinality(Hang(T, blk[c].subRoot)) \in 0 .. (Cardinality(T[c]) - 1)
        /\ Cardinality(Hang(T, blk[c].next)) \in 0 .. (Cardinality(T[c]) - 1)
    BY HangsLess
  <2>2. InOrder(T, At, c)
    BY DEF Forest
  <2> QED
    BY <2>1, <2>2 DEF LinksTyped
<1>3. /\ \A d \in At \cup {NULL} : d \in Links /\ O[d] \in Seq(Blocks)
      /\ \A d \in At : O[d] = O[blk[d].subRoot] \o <<d>> \o O[blk[d].next]
      /\ O[NULL] = <<>>
  <2>1. Unfolded(T, q)
    BY OrdersUnfold DEF AllUnfold
  <2>2. \A d \in At \cup {NULL} : d \in Links
    BY <1>2 DEF Links
  <2>3. \A d \in At : blk[d].subRoot \in Links /\ blk[d].next \in Links
    BY <1>2 DEF LinksTyped
  <2>4. NULL \in Links
    BY DEF Links
  <2>5. \A d \in Links : O[d] = PostOrder(d)
    BY <1>1
  <2>6. \A d \in At \cup {NULL} : d \in Links /\ Lists(O[d], Hang(T, d))
    BY <2>1, <2>2, <2>4, <2>5 DEF Unfolded
  <2>7. \A d \in At : O[d] = O[blk[d].subRoot] \o <<d>> \o O[blk[d].next]
    BY <2>1, <2>2, <2>3, <2>5 DEF Unfolded
  <2>8. O[NULL] = <<>>
    BY <2>1, <2>4, <2>5 DEF Unfolded
  <2> QED
    BY <2>6, <2>7, <2>8 DEF Lists
<1>4. /\ \A d \in At \ {b} : O2[d] = O2[blk'[d].subRoot] \o <<d>> \o O2[blk'[d].next]
      /\ O2[NULL] = <<>>
  <2>1. Unfolded(S, q)'
    BY OrdersUnfoldThen DEF AllUnfold
  <2>2. \A d \in At \ {b} : d \in OfRoot(S, q)' /\ d \in Links
    BY <1>2 DEF Links
  <2>3. \A d \in At : blk'[d].subRoot \in Links /\ blk'[d].next \in Links
    BY <1>2 DEF LinksTyped
  <2>4. NULL \in Links
    BY DEF Links
  <2>5. \A d \in Links : O2[d] = PostOrder(d)'
    BY <1>1
  <2>6. O2[NULL] = <<>>
    BY <2>1, <2>4, <2>5 DEF Unfolded
  <2>7. \A d \in At \ {b} : O2[d] = O2[blk'[d].subRoot] \o <<d>> \o O2[blk'[d].next]
    BY <2>1, <2>2, <2>3, <2>5 DEF Unfolded
  <2> QED
    BY <2>6, <2>7
<1>6. /\ \A c \in At : /\ blk[c].subRoot = b <=> c = before /\ first
                       /\ blk[c].next = b <=> c = before /\ ~first
      /\ b \in Blocks /\ b # NULL
  <2>1. \A c \in At : /\ blk[c].subRoot = b => c = before /\ first
                      /\ blk[c].next = b => c = before /\ ~first
    BY LinkedOnce
  <2>2. b \in Blocks /\ b # NULL
    BY HangsLess
  <2>3. \A c \in At : c # NULL
    BY <1>2
  <2> QED
    BY <2>1, <2>2, <2>3 DEF LinkedFrom
<1>7. \A c \in At \ {b} : /\ blk'[c].next = IF blk[c].next = b THEN nb ELSE blk[c].next
                          /\ blk'[c].subRoot = IF blk[c].subRoot = b THEN nb ELSE blk[c].subRoot
  <2> TAKE c \in At \ {b}
  <2>1. /\ blk'[c].next = (IF c = before /\ ~first THEN nb ELSE blk[c].next)
        /\ blk'[c].subRoot = (IF c = before /\ first THEN nb ELSE blk[c].subRoot)
    BY <1>2 DEF Unlinks
  <2> QED
    BY <2>1, <1>6
<1> DEFINE rank == [c \in At |-> Cardinality(T[c])]
           In(d) == IF d = b THEN nb ELSE d
           Same(d) == b \notin T[d] => O2[d] = O[d]
           More(d) == b \in T[d] => \E k : Inserts(O2[In(d)], O[d], k, b)
           Good == {d \in At : Same(d) /\ More(d)}
<1>8. ASSUME NEW d \in At, \A c \in At : rank[c] < rank[d] => c \in Good
      PROVE  d \in Good
  <2> PICK c, e : c = blk[d].subRoot /\ e = blk[d].next
    OBVIOUS
  <2>1. /\ c \in At \cup {NULL} /\ e \in At \cup {NULL} /\ T[d] = Hang(T, c) \cup {d} \cup Hang(T, e)
        /\ d \notin Hang(T, c) /\ d \notin Hang(T, e) /\ Hang(T, c) \cap Hang(T, e) = {}
        /\ b \in T[b]
    <3>1. b \in T[b]
      BY HangsLess
    <3> QED
      BY <3>1, <1>2 DEF InOrder
  <2>2. \A x \in {c, e} : x # NULL => x \in Good /\ Hang(T, x) = T[x]
    BY <2>1, <1>2, <1>8
  <2>3. \A x \in {c, e} : /\ b \notin Hang(T, x) => O2[x] = O[x] /\ x # b
                          /\ b \in Hang(T, x) => x # NULL /\ \E k : Inserts(O2[In(x)], O[x], k, b)
    <3> TAKE x \in {c, e}
    <3>1. CASE x = NULL
      BY <3>1, <1>3, <1>4, <1>6 DEF Hang
    <3>2. CASE x # NULL
      <4>1. Same(x) /\ More(x) /\ Hang(T, x) = T[x]
        BY <3>2, <2>2
      <4>2. b \notin Hang(T, x) => x # b
        BY <2>1, <4>1
      <4> QED
        BY <3>2, <4>1, <4>2
    <3> QED
      BY <3>1, <3>2
  <2>4. O[d] = O[c] \o <<d>> \o O[e] /\ O[c] \in Seq(Blocks) /\ O[e] \in Seq(Blocks) /\ d \in Blocks
    BY <2>1, <1>2, <1>3
  <2>5. d # b => O2[d] = O2[In(c)] \o <<d>> \o O2[In(e)]
    BY <1>4, <1>7, ZenonT(60)
  <2> HIDE DEF Good, In
  <2>6. CASE d = b
    <3>1. c = NULL /\ e = nb /\ O[d] = <<>> \o <<b>> \o O[nb] /\ In(d) = nb
      BY <2>4, <2>6, <1>3 DEF In
    <3>2. O2[nb] = O[nb]
      BY <2>1, <2>3, <2>6, <3>1
    <3>3. Inserts(O[nb], <<>> \o <<b>> \o O[nb], 1, b)
      BY <3>1, <2>4, <1>6, InsertsHead
    <3> QED
      BY <3>1, <3>2, <3>3, <2>1, <2>6, ZenonT(60) DEF Good
  <2>7. CASE b \notin T[d]
    <3>1. b \notin Hang(T, c) /\ b \notin Hang(T, e) /\ d # b
      BY <2>1, <2>7
    <3>2. O2[c] = O[c] /\ O2[e] = O[e] /\ In(c) = c /\ In(e) = e
      BY <3>1, <2>3 DEF In
    <3> QED
      BY <3>1, <3>2, <2>4, <2>5, <2>7 DEF Good
  <2>8. CASE b \in Hang(T, c)
    <3>1. b \notin Hang(T, e) /\ d # b
      BY <2>1, <2>8
    <3>2. O2[e] = O[e] /\ In(e) = e /\ In(d) = d
      BY <3>1, <2>3 DEF In
    <3>3. PICK k : Inserts(O2[In(c)], O[c], k, b)
      BY <2>3, <2>8
    <3>4. PICK p2 : p2 = O2[In(c)]
      OBVIOUS
    <3>5. Inserts(p2 \o <<d>> \o O[e], O[c] \o <<d>> \o O[e], k, b)
      BY <3>3, <3>4, <2>4, InsertsLeft
    <3>6. Inserts(O2[In(d)], O[d], k, b)
      BY <3>1, <3>2, <3>4, <3>5, <2>4, <2>5
    <3> QED
      BY <3>6, <2>1, <2>8 DEF Good
  <2>9. CASE b \in Hang(T, e)
    <3>1. b \notin Hang(T, c) /\ d # b
      BY <2>1, <2>9
    <3>2. O2[c] = O[c] /\ In(c) = c /\ In(d) = d
      BY <3>1, <2>3 DEF In
    <3>3. PICK k : Inserts(O2[In(e)], O[e], k, b)
      BY <2>3, <2>9
    <3>4. PICK q2, k2 : q2 = O2[In(e)] /\ k2 = Len(O[c]) + 1 + k
      OBVIOUS
    <3>5. Inserts(O[c] \o <<d>> \o q2, O[c] \o <<d>> \o O[e], k2, b)
      BY <3>3, <3>4, <2>4, InsertsRight
    <3>6. Inserts(O2[In(d)], O[d], k2, b)
      BY <3>1, <3>2, <3>4, <3>5, <2>4, <2>5
    <3> QED
      BY <3>6, <2>1, <2>9 DEF Good
  <2> QED
    BY <2>1, <2>6, <2>7, <2>8, <2>9
<1>9. Good = At
  <2>1. rank \in [At -> Nat] /\ Good \in SUBSET At
    BY <1>2
  <2> HIDE DEF Good, rank
  <2> QED
    BY <2>1, <1>8, RankInduction
<1>10. \A d \in At : Same(d) /\ More(d) /\ O[d] = PostOrder(d) /\ O2[d] = PostOrder(d)' /\ Hang(T, d) = T[d]
  BY <1>1, <1>2, <1>3, <1>9
<1>11. O2[nb] = PostOrder(nb)'
  <2>1. nb \in Links
    BY <1>6 DEF LinksTyped
  <2> QED
    BY <2>1, <1>1
<1>12. PostOrder(NULL)' = PostOrder(NULL)
  <2>1. NULL \in Links
    BY DEF Links
  <2> QED
    BY <2>1, <1>1, <1>3, <1>4
<1>13. ASSUME NEW d \in At, b \in T[d]
       PROVE  \E k : Inserts((IF d = b THEN PostOrder(nb)' ELSE PostOrder(d)'), PostOrder(d), k, b)
  <2>1. PICK k : Inserts(O2[In(d)], O[d], k, b)
    BY <1>10, <1>13
  <2>2. O2[In(d)] = (IF d = b THEN PostOrder(nb)' ELSE PostOrder(d)') /\ O[d] = PostOrder(d)
    BY <1>10, <1>11
  <2> QED
    BY <2>1, <2>2, Zenon
<1> QED
  BY <1>10, <1>12, <1>13

-----------------------------------------------------------------------------
(* The same on sequences of names, and what ResourceStore does to them.    *)

(* v is w, a sequence over S, with x at the place k.                       *)
PutAt(S, w, v, k, x) ==
  /\ w \in Seq(S) /\ v \in Seq(S) /\ x \in S
  /\ k \in 1 .. Len(w) + 1 /\ Len(v) = Len(w) + 1
  /\ \A i \in 1 .. Len(v) : v[i] = IF i < k THEN w[i] ELSE IF i = k THEN x ELSE w[i - 1]

LEMMA NamesPut ==
  ASSUME NEW w, NEW v, NEW k, NEW n \in Blocks, Inserts(w, v, k, n), NEW P, NEW P2, NEW S,
         \A b \in Blocks \ {n} : P2[b] = P[b], \A i \in 1 .. Len(w) : w[i] # n /\ P[w[i]] \in S, P2[n] \in S
  PROVE  PutAt(S, Names(P, w), Names(P2, v), k, P2[n])
<1>1. /\ w \in Seq(Blocks) /\ v \in Seq(Blocks) /\ k \in 1 .. Len(w) + 1 /\ Len(v) = Len(w) + 1
      /\ \A i \in 1 .. Len(v) : v[i] = IF i < k THEN w[i] ELSE IF i = k THEN n ELSE w[i - 1]
  BY DEF Inserts
<1> PICK l, x : l = Len(w) /\ x = P2[n]
  OBVIOUS
<1>2. l \in Nat /\ k \in 1 .. l + 1 /\ Len(v) = l + 1 /\ \A i \in 1 .. l : w[i] \in Blocks /\ P2[w[i]] = P[w[i]]
  BY <1>1
<1>3. PICK nw, nv : nw = [i \in 1 .. l |-> P[w[i]]] /\ nv = [i \in 1 .. l + 1 |-> P2[v[i]]]
  OBVIOUS
<1>4. \A i \in 1 .. l + 1 : nv[i] = IF i < k THEN nw[i] ELSE IF i = k THEN x ELSE nw[i - 1]
  <2> TAKE i \in 1 .. l + 1
  <2>1. nv[i] = P2[v[i]] /\ v[i] = IF i < k THEN w[i] ELSE IF i = k THEN n ELSE w[i - 1]
    BY <1>1, <1>2, <1>3
  <2>2. CASE i < k
    <3>1. i \in 1 .. l
      BY <2>2, <1>2
    <3> QED
      BY <3>1, <2>1, <2>2, <1>2, <1>3
  <2>3. CASE i = k
    BY <2>1, <2>3, <1>2
  <2>4. CASE i > k
    <3>1. i - 1 \in 1 .. l /\ ~(i < k) /\ i # k
      BY <2>4, <1>2
    <3>2. v[i] = w[i - 1] /\ nw[i - 1] = P[w[i - 1]] /\ P2[w[i - 1]] = P[w[i - 1]]
      BY <3>1, <2>1, <1>2, <1>3
    <3> QED
      BY <3>1, <3>2, <2>1
  <2> QED
    BY <2>2, <2>3, <2>4, <1>2
<1>5. \A i \in 1 .. l : nw[i] \in S
  BY <1>3
<1>6. \A i \in 1 .. l + 1 : nv[i] \in S
  <2> TAKE i \in 1 .. l + 1
  <2>1. CASE i < k
    <3>1. i \in 1 .. l
      BY <2>1, <1>2
    <3> QED
      BY <3>1, <2>1, <1>4, <1>5
  <2>2. CASE i = k
    BY <2>2, <1>2, <1>4
  <2>3. CASE i > k
    <3>1. i - 1 \in 1 .. l /\ ~(i < k) /\ i # k
      BY <2>3, <1>2
    <3> QED
      BY <3>1, <1>4, <1>5
  <2> QED
    BY <2>1, <2>2, <2>3, <1>2
<1>7. nw \in Seq(S) /\ Len(nw) = l /\ nv \in Seq(S) /\ Len(nv) = l + 1
  <2>1. nw \in [1 .. l -> S] /\ nv \in [1 .. l + 1 -> S]
    BY <1>3, <1>5, <1>6
  <2>2. l \in Nat /\ l + 1 \in Nat
    BY <1>2
  <2> QED
    BY <2>1, <2>2
<1>8. Names(P, w) = nw /\ Names(P2, v) = nv
  BY <1>2, <1>3 DEF Names
<1> QED
  BY <1>2, <1>4, <1>7, <1>8 DEF PutAt

LEMMA PutIs ==
  ASSUME NEW S, NEW w, NEW v, NEW k, NEW x, PutAt(S, w, v, k, x)
  PROVE  v = SubSeq(w, 1, k - 1) \o <<x>> \o SubSeq(w, k, Len(w))
<1>1. /\ w \in Seq(S) /\ v \in Seq(S) /\ x \in S /\ k \in 1 .. Len(w) + 1 /\ Len(v) = Len(w) + 1
      /\ \A i \in 1 .. Len(v) : v[i] = IF i < k THEN w[i] ELSE IF i = k THEN x ELSE w[i - 1]
  BY DEF PutAt
<1>2. PICK p, q, l : p = SubSeq(w, 1, k - 1) /\ q = SubSeq(w, k, l) /\ l = Len(w)
  OBVIOUS
<1>3. l \in Nat /\ k \in 1 .. l + 1 /\ Len(v) = l + 1
  BY <1>1, <1>2
<1>4. p \in Seq(S) /\ Len(p) = k - 1 /\ \A i \in 1 .. k - 1 : p[i] = w[i]
  BY <1>1, <1>2, <1>3
<1>5. q \in Seq(S) /\ Len(q) = l - k + 1 /\ \A i \in 1 .. (l - k + 1) : q[i] = w[k + i - 1]
  BY <1>1, <1>2, <1>3
<1>6. PICK z : z = p \o <<x>> \o q
  OBVIOUS
<1>7. /\ z \in Seq(S) /\ Len(z) = Len(p) + 1 + Len(q)
      /\ \A i \in 1 .. Len(z) :
           z[i] = IF i <= Len(p) THEN p[i] ELSE IF i = Len(p) + 1 THEN x ELSE q[i - (Len(p) + 1)]
  <2>1. p \in Seq(S) /\ q \in Seq(S) /\ x \in S
    BY <1>1, <1>4, <1>5
  <2> QED
    BY <2>1, <1>6, Around
<1>8. Len(z) = l + 1
  BY <1>3, <1>4, <1>5, <1>7
<1>9. ASSUME NEW i \in 1 .. l + 1 PROVE z[i] = v[i]
  <2>1. v[i] = IF i < k THEN w[i] ELSE IF i = k THEN x ELSE w[i - 1]
    BY <1>1, <1>3
  <2>2. CASE i < k
    <3>1. i \in 1 .. k - 1 /\ i <= Len(p) /\ i \in 1 .. Len(z)
      BY <2>2, <1>3, <1>4, <1>8
    <3> QED
      BY <3>1, <2>1, <2>2, <1>4, <1>7
  <2>3. CASE i = k
    <3>1. ~(i <= Len(p)) /\ i = Len(p) + 1 /\ i \in 1 .. Len(z)
      BY <2>3, <1>3, <1>4, <1>8
    <3> QED
      BY <3>1, <2>1, <2>3, <1>3, <1>7
  <2>4. CASE i > k
    <3>1. ~(i <= Len(p)) /\ i # Len(p) + 1 /\ i \in 1 .. Len(z) /\ i - (Len(p) + 1) = i - k
          /\ i - k \in 1 .. (l - k + 1) /\ k + (i - k) - 1 = i - 1 /\ ~(i < k) /\ i # k
      BY <2>4, <1>3, <1>4, <1>8
    <3>2. z[i] = q[i - k] /\ q[i - k] = w[k + (i - k) - 1]
      BY <3>1, <1>5, <1>7
    <3> QED
      BY <3>1, <3>2, <2>1
  <2> QED
    BY <2>2, <2>3, <2>4, <1>3
<1>10. z = v
  BY <1>1, <1>3, <1>7, <1>8, <1>9
<1> QED
  BY <1>2, <1>6, <1>10

LEMMA PutIsTaken ==
  ASSUME NEW S, NEW w, NEW v, NEW k, NEW x, PutAt(S, v, w, k, x)
  PROVE  v = SubSeq(w, 1, k - 1) \o SubSeq(w, k + 1, Len(w))
<1>1. /\ w \in Seq(S) /\ v \in Seq(S) /\ x \in S /\ k \in 1 .. Len(v) + 1 /\ Len(w) = Len(v) + 1
      /\ \A i \in 1 .. Len(w) : w[i] = IF i < k THEN v[i] ELSE IF i = k THEN x ELSE v[i - 1]
  BY DEF PutAt
<1>2. PICK p, q, l : p = SubSeq(w, 1, k - 1) /\ q = SubSeq(w, k + 1, l + 1) /\ l = Len(v)
  OBVIOUS
<1>3. l \in Nat /\ k \in 1 .. l + 1 /\ Len(w) = l + 1
  BY <1>1, <1>2
<1>4. p \in Seq(S) /\ Len(p) = k - 1 /\ \A i \in 1 .. k - 1 : p[i] = w[i]
  BY <1>1, <1>2, <1>3
<1>5. q \in Seq(S) /\ Len(q) = l - k + 1 /\ \A i \in 1 .. (l - k + 1) : q[i] = w[k + i]
  BY <1>1, <1>2, <1>3
<1>6. PICK z : z = p \o q
  OBVIOUS
<1>7. /\ z \in Seq(S) /\ Len(z) = Len(p) + Len(q)
      /\ \A i \in 1 .. Len(z) : z[i] = IF i <= Len(p) THEN p[i] ELSE q[i - Len(p)]
  <2>1. p \in Seq(S) /\ q \in Seq(S)
    BY <1>4, <1>5
  <2> QED
    BY <2>1, <1>6
<1>8. Len(z) = l
  BY <1>3, <1>4, <1>5, <1>7
<1>9. ASSUME NEW i \in 1 .. l PROVE z[i] = v[i]
  <2>2. CASE i < k
    <3>1. i \in 1 .. k - 1 /\ i <= Len(p) /\ i \in 1 .. Len(z) /\ i \in 1 .. Len(w)
      BY <2>2, <1>3, <1>4, <1>8
    <3> QED
      BY <3>1, <2>2, <1>1, <1>4, <1>7
  <2>3. CASE i >= k
    <3>1. ~(i <= Len(p)) /\ i \in 1 .. Len(z) /\ i - Len(p) = i - k + 1
          /\ i - k + 1 \in 1 .. (l - k + 1) /\ k + (i - k + 1) = i + 1 /\ i + 1 \in 1 .. Len(w)
          /\ ~(i + 1 < k) /\ i + 1 # k /\ (i + 1) - 1 = i
      BY <2>3, <1>3, <1>4, <1>8
    <3>2. z[i] = q[i - k + 1] /\ q[i - k + 1] = w[k + (i - k + 1)]
      BY <3>1, <1>5, <1>7
    <3>3. w[i + 1] = v[(i + 1) - 1]
      BY <3>1, <1>1
    <3> QED
      BY <3>1, <3>2, <3>3
  <2> QED
    BY <2>2, <2>3, <1>3
<1>10. z = v
  <2>1. z \in Seq(S) /\ v \in Seq(S) /\ Len(z) = l /\ Len(v) = l
    BY <1>1, <1>2, <1>7, <1>8
  <2> QED
    BY <2>1, <1>9
<1> QED
  BY <1>2, <1>3, <1>6, <1>10

(* v is the uri p, or named in the folder p or deeper.                     *)
Within(v, p) == v.root = p.root /\ Agree(v, p, Level(p))

LEMMA ParentIs ==
  ASSUME NEW u \in Uris
  PROVE  /\ Level(u) = 1 => Parent[u] = NoUri
         /\ Level(u) > 1 => Parent[u] = Folder(u) /\ Parent[u] \in Uris
         /\ NoUri \notin Uris
<1>1. NoUri \notin Uris
  <2>1. NoUri.path = <<>>
    BY DEF NoUri
  <2>2. \A v \in Uris : Len(v.path) > 0
    BY UriIs DEF Level
  <2> QED
    BY <2>1, <2>2
<1>2. Parent[u] = IF Len(u.path) = 1 THEN NoUri ELSE Folder(u)
  BY DEF Parent
<1> QED
  BY <1>1, <1>2, FolderIs, UriIs DEF Level

LEMMA WithinSteps ==
  ASSUME NEW p \in Uris, NEW v \in Uris
  PROVE  /\ ~(Parent[v] = p /\ Level(v) = 1)
         /\ Within(v, p) /\ v # p <=>
              Level(v) > 1 /\ (Parent[v] = p \/ (Within(Parent[v], p) /\ Parent[v] # p))
<1>0. /\ Level(v) \in Nat /\ Level(v) > 0 /\ Level(p) \in Nat /\ Level(p) > 0
  BY UriIs
<1>1. Level(v) = 1 => Parent[v] # p
  BY ParentIs
<1>2. ASSUME Level(v) > 1
      PROVE  Within(v, p) /\ v # p <=> Parent[v] = p \/ (Within(Parent[v], p) /\ Parent[v] # p)
  <2>1. PICK f : f = Parent[v]
    OBVIOUS
  <2>2. f \in Uris /\ f.root = v.root /\ Level(f) = Level(v) - 1 /\ Agree(v, f, Level(f))
    <3>1. f = Folder(v) /\ f \in Uris
      BY <2>1, <1>2, ParentIs
    <3> QED
      BY <3>1, <1>2, FolderIs
  <2>3. Within(v, p) /\ v # p => Within(f, p)
    <3> SUFFICES ASSUME Within(v, p), v # p PROVE Within(f, p)
      OBVIOUS
    <3>1. Level(p) <= Level(v) /\ Level(p) # Level(v)
      BY <1>0, SameUri DEF Within, Agree
    <3>2. Level(p) <= Level(f)
      BY <3>1, <2>2, <1>0
    <3> QED
      BY <3>2, <2>2, <1>0 DEF Within, Agree
  <2>4. Within(f, p) => Within(v, p) /\ v # p
    <3> SUFFICES ASSUME Within(f, p) PROVE Within(v, p) /\ v # p
      OBVIOUS
    <3>1. Level(p) <= Level(f) /\ Level(f) \in Nat
      BY <2>2, <1>0 DEF Within, Agree
    <3> QED
      BY <3>1, <2>2, <1>0 DEF Within, Agree
  <2>5. Within(p, p)
    BY <1>0 DEF Within, Agree
  <2> QED
    BY <2>1, <2>3, <2>4, <2>5
<1>3. ASSUME Level(v) = 1 PROVE ~(Within(v, p) /\ v # p)
  <2> SUFFICES ASSUME Within(v, p) PROVE v = p
    OBVIOUS
  <2> QED
    BY <1>0, <1>3, SameUri DEF Within, Agree
<1> QED
  BY <1>0, <1>1, <1>2, <1>3

(* What ResourceStore places a new resource of a folder before.            *)
LEMMA UnderIs ==
  ASSUME NEW p \in Uris, NEW v \in Uris
  PROVE  v \in Store!Under(p) <=> Within(v, p)
<1> DEFINE Rule(f, x) == Parent[x] = p \/ (Parent[x] # NoUri /\ f[Parent[x]])
           Is(f) == f = [x \in Uris |-> Rule(f, x)]
           Deeper(x) == Within(x, p) /\ x # p
           w == [x \in Uris |-> Deeper(x)]
           under == CHOOSE f : Is(f)
<1>1. Store!Under(p) = {p} \cup {x \in Uris : under[x]}
  BY Zenon DEF Store!Under
<1>2. ASSUME NEW x \in Uris PROVE Deeper(x) <=> Rule(w, x)
  <2>1. CASE Level(x) = 1
    <3>1. Parent[x] = NoUri /\ p # NoUri
      BY <2>1, ParentIs
    <3>2. ~Deeper(x)
      BY <2>1, WithinSteps
    <3> QED
      BY <3>1, <3>2
  <2>2. CASE Level(x) > 1
    <3>1. Parent[x] \in Uris /\ Parent[x] # NoUri
      BY <2>2, ParentIs
    <3>2. w[Parent[x]] = Deeper(Parent[x])
      BY <3>1
    <3>3. Deeper(x) <=> Parent[x] = p \/ Deeper(Parent[x])
      BY <2>2, WithinSteps
    <3> HIDE DEF w, Deeper
    <3> QED
      BY <3>1, <3>2, <3>3, Zenon
  <2> QED
    BY <2>1, <2>2, UriIs
<1>3. Is(w)
  <2>1. \A x \in Uris : w[x] = Rule(w, x)
    <3> TAKE x \in Uris
    <3>1. w[x] = Deeper(x)
      OBVIOUS
    <3>2. Deeper(x) <=> Rule(w, x)
      BY <1>2
    <3> HIDE DEF w
    <3> QED
      BY <3>1, <3>2
  <2>2. w = [x \in Uris |-> w[x]]
    OBVIOUS
  <2> HIDE DEF w, Rule
  <2>3. [x \in Uris |-> w[x]] = [x \in Uris |-> Rule(w, x)]
    BY <2>1
  <2> QED
    BY <2>2, <2>3, Zenon
<1>4. Is(under)
  <2> HIDE DEF Is
  <2> QED
    BY <1>3, Zenon
<1> HIDE DEF under
<1>5. \A x \in Uris : under[x] = Rule(under, x)
  <2> HIDE DEF Rule
  <2> QED
    BY <1>4, Zenon
<1> DEFINE rank == [x \in Uris |-> Level(x)]
           Good == {x \in Uris : under[x] <=> Deeper(x)}
<1>6. ASSUME NEW x \in Uris, \A y \in Uris : rank[y] < rank[x] => y \in Good
      PROVE  x \in Good
  <2>1. CASE Level(x) = 1
    <3>1. Parent[x] = NoUri /\ p # NoUri
      BY <2>1, ParentIs
    <3>2. ~Deeper(x)
      BY <2>1, WithinSteps
    <3>3. ~under[x]
      BY <3>1, <1>5, Zenon
    <3> QED
      BY <3>2, <3>3, Zenon
  <2>2. CASE Level(x) > 1
    <3>1. Parent[x] \in Uris /\ Parent[x] # NoUri /\ Level(Parent[x]) < Level(x)
      <4>1. Parent[x] \in Uris /\ Parent[x] = Folder(x) /\ Parent[x] # NoUri
        BY <2>2, ParentIs
      <4>2. Level(Parent[x]) = Level(x) - 1 /\ Level(x) \in Nat
        BY <4>1, <2>2, FolderIs, UriIs
      <4> QED
        BY <4>1, <4>2
    <3>2. Parent[x] \in Good
      BY <3>1, <1>6
    <3>3. Deeper(x) <=> Parent[x] = p \/ Deeper(Parent[x])
      BY <2>2, WithinSteps
    <3>4. under[Parent[x]] <=> Deeper(Parent[x])
      BY <3>2, Zenon
    <3>5. under[x] <=> Parent[x] = p \/ under[Parent[x]]
      BY <3>1, <1>5, Zenon
    <3> HIDE DEF Deeper
    <3> QED
      BY <3>3, <3>4, <3>5, Zenon
  <2> QED
    BY <2>1, <2>2, UriIs
<1>7. Good = Uris
  <2>1. rank \in [Uris -> Nat] /\ Good \in SUBSET Uris
    BY UriIs
  <2> HIDE DEF rank, Good
  <2> QED
    BY <2>1, <1>6, RankInduction
<1>8. under[v] <=> Deeper(v)
  BY <1>7, Zenon
<1>9. Within(p, p)
  BY UriIs DEF Within, Agree
<1> QED
  BY <1>1, <1>8, <1>9, Zenon

LEMMA LinkedIs ==
  ASSUME NEW u \in Uris, NEW seq, NEW seq2, NEW k, PutAt(Uris, seq, seq2, k, u),
         Level(u) = 1 => k = 1,
         Level(u) > 1 => /\ k \in 1 .. Len(seq) /\ Within(seq[k], Folder(u))
                         /\ \A i \in 1 .. k - 1 : ~Within(seq[i], Folder(u))
  PROVE  Store!Linked(seq, u) = seq2
<1>1. seq \in Seq(Uris) /\ Level(u) \in Nat /\ Level(u) > 0
  BY UriIs DEF PutAt
<1>2. Store!Place(seq, u) = k
  <2>1. CASE Level(u) = 1
    BY <2>1, ParentIs DEF Store!Place
  <2>2. CASE Level(u) > 1
    <3>1. PICK p : p = Folder(u)
      OBVIOUS
    <3>2. Parent[u] = p /\ p # NoUri /\ p \in Uris
      BY <2>2, <3>1, ParentIs
    <3>3. \A i \in 1 .. Len(seq) : seq[i] \in Uris /\ (seq[i] \in Store!Under(p) <=> Within(seq[i], p))
      BY <1>1, <3>2, UnderIs
    <3> DEFINE First(i) == seq[i] \in Store!Under(p) /\ \A j \in 1 .. i - 1 : seq[j] \notin Store!Under(p)
    <3>4. Store!Place(seq, u) = CHOOSE i \in 1 .. Len(seq) : First(i)
      BY <3>2, Zenon DEF Store!Place
    <3>5. k \in 1 .. Len(seq) /\ Len(seq) \in Nat
      BY <2>2, <1>1
    <3>6. First(k)
      <4>1. \A i \in 1 .. k - 1 : i \in 1 .. Len(seq)
        BY <3>5
      <4> QED
        BY <4>1, <3>1, <3>3, <3>5, <2>2
    <3>7. ASSUME NEW i \in 1 .. Len(seq), First(i) PROVE i = k
      <4>1. ~(k < i)
        <5>1. k < i => k \in 1 .. i - 1
          BY <3>5
        <5> QED
          BY <5>1, <3>6, <3>7
      <4>2. ~(i < k)
        <5>1. i < k => i \in 1 .. k - 1
          BY <3>5
        <5> QED
          BY <5>1, <3>6, <3>7
      <4> QED
        BY <4>1, <4>2, <3>5
    <3> HIDE DEF First
    <3> QED
      BY <3>4, <3>5, <3>6, <3>7
  <2> QED
    BY <2>1, <2>2, <1>1
<1>3. seq2 = SubSeq(seq, 1, k - 1) \o <<u>> \o SubSeq(seq, k, Len(seq))
  BY PutIs
<1> QED
  BY <1>2, <1>3, Zenon DEF Store!Linked

LEMMA UnlinkedIs ==
  ASSUME NEW u \in Uris, NEW seq, NEW seq2, NEW k, PutAt(Uris, seq2, seq, k, u),
         \A i, j \in 1 .. Len(seq) : seq[i] = seq[j] => i = j
  PROVE  Store!Unlinked(seq, u) = seq2
<1> DEFINE at == CHOOSE i \in 1 .. Len(seq) : seq[i] = u
<1>1. k \in 1 .. Len(seq) /\ seq[k] = u
  BY DEF PutAt
<1>2. at \in 1 .. Len(seq) /\ seq[at] = u
  BY <1>1, Zenon
<1>3. at = k
  BY <1>1, <1>2
<1>4. seq2 = SubSeq(seq, 1, k - 1) \o SubSeq(seq, k + 1, Len(seq))
  BY PutIsTaken
<1>5. Store!Unlinked(seq, u) = SubSeq(seq, 1, at - 1) \o SubSeq(seq, at + 1, Len(seq))
  BY Zenon DEF Store!Unlinked
<1> HIDE DEF at
<1> QED
  BY <1>3, <1>4, <1>5, Zenon

-----------------------------------------------------------------------------
(* The view, in terms of the blocks that are linked and of their names.    *)

Stands(T, P) == TreeTyped /\ Forest(T) /\ DataOwn(T) /\ Named(T, P)

Content(b) ==
  [mutex |-> blk[b].mutex, lastModified |-> blk[b].lastModified, clocktime |-> blk[b].clocktime]

NamesIn(T, P) == {u \in Uris : \E b \in OfRoot(T, u.root) : P[b] = u}

TreeIs(T, P, t) ==
  /\ t = [u \in NamesIn(T, P) |-> t[u]]
  /\ \A r \in Roots : \A b \in OfRoot(T, r) : t[P[b]] = Content(b)

ViewOf(t, o, n, s, m) ==
  [tree |-> t, order |-> o, blocks |-> n, slots |-> s, lastModifier |-> m, fault |-> FALSE]

Orders(P) == [r \in Roots |-> Names(P, PostOrder(list[r]))]

SlotsTaken == [r \in Roots |-> Cardinality(pool[r])]

Shown(T, P, t) ==
  TreeIs(T, P, t) /\ StoreView = ViewOf(t, Orders(P), Cardinality(used), SlotsTaken, lastModifier)

AllShown == \A T, P : Stands(T, P) => \E t : Shown(T, P, t)

LEMMA ViewShows == AllShown
<1> SUFFICES ASSUME NEW T, NEW P, Stands(T, P) PROVE \E t : Shown(T, P, t)
  BY DEF AllShown
<1>0. TreeTyped /\ LinksTyped /\ Forest(T) /\ Named(T, P)
  BY TypedLinks DEF Stands
<1>1. PICK at : at = [u \in Uris |-> Resource(u)]
  OBVIOUS
<1>2. \A u \in Uris : /\ at[u] = Lookup(u).resource
                      /\ at[u] # NULL => at[u] \in OfRoot(T, u.root) /\ P[at[u]] = u
                      /\ \A b \in OfRoot(T, u.root) : P[b] = u => at[u] = b
  <2> TAKE u \in Uris
  <2>1. PICK l : l = Lookup(u)
    OBVIOUS
  <2>2. at[u] = l.resource
    BY <2>1, <1>1, Zenon DEF Resource
  <2>3. /\ l.resource # NULL => l.resource \in OfRoot(T, u.root) /\ P[l.resource] = u
        /\ \A b \in OfRoot(T, u.root) : P[b] = u => l.resource = b
    BY <2>1, <1>0, LookupIs
  <2> QED
    BY <2>1, <2>2, <2>3
<1>3. \A r \in Roots : \A b \in OfRoot(T, r) : b \in Blocks /\ b # NULL /\ P[b] \in Uris /\ P[b].root = r
  <2> TAKE r \in Roots
  <2> TAKE b \in OfRoot(T, r)
  <2>1. b # NULL /\ b \in Blocks
    BY <1>0, HangsLess
  <2> QED
    BY <2>1, <1>0 DEF Named
<1>4. at \in [Uris -> Links] /\ \A u \in Uris : u.root \in Roots
  BY <1>1, <1>2, <1>3, UriIs DEF Links
<1>5. {u \in Uris : at[u] # NULL} = NamesIn(T, P)
  BY <1>2, <1>3, <1>4 DEF NamesIn
<1>6. PICK t : t = [u \in {v \in Uris : at[v] # NULL} |->
                      [mutex        |-> blk[at[u]].mutex,
                       lastModified |-> blk[at[u]].lastModified,
                       clocktime    |-> blk[at[u]].clocktime]]
  OBVIOUS
<1>7. TreeIs(T, P, t)
  <2>1. t = [u \in NamesIn(T, P) |-> t[u]]
    BY <1>5, <1>6
  <2>2. ASSUME NEW r \in Roots, NEW b \in OfRoot(T, r) PROVE t[P[b]] = Content(b)
    <3>1. P[b] \in NamesIn(T, P) /\ at[P[b]] = b
      BY <1>2, <1>3 DEF NamesIn
    <3> QED
      BY <3>1, <1>5, <1>6 DEF Content
  <2> QED
    BY <2>1, <2>2 DEF TreeIs
<1>8. PICK o : o = [r \in Roots |-> UriWalk(r)]
  OBVIOUS
<1>9. o = Orders(P)
  <2>1. \A r \in Roots : UriWalk(r) = Names(P, PostOrder(list[r]))
    BY <1>0, WalkNames
  <2> QED
    BY <2>1, <1>8 DEF Orders
<1>10. StoreView = ViewOf(t, o, Cardinality(used), SlotsTaken, lastModifier)
  <2> DEFINE view0 == [a \in [Uris -> Links] |->
        [tree         |-> [u \in {v \in Uris : a[v] # NULL} |->
                             [mutex        |-> blk[a[u]].mutex,
                              lastModified |-> blk[a[u]].lastModified,
                              clocktime    |-> blk[a[u]].clocktime]],
         order        |-> [r \in Roots |-> UriWalk(r)],
         blocks       |-> Cardinality(used),
         slots        |-> [r \in Roots |-> Cardinality(pool[r])],
         lastModifier |-> lastModifier,
         fault        |-> FALSE]]
  <2>1. StoreView = view0[at]
    BY <1>1, Zenon DEF StoreView
  <2>2. view0[at] = ViewOf(t, o, Cardinality(used), SlotsTaken, lastModifier)
    BY <1>4, <1>6, <1>8, Zenon DEF ViewOf, SlotsTaken
  <2> QED
    BY <2>1, <2>2
<1> QED
  BY <1>7, <1>9, <1>10 DEF Shown

LEMMA ViewShowsThen == AllShown'
BY ViewShows, PTL

-----------------------------------------------------------------------------
(* The calls that link and unlink nothing.                                 *)

SameLinks ==
  /\ list' = list /\ used \subseteq used' /\ \A r \in Roots : pool[r] \subseteq pool'[r]
  /\ \A b \in used : /\ blk'[b].next = blk[b].next /\ blk'[b].prev = blk[b].prev
                     /\ blk'[b].subRoot = blk[b].subRoot /\ blk'[b].data = blk[b].data
                     /\ blk'[b].name = blk[b].name

LEMMA SameOrders ==
  ASSUME NEW T, LinksTyped, Forest(T), LinksTyped', Forest(T)', SameLinks, NEW r \in Roots
  PROVE  PostOrder(list[r])' = PostOrder(list[r])
<1> PICK At : At = OfRoot(T, r)
  OBVIOUS
<1>0. At = OfRoot(T, r)' /\ list[r] \in At \cup {NULL} /\ list'[r] = list[r]
  BY DEF OfRoot, SameLinks, Forest
<1>1. PICK O, O2 : O = [d \in Links |-> PostOrder(d)] /\ O2 = [d \in Links |-> PostOrder(d)']
  OBVIOUS
<1>2. \A c \in At : /\ c \in Links /\ c # NULL /\ c \in used
                    /\ blk[c].subRoot \in At \cup {NULL} /\ blk[c].next \in At \cup {NULL}
                    /\ blk'[c].subRoot = blk[c].subRoot /\ blk'[c].next = blk[c].next
                    /\ Cardinality(T[c]) \in Nat
                    /\ blk[c].subRoot # NULL => Cardinality(T[blk[c].subRoot]) < Cardinality(T[c])
                    /\ blk[c].next # NULL => Cardinality(T[blk[c].next]) < Cardinality(T[c])
  <2> TAKE c \in At
  <2>1. /\ Cardinality(T[c]) \in 1 .. MaxResources /\ c \in Blocks /\ c # NULL
        /\ Cardinality(Hang(T, blk[c].subRoot)) \in 0 .. (Cardinality(T[c]) - 1)
        /\ Cardinality(Hang(T, blk[c].next)) \in 0 .. (Cardinality(T[c]) - 1)
    BY HangsLess
  <2>2. InOrder(T, At, c)
    BY DEF Forest
  <2>3. c \in used /\ blk[c].subRoot \in At \cup {NULL} /\ blk[c].next \in At \cup {NULL}
    BY <2>2 DEF InOrder
  <2>4. /\ blk[c].subRoot # NULL => Cardinality(T[blk[c].subRoot]) < Cardinality(T[c])
        /\ blk[c].next # NULL => Cardinality(T[blk[c].next]) < Cardinality(T[c])
    BY <2>1 DEF Hang, LinksTyped
  <2> QED
    BY <2>1, <2>3, <2>4 DEF LinksTyped, Links, SameLinks
<1>3. /\ NULL \in Links /\ O[NULL] = <<>> /\ O2[NULL] = <<>>
      /\ \A d \in At : /\ O[d] = O[blk[d].subRoot] \o <<d>> \o O[blk[d].next]
                       /\ O2[d] = O2[blk[d].subRoot] \o <<d>> \o O2[blk[d].next]
  <2>0. NULL \in Links /\ \A d \in At : blk[d].subRoot \in Links /\ blk[d].next \in Links /\ d \in Links
    BY <1>2 DEF Links
  <2>1. Unfolded(T, r) /\ Unfolded(T, r)'
    BY OrdersUnfold, OrdersUnfoldThen DEF AllUnfold
  <2>2. \A d \in Links : O[d] = PostOrder(d) /\ O2[d] = PostOrder(d)'
    BY <1>1
  <2>3. O[NULL] = <<>> /\ \A d \in At : O[d] = O[blk[d].subRoot] \o <<d>> \o O[blk[d].next]
    BY <2>0, <2>1, <2>2 DEF Unfolded
  <2>4. O2[NULL] = <<>> /\ \A d \in At : O2[d] = O2[blk'[d].subRoot] \o <<d>> \o O2[blk'[d].next]
    <3>1. \A d \in At : blk'[d].subRoot \in Links /\ blk'[d].next \in Links
      BY <2>0, <1>2
    <3> QED
      BY <2>0, <2>1, <2>2, <3>1, <1>0 DEF Unfolded
  <2> QED
    BY <2>0, <2>3, <2>4, <1>2
<1> DEFINE rank == [c \in At |-> Cardinality(T[c])]
           Good == {d \in At : O2[d] = O[d]}
<1>4. ASSUME NEW d \in At, \A c \in At : rank[c] < rank[d] => c \in Good PROVE d \in Good
  <2>1. \A x \in {blk[d].subRoot, blk[d].next} : x # NULL => x \in Good
    BY <1>2, <1>4
  <2>2. \A x \in {blk[d].subRoot, blk[d].next} : O2[x] = O[x]
    BY <2>1, <1>3
  <2> QED
    BY <2>2, <1>3
<1>5. Good = At
  <2>1. rank \in [At -> Nat] /\ Good \in SUBSET At
    BY <1>2
  <2> HIDE DEF rank, Good
  <2> QED
    BY <2>1, <1>4, RankInduction
<1>6. O2[list[r]] = O[list[r]]
  BY <1>0, <1>3, <1>5
<1>7. list[r] \in Links
  BY <1>0, <1>2, <1>3
<1>8. O2[list'[r]] = PostOrder(list[r])'
  BY <1>0, <1>1, <1>7
<1> QED
  BY <1>0, <1>1, <1>6, <1>7, <1>8

(* A block that is in use keeps its uri.                                   *)
LEMMA SameStands ==
  ASSUME NEW T, NEW P, Stands(T, P), TreeTyped', SameLinks
  PROVE  Stands(T, P)' /\ Orders(P)' = Orders(P)
<1>1. Forest(T)' /\ DataOwn(T)'
  BY SameForest DEF Stands, SameLinks
<1>2. LinksTyped /\ LinksTyped'
  <2>1. TreeTyped' => LinksTyped'
    BY TreeAssumption DEF TreeTyped, LinksTyped, Block, Links
  <2> QED
    BY <2>1, TypedLinks DEF Stands
<1>3. \A r \in Roots : PostOrder(list[r])' = PostOrder(list[r])
  BY <1>1, <1>2, SameOrders DEF Stands
<1>4. Named(T, P)'
  <2>1. \A r \in Roots : OfRoot(T, r)' = OfRoot(T, r) /\ list'[r] = list[r]
    BY DEF OfRoot, SameLinks
  <2>2. \A r \in Roots : \A b \in OfRoot(T, r) :
          b \in used /\ blk'[b].next = blk[b].next /\ blk'[b].subRoot = blk[b].subRoot /\ blk'[b].name = blk[b].name
    BY DEF Stands, Forest, InOrder, SameLinks
  <2> QED
    BY <2>1, <2>2 DEF Stands, Named
<1>5. Orders(P)' = Orders(P)
  BY <1>3 DEF Orders
<1> QED
  BY <1>1, <1>4, <1>5 DEF Stands

-----------------------------------------------------------------------------
(* A block n that is linked as u.                                          *)

Places(T, P, u, n, folder, first) ==
  \/ /\ folder = NULL /\ first = list[u.root] /\ Level(u) = 1
     /\ list' = [list EXCEPT ![u.root] = n]
  \/ /\ folder \in OfRoot(T, u.root) /\ first = blk[folder].subRoot
     /\ Level(u) > 1 /\ P[folder] = Folder(u) /\ list' = list

Linking(T, P, S, u, n, folder, first) ==
  /\ Stands(T, P) /\ LinkedNow(T, S, u, n, folder, first) /\ Places(T, P, u, n, folder, first)
  /\ \A b \in OfRoot(T, u.root) : P[b] # u

NamesToo(P, n, u) == [b \in Blocks |-> IF b = n THEN u ELSE P[b]]

LEMMA LinkingIs ==
  ASSUME NEW T, NEW P, NEW S, NEW u \in Uris, NEW n, NEW folder, NEW first,
         Linking(T, P, S, u, n, folder, first)
  PROVE  /\ TreeTyped /\ LinksTyped /\ Forest(T) /\ Named(T, P)
         /\ TreeTyped' /\ LinksTyped' /\ Forest(S)' /\ DataOwn(S)'
         /\ n \in Blocks \ used /\ Links2(T, u.root, n, folder, first)
         /\ first \in OfRoot(T, u.root) \cup {NULL}
         /\ \A q \in Roots : \A b \in OfRoot(T, q) :
              /\ b \in Blocks /\ b # NULL /\ b # n /\ P[b] \in Uris /\ P[b].root = q
              /\ b \in OfRoot(S, q)' /\ InOrder(T, OfRoot(T, q), b)
<1>1. TreeTyped /\ LinksTyped /\ Forest(T) /\ Named(T, P)
  BY TypedLinks DEF Linking, Stands
<1>2. TreeTyped' /\ Forest(S)' /\ DataOwn(S)' /\ n \in Blocks \ used
  BY DEF Linking, LinkedNow
<1>3. LinksTyped'
  BY <1>2, TreeAssumption DEF TreeTyped, LinksTyped, Block, Links
<1>4. Links2(T, u.root, n, folder, first)
  BY DEF Linking, LinkedNow, Places, Links2
<1>5. ASSUME NEW q \in Roots, NEW b \in OfRoot(T, q)
      PROVE  /\ b \in Blocks /\ b # NULL /\ b # n /\ P[b] \in Uris /\ P[b].root = q
             /\ b \in OfRoot(S, q)' /\ InOrder(T, OfRoot(T, q), b)
  <2>1. b \in Blocks /\ b # NULL
    BY <1>1, HangsLess
  <2>2. InOrder(T, OfRoot(T, q), b) /\ b \in used
    BY <1>1 DEF Forest, InOrder
  <2>3. b \in OfRoot(S, q)'
    BY DEF Linking, LinkedNow
  <2> QED
    BY <2>1, <2>2, <2>3, <1>1, <1>2 DEF Named
<1>6. first \in OfRoot(T, u.root) \cup {NULL}
  <2>1. CASE first = list[u.root]
    BY <2>1, <1>1, UriIs DEF Forest
  <2>2. CASE folder \in OfRoot(T, u.root) /\ first = blk[folder].subRoot
    BY <2>2, <1>5, UriIs DEF InOrder
  <2> QED
    BY <2>1, <2>2 DEF Linking, Places
<1> QED
  BY <1>1, <1>2, <1>3, <1>4, <1>5, <1>6

LEMMA LinkNames ==
  ASSUME NEW T, NEW P, NEW S, NEW u \in Uris, NEW n, NEW folder, NEW first,
         Linking(T, P, S, u, n, folder, first), NEW P2, P2 = NamesToo(P, n, u)
  PROVE  Stands(S, P2)'
<1> PICK r : r = u.root
  OBVIOUS
<1>0. /\ r \in Roots /\ Level(u) \in Nat /\ Level(u) > 0
      /\ P2[n] = u /\ \A b \in Blocks \ {n} : P2[b] = P[b]
  BY LinkingIs, UriIs DEF NamesToo
<1>1. /\ Named(T, P) /\ first \in OfRoot(T, r) \cup {NULL} /\ n \in Blocks /\ n # NULL
      /\ \A q \in Roots : \A b \in OfRoot(T, q) :
           /\ b \in Blocks /\ b # NULL /\ b # n /\ P[b] \in Uris /\ P[b].root = q
           /\ b \in OfRoot(S, q)' /\ InOrder(T, OfRoot(T, q), b)
           /\ P2[b] = P[b] /\ Level(P[b]) \in Nat /\ Level(P[b]) > 0
  <2>1. /\ Named(T, P) /\ first \in OfRoot(T, r) \cup {NULL} /\ n \in Blocks
        /\ \A q \in Roots : \A b \in OfRoot(T, q) :
             /\ b \in Blocks /\ b # NULL /\ b # n /\ P[b] \in Uris /\ P[b].root = q
             /\ b \in OfRoot(S, q)' /\ InOrder(T, OfRoot(T, q), b)
    BY LinkingIs
  <2>2. n # NULL
    BY <2>1 DEF Blocks, NULL
  <2>3. \A v \in Uris : Level(v) \in Nat /\ Level(v) > 0
    BY UriIs
  <2> QED
    BY <2>1, <2>2, <2>3, <1>0
<1>2. /\ blk'[n].subRoot = NULL /\ blk'[n].next = first /\ blk'[n].name = u.path[Len(u.path)]
      /\ \A c \in Blocks \ {n} :
           /\ blk'[c].next = blk[c].next /\ blk'[c].name = blk[c].name
           /\ blk'[c].subRoot = (IF c = folder THEN n ELSE blk[c].subRoot)
      /\ \A q \in Roots : OfRoot(S, q)' = IF q = r THEN OfRoot(T, q) \cup {n} ELSE OfRoot(T, q)
      /\ \A b \in OfRoot(T, r) : P[b] # u
  BY <1>0 DEF Linking, LinkedNow, SameContent
<1>3. \/ /\ folder = NULL /\ first = list[r] /\ Level(u) = 1 /\ list' = [list EXCEPT ![r] = n]
      \/ /\ folder \in OfRoot(T, r) /\ first = blk[folder].subRoot
         /\ Level(u) > 1 /\ P[folder] = Folder(u) /\ list' = list
  BY <1>0 DEF Linking, Places
<1>4. ASSUME folder # NULL
      PROVE  /\ folder \in OfRoot(T, r) /\ first = blk[folder].subRoot /\ Level(u) = Level(P[folder]) + 1
             /\ Agree(u, P[folder], Level(P[folder])) /\ list' = list
  <2>1. folder \in OfRoot(T, r) /\ first = blk[folder].subRoot /\ Level(u) > 1 /\ P[folder] = Folder(u) /\ list' = list
    BY <1>3, <1>4
  <2>2. P[folder] \in Uris
    BY <1>0, <1>1, <2>1
  <2> QED
    BY <1>0, <2>1, <2>2, FolderIs
<1>5. list \in [Roots -> Links] /\ \A q \in Roots : list[q] \in OfRoot(T, q) \cup {NULL}
  BY LinkingIs DEF TreeTyped, Forest
<1>6. ASSUME NEW q \in Roots, list'[q] # NULL PROVE Level(P2[list'[q]]) = 1
  <2>1. CASE list'[q] = list[q]
    BY <2>1, <1>0, <1>1, <1>5, <1>6 DEF Named
  <2>2. CASE list'[q] # list[q]
    BY <2>2, <1>0, <1>3, <1>5
  <2> QED
    BY <2>1, <2>2
<1>7. ASSUME NEW q \in Roots, NEW b \in OfRoot(S, q)'
      PROVE  /\ P2[b] \in Uris /\ P2[b].root = q /\ blk'[b].name = P2[b].path[Level(P2[b])]
             /\ blk'[b].subRoot # NULL =>
                  /\ Level(P2[blk'[b].subRoot]) = Level(P2[b]) + 1
                  /\ Agree(P2[blk'[b].subRoot], P2[b], Level(P2[b]))
             /\ blk'[b].next # NULL =>
                  /\ Level(P2[blk'[b].next]) = Level(P2[b])
                  /\ Agree(P2[blk'[b].next], P2[b], Level(P2[b]) - 1)
  <2>1. CASE b = n
    <3>1. q = r
      BY <2>1, <1>0, <1>1, <1>2, <1>7
    <3>2. ASSUME first # NULL PROVE Level(P[first]) = Level(u) /\ Agree(P[first], u, Level(u) - 1)
      <4>1. first \in OfRoot(T, r)
        BY <1>1, <3>2
      <4>2. CASE folder = NULL
        <5>1. Level(u) = 1 /\ Level(P[first]) = 1
          BY <4>2, <1>0, <1>1, <1>3, <3>2 DEF Named
        <5> QED
          BY <5>1 DEF Agree
      <4>3. CASE folder # NULL
        <5>1. /\ folder \in OfRoot(T, r) /\ first = blk[folder].subRoot /\ Level(u) = Level(P[folder]) + 1
              /\ Agree(u, P[folder], Level(P[folder]))
          BY <4>3, <1>4
        <5>2. Level(P[first]) = Level(P[folder]) + 1 /\ Agree(P[first], P[folder], Level(P[folder]))
          BY <5>1, <3>2, <1>0, <1>1 DEF Named
        <5> QED
          BY <5>1, <5>2, <4>1, <1>0, <1>1 DEF Agree
      <4> QED
        BY <4>2, <4>3
    <3>3. first # NULL => P2[first] = P[first]
      BY <1>0, <1>1
    <3> QED
      BY <2>1, <3>1, <3>2, <3>3, <1>0, <1>2 DEF Level
  <2>2. CASE b # n
    <3>1. b \in OfRoot(T, q) /\ P2[b] = P[b] /\ b \in Blocks \ {n}
      BY <2>2, <1>1, <1>2, <1>7
    <3>2. /\ P[b] \in Uris /\ P[b].root = q /\ blk[b].name = P[b].path[Level(P[b])]
          /\ blk[b].subRoot # NULL =>
               Level(P[blk[b].subRoot]) = Level(P[b]) + 1 /\ Agree(P[blk[b].subRoot], P[b], Level(P[b]))
          /\ blk[b].next # NULL =>
               Level(P[blk[b].next]) = Level(P[b]) /\ Agree(P[blk[b].next], P[b], Level(P[b]) - 1)
      BY <3>1, <1>1 DEF Named
    <3>3. blk[b].subRoot \in OfRoot(T, q) \cup {NULL} /\ blk[b].next \in OfRoot(T, q) \cup {NULL}
      BY <3>1, <1>1 DEF InOrder
    <3>4. /\ blk[b].subRoot # NULL => P2[blk[b].subRoot] = P[blk[b].subRoot]
          /\ blk[b].next # NULL => P2[blk[b].next] = P[blk[b].next]
      BY <3>3, <1>1
    <3>5. blk'[b].next = blk[b].next /\ blk'[b].name = blk[b].name
          /\ blk'[b].subRoot = (IF b = folder THEN n ELSE blk[b].subRoot)
      BY <3>1, <1>2
    <3>6. CASE b = folder
      <4>1. folder # NULL
        BY <3>1, <3>6, <1>1
      <4>2. Level(u) = Level(P[b]) + 1 /\ Agree(u, P[b], Level(P[b]))
        BY <4>1, <3>6, <1>4
      <4> QED
        BY <4>2, <3>1, <3>2, <3>4, <3>5, <3>6, <1>0
    <3>7. CASE b # folder
      BY <3>1, <3>2, <3>4, <3>5, <3>7
    <3> QED
      BY <3>6, <3>7
  <2> QED
    BY <2>1, <2>2
<1>8. ASSUME NEW q \in Roots, NEW b \in OfRoot(S, q)', NEW c \in OfRoot(S, q)', P2[b] = P2[c] PROVE b = c
  <2>1. \A x \in OfRoot(S, q)' : (x = n /\ q = r) \/ (x \in OfRoot(T, q) /\ P2[x] = P[x])
    BY <1>1, <1>2
  <2>2. CASE b \in OfRoot(T, q) /\ c \in OfRoot(T, q)
    BY <2>2, <1>1, <1>8 DEF Named
  <2>3. CASE ~(b \in OfRoot(T, q) /\ c \in OfRoot(T, q))
    BY <2>1, <2>3, <1>0, <1>2, <1>8
  <2> QED
    BY <2>2, <2>3
<1>9. Named(S, P2)'
  BY <1>6, <1>7, <1>8 DEF Named
<1> QED
  BY <1>9, LinkingIs DEF Stands

(* The new block stands before what the folder held, or first.             *)
LEMMA LinkPlaces ==
  ASSUME NEW T, NEW P, NEW S, NEW u \in Uris, NEW n, NEW folder, NEW first,
         Linking(T, P, S, u, n, folder, first)
  PROVE  /\ \A q \in Roots \ {u.root} : PostOrder(list[q])' = PostOrder(list[q])
         /\ \E k : /\ Inserts(PostOrder(list[u.root]), PostOrder(list[u.root])', k, n)
                   /\ folder = NULL => k = 1
                   /\ folder # NULL =>
                        MeetsAt(PostOrder(list[u.root]), k, {folder} \cup Hang(T, blk[folder].subRoot))
<1> PICK r, F : r = u.root /\ F = {folder} \cup Hang(T, first)
  OBVIOUS
<1>1. /\ LinksTyped /\ Forest(T) /\ LinksTyped' /\ Forest(S)' /\ n \in Blocks \ used /\ r \in Roots
      /\ Links2(T, r, n, folder, first) /\ first \in OfRoot(T, r) \cup {NULL}
      /\ list \in [Roots -> Links]
  BY LinkingIs, UriIs DEF TreeTyped
<1>2. \A q \in Roots : /\ OfRoot(T, q) \subseteq OfRoot(S, q)'
                       /\ q = r => n \in OfRoot(S, q)'
  BY <1>1 DEF Linking, LinkedNow
<1>3. /\ \A q \in Roots : list[q] \in OfRoot(T, q) \cup {NULL} /\ (list[q] # NULL => T[list[q]] = OfRoot(T, q))
      /\ \A q \in Roots \ {r} : OfRoot(T, q) \cap OfRoot(T, r) = {}
      /\ \A q \in Roots : NULL \notin OfRoot(T, q)
  <2>1. \A q \in Roots : NULL \notin OfRoot(T, q)
    BY <1>1, HangsLess
  <2> QED
    BY <2>1, <1>1 DEF Forest, OfRoot, Hang
<1>4. \/ /\ folder = NULL /\ first = list[r] /\ list' = [list EXCEPT ![r] = n]
      \/ /\ folder \in OfRoot(T, r) /\ first = blk[folder].subRoot /\ list' = list
  BY DEF Linking, Places
<1>5. ASSUME NEW q \in Roots, folder \in OfRoot(T, q) => q = r
      PROVE  /\ \A d \in OfRoot(T, q) \cup {NULL} : folder \notin Hang(T, d) \/ folder = NULL =>
                  PostOrder(d)' = PostOrder(d)
             /\ \A d \in OfRoot(T, q) : folder \in T[d] /\ folder # NULL =>
                  \E k : /\ Inserts(PostOrder(d), PostOrder(d)', k, n)
                         /\ MeetsAt(PostOrder(d), k, F)
  <2>1. OfRoot(T, q) \subseteq OfRoot(S, q)' /\ (folder \in OfRoot(T, q) => n \in OfRoot(S, q)')
    BY <1>2, <1>5
  <2>2. /\ LinksTyped /\ Forest(T) /\ LinksTyped' /\ Forest(S)' /\ n \in Blocks \ used /\ r \in Roots
        /\ Links2(T, r, n, folder, first)
    BY <1>1
  <2>3. PICK p : p = q
    OBVIOUS
  <2>4. p \in Roots /\ OfRoot(T, p) \subseteq OfRoot(S, p)' /\ (folder \in OfRoot(T, p) => n \in OfRoot(S, p)')
    BY <2>1, <2>3
  <2>5. /\ \A d \in OfRoot(T, p) \cup {NULL} : folder \notin Hang(T, d) \/ folder = NULL =>
             PostOrder(d)' = PostOrder(d)
        /\ \A d \in OfRoot(T, p) : folder \in T[d] /\ folder # NULL =>
             \E k : /\ Inserts(PostOrder(d), PostOrder(d)', k, n)
                    /\ MeetsAt(PostOrder(d), k, F)
    BY <2>2, <2>4, LinkBelow, ZenonT(60)
  <2> QED
    BY <2>3, <2>5
<1>6. ASSUME NEW q \in Roots \ {r} PROVE PostOrder(list[q])' = PostOrder(list[q])
  <2>1. list'[q] = list[q]
    BY <1>1, <1>4
  <2>2. folder \in OfRoot(T, q) => q = r
    BY <1>3, <1>4
  <2>3. folder \notin Hang(T, list[q]) \/ folder = NULL
    BY <1>3, <1>4 DEF Hang, OfRoot
  <2>4. PICK d : d = list[q]
    OBVIOUS
  <2>5. PostOrder(d)' = PostOrder(d)
    BY <2>2, <2>3, <2>4, <1>3, <1>5
  <2> QED
    BY <2>1, <2>4, <2>5
<1>7. CASE folder = NULL
  <2>1. first = list[r] /\ list'[r] = n
    BY <1>1, <1>3, <1>4, <1>7
  <2>2. PostOrder(first)' = PostOrder(first)
    BY <1>1, <1>3, <1>5, <1>7
  <2>3. blk'[n].subRoot = NULL /\ blk'[n].next = first
    BY <1>1 DEF Links2
  <2>4. Unfolded(S, r)' /\ Unfolded(T, r)
    BY <1>1, OrdersUnfold, OrdersUnfoldThen DEF AllUnfold
  <2>5. PostOrder(n)' = <<>> \o <<n>> \o PostOrder(first)
    <3>1. PICK w : w = PostOrder(n)'
      OBVIOUS
    <3>2. n \in OfRoot(S, r)'
      BY <1>1, <1>2
    <3>3. PICK c, e : c = blk'[n].subRoot /\ e = blk'[n].next
      OBVIOUS
    <3>4. PostOrder(n)' = PostOrder(c)' \o <<n>> \o PostOrder(e)'
      BY <2>4, <3>2, <3>3 DEF Unfolded
    <3>5. PostOrder(NULL)' = <<>>
      BY <2>4 DEF Unfolded
    <3> QED
      BY <3>3, <3>4, <3>5, <2>2, <2>3
  <2>6. PostOrder(first) \in Seq(Blocks)
    BY <2>4, <1>1 DEF Unfolded, Lists
  <2>7. Inserts(PostOrder(first), PostOrder(n)', 1, n)
    BY <2>5, <2>6, <1>1, InsertsHead
  <2>8. PostOrder(list[r])' = PostOrder(n)'
    BY <2>1
  <2>9. Inserts(PostOrder(list[r]), PostOrder(list[r])', 1, n)
    BY <2>1, <2>7, <2>8
  <2> QED
    BY <2>9, <1>6, <1>7
<1>8. CASE folder # NULL
  <2>1. folder \in OfRoot(T, r) /\ first = blk[folder].subRoot /\ list' = list
    BY <1>4, <1>8
  <2>2. PICK d : d = list[r]
    OBVIOUS
  <2>3. d \in OfRoot(T, r) /\ folder \in T[d]
    BY <2>1, <2>2, <1>1, <1>3 DEF OfRoot, Hang
  <2>4. PICK k : Inserts(PostOrder(d), PostOrder(d)', k, n) /\ MeetsAt(PostOrder(d), k, F)
    BY <2>3, <1>1, <1>5, <1>8
  <2>5. F = {folder} \cup Hang(T, blk[folder].subRoot)
    BY <2>1
  <2>6. Inserts(PostOrder(list[r]), PostOrder(list[r])', k, n) /\ MeetsAt(PostOrder(list[r]), k, F)
    BY <2>1, <2>2, <2>4
  <2> QED
    BY <2>5, <2>6, <1>6, <1>8
<1> QED
  BY <1>7, <1>8

LEMMA LinkOrders ==
  ASSUME NEW T, NEW P, NEW S, NEW u \in Uris, NEW n, NEW folder, NEW first,
         Linking(T, P, S, u, n, folder, first), NEW P2, P2 = NamesToo(P, n, u)
  PROVE  Orders(P2)' = [Orders(P) EXCEPT ![u.root] = Store!Linked(@, u)]
<1> PICK r : r = u.root
  OBVIOUS
<1>0. /\ r \in Roots /\ n \in Blocks /\ LinksTyped /\ Forest(T) /\ Named(T, P)
      /\ \A q \in Roots : \A b \in OfRoot(T, q) :
           b \in Blocks /\ b # NULL /\ b # n /\ P[b] \in Uris /\ P[b].root = q
  <2>1. r \in Roots
    BY UriIs
  <2>2. n \in Blocks /\ LinksTyped /\ Forest(T) /\ Named(T, P)
    BY LinkingIs
  <2>3. \A q \in Roots : \A b \in OfRoot(T, q) :
          /\ b \in Blocks /\ b # NULL /\ b # n /\ P[b] \in Uris /\ P[b].root = q
          /\ b \in OfRoot(S, q)' /\ InOrder(T, OfRoot(T, q), b)
    BY LinkingIs
  <2> QED
    BY <2>1, <2>2, <2>3
<1>1. P2[n] = u /\ \A b \in Blocks \ {n} : P2[b] = P[b]
  BY <1>0 DEF NamesToo
<1> PICK W, W2 : /\ W = [q \in Roots |-> PostOrder(list[q])]
                 /\ W2 = [q \in Roots |-> PostOrder(list[q])']
  OBVIOUS
<1>2. \A q \in Roots : W[q] \in Seq(Blocks) /\ \A i \in 1 .. Len(W[q]) : W[q][i] \in OfRoot(T, q)
  <2> TAKE q \in Roots
  <2>1. Lists(PostOrder(list[q]), OfRoot(T, q))
    BY <1>0, PostOrderLists
  <2> QED
    BY <2>1 DEF Lists
<1>3. Orders(P) = [q \in Roots |-> Names(P, W[q])] /\ Orders(P2)' = [q \in Roots |-> Names(P2, W2[q])]
  BY DEF Orders
<1>4. \A q \in Roots \ {r} : W2[q] = W[q]
  BY LinkPlaces
<1>5. ASSUME NEW q \in Roots \ {r} PROVE Names(P2, W2[q]) = Names(P, W[q])
  <2>1. \A i \in 1 .. Len(W[q]) : W[q][i] \in Blocks \ {n}
    BY <1>0, <1>2
  <2> QED
    BY <2>1, <1>1, <1>4 DEF Names
<1>6. PICK w, v, k : /\ w = W[r] /\ v = W2[r] /\ Inserts(w, v, k, n)
                     /\ folder = NULL => k = 1
                     /\ folder # NULL => MeetsAt(w, k, {folder} \cup Hang(T, blk[folder].subRoot))
  BY <1>0, LinkPlaces
<1>7. PutAt(Uris, Names(P, w), Names(P2, v), k, u)
  <2>1. \A i \in 1 .. Len(w) : w[i] # n /\ P[w[i]] \in Uris
    BY <1>0, <1>2, <1>6
  <2>2. PutAt(Uris, Names(P, w), Names(P2, v), k, P2[n])
    <3>1. n \in Blocks /\ P2[n] \in Uris /\ Inserts(w, v, k, n)
      BY <1>0, <1>1, <1>6
    <3>2. \A b \in Blocks \ {n} : P2[b] = P[b]
      BY <1>1
    <3> QED
      BY <2>1, <3>1, <3>2, NamesPut
  <2> QED
    BY <2>2, <1>1
<1>8. Store!Linked(Names(P, w), u) = Names(P2, v)
  <2>1. PICK seq : seq = Names(P, w)
    OBVIOUS
  <2>2. Len(seq) = Len(w) /\ Len(w) \in Nat /\ \A i \in 1 .. Len(w) : seq[i] = P[w[i]] /\ w[i] \in OfRoot(T, r)
    <3>1. w \in Seq(Blocks) /\ \A i \in 1 .. Len(w) : w[i] \in OfRoot(T, r)
      BY <1>0, <1>2, <1>6
    <3>2. NamesOf(P, w, seq)
      BY <2>1, <3>1, NamesAre
    <3> QED
      BY <3>1, <3>2 DEF NamesOf
  <2>3. CASE folder = NULL
    <3>1. Level(u) = 1 /\ k = 1
      BY <2>3, <1>0, <1>6 DEF Linking, Places
    <3> QED
      BY <3>1, <1>7, LinkedIs
  <2>4. CASE folder # NULL
    <3>1. folder \in OfRoot(T, r) /\ Level(u) > 1 /\ P[folder] = Folder(u)
      BY <2>4, <1>6, UriIs DEF Linking, Places
    <3>2. PICK F : F = {folder} \cup Hang(T, blk[folder].subRoot)
      OBVIOUS
    <3>3. MeetsAt(w, k, F)
      BY <2>4, <3>2, <1>6
    <3>4. \A b \in OfRoot(T, r) : Within(P[b], Folder(u)) <=> b \in F
      <4> TAKE b \in OfRoot(T, r)
      <4>1. /\ Agree(P[b], P[folder], Level(P[folder])) => b = folder \/ b \in Hang(T, blk[folder].subRoot)
            /\ b \in Hang(T, blk[folder].subRoot) => Agree(P[b], P[folder], Level(P[folder]))
        BY <3>1, <1>0, Below
      <4>2. P[b] \in Uris /\ P[folder] \in Uris /\ P[b].root = P[folder].root
        BY <3>1, <1>0
      <4>3. Agree(P[folder], P[folder], Level(P[folder]))
        BY <4>2, UriIs DEF Agree
      <4> QED
        BY <3>1, <3>2, <4>1, <4>2, <4>3 DEF Within
    <3>5. k \in 1 .. Len(w) /\ w[k] \in F /\ \A i \in 1 .. k - 1 : w[i] \notin F
      BY <3>3 DEF MeetsAt
    <3>6. k \in 1 .. Len(seq) /\ Within(seq[k], Folder(u)) /\ \A i \in 1 .. k - 1 : ~Within(seq[i], Folder(u))
      <4>1. \A i \in 1 .. k - 1 : i \in 1 .. Len(w)
        BY <2>2, <3>5
      <4> QED
        BY <2>2, <3>4, <3>5, <4>1
    <3>7. Level(u) # 1
      BY <3>1
    <3> QED
      BY <3>6, <3>7, <2>1, <1>7, LinkedIs
  <2> QED
    BY <2>3, <2>4
<1>9. Orders(P)[r] = Names(P, w) /\ Names(P2, W2[r]) = Store!Linked(Orders(P)[r], u)
  BY <1>0, <1>3, <1>6, <1>8
<1>10. [q \in Roots |-> Names(P2, W2[q])] = [Orders(P) EXCEPT ![r] = Store!Linked(@, u)]
  BY <1>0, <1>3, <1>5, <1>9
<1> QED
  BY <1>3, <1>10

-----------------------------------------------------------------------------
(* A block b that is unlinked.                                             *)

Unlinking(T, P, S, r, b, before, first) ==
  Stands(T, P) /\ r \in Roots /\ UnlinkedNow(T, S, r, b, before, first)

LEMMA UnlinkingIs ==
  ASSUME NEW T, NEW P, NEW S, NEW r, NEW b, NEW before, NEW first,
         Unlinking(T, P, S, r, b, before, first)
  PROVE  /\ LinksTyped /\ Forest(T) /\ Named(T, P) /\ list \in [Roots -> Links]
         /\ LinksTyped' /\ TreeTyped' /\ Forest(S)' /\ DataOwn(S)'
         /\ r \in Roots /\ b \in OfRoot(T, r) /\ first \in BOOLEAN /\ blk[b].subRoot = NULL
         /\ LinkedFrom(OfRoot(T, r), r, b, before, first) /\ Unlinks(r, b, before, first)
         /\ \A q \in Roots : OfRoot(S, q)' = OfRoot(T, q) \ {b}
<1>1. LinksTyped /\ Forest(T) /\ Named(T, P) /\ list \in [Roots -> Links]
  BY TypedLinks DEF Unlinking, Stands, TreeTyped
<1>2. TreeTyped' /\ LinksTyped'
  BY TreeAssumption DEF Unlinking, UnlinkedNow, TreeTyped, LinksTyped, Block, Links
<1> QED
  BY <1>1, <1>2 DEF Unlinking, UnlinkedNow

(* Who stays keeps its uri.                                                *)
LEMMA UnlinkNames ==
  ASSUME NEW T, NEW P, NEW S, NEW r, NEW b, NEW before, NEW first,
         Unlinking(T, P, S, r, b, before, first)
  PROVE  Stands(S, P)'
<1> PICK nb : nb = blk[b].next
  OBVIOUS
<1>1. /\ LinksTyped /\ Forest(T) /\ Named(T, P) /\ list \in [Roots -> Links]
      /\ r \in Roots /\ b \in OfRoot(T, r) /\ first \in BOOLEAN
      /\ LinkedFrom(OfRoot(T, r), r, b, before, first) /\ Unlinks(r, b, before, first)
      /\ \A q \in Roots : OfRoot(S, q)' = OfRoot(T, q) \ {b}
  BY UnlinkingIs
<1>2. \A q \in Roots : \A c \in OfRoot(T, q) :
        /\ c \in Blocks /\ c # NULL /\ P[c] \in Uris /\ Level(P[c]) \in Nat /\ Level(P[c]) > 0
        /\ blk[c].next \in OfRoot(T, q) \cup {NULL} /\ blk'[c].name = blk[c].name
  <2> TAKE q \in Roots
  <2> TAKE c \in OfRoot(T, q)
  <2>1. c \in Blocks /\ c # NULL
    BY <1>1, HangsLess
  <2>2. P[c] \in Uris
    BY <1>1 DEF Named
  <2>3. Level(P[c]) \in Nat /\ Level(P[c]) > 0
    BY <2>2, UriIs
  <2>4. InOrder(T, OfRoot(T, q), c)
    BY <1>1 DEF Forest
  <2> QED
    BY <2>1, <2>2, <2>3, <2>4 DEF InOrder, Unlinking, UnlinkedNow, SameContent
<1>3. nb # NULL => /\ nb \in OfRoot(T, r) /\ Level(P[nb]) = Level(P[b])
                   /\ Agree(P[nb], P[b], Level(P[b]) - 1)
  BY <1>1, <1>2 DEF Named
<1>4. ASSUME NEW q \in Roots, list'[q] # NULL PROVE Level(P[list'[q]]) = 1
  <2>1. CASE first /\ before = NULL /\ q = r
    <3>1. b = list[r] /\ list'[q] = nb
      BY <2>1, <1>1, <1>2 DEF LinkedFrom, Unlinks
    <3> QED
      BY <3>1, <1>1, <1>2, <1>3, <1>4 DEF Named
  <2>2. CASE ~(first /\ before = NULL /\ q = r)
    BY <2>2, <1>1, <1>4 DEF Unlinks, Named
  <2> QED
    BY <2>1, <2>2
<1>5. ASSUME NEW q \in Roots, NEW c \in OfRoot(S, q)'
      PROVE  /\ P[c] \in Uris /\ P[c].root = q /\ blk'[c].name = P[c].path[Level(P[c])]
             /\ blk'[c].subRoot # NULL =>
                  /\ Level(P[blk'[c].subRoot]) = Level(P[c]) + 1
                  /\ Agree(P[blk'[c].subRoot], P[c], Level(P[c]))
             /\ blk'[c].next # NULL =>
                  /\ Level(P[blk'[c].next]) = Level(P[c])
                  /\ Agree(P[blk'[c].next], P[c], Level(P[c]) - 1)
  <2>1. c \in OfRoot(T, q) /\ c # b /\ c \in Blocks
    BY <1>1, <1>2
  <2>2. /\ P[c] \in Uris /\ P[c].root = q /\ blk'[c].name = P[c].path[Level(P[c])]
        /\ blk[c].subRoot # NULL =>
             Level(P[blk[c].subRoot]) = Level(P[c]) + 1 /\ Agree(P[blk[c].subRoot], P[c], Level(P[c]))
        /\ blk[c].next # NULL =>
             Level(P[blk[c].next]) = Level(P[c]) /\ Agree(P[blk[c].next], P[c], Level(P[c]) - 1)
    BY <2>1, <1>1, <1>2 DEF Named
  <2>3. /\ blk'[c].next = (IF c = before /\ ~first THEN nb ELSE blk[c].next)
        /\ blk'[c].subRoot = (IF c = before /\ first THEN nb ELSE blk[c].subRoot)
    BY <2>1, <1>1 DEF Unlinks
  <2>4. b # NULL /\ Level(P[c]) \in Nat /\ Level(P[b]) \in Nat
    BY <2>1, <1>1, <1>2
  <2>5. ASSUME c = before, first, nb # NULL
        PROVE  Level(P[nb]) = Level(P[c]) + 1 /\ Agree(P[nb], P[c], Level(P[c]))
    <3>1. blk[c].subRoot = b
      BY <2>1, <2>5, <1>1, <1>2 DEF LinkedFrom
    <3>2. Level(P[b]) = Level(P[c]) + 1 /\ Agree(P[b], P[c], Level(P[c]))
      BY <3>1, <2>2, <2>4
    <3> QED
      BY <3>2, <2>4, <2>5, <1>3 DEF Agree
  <2>6. ASSUME c = before, ~first, nb # NULL
        PROVE  Level(P[nb]) = Level(P[c]) /\ Agree(P[nb], P[c], Level(P[c]) - 1)
    <3>1. blk[c].next = b
      BY <2>6, <1>1 DEF LinkedFrom
    <3>2. Level(P[b]) = Level(P[c]) /\ Agree(P[b], P[c], Level(P[c]) - 1)
      BY <3>1, <2>2, <2>4
    <3> QED
      BY <3>2, <2>4, <2>6, <1>3 DEF Agree
  <2>7. blk'[c].subRoot # NULL =>
          /\ Level(P[blk'[c].subRoot]) = Level(P[c]) + 1
          /\ Agree(P[blk'[c].subRoot], P[c], Level(P[c]))
    BY <2>2, <2>3, <2>5
  <2>8. blk'[c].next # NULL =>
          /\ Level(P[blk'[c].next]) = Level(P[c])
          /\ Agree(P[blk'[c].next], P[c], Level(P[c]) - 1)
    BY <2>2, <2>3, <2>6
  <2> QED
    BY <2>2, <2>7, <2>8
<1>6. \A q \in Roots : \A c, d \in OfRoot(S, q)' : P[c] = P[d] => c = d
  BY <1>1 DEF Named
<1>7. Named(S, P)'
  BY <1>4, <1>5, <1>6 DEF Named
<1>8. TreeTyped' /\ Forest(S)' /\ DataOwn(S)'
  BY UnlinkingIs
<1> QED
  BY <1>7, <1>8 DEF Stands

LEMMA UnlinkOrders ==
  ASSUME NEW T, NEW P, NEW S, NEW r, NEW b, NEW before, NEW first,
         Unlinking(T, P, S, r, b, before, first)
  PROVE  Orders(P)' = [Orders(P) EXCEPT ![r] = Store!Unlinked(@, P[b])]
<1> PICK nb : nb = blk[b].next
  OBVIOUS
<1>1. /\ LinksTyped /\ Forest(T) /\ Named(T, P) /\ list \in [Roots -> Links] /\ LinksTyped' /\ Forest(S)'
      /\ r \in Roots /\ b \in OfRoot(T, r) /\ first \in BOOLEAN /\ blk[b].subRoot = NULL
      /\ LinkedFrom(OfRoot(T, r), r, b, before, first) /\ Unlinks(r, b, before, first)
      /\ \A q \in Roots : OfRoot(S, q)' = OfRoot(T, q) \ {b}
  BY UnlinkingIs
<1>2. /\ \A q \in Roots : list[q] \in OfRoot(T, q) \cup {NULL} /\ Hang(T, list[q]) = OfRoot(T, q)
      /\ \A q \in Roots \ {r} : b \notin OfRoot(T, q)
      /\ b \in Blocks /\ b # NULL
  <2>1. b \in Blocks /\ b # NULL
    BY <1>1, HangsLess
  <2> QED
    BY <2>1, <1>1 DEF Forest, OfRoot
<1>3. (first /\ before = NULL) <=> list[r] = b
  <2>1. list[r] = b => before = NULL /\ first
    BY <1>1, LinkedOnce
  <2>2. \A c \in OfRoot(T, r) : c # NULL
    BY <1>1, HangsLess
  <2> QED
    BY <2>1, <2>2, <1>1 DEF LinkedFrom
<1>4. list'[r] = (IF list[r] = b THEN nb ELSE list[r]) /\ \A q \in Roots \ {r} : list'[q] = list[q]
  BY <1>1, <1>3 DEF Unlinks
<1>5. ASSUME NEW q \in Roots
      PROVE  /\ \A d \in OfRoot(T, q) \cup {NULL} : b \notin Hang(T, d) => PostOrder(d)' = PostOrder(d)
             /\ \A d \in OfRoot(T, q) : b \in T[d] =>
                  \E k : Inserts((IF d = b THEN PostOrder(nb)' ELSE PostOrder(d)'), PostOrder(d), k, b)
  <2>1. TakesOut(T, S, r, b, before, first)
    BY <1>1 DEF TakesOut
  <2>2. OfRoot(S, q)' = OfRoot(T, q) \ {b}
    BY <1>1
  <2>3. OrdersWithout(T, q, b, nb)
    BY <2>1, <2>2, UnlinkBelow
  <2> QED
    BY <2>3 DEF OrdersWithout
<1> PICK W, W2 : /\ W = [q \in Roots |-> PostOrder(list[q])]
                 /\ W2 = [q \in Roots |-> PostOrder(list[q])']
  OBVIOUS
<1>6. ASSUME NEW q \in Roots \ {r} PROVE W2[q] = W[q]
  <2>1. PICK d : d = list[q]
    OBVIOUS
  <2>2. PostOrder(d)' = PostOrder(d)
    BY <2>1, <1>2, <1>5
  <2>3. PostOrder(list[q])' = PostOrder(d)'
    BY <2>1, <1>4
  <2> QED
    BY <2>1, <2>2, <2>3
<1>7. PICK w, v, k : w = W[r] /\ v = W2[r] /\ Inserts(v, w, k, b)
  <2>1. PICK d : d = list[r]
    OBVIOUS
  <2>2. d \in OfRoot(T, r) /\ b \in T[d]
    BY <2>1, <1>1, <1>2 DEF Hang
  <2>3. PICK k : Inserts((IF d = b THEN PostOrder(nb)' ELSE PostOrder(d)'), PostOrder(d), k, b)
    BY <2>2, <1>1, <1>5
  <2>4. W2[r] = IF d = b THEN PostOrder(nb)' ELSE PostOrder(d)'
    <3>1. CASE d = b
      <4>1. list'[r] = nb
        BY <3>1, <2>1, <1>4
      <4> QED
        BY <3>1, <4>1, <1>1
    <3>2. CASE d # b
      <4>1. list'[r] = d
        BY <3>2, <2>1, <1>4
      <4> QED
        BY <3>2, <4>1, <1>1
    <3> QED
      BY <3>1, <3>2
  <2> QED
    BY <2>1, <2>3, <2>4, <1>1
<1>8. /\ w \in Seq(Blocks) /\ \A i \in 1 .. Len(w) : w[i] \in OfRoot(T, r)
      /\ \A i, j \in 1 .. Len(w) : i # j => w[i] # w[j]
  <2>1. Lists(PostOrder(list[r]), OfRoot(T, r))
    BY <1>1, PostOrderLists
  <2> QED
    BY <2>1, <1>1, <1>7 DEF Lists
<1>9. \A c \in OfRoot(T, r) : P[c] \in Uris
  BY <1>1 DEF Named
<1>10. PutAt(Uris, Names(P, v), Names(P, w), k, P[b])
  <2>1. /\ v \in Seq(Blocks) /\ k \in 1 .. Len(v) + 1 /\ Len(w) = Len(v) + 1
        /\ \A i \in 1 .. Len(w) : w[i] = IF i < k THEN v[i] ELSE IF i = k THEN b ELSE v[i - 1]
    BY <1>7 DEF Inserts
  <2>2. Len(v) \in Nat /\ k \in 1 .. Len(w) /\ w[k] = b
    BY <2>1
  <2>3. ASSUME NEW i \in 1 .. Len(v) PROVE v[i] # b /\ P[v[i]] \in Uris
    <3>1. PICK j \in 1 .. Len(w) : j # k /\ v[i] = w[j]
      <4>1. CASE i < k
        BY <4>1, <2>1, <2>2
      <4>2. CASE ~(i < k)
        <5>1. i + 1 \in 1 .. Len(w) /\ ~(i + 1 < k) /\ i + 1 # k /\ (i + 1) - 1 = i
          BY <4>2, <2>1, <2>2
        <5>2. w[i + 1] = v[i]
          BY <5>1, <2>1
        <5> QED
          BY <5>1, <5>2
      <4> QED
        BY <4>1, <4>2
    <3> QED
      BY <3>1, <2>2, <1>8, <1>9
  <2>4. P[b] \in Uris /\ b \in Blocks /\ \A c \in Blocks \ {b} : P[c] = P[c]
    BY <1>1, <1>2, <1>9
  <2> QED
    BY <2>3, <2>4, <1>7, NamesPut
<1>11. Store!Unlinked(Names(P, w), P[b]) = Names(P, v)
  <2>1. NamesOf(P, w, Names(P, w))
    BY <1>8, NamesAre
  <2>2. \A i, j \in 1 .. Len(Names(P, w)) : Names(P, w)[i] = Names(P, w)[j] => i = j
    <3>1. \A i \in 1 .. Len(w) : Names(P, w)[i] = P[w[i]]
      BY <2>1 DEF NamesOf
    <3>2. \A i, j \in 1 .. Len(w) : P[w[i]] = P[w[j]] => w[i] = w[j]
      BY <1>1, <1>8 DEF Named
    <3>3. Len(Names(P, w)) = Len(w)
      BY <2>1 DEF NamesOf
    <3> QED
      BY <3>1, <3>2, <3>3, <1>8
  <2>3. P[b] \in Uris
    BY <1>1, <1>9
  <2> QED
    BY <2>2, <2>3, <1>10, UnlinkedIs
<1>12. Orders(P) = [q \in Roots |-> Names(P, W[q])] /\ Orders(P)' = [q \in Roots |-> Names(P, W2[q])]
  BY DEF Orders
<1>13. Orders(P)[r] = Names(P, w)
  BY <1>1, <1>7, <1>12
<1>14. [q \in Roots |-> Names(P, W2[q])] = [Orders(P) EXCEPT ![r] = Store!Unlinked(@, P[b])]
  BY <1>1, <1>6, <1>7, <1>11, <1>12, <1>13
<1> QED
  BY <1>12, <1>14

-----------------------------------------------------------------------------
(* What the calls of ResourceStore do to a view.                           *)

Stored(t, o, n, s, m, f) ==
  [tree |-> t, order |-> o, blocks |-> n, slots |-> s, lastModifier |-> m, fault |-> f]

Fields == {"tree", "order", "blocks", "slots", "lastModifier", "fault"}

LEMMA StoredIs ==
  ASSUME NEW t, NEW o, NEW n, NEW s, NEW m, NEW f
  PROVE  Stored(t, o, n, s, m, f) =
           [k \in Fields |-> IF k = "tree" THEN t ELSE IF k = "order" THEN o ELSE IF k = "blocks" THEN n
                             ELSE IF k = "slots" THEN s ELSE IF k = "lastModifier" THEN m ELSE f]
BY DEF Stored, Fields

LEMMA ViewGet ==
  ASSUME NEW t, NEW o, NEW n, NEW s, NEW m
  PROVE  /\ ViewOf(t, o, n, s, m).tree = t /\ ViewOf(t, o, n, s, m).order = o
         /\ ViewOf(t, o, n, s, m).blocks = n /\ ViewOf(t, o, n, s, m).slots = s
         /\ ViewOf(t, o, n, s, m).lastModifier = m
BY DEF ViewOf

LEMMA ViewTree ==
  ASSUME NEW t, NEW o, NEW n, NEW s, NEW m, NEW x
  PROVE  [ViewOf(t, o, n, s, m) EXCEPT !.tree = x] = ViewOf(x, o, n, s, m)
<1> PICK f : f = FALSE
  OBVIOUS
<1>1. ViewOf(t, o, n, s, m) = Stored(t, o, n, s, m, f) /\ ViewOf(x, o, n, s, m) = Stored(x, o, n, s, m, f)
  BY DEF ViewOf, Stored
<1>2. [Stored(t, o, n, s, m, f) EXCEPT !.tree = x] = Stored(x, o, n, s, m, f)
  BY StoredIs DEF Fields
<1> QED
  BY <1>1, <1>2

LEMMA ViewOrder ==
  ASSUME NEW t, NEW o, NEW n, NEW s, NEW m, NEW x
  PROVE  [ViewOf(t, o, n, s, m) EXCEPT !.order = x] = ViewOf(t, x, n, s, m)
<1> PICK f : f = FALSE
  OBVIOUS
<1>1. ViewOf(t, o, n, s, m) = Stored(t, o, n, s, m, f) /\ ViewOf(t, x, n, s, m) = Stored(t, x, n, s, m, f)
  BY DEF ViewOf, Stored
<1>2. [Stored(t, o, n, s, m, f) EXCEPT !.order = x] = Stored(t, x, n, s, m, f)
  BY StoredIs DEF Fields
<1> QED
  BY <1>1, <1>2

LEMMA ViewBlocks ==
  ASSUME NEW t, NEW o, NEW n, NEW s, NEW m, NEW x
  PROVE  [ViewOf(t, o, n, s, m) EXCEPT !.blocks = x] = ViewOf(t, o, x, s, m)
<1> PICK f : f = FALSE
  OBVIOUS
<1>1. ViewOf(t, o, n, s, m) = Stored(t, o, n, s, m, f) /\ ViewOf(t, o, x, s, m) = Stored(t, o, x, s, m, f)
  BY DEF ViewOf, Stored
<1>2. [Stored(t, o, n, s, m, f) EXCEPT !.blocks = x] = Stored(t, o, x, s, m, f)
  BY StoredIs DEF Fields
<1> QED
  BY <1>1, <1>2

LEMMA ViewSlots ==
  ASSUME NEW t, NEW o, NEW n, NEW s, NEW m, NEW x
  PROVE  [ViewOf(t, o, n, s, m) EXCEPT !.slots = x] = ViewOf(t, o, n, x, m)
<1> PICK f : f = FALSE
  OBVIOUS
<1>1. ViewOf(t, o, n, s, m) = Stored(t, o, n, s, m, f) /\ ViewOf(t, o, n, x, m) = Stored(t, o, n, x, m, f)
  BY DEF ViewOf, Stored
<1>2. [Stored(t, o, n, s, m, f) EXCEPT !.slots = x] = Stored(t, o, n, x, m, f)
  BY StoredIs DEF Fields
<1> QED
  BY <1>1, <1>2

LEMMA ViewModifier ==
  ASSUME NEW t, NEW o, NEW n, NEW s, NEW m, NEW x
  PROVE  [ViewOf(t, o, n, s, m) EXCEPT !.lastModifier = x] = ViewOf(t, o, n, s, x)
<1> PICK f : f = FALSE
  OBVIOUS
<1>1. ViewOf(t, o, n, s, m) = Stored(t, o, n, s, m, f) /\ ViewOf(t, o, n, s, x) = Stored(t, o, n, s, x, f)
  BY DEF ViewOf, Stored
<1>2. [Stored(t, o, n, s, m, f) EXCEPT !.lastModifier = x] = Stored(t, o, n, s, x, f)
  BY StoredIs DEF Fields
<1> QED
  BY <1>1, <1>2

Grows(t, u, c) ==
  [v \in DOMAIN t \cup {u} |-> IF v = u THEN [mutex |-> FALSE, lastModified |-> 0, clocktime |-> c] ELSE t[v]]

LEMMA StoreAdds ==
  ASSUME NEW u \in Uris, NEW t, NEW o, NEW n, NEW s, NEW m, NEW c,
         u \notin DOMAIN t, n # MaxResources, s[u.root] # Capacity[u.root]
  PROVE  /\ Level(u) = 1 \/ Folder(u) \in DOMAIN t =>
              Store!Add(ViewOf(t, o, n, s, m), u, c) =
                ViewOf(Grows(t, u, c), [o EXCEPT ![u.root] = Store!Linked(@, u)],
                       n + 1, [s EXCEPT ![u.root] = @ + 1], m)
         /\ Level(u) > 1 /\ Folder(u) \notin DOMAIN t =>
              Store!Add(ViewOf(t, o, n, s, m), u, c) =
                ViewOf(t, o, n + 1, [s EXCEPT ![u.root] = @ + 1], m)
<1> PICK v, r : v = ViewOf(t, o, n, s, m) /\ r = u.root
  OBVIOUS
<1>1. v = [tree |-> t, order |-> o, blocks |-> n, slots |-> s, lastModifier |-> m, fault |-> FALSE]
  BY DEF ViewOf
<1>2. v.tree = t /\ v.order = o /\ v.blocks = n /\ v.slots = s /\ v.lastModifier = m
  BY <1>1
<1>3. [w \in Uris |-> w.root][u] = r
  OBVIOUS
<1>4. ~Store!Exists(v, u)
  BY <1>2 DEF Store!Exists
<1>5. Store!FolderFound(v, u) <=> Level(u) = 1 \/ Folder(u) \in DOMAIN t
  <2>1. Level(u) = 1 => Parent[u] = NoUri
    BY ParentIs
  <2>2. Level(u) > 1 => Parent[u] = Folder(u) /\ Parent[u] # NoUri
    BY ParentIs
  <2>3. Level(u) = 1 \/ Level(u) > 1
    BY UriIs
  <2>4. Level(u) > 1 => Level(u) # 1
    BY UriIs
  <2> QED
    BY <2>1, <2>2, <2>3, <2>4, <1>2, Zenon DEF Store!FolderFound, Store!Exists
<1>6. Store!AddCode(v, u) = IF Store!FolderFound(v, u) THEN 0 ELSE 5
  <2>1. v.blocks # MaxResources /\ v.slots[r] # Capacity[r]
    BY <1>2
  <2> QED
    BY <1>3, <1>4, <2>1, Zenon DEF Store!AddCode, Store!AddOk, Store!AddNoFolder
<1>7. Store!Taken(v, r) = ViewOf(t, o, n + 1, [s EXCEPT ![r] = @ + 1], m)
  <2>1. PICK v1 : v1 = [v EXCEPT !.blocks = n + 1]
    OBVIOUS
  <2>2. v1 = ViewOf(t, o, n + 1, s, m)
    BY <2>1, ViewGet, ViewTree, ViewOrder, ViewBlocks, ViewSlots, ViewModifier
  <2>3. v1.slots = s
    BY <2>2, ViewGet, ViewTree, ViewOrder, ViewBlocks, ViewSlots, ViewModifier
  <2>4. Store!Taken(v, r) = [v1 EXCEPT !.slots = [v1.slots EXCEPT ![r] = s[r] + 1]]
    BY <2>1, <1>2, Zenon DEF Store!Taken
  <2> QED
    BY <2>2, <2>3, <2>4, ViewGet, ViewTree, ViewOrder, ViewBlocks, ViewSlots, ViewModifier
<1>8. CASE Store!FolderFound(v, u)
  <2>1. Store!AddCode(v, u) = 0
    BY <1>6, <1>8
  <2>2. Store!Add(v, u, c) =
          [Store!Taken(v, r) EXCEPT !.tree = [w \in DOMAIN v.tree \cup {u} |->
                                               IF w = u THEN Store!NewEntry(c) ELSE v.tree[w]],
                                    !.order[r] = Store!Linked(@, u)]
    BY <2>1, <1>3 DEF Store!Add, Store!AddOk, Store!AddNoFolder, Store!AddNoBlock, Store!AddExists,
                      Store!AddRootFull
  <2>3. PICK tree : tree = Grows(t, u, c)
    OBVIOUS
  <2>4. tree = [w \in DOMAIN v.tree \cup {u} |-> IF w = u THEN Store!NewEntry(c) ELSE v.tree[w]]
    BY <2>3, <1>2 DEF Store!NewEntry, Grows
  <2>5. Store!Add(v, u, c) =
          [Store!Taken(v, r) EXCEPT !.tree = tree, !.order[r] = Store!Linked(@, u)]
    BY <2>2, <2>4
  <2>6. Store!Add(v, u, c) = ViewOf(tree, [o EXCEPT ![r] = Store!Linked(@, u)], n + 1, [s EXCEPT ![r] = @ + 1], m)
    <3>1. PICK v1, v2, s2 : /\ v1 = Store!Taken(v, r) /\ v2 = [v1 EXCEPT !.tree = tree]
                            /\ s2 = [s EXCEPT ![r] = @ + 1]
      OBVIOUS
    <3>2. v1 = ViewOf(t, o, n + 1, s2, m)
      BY <3>1, <1>7
    <3>3. v2 = ViewOf(tree, o, n + 1, s2, m) /\ v1.order = o
      <4>1. PICK n1 : n1 = n + 1
        OBVIOUS
      <4>2. v1 = ViewOf(t, o, n1, s2, m)
        BY <3>2, <4>1
      <4>3. [ViewOf(t, o, n1, s2, m) EXCEPT !.tree = tree] = ViewOf(tree, o, n1, s2, m)
        BY ViewTree
      <4>4. v1.order = o
        BY <4>2, ViewGet
      <4> QED
        BY <3>1, <4>1, <4>2, <4>3, <4>4, Zenon
    <3>4. v2.order = o
      BY <3>3, ViewGet, ViewTree, ViewOrder, ViewBlocks, ViewSlots, ViewModifier
    <3>5. Store!Add(v, u, c) = [v2 EXCEPT !.order = [v2.order EXCEPT ![r] = Store!Linked((v1.order)[r], u)]]
      BY <2>5, <3>1, Zenon
    <3>6. Store!Add(v, u, c) = ViewOf(tree, [o EXCEPT ![r] = Store!Linked(o[r], u)], n + 1, s2, m)
      <4>1. PICK n1, o2 : n1 = n + 1 /\ o2 = [o EXCEPT ![r] = Store!Linked(o[r], u)]
        OBVIOUS
      <4>2. Store!Add(v, u, c) = [ViewOf(tree, o, n1, s2, m) EXCEPT !.order = o2]
        BY <3>3, <3>4, <3>5, <4>1, Zenon
      <4>3. [ViewOf(tree, o, n1, s2, m) EXCEPT !.order = o2] = ViewOf(tree, o2, n1, s2, m)
        BY ViewOrder
      <4> QED
        BY <4>1, <4>2, <4>3, Zenon
    <3> QED
      BY <3>1, <3>6
  <2> QED
    BY <2>3, <2>6, <1>5, <1>8, UriIs
<1>9. CASE ~Store!FolderFound(v, u)
  <2>1. Store!AddCode(v, u) = 5
    BY <1>6, <1>9
  <2>2. Store!Add(v, u, c) = Store!Taken(v, r)
    BY <2>1, <1>3 DEF Store!Add, Store!AddOk, Store!AddNoFolder, Store!AddNoBlock, Store!AddExists,
                      Store!AddRootFull
  <2> QED
    BY <2>2, <1>5, <1>7, <1>9, UriIs
<1> QED
  BY <1>8, <1>9

LEMMA StoreDels ==
  ASSUME NEW u \in Uris, NEW t, NEW o, NEW n, NEW s, NEW m, u \in DOMAIN t,
         \A v \in DOMAIN t : Parent[v] # u
  PROVE  Store!Del(ViewOf(t, o, n, s, m), u) =
           ViewOf([v \in DOMAIN t \ {u} |-> t[v]], [o EXCEPT ![u.root] = Store!Unlinked(@, u)],
                  n - 1, [s EXCEPT ![u.root] = @ - 1], m)
<1> PICK v, r : v = ViewOf(t, o, n, s, m) /\ r = u.root
  OBVIOUS
<1>1. v = [tree |-> t, order |-> o, blocks |-> n, slots |-> s, lastModifier |-> m, fault |-> FALSE]
  BY DEF ViewOf
<1>2. v.tree = t
  BY <1>1
<1>3. [w \in Uris |-> w.root][u] = r
  OBVIOUS
<1>4. Store!Exists(v, u) /\ Store!Children(v, u) = {}
  BY <1>2 DEF Store!Exists, Store!Children
<1>5. Store!DelCode(v, u) = Store!DelOk
  BY <1>4, Zenon DEF Store!DelCode
<1>6. Store!Del(v, u) =
        [v EXCEPT !.tree = [w \in DOMAIN v.tree \ {u} |-> v.tree[w]],
                  !.order[r] = Store!Unlinked(@, u), !.blocks = @ - 1, !.slots[r] = @ - 1]
  BY <1>3, <1>5, Zenon DEF Store!Del
<1>7. PICK t2, o2, s2 : /\ t2 = [w \in DOMAIN t \ {u} |-> t[w]]
                        /\ o2 = [o EXCEPT ![r] = Store!Unlinked(@, u)] /\ s2 = [s EXCEPT ![r] = @ - 1]
  OBVIOUS
<1>8. PICK v1, v2, v3 : /\ v1 = [v EXCEPT !.tree = [w \in DOMAIN v.tree \ {u} |-> v.tree[w]]]
                        /\ v2 = [v1 EXCEPT !.order = [v1.order EXCEPT ![r] = Store!Unlinked((v.order)[r], u)]]
                        /\ v3 = [v2 EXCEPT !.blocks = v.blocks - 1]
  OBVIOUS
<1>9. v.tree = t /\ v.order = o /\ v.blocks = n /\ v.slots = s
  BY <1>1
<1>10. v1 = ViewOf(t2, o, n, s, m)
  BY <1>7, <1>8, <1>9, ViewGet, ViewTree, ViewOrder, ViewBlocks, ViewSlots, ViewModifier
<1>11. v2 = ViewOf(t2, o2, n, s, m)
  <2>1. v1.order = o
    BY <1>10, ViewGet, ViewTree, ViewOrder, ViewBlocks, ViewSlots, ViewModifier
  <2>2. v2 = [v1 EXCEPT !.order = o2]
    BY <2>1, <1>7, <1>8, <1>9
  <2> QED
    BY <2>2, <1>10, ViewGet, ViewTree, ViewOrder, ViewBlocks, ViewSlots, ViewModifier
<1>12. v3 = ViewOf(t2, o2, n - 1, s, m)
  <2>1. PICK n1 : n1 = n - 1
    OBVIOUS
  <2>2. [ViewOf(t2, o2, n, s, m) EXCEPT !.blocks = n1] = ViewOf(t2, o2, n1, s, m)
    BY ViewBlocks
  <2>3. v3 = [ViewOf(t2, o2, n, s, m) EXCEPT !.blocks = n1]
    BY <1>8, <1>9, <1>11, <2>1, Zenon
  <2> QED
    BY <2>1, <2>2, <2>3, Zenon
<1>13. Store!Del(v, u) = [v3 EXCEPT !.slots = [v3.slots EXCEPT ![r] = (v.slots)[r] - 1]]
  BY <1>6, <1>8, Zenon
<1>14. Store!Del(v, u) = ViewOf(t2, o2, n - 1, s2, m)
  <2>1. v3.slots = s
    BY <1>12, ViewGet, ViewTree, ViewOrder, ViewBlocks, ViewSlots, ViewModifier
  <2>2. Store!Del(v, u) = [v3 EXCEPT !.slots = s2]
    BY <2>1, <1>7, <1>9, <1>13
  <2> QED
    BY <2>2, <1>12, ViewGet, ViewTree, ViewOrder, ViewBlocks, ViewSlots, ViewModifier
<1> QED
  BY <1>7, <1>14

(* A field of a resource is set.                                           *)
LEMMA StoreLocks ==
  ASSUME NEW u \in Uris, NEW t, NEW o, NEW n, NEW s, NEW m, u \in DOMAIN t
  PROVE  Store!Lock(ViewOf(t, o, n, s, m), u) = ViewOf([t EXCEPT ![u].mutex = TRUE], o, n, s, m)
<1> PICK v : v = ViewOf(t, o, n, s, m)
  OBVIOUS
<1>1. v = [tree |-> t, order |-> o, blocks |-> n, slots |-> s, lastModifier |-> m, fault |-> FALSE]
  BY DEF ViewOf
<1>2. Store!Exists(v, u) /\ u # NoUri
  BY <1>1, ParentIs DEF Store!Exists
<1>3. v.tree = t
  BY <1>1
<1>4. Store!Lock(v, u) = ViewOf([t EXCEPT ![u].mutex = TRUE], o, n, s, m)
  <2>1. Store!Lock(v, u) = [v EXCEPT !.tree = [t EXCEPT ![u].mutex = TRUE]]
    BY <1>2, <1>3, Zenon DEF Store!Lock
  <2>2. PICK t2 : t2 = [t EXCEPT ![u].mutex = TRUE]
    OBVIOUS
  <2>3. [ViewOf(t, o, n, s, m) EXCEPT !.tree = t2] = ViewOf(t2, o, n, s, m)
    BY ViewTree
  <2> QED
    BY <2>1, <2>2, <2>3, Zenon
<1> QED
  BY <1>4

LEMMA StoreReleases ==
  ASSUME NEW u \in Uris, NEW t, NEW o, NEW n, NEW s, NEW m, u \in DOMAIN t
  PROVE  Store!Release(ViewOf(t, o, n, s, m), u) = ViewOf([t EXCEPT ![u].mutex = FALSE], o, n, s, m)
<1> PICK v : v = ViewOf(t, o, n, s, m)
  OBVIOUS
<1>1. v = [tree |-> t, order |-> o, blocks |-> n, slots |-> s, lastModifier |-> m, fault |-> FALSE]
  BY DEF ViewOf
<1>2. Store!Exists(v, u) /\ u # NoUri
  BY <1>1, ParentIs DEF Store!Exists
<1>3. v.tree = t
  BY <1>1
<1>5. Store!Release(v, u) = ViewOf([t EXCEPT ![u].mutex = FALSE], o, n, s, m)
  <2>1. Store!Release(v, u) = [v EXCEPT !.tree = [t EXCEPT ![u].mutex = FALSE]]
    BY <1>2, <1>3, Zenon DEF Store!Release
  <2>2. PICK t2 : t2 = [t EXCEPT ![u].mutex = FALSE]
    OBVIOUS
  <2>3. [ViewOf(t, o, n, s, m) EXCEPT !.tree = t2] = ViewOf(t2, o, n, s, m)
    BY ViewTree
  <2> QED
    BY <2>1, <2>2, <2>3, Zenon
<1> QED
  BY <1>5

LEMMA StoreModifies ==
  ASSUME NEW u \in Uris, NEW t, NEW o, NEW n, NEW s, NEW m, NEW k, u \in DOMAIN t
  PROVE  Store!SetLastModified(ViewOf(t, o, n, s, m), u, k) =
           ViewOf([t EXCEPT ![u].lastModified = k], o, n, s, k)
<1> PICK v : v = ViewOf(t, o, n, s, m)
  OBVIOUS
<1>1. v = [tree |-> t, order |-> o, blocks |-> n, slots |-> s, lastModifier |-> m, fault |-> FALSE]
  BY DEF ViewOf
<1>2. Store!Exists(v, u) /\ u # NoUri
  BY <1>1, ParentIs DEF Store!Exists
<1>3. v.tree = t
  BY <1>1
<1>6. Store!SetLastModified(v, u, k) = ViewOf([t EXCEPT ![u].lastModified = k], o, n, s, k)
  <2>1. PICK v1 : v1 = [v EXCEPT !.lastModifier = k]
    OBVIOUS
  <2>2. v1 = ViewOf(t, o, n, s, k)
    BY <2>1, ViewGet, ViewTree, ViewOrder, ViewBlocks, ViewSlots, ViewModifier
  <2>3. v1.tree = t
    BY <2>2, ViewGet, ViewTree, ViewOrder, ViewBlocks, ViewSlots, ViewModifier
  <2>4. Store!SetLastModified(v, u, k) =
          [v1 EXCEPT !.tree = [v1.tree EXCEPT ![u] = [v1.tree[u] EXCEPT !.lastModified = k]]]
    BY <2>1, <1>2, Zenon DEF Store!SetLastModified
  <2>5. Store!SetLastModified(v, u, k) = [v1 EXCEPT !.tree = [t EXCEPT ![u].lastModified = k]]
    BY <2>3, <2>4
  <2> QED
    BY <2>2, <2>5, ViewGet, ViewTree, ViewOrder, ViewBlocks, ViewSlots, ViewModifier
<1> QED
  BY <1>6

LEMMA StoreClocks ==
  ASSUME NEW u \in Uris, NEW t, NEW o, NEW n, NEW s, NEW m, NEW k, u \in DOMAIN t
  PROVE  Store!SetClocktime(ViewOf(t, o, n, s, m), u, k) =
           ViewOf([t EXCEPT ![u].clocktime = k], o, n, s, m)
<1> PICK v : v = ViewOf(t, o, n, s, m)
  OBVIOUS
<1>1. v = [tree |-> t, order |-> o, blocks |-> n, slots |-> s, lastModifier |-> m, fault |-> FALSE]
  BY DEF ViewOf
<1>2. Store!Exists(v, u) /\ u # NoUri
  BY <1>1, ParentIs DEF Store!Exists
<1>3. v.tree = t
  BY <1>1
<1>7. Store!SetClocktime(v, u, k) = ViewOf([t EXCEPT ![u].clocktime = k], o, n, s, m)
  <2>1. Store!SetClocktime(v, u, k) = [v EXCEPT !.tree = [t EXCEPT ![u].clocktime = k]]
    BY <1>2, <1>3, Zenon DEF Store!SetClocktime
  <2> QED
    BY <2>1, ViewGet, ViewTree, ViewOrder, ViewBlocks, ViewSlots, ViewModifier
<1> QED
  BY <1>7

-----------------------------------------------------------------------------
(* The view of the blocks, before and after a call.                        *)

Trees2 == \A T, P, t, x : Stands(T, P) /\ TreeIs(T, P, t) /\ TreeIs(T, P, x) => x = t

LEMMA TreeOne == Trees2
<1> SUFFICES ASSUME NEW T, NEW P, NEW t, NEW x, Stands(T, P), TreeIs(T, P, t), TreeIs(T, P, x)
             PROVE  x = t
  BY DEF Trees2
<1>1. ASSUME NEW u \in NamesIn(T, P) PROVE x[u] = t[u]
  <2>1. PICK b \in OfRoot(T, u.root) : P[b] = u
    BY DEF NamesIn
  <2>2. u.root \in Roots
    BY UriIs DEF NamesIn
  <2> QED
    BY <2>1, <2>2 DEF TreeIs
<1>2. x = [u \in NamesIn(T, P) |-> x[u]] /\ t = [u \in NamesIn(T, P) |-> t[u]]
  BY DEF TreeIs
<1>3. [u \in NamesIn(T, P) |-> x[u]] = [u \in NamesIn(T, P) |-> t[u]]
  BY <1>1
<1> QED
  BY <1>2, <1>3

LEMMA TreeOneThen == Trees2'
BY TreeOne, PTL

Seen(P, t) == ViewOf(t, Orders(P), Cardinality(used), SlotsTaken, lastModifier)

LEMMA SeenBefore ==
  ASSUME view = StoreView, NEW T, NEW P, Stands(T, P)
  PROVE  \E t : TreeIs(T, P, t) /\ view = Seen(P, t)
BY ViewShows DEF AllShown, Shown, Seen

LEMMA SeenThen ==
  ASSUME view' = StoreView', NEW T, NEW P, Stands(T, P)', NEW t, TreeIs(T, P, t)'
  PROVE  view' = Seen(P, t)'
<1>1. PICK x : Shown(T, P, x)'
  BY ViewShowsThen DEF AllShown
<1>2. TreeIs(T, P, x)' /\ view' = ViewOf(x, Orders(P), Cardinality(used), SlotsTaken, lastModifier)'
  BY <1>1 DEF Shown
<1>3. x = t
  BY <1>2, TreeOneThen DEF Trees2
<1> QED
  BY <1>2, <1>3 DEF Seen

(* What is taken is counted.                                               *)
LEMMA Counts ==
  ASSUME TreeTyped
  PROVE  /\ IsFiniteSet(used) /\ \A r \in Roots : IsFiniteSet(pool[r])
         /\ used # Blocks => Cardinality(used) # MaxResources
         /\ \A r \in Roots : pool[r] # Slots(r) => Cardinality(pool[r]) # Capacity[r]
<1>1. /\ MaxResources \in Nat /\ IsFiniteSet(Blocks) /\ Cardinality(Blocks) = MaxResources
  BY TreeAssumption, FS_Interval DEF Blocks
<1>2. used \subseteq Blocks
  BY DEF TreeTyped
<1>3. IsFiniteSet(used) /\ (used # Blocks => Cardinality(used) # MaxResources)
  BY <1>1, <1>2, FS_Subset, FS_CardinalityType
<1>4. ASSUME NEW r \in Roots
      PROVE  IsFiniteSet(pool[r]) /\ (pool[r] # Slots(r) => Cardinality(pool[r]) # Capacity[r])
  <2>1. Capacity[r] \in Nat /\ IsFiniteSet(Slots(r)) /\ Cardinality(Slots(r)) = Capacity[r]
    BY TreeAssumption, FS_Interval, SMTT(30) DEF Slots
  <2>2. pool[r] \subseteq Slots(r)
    BY DEF TreeTyped
  <2> QED
    BY <2>1, <2>2, FS_Subset, FS_CardinalityType
<1> QED
  BY <1>3, <1>4

(* A call that changes the content of no block in use.                     *)
LEMMA SameTree ==
  ASSUME NEW T, NEW P, Stands(T, P), TreeTyped', SameLinks, NEW t, TreeIs(T, P, t),
         \A b \in used : Content(b)' = Content(b)
  PROVE  TreeIs(T, P, t)'
<1>1. \A r \in Roots : OfRoot(T, r)' = OfRoot(T, r)
  BY DEF OfRoot, SameLinks
<1>2. \A r \in Roots : \A b \in OfRoot(T, r) : b \in used
  BY DEF Stands, Forest, InOrder
<1>3. NamesIn(T, P)' = NamesIn(T, P)
  BY <1>1, UriIs DEF NamesIn
<1> QED
  BY <1>1, <1>2, <1>3 DEF TreeIs

LEMMA ViewStays ==
  ASSUME NEW T, NEW P, Stands(T, P), TreeTyped', SameLinks, \A b \in used : Content(b)' = Content(b),
         used' = used, pool' = pool, lastModifier' = lastModifier,
         view = StoreView, view' = StoreView'
  PROVE  Stands(T, P)' /\ view' = view
<1>1. PICK t : TreeIs(T, P, t) /\ view = Seen(P, t)
  BY SeenBefore
<1>2. Stands(T, P)' /\ Orders(P)' = Orders(P)
  BY SameStands
<1>3. TreeIs(T, P, t)'
  BY <1>1, SameTree
<1>4. view' = Seen(P, t)'
  BY <1>2, <1>3, SeenThen
<1>5. SlotsTaken' = SlotsTaken
  BY DEF SlotsTaken
<1>6. Seen(P, t)' = Seen(P, t)
  BY <1>2, <1>5 DEF Seen
<1> QED
  BY <1>1, <1>2, <1>4, <1>6

-----------------------------------------------------------------------------
(* Adding, seen from the store.                                            *)

(* What an add knows when it has its block and its data.                   *)
AddSees(T, P, u, l, t) ==
  /\ u \notin DOMAIN t /\ DOMAIN t = NamesIn(T, P)
  /\ \A b \in OfRoot(T, u.root) : P[b] # u
  /\ Level(u) > 1 /\ l.folder = NULL => Folder(u) \notin DOMAIN t
  /\ l.folder # NULL => /\ l.folder \in OfRoot(T, u.root) /\ Level(u) > 1
                        /\ P[l.folder] = Folder(u) /\ Folder(u) \in DOMAIN t
  /\ Cardinality(used) # MaxResources /\ SlotsTaken[u.root] # Capacity[u.root]
  /\ FreeBlock \in Blocks \ used /\ blk[FreeBlock].clocktime \in Times
  /\ Cardinality(used') = Cardinality(used) + 1
  /\ SlotsTaken' = [SlotsTaken EXCEPT ![u.root] = @ + 1]
  /\ lastModifier' = lastModifier

LEMMA TakeSees ==
  ASSUME NEW T, NEW P, Stands(T, P), NEW u \in Uris, NEW l, l = Lookup(u), CanTake(u, l), Take(u),
         NEW t, TreeIs(T, P, t)
  PROVE  AddSees(T, P, u, l, t)
<1> PICK r, At : r = u.root /\ At = OfRoot(T, r)
  OBVIOUS
<1>0. /\ r \in Roots /\ TreeTyped /\ LinksTyped /\ Forest(T) /\ Named(T, P)
      /\ l.resource = NULL /\ used # Blocks /\ pool[r] # Slots(r)
  BY TypedLinks, UriIs DEF Stands, CanTake
<1>1. DOMAIN t = NamesIn(T, P)
  BY DEF TreeIs
<1>2. /\ l.resource # NULL => l.resource \in OfRoot(T, u.root) /\ P[l.resource] = u
      /\ \A b \in OfRoot(T, u.root) : P[b] = u => l.resource = b
      /\ l.folder # NULL =>
           l.folder \in OfRoot(T, u.root) /\ Level(u) > 1 /\ P[l.folder] = Folder(u)
      /\ Level(u) > 1 => \A b \in OfRoot(T, u.root) : P[b] = Folder(u) => l.folder = b
  BY <1>0, LookupIs
<1>3. \A b \in At : b # NULL /\ b \in Blocks
  BY <1>0, HangsLess
<1>4. \A b \in At : P[b] # u
  BY <1>0, <1>2, <1>3
<1>5. u \notin DOMAIN t
  BY <1>1, <1>4 DEF NamesIn
<1>6. Level(u) > 1 => Folder(u) \in Uris /\ Folder(u).root = r
  BY FolderIs
<1>7. Level(u) > 1 /\ l.folder = NULL => Folder(u) \notin DOMAIN t
  BY <1>1, <1>2, <1>3, <1>6 DEF NamesIn
<1>8. l.folder # NULL => l.folder \in At /\ Level(u) > 1 /\ P[l.folder] = Folder(u) /\ Folder(u) \in DOMAIN t
  BY <1>1, <1>2, <1>6 DEF NamesIn
<1>9. /\ IsFiniteSet(used) /\ \A q \in Roots : IsFiniteSet(pool[q])
      /\ Cardinality(used) # MaxResources /\ Cardinality(pool[r]) # Capacity[r]
  BY <1>0, Counts
<1>10. FreeBlock \in Blocks \ used /\ blk[FreeBlock].clocktime \in Times
  <2>1. FreeBlock \in Blocks \ used
    BY <1>0, FreeBlockIs, TreeAssumption DEF TreeTyped
  <2> QED
    BY <2>1, <1>0 DEF TreeTyped, Block
<1>11. Cardinality(used') = Cardinality(used) + 1
  <2>1. PICK n : n = FreeBlock
    OBVIOUS
  <2>2. used' = used \cup {n} /\ n \notin used
    BY <2>1, <1>10 DEF Take
  <2> QED
    BY <2>2, <1>9, FS_AddElement
<1>12. SlotsTaken' = [SlotsTaken EXCEPT ![r] = @ + 1]
  <2>1. PICK s : s = FreeSlot(r)
    OBVIOUS
  <2>2. s \notin pool[r] /\ pool' = [pool EXCEPT ![r] = @ \cup {s}]
    BY <2>1, <1>0, FreeSlotIs DEF TreeTyped, Take
  <2>3. Cardinality(pool[r] \cup {s}) = Cardinality(pool[r]) + 1
    BY <2>2, <1>0, <1>9, FS_AddElement
  <2>4. DOMAIN pool = Roots
    BY <1>0 DEF TreeTyped
  <2>5. \A q \in Roots : pool'[q] = IF q = r THEN pool[r] \cup {s} ELSE pool[q]
    BY <2>2, <2>4
  <2>6. PICK f, f2 : f = [q \in Roots |-> Cardinality(pool[q])] /\ f2 = [q \in Roots |-> Cardinality(pool'[q])]
    OBVIOUS
  <2>7. f2 = [f EXCEPT ![r] = f[r] + 1]
    BY <2>3, <2>5, <2>6, <1>0
  <2> QED
    BY <2>6, <2>7, Zenon DEF SlotsTaken
<1>13. SlotsTaken[u.root] = Cardinality(pool[r])
  BY <1>0 DEF SlotsTaken
<1>14. lastModifier' = lastModifier
  BY DEF Take
<1> QED
  BY <1>1, <1>4, <1>5, <1>7, <1>8, <1>9, <1>10, <1>11, <1>12, <1>13, <1>14 DEF AddSees

(* The folder is not there: a block and a slot are gone, and no more.      *)
LEMMA NoFolderSeen ==
  ASSUME NEW T, NEW P, Stands(T, P), NEW u \in Uris, NEW l, l = Lookup(u), AddNoFolder(u, l),
         TreeTyped', view = StoreView, view' = StoreView'
  PROVE  Stands(T, P)' /\ Store!AddStep(u)
<1>1. PICK t : TreeIs(T, P, t) /\ view = Seen(P, t)
  BY SeenBefore
<1>2. CanTake(u, l) /\ Take(u) /\ Level(u) > 1 /\ l.folder = NULL /\ list' = list
  BY DEF AddNoFolder, Level
<1>3. AddSees(T, P, u, l, t)
  BY <1>1, <1>2, TakeSees
<1>4. PICK n, new : n = FreeBlock /\ new = NewBlock(u, NULL, NULL)
  OBVIOUS
<1>5. blk' = [blk EXCEPT ![n] = new] /\ n \notin used /\ used' = used \cup {n}
  BY <1>2, <1>3, <1>4 DEF AddNoFolder, AddSees, Take
<1>6. \A b \in used : blk'[b] = blk[b]
  BY <1>5 DEF Stands, TreeTyped
<1>7. \A r \in Roots : pool[r] \subseteq pool'[r]
  BY <1>2, UriIs DEF Take, Stands, TreeTyped
<1>8. SameLinks /\ \A b \in used : Content(b)' = Content(b)
  BY <1>2, <1>5, <1>6, <1>7 DEF SameLinks, Content
<1>9. Stands(T, P)' /\ Orders(P)' = Orders(P) /\ TreeIs(T, P, t)'
  BY <1>1, <1>8, SameStands, SameTree
<1>10. view' = Seen(P, t)'
  BY <1>9, SeenThen
<1> PICK o, k, s, m, c : /\ o = Orders(P) /\ k = Cardinality(used) /\ s = SlotsTaken /\ m = lastModifier
                         /\ c = blk[FreeBlock].clocktime
  OBVIOUS
<1>11. view = ViewOf(t, o, k, s, m) /\ view' = ViewOf(t, o, k + 1, [s EXCEPT ![u.root] = @ + 1], m)
  BY <1>1, <1>3, <1>9, <1>10 DEF Seen, AddSees
<1>12. /\ u \notin DOMAIN t /\ k # MaxResources /\ s[u.root] # Capacity[u.root] /\ c \in Times
       /\ Level(u) > 1 /\ Folder(u) \notin DOMAIN t
  BY <1>2, <1>3 DEF AddSees
<1>13. Store!Add(ViewOf(t, o, k, s, m), u, c) = ViewOf(t, o, k + 1, [s EXCEPT ![u.root] = @ + 1], m)
  <2>1. u \notin DOMAIN t /\ k # MaxResources /\ s[u.root] # Capacity[u.root]
    BY <1>12
  <2>2. /\ Level(u) = 1 \/ Folder(u) \in DOMAIN t =>
             Store!Add(ViewOf(t, o, k, s, m), u, c) =
               ViewOf(Grows(t, u, c), [o EXCEPT ![u.root] = Store!Linked(@, u)],
                      k + 1, [s EXCEPT ![u.root] = @ + 1], m)
        /\ Level(u) > 1 /\ Folder(u) \notin DOMAIN t =>
             Store!Add(ViewOf(t, o, k, s, m), u, c) =
               ViewOf(t, o, k + 1, [s EXCEPT ![u.root] = @ + 1], m)
    BY <2>1, StoreAdds
  <2> QED
    BY <1>12, <2>2
<1>14. view' = Store!Add(view, u, c)
  BY <1>11, <1>13, Zenon
<1> QED
  BY <1>9, <1>12, <1>14 DEF Store!AddStep

OthersNamed(T, P, n) ==
  \A q \in Roots : \A b \in OfRoot(T, q) : b \in Blocks /\ b # n /\ P[b] \in Uris /\ P[b].root = q

LEMMA LinkingOthers ==
  ASSUME NEW T, NEW P, NEW S, NEW u \in Uris, NEW n, NEW folder, NEW first,
         Linking(T, P, S, u, n, folder, first)
  PROVE  OthersNamed(T, P, n)
<1>1. \A q \in Roots : \A b \in OfRoot(T, q) :
        /\ b \in Blocks /\ b # NULL /\ b # n /\ P[b] \in Uris /\ P[b].root = q
        /\ b \in OfRoot(S, q)' /\ InOrder(T, OfRoot(T, q), b)
  BY LinkingIs
<1> QED
  BY <1>1 DEF OthersNamed

(* The block is linked, in its folder or at its root.                      *)
LEMMA LinkedSeen ==
  ASSUME NEW T, NEW P, NEW S, NEW u \in Uris, NEW l, NEW n, NEW folder, NEW first, NEW t,
         Linking(T, P, S, u, n, folder, first), n = FreeBlock, TreeIs(T, P, t), AddSees(T, P, u, l, t),
         Level(u) = 1 \/ Folder(u) \in DOMAIN t, view = Seen(P, t), view' = StoreView'
  PROVE  (\E P2 : Stands(S, P2)') /\ Store!AddStep(u)
<1> PICK P2, r, c, t2 : P2 = NamesToo(P, n, u) /\ r = u.root /\ c = blk[n].clocktime /\ t2 = Grows(t, u, c)
  OBVIOUS
<1>1. Stands(S, P2)' /\ Orders(P2)' = [Orders(P) EXCEPT ![u.root] = Store!Linked(@, u)]
  BY LinkNames, LinkOrders
<1>2. /\ n \in Blocks \ used /\ r \in Roots /\ Named(T, P)
      /\ \A q \in Roots : \A b \in OfRoot(T, q) :
           /\ b \in Blocks /\ b # n /\ P[b] \in Uris /\ P[b].root = q /\ P2[b] = P[b]
  <2>1. n \in Blocks \ used /\ Named(T, P)
    <3>1. n \in Blocks \ used
      BY DEF AddSees
    <3>2. Stands(T, P)
      BY DEF Linking
    <3> QED
      BY <3>1, <3>2 DEF Stands
  <2>2. OthersNamed(T, P, n)
    BY LinkingOthers
  <2> QED
    BY <2>1, <2>2, UriIs DEF NamesToo, OthersNamed
<1>3. P2[n] = u
  BY <1>2 DEF NamesToo
<1>4. \A q \in Roots : OfRoot(S, q)' = IF q = r THEN OfRoot(T, q) \cup {n} ELSE OfRoot(T, q)
  BY DEF Linking, LinkedNow
<1>5. DOMAIN t = NamesIn(T, P) /\ u \notin DOMAIN t /\ \A b \in OfRoot(T, r) : P[b] # u
  BY DEF AddSees
<1>6. NamesIn(S, P2)' = DOMAIN t \cup {u}
  <2>1. \A v \in Uris : v.root \in Roots
    BY UriIs
  <2>2. ASSUME NEW v \in Uris
        PROVE  (\E b \in OfRoot(S, v.root)' : P2[b] = v) <=> v = u \/ \E b \in OfRoot(T, v.root) : P[b] = v
    BY <2>1, <2>2, <1>2, <1>3, <1>4
  <2> QED
    BY <2>2, <1>5 DEF NamesIn
<1>7. DOMAIN t2 = DOMAIN t \cup {u} /\ t2 = [v \in DOMAIN t2 |-> t2[v]]
  BY DEF Grows
<1>8. t2[u] = Content(n)'
  BY <1>7 DEF Grows, Content, Linking, LinkedNow
<1>9. ASSUME NEW q \in Roots, NEW b \in OfRoot(T, q) PROVE t2[P2[b]] = Content(b)'
  <2>1. P[b] \in DOMAIN t /\ P[b] # u
    BY <1>2, <1>5 DEF NamesIn
  <2>2. t2[P[b]] = t[P[b]]
    BY <2>1 DEF Grows
  <2>3. t[P[b]] = Content(b)
    BY DEF TreeIs
  <2>4. Content(b)' = Content(b)
    BY <1>2 DEF Linking, LinkedNow, SameContent, Content
  <2> QED
    BY <2>2, <2>3, <2>4, <1>2
<1>10. TreeIs(S, P2, t2)'
  <2>1. t2 = [v \in NamesIn(S, P2)' |-> t2[v]]
    BY <1>6, <1>7
  <2>2. ASSUME NEW q \in Roots, NEW b \in OfRoot(S, q)' PROVE t2[P2[b]] = Content(b)'
    <3>1. b \in OfRoot(T, q) \/ b = n
      BY <1>4
    <3> QED
      BY <3>1, <1>3, <1>8, <1>9
  <2> QED
    BY <2>1, <2>2 DEF TreeIs
<1>11. view' = Seen(P2, t2)'
  BY <1>1, <1>10, SeenThen
<1> PICK o, k, s, m : o = Orders(P) /\ k = Cardinality(used) /\ s = SlotsTaken /\ m = lastModifier
  OBVIOUS
<1>12. /\ view = ViewOf(t, o, k, s, m)
       /\ view' = ViewOf(t2, [o EXCEPT ![u.root] = Store!Linked(@, u)], k + 1, [s EXCEPT ![u.root] = @ + 1], m)
  BY <1>1, <1>11 DEF Seen, AddSees
<1>13. u \notin DOMAIN t /\ k # MaxResources /\ s[u.root] # Capacity[u.root]
  BY DEF AddSees
<1>14. /\ Level(u) = 1 \/ Folder(u) \in DOMAIN t =>
            Store!Add(ViewOf(t, o, k, s, m), u, c) =
              ViewOf(Grows(t, u, c), [o EXCEPT ![u.root] = Store!Linked(@, u)],
                     k + 1, [s EXCEPT ![u.root] = @ + 1], m)
       /\ Level(u) > 1 /\ Folder(u) \notin DOMAIN t =>
            Store!Add(ViewOf(t, o, k, s, m), u, c) =
              ViewOf(t, o, k + 1, [s EXCEPT ![u.root] = @ + 1], m)
  BY <1>13, StoreAdds
<1>15. view' = Store!Add(view, u, c)
  BY <1>12, <1>14, Zenon
<1>16. c \in Times
  BY DEF AddSees
<1> QED
  BY <1>1, <1>15, <1>16 DEF Store!AddStep

LEMMA InFolderSeen ==
  ASSUME NEW T, NEW P, Stands(T, P), NEW u \in Uris, NEW l, l = Lookup(u), AddInFolder(u, l),
         view = StoreView, view' = StoreView'
  PROVE  (\E S, P2 : Stands(S, P2)') /\ Store!AddStep(u)
<1>1. PICK t : TreeIs(T, P, t) /\ view = Seen(P, t)
  BY SeenBefore
<1>2. CanTake(u, l) /\ Take(u) /\ l.folder # NULL /\ list' = list /\ used # Blocks /\ pool[u.root] # Slots(u.root)
  BY DEF AddInFolder, CanTake
<1>3. AddSees(T, P, u, l, t)
  BY <1>1, <1>2, TakeSees
<1>4. PICK folder, first, n : folder = l.folder /\ first = blk[l.folder].subRoot /\ n = FreeBlock
  OBVIOUS
<1>5. PICK S : S = Grown(T, FreeBlock, folder, first)
  OBVIOUS
<1>6. /\ folder \in OfRoot(T, u.root) /\ first = blk[folder].subRoot
      /\ Level(u) > 1 /\ P[folder] = Folder(u) /\ Folder(u) \in DOMAIN t /\ \A b \in OfRoot(T, u.root) : P[b] # u
  BY <1>2, <1>3, <1>4 DEF AddSees
<1>7. LinkBefore(u, folder, first)
  BY <1>4, Zenon DEF AddInFolder
<1>8. LinkedNow(T, S, u, n, folder, first)
  <2>1. TreeTyped /\ Forest(T) /\ DataOwn(T)
    BY DEF Stands
  <2>2. LinkedNow(T, Grown(T, FreeBlock, folder, first), u, FreeBlock, folder, first)
    BY <2>1, <1>2, <1>6, <1>7, LinkKeeps
  <2> QED
    BY <2>2, <1>4, <1>5
<1>9. Linking(T, P, S, u, n, folder, first)
  BY <1>2, <1>6, <1>8 DEF Linking, Places
<1> QED
  BY <1>1, <1>3, <1>4, <1>6, <1>9, LinkedSeen

LEMMA AtRootSeen ==
  ASSUME NEW T, NEW P, Stands(T, P), NEW u \in Uris, NEW l, l = Lookup(u), AddAtRoot(u, l),
         view = StoreView, view' = StoreView'
  PROVE  (\E S, P2 : Stands(S, P2)') /\ Store!AddStep(u)
<1>1. PICK t : TreeIs(T, P, t) /\ view = Seen(P, t)
  BY SeenBefore
<1>2. CanTake(u, l) /\ Take(u) /\ Level(u) = 1 /\ used # Blocks /\ pool[u.root] # Slots(u.root)
  BY DEF AddAtRoot, CanTake, Level
<1>3. AddSees(T, P, u, l, t)
  BY <1>1, <1>2, TakeSees
<1>4. PICK folder, first, n : folder = NULL /\ first = list[u.root] /\ n = FreeBlock
  OBVIOUS
<1>5. PICK S : S = Grown(T, FreeBlock, folder, first)
  OBVIOUS
<1>6. \A b \in OfRoot(T, u.root) : P[b] # u
  BY <1>3 DEF AddSees
<1>7. LinkBefore(u, folder, first) /\ list' = [list EXCEPT ![u.root] = FreeBlock]
  BY <1>4, Zenon DEF AddAtRoot
<1>8. LinkedNow(T, S, u, n, folder, first)
  <2>1. TreeTyped /\ Forest(T) /\ DataOwn(T)
    BY DEF Stands
  <2>2. folder = NULL /\ first = list[u.root] /\ list' = [list EXCEPT ![u.root] = FreeBlock]
    BY <1>4, <1>7
  <2>3. LinkedNow(T, Grown(T, FreeBlock, folder, first), u, FreeBlock, folder, first)
    BY <2>1, <2>2, <1>2, <1>7, LinkKeeps
  <2> QED
    BY <2>3, <1>4, <1>5
<1>9. Linking(T, P, S, u, n, folder, first)
  BY <1>2, <1>4, <1>6, <1>7, <1>8 DEF Linking, Places
<1> QED
  BY <1>1, <1>2, <1>3, <1>4, <1>9, LinkedSeen

(* A block that was cleaned and given back is none of the tree's.          *)
LEMMA RootFullSeen ==
  ASSUME NEW T, NEW P, Stands(T, P), NEW u \in Uris, NEW l, AddRootFull(u, l), TreeTyped',
         view = StoreView, view' = StoreView'
  PROVE  Stands(T, P)' /\ view' = view
<1>1. PICK n, new : n = FreeBlock /\ new = Cleaned(FreeBlock)
  OBVIOUS
<1>2. n \notin used
  BY <1>1, FreeBlockIs, TreeAssumption DEF AddRootFull, Stands, TreeTyped
<1>3. blk' = [blk EXCEPT ![n] = new] /\ UNCHANGED <<used, list, pool, lastModifier>>
  BY <1>1 DEF AddRootFull
<1>4. \A b \in used : blk'[b] = blk[b]
  BY <1>2, <1>3 DEF Stands, TreeTyped
<1>5. SameLinks /\ \A b \in used : Content(b)' = Content(b)
  BY <1>3, <1>4 DEF SameLinks, Content
<1> QED
  BY <1>3, <1>5, ViewStays

(* A call that writes no block.                                            *)
LEMMA UntouchedSeen ==
  ASSUME NEW T, NEW P, Stands(T, P), UNCHANGED <<used, blk, list, pool, lastModifier>>, TreeTyped',
         view = StoreView, view' = StoreView'
  PROVE  Stands(T, P)' /\ view' = view
<1>1. SameLinks /\ \A b \in used : Content(b)' = Content(b)
  BY DEF SameLinks, Content
<1> QED
  BY <1>1, ViewStays

-----------------------------------------------------------------------------
(* Deleting, seen from the store.                                          *)

(* A resource that holds nothing is the folder of none.                    *)
LEMMA NoChild ==
  ASSUME NEW T, NEW P, Stands(T, P), NEW u \in Uris, NEW b \in OfRoot(T, u.root), P[b] = u,
         blk[b].subRoot = NULL
  PROVE  \A v \in NamesIn(T, P) : Parent[v] # u
<1> SUFFICES ASSUME NEW v \in NamesIn(T, P), Parent[v] = u PROVE FALSE
  OBVIOUS
<1>1. LinksTyped /\ Forest(T) /\ Named(T, P) /\ u.root \in Roots
  BY TypedLinks, UriIs DEF Stands
<1>2. v \in Uris /\ \E c \in OfRoot(T, v.root) : P[c] = v
  BY DEF NamesIn
<1>3. Level(v) > 1 /\ Folder(v) = u
  BY <1>2, ParentIs, UriIs
<1>4. v.root = u.root /\ Level(u) = Level(v) - 1 /\ \A i \in 1 .. Level(u) : u.path[i] = v.path[i]
  <2>1. u.root = v.root /\ Level(u) = Level(v) - 1 /\ Agree(v, u, Level(u))
    BY <1>2, <1>3, FolderIs
  <2> QED
    BY <2>1 DEF Agree
<1>5. PICK c \in OfRoot(T, u.root) : P[c] = v
  BY <1>2, <1>4
<1>6. Level(u) \in Nat /\ Level(v) \in Nat /\ Level(u) > 0
  BY <1>2, UriIs
<1>7. Agree(P[c], P[b], Level(P[b]))
  BY <1>4, <1>5, <1>6 DEF Agree
<1>8. c = b \/ c \in Hang(T, blk[b].subRoot)
  BY <1>1, <1>7, Below
<1>9. c = b
  BY <1>8 DEF Hang
<1>10. Level(u) = Level(v)
  BY <1>5, <1>9
<1> QED
  BY <1>4, <1>6, <1>10

LEMMA UnlinkedSeen ==
  ASSUME NEW T, NEW P, Stands(T, P), NEW u \in Uris, NEW l, l = Lookup(u), DelUnlinked(u, l),
         view = StoreView, view' = StoreView'
  PROVE  (\E S : Stands(S, P)') /\ Store!DelStep(u)
<1> PICK r, b, S : r = u.root /\ b = l.resource /\ S = Shrunk(T, l.resource)
  OBVIOUS
<1>0. r \in Roots /\ TreeTyped /\ LinksTyped /\ Forest(T) /\ DataOwn(T) /\ Named(T, P) /\ b # NULL
  BY TypedLinks, UriIs DEF Stands, DelUnlinked
<1>1. PICK t : TreeIs(T, P, t) /\ view = Seen(P, t)
  BY SeenBefore
<1>2. b \in OfRoot(T, r) /\ P[b] = u
  <2>1. l.resource # NULL => l.resource \in OfRoot(T, u.root) /\ P[l.resource] = u
    BY <1>0, LookupIs
  <2> QED
    BY <2>1, <1>0
<1>3. PICK before, first : UnlinkedNow(T, S, r, b, before, first)
  <2>1. Found(T, u.root, l)
    BY <1>0, LookupFinds
  <2>2. \E before, first : UnlinkedNow(T, Shrunk(T, l.resource), u.root, l.resource, before, first)
    BY <2>1, <1>0, UnlinkKeeps
  <2> QED
    BY <2>2
<1>4. Unlinking(T, P, S, r, b, before, first)
  BY <1>0, <1>3 DEF Unlinking
<1>5. Stands(S, P)' /\ Orders(P)' = [Orders(P) EXCEPT ![r] = Store!Unlinked(@, P[b])]
  BY <1>4, UnlinkNames, UnlinkOrders
<1>6. /\ blk[b].subRoot = NULL /\ \A c \in Blocks : SameContent(c)
      /\ \A q \in Roots : OfRoot(S, q)' = OfRoot(T, q) \ {b}
  BY <1>3 DEF UnlinkedNow
<1>7. \A v \in NamesIn(T, P) : Parent[v] # u
  BY <1>2, <1>6, NoChild
<1>8. DOMAIN t = NamesIn(T, P) /\ u \in DOMAIN t
  BY <1>1, <1>2 DEF TreeIs, NamesIn
<1>9. \A q \in Roots : \A c \in OfRoot(T, q) : P[c] \in Uris /\ P[c].root = q /\ (c # b => P[c] # u)
  <2>1. \A q \in Roots : \A c \in OfRoot(T, q) : P[c] \in Uris /\ P[c].root = q
    BY <1>0 DEF Named
  <2>2. \A c \in OfRoot(T, u.root) : P[c] = u => l.resource = c
    BY <1>0, LookupIs
  <2> QED
    BY <2>1, <2>2
<1> PICK t2 : t2 = [v \in DOMAIN t \ {u} |-> t[v]]
  OBVIOUS
<1>10. TreeIs(S, P, t2)'
  <2>1. NamesIn(S, P)' = DOMAIN t \ {u}
    <3>1. \A v \in Uris : v.root \in Roots
      BY UriIs
    <3>2. ASSUME NEW v \in Uris
          PROVE  (\E c \in OfRoot(S, v.root)' : P[c] = v) <=> v # u /\ \E c \in OfRoot(T, v.root) : P[c] = v
      BY <3>1, <3>2, <1>2, <1>6, <1>9
    <3> QED
      BY <3>2, <1>8 DEF NamesIn
  <2>2. ASSUME NEW q \in Roots, NEW c \in OfRoot(S, q)' PROVE t2[P[c]] = Content(c)'
    <3>1. c \in OfRoot(T, q) /\ c # b /\ c \in Blocks
      BY <1>0, <1>6, ForestIsBlocks
    <3>2. P[c] \in DOMAIN t /\ P[c] # u
      BY <3>1, <1>8, <1>9 DEF NamesIn
    <3>3. t2[P[c]] = t[P[c]] /\ t[P[c]] = Content(c)
      BY <3>1, <3>2, <1>1 DEF TreeIs
    <3>4. Content(c)' = Content(c)
      BY <3>1, <1>6 DEF SameContent, Content
    <3> QED
      BY <3>3, <3>4
  <2> QED
    BY <2>1, <2>2 DEF TreeIs
<1>11. view' = Seen(P, t2)'
  BY <1>5, <1>10, SeenThen
<1>12. IsFiniteSet(used) /\ \A q \in Roots : IsFiniteSet(pool[q])
  BY <1>0, Counts
<1>13. Cardinality(used') = Cardinality(used) - 1 /\ lastModifier' = lastModifier
  <2>1. used' = used \ {b} /\ lastModifier' = lastModifier
    BY DEF DelUnlinked
  <2>2. b \in used
    BY <1>0, <1>2 DEF Forest, InOrder
  <2> QED
    BY <2>1, <2>2, <1>12, FS_RemoveElement
<1>14. SlotsTaken' = [SlotsTaken EXCEPT ![r] = @ - 1]
  <2>1. PICK s : s = blk[b].data
    OBVIOUS
  <2>2. s \in pool[r]
    BY <2>1, <1>0, <1>2 DEF DataOwn
  <2>3. pool' = [pool EXCEPT ![r] = @ \ {s}]
    BY <2>1, Zenon DEF DelUnlinked
  <2>4. Cardinality(pool[r] \ {s}) = Cardinality(pool[r]) - 1
    BY <2>2, <1>0, <1>12, FS_RemoveElement
  <2>5. \A q \in Roots : pool'[q] = IF q = r THEN pool[r] \ {s} ELSE pool[q]
    BY <2>3, <1>0 DEF TreeTyped
  <2>6. PICK f, f2 : f = [q \in Roots |-> Cardinality(pool[q])] /\ f2 = [q \in Roots |-> Cardinality(pool'[q])]
    OBVIOUS
  <2>7. f2 = [f EXCEPT ![r] = f[r] - 1]
    BY <2>4, <2>5, <2>6, <1>0
  <2> QED
    BY <2>6, <2>7, Zenon DEF SlotsTaken
<1> PICK o, k, s, m : o = Orders(P) /\ k = Cardinality(used) /\ s = SlotsTaken /\ m = lastModifier
  OBVIOUS
<1>15. /\ view = ViewOf(t, o, k, s, m)
       /\ view' = ViewOf(t2, [o EXCEPT ![u.root] = Store!Unlinked(@, u)], k - 1, [s EXCEPT ![u.root] = @ - 1], m)
  BY <1>1, <1>2, <1>5, <1>11, <1>13, <1>14 DEF Seen
<1>16. u \in DOMAIN t /\ \A v \in DOMAIN t : Parent[v] # u
  BY <1>7, <1>8
<1>17. Store!Del(ViewOf(t, o, k, s, m), u) =
         ViewOf([v \in DOMAIN t \ {u} |-> t[v]], [o EXCEPT ![u.root] = Store!Unlinked(@, u)],
                k - 1, [s EXCEPT ![u.root] = @ - 1], m)
  BY <1>16, StoreDels, SMTT(30)
<1>18. view' = Store!Del(view, u)
  BY <1>15, <1>17, Zenon
<1> QED
  BY <1>5, <1>18 DEF Store!DelStep

-----------------------------------------------------------------------------
(* Setting a field, seen from the store.                                   *)

EntryOf(m, k, c) == [mutex |-> m, lastModified |-> k, clocktime |-> c]

LEMMA EntryIs ==
  ASSUME NEW m, NEW k, NEW c
  PROVE  EntryOf(m, k, c) = [f \in {"mutex", "lastModified", "clocktime"} |->
                               IF f = "mutex" THEN m ELSE IF f = "lastModified" THEN k ELSE c]
BY DEF EntryOf

LEMMA EntryMutex ==
  ASSUME NEW m, NEW k, NEW c, NEW x
  PROVE  [EntryOf(m, k, c) EXCEPT !.mutex = x] = EntryOf(x, k, c)
BY EntryIs

LEMMA EntryModified ==
  ASSUME NEW m, NEW k, NEW c, NEW x
  PROVE  [EntryOf(m, k, c) EXCEPT !.lastModified = x] = EntryOf(m, x, c)
BY EntryIs

LEMMA EntryClock ==
  ASSUME NEW m, NEW k, NEW c, NEW x
  PROVE  [EntryOf(m, k, c) EXCEPT !.clocktime = x] = EntryOf(m, k, x)
BY EntryIs

(* The block of u has a new content, and the links it had.                 *)
LEMMA FieldSeen ==
  ASSUME NEW T, NEW P, Stands(T, P), NEW u \in Uris, NEW l, l = Lookup(u), NEW b, b = l.resource,
         NEW new, SetField(l, new), TreeTyped',
         new.name = blk[b].name /\ new.next = blk[b].next /\ new.prev = blk[b].prev,
         new.subRoot = blk[b].subRoot /\ new.data = blk[b].data,
         view = StoreView, view' = StoreView'
  PROVE  /\ Stands(T, P)'
         /\ \E t, o, n, s :
              /\ u \in DOMAIN t /\ t[u] = EntryOf(blk[b].mutex, blk[b].lastModified, blk[b].clocktime)
              /\ view = ViewOf(t, o, n, s, lastModifier)
              /\ view' = ViewOf([t EXCEPT ![u] = EntryOf(new.mutex, new.lastModified, new.clocktime)],
                                o, n, s, lastModifier')
<1>0. LinksTyped /\ Forest(T) /\ Named(T, P) /\ u.root \in Roots /\ b # NULL /\ TreeTyped
  BY TypedLinks, UriIs DEF Stands, SetField
<1>1. PICK t : TreeIs(T, P, t) /\ view = Seen(P, t)
  BY SeenBefore
<1>2. /\ b \in OfRoot(T, u.root) /\ P[b] = u
      /\ \A c \in OfRoot(T, u.root) : P[c] = u => c = b
  <2>1. /\ l.resource # NULL => l.resource \in OfRoot(T, u.root) /\ P[l.resource] = u
        /\ \A c \in OfRoot(T, u.root) : P[c] = u => l.resource = c
    BY <1>0, LookupIs
  <2> QED
    BY <2>1, <1>0
<1>3. b \in Blocks /\ DOMAIN blk = Blocks
  BY <1>0, <1>2, ForestIsBlocks DEF TreeTyped
<1>4. /\ blk' = [blk EXCEPT ![b] = new] /\ used' = used /\ list' = list /\ pool' = pool
  BY DEF SetField
<1>5. blk'[b] = new /\ \A c \in Blocks \ {b} : blk'[c] = blk[c]
  BY <1>3, <1>4
<1>6. SameLinks
  <2>1. used \subseteq Blocks
    BY <1>0 DEF TreeTyped
  <2> QED
    BY <2>1, <1>4, <1>5 DEF SameLinks
<1>7. Stands(T, P)' /\ Orders(P)' = Orders(P)
  BY <1>6, SameStands
<1> PICK t2 : t2 = [t EXCEPT ![u] = EntryOf(new.mutex, new.lastModified, new.clocktime)]
  OBVIOUS
<1>8. DOMAIN t = NamesIn(T, P) /\ u \in DOMAIN t /\ t[u] = Content(b)
  BY <1>0, <1>1, <1>2 DEF TreeIs, NamesIn
<1>9. TreeIs(T, P, t2)'
  <2>1. OfRoot(T, u.root)' = OfRoot(T, u.root) /\ \A q \in Roots : OfRoot(T, q)' = OfRoot(T, q)
    BY <1>4 DEF OfRoot
  <2>2. NamesIn(T, P)' = NamesIn(T, P)
    BY <2>1, <1>4 DEF NamesIn, OfRoot
  <2>3. t2 = [v \in NamesIn(T, P) |-> t2[v]]
    BY <1>8
  <2>4. ASSUME NEW q \in Roots, NEW c \in OfRoot(T, q) PROVE t2[P[c]] = Content(c)'
    <3>1. P[c] \in Uris /\ P[c].root = q /\ c \in Blocks
      BY <1>0, ForestIsBlocks DEF Named
    <3>2. P[c] \in DOMAIN t /\ t[P[c]] = Content(c)
      BY <3>1, <1>1, <1>8 DEF TreeIs, NamesIn
    <3>3. CASE c = b
      BY <3>3, <1>2, <1>5, <1>8 DEF Content, EntryOf
    <3>4. CASE c # b
      <4>1. P[c] # u
        BY <3>1, <3>4, <1>2
      <4> QED
        BY <4>1, <3>1, <3>2, <3>4, <1>5 DEF Content
    <3> QED
      BY <3>3, <3>4
  <2>5. t2 = [v \in NamesIn(T, P)' |-> t2[v]]
    BY <2>2, <2>3
  <2>6. \A q \in Roots : \A c \in OfRoot(T, q)' : t2[P[c]] = Content(c)'
    BY <2>1, <2>4
  <2> QED
    BY <2>5, <2>6 DEF TreeIs
<1>10. view' = Seen(P, t2)'
  BY <1>7, <1>9, SeenThen
<1>11. SlotsTaken' = SlotsTaken
  BY <1>4 DEF SlotsTaken
<1> PICK o, n, s : o = Orders(P) /\ n = Cardinality(used) /\ s = SlotsTaken
  OBVIOUS
<1>12. view = ViewOf(t, o, n, s, lastModifier) /\ view' = ViewOf(t2, o, n, s, lastModifier')
  BY <1>1, <1>4, <1>7, <1>10, <1>11 DEF Seen
<1>13. t[u] = EntryOf(blk[b].mutex, blk[b].lastModified, blk[b].clocktime)
  BY <1>8 DEF Content, EntryOf
<1> QED
  BY <1>7, <1>8, <1>12, <1>13

LEMMA FieldsSeen ==
  ASSUME NEW T, NEW P, Stands(T, P), NEW u \in Uris, NEW l, l = Lookup(u), TreeTyped',
         view = StoreView, view' = StoreView'
  PROVE  /\ Lock(l) => Stands(T, P)' /\ Store!LockStep(u)
         /\ Release(l) => Stands(T, P)' /\ Store!ReleaseStep(u)
         /\ \A k : SetLastModified(l, k) => Stands(T, P)' /\ Store!SetLastModifiedStep(u, k)
         /\ \A c : SetClocktime(l, c) => Stands(T, P)' /\ Store!SetClocktimeStep(u, c)
<1> PICK b, m, k0, c0 : /\ b = l.resource /\ m = blk[b].mutex /\ k0 = blk[b].lastModified
                        /\ c0 = blk[b].clocktime
  OBVIOUS
<1>1. ASSUME NEW new, SetField(l, new), new.name = blk[b].name, new.next = blk[b].next, new.prev = blk[b].prev,
             new.subRoot = blk[b].subRoot, new.data = blk[b].data
      PROVE  /\ Stands(T, P)'
             /\ \E t, o, n, s :
                  /\ u \in DOMAIN t /\ t[u] = EntryOf(m, k0, c0)
                  /\ view = ViewOf(t, o, n, s, lastModifier)
                  /\ view' = ViewOf([t EXCEPT ![u] = EntryOf(new.mutex, new.lastModified, new.clocktime)],
                                    o, n, s, lastModifier')
  <2>1. /\ new.name = blk[b].name /\ new.next = blk[b].next /\ new.prev = blk[b].prev
        /\ new.subRoot = blk[b].subRoot /\ new.data = blk[b].data
    BY <1>1
  <2>2. /\ Stands(T, P)'
        /\ \E t, o, n, s :
             /\ u \in DOMAIN t /\ t[u] = EntryOf(blk[b].mutex, blk[b].lastModified, blk[b].clocktime)
             /\ view = ViewOf(t, o, n, s, lastModifier)
             /\ view' = ViewOf([t EXCEPT ![u] = EntryOf(new.mutex, new.lastModified, new.clocktime)],
                               o, n, s, lastModifier')
    BY <2>1, <1>1, FieldSeen
  <2> QED
    BY <2>2
<1>2. ASSUME l.resource # NULL PROVE blk[b] \in Block
  <2>1. LinksTyped /\ Forest(T) /\ Named(T, P) /\ u.root \in Roots
    BY TypedLinks, UriIs DEF Stands
  <2>2. l.resource # NULL => l.resource \in OfRoot(T, u.root) /\ P[l.resource] = u
    BY <2>1, LookupIs
  <2>3. b \in Blocks
    BY <2>1, <2>2, <1>2, ForestIsBlocks
  <2> QED
    BY <2>3 DEF Stands, TreeTyped
<1>3. ASSUME Lock(l) PROVE Stands(T, P)' /\ Store!LockStep(u)
  <2>1. PICK new : new = [blk[b] EXCEPT !.mutex = TRUE]
    OBVIOUS
  <2>2. SetField(l, new) /\ lastModifier' = lastModifier /\ l.resource # NULL
    BY <2>1, <1>3 DEF Lock, SetField
  <2>3. /\ new.name = blk[b].name /\ new.next = blk[b].next /\ new.prev = blk[b].prev
        /\ new.subRoot = blk[b].subRoot /\ new.data = blk[b].data
        /\ new.mutex = TRUE /\ new.lastModified = k0 /\ new.clocktime = c0
    BY <2>1, <2>2, <1>2 DEF Block
  <2>4. PICK t, o, n, s :
          /\ u \in DOMAIN t /\ t[u] = EntryOf(m, k0, c0)
          /\ view = ViewOf(t, o, n, s, lastModifier)
          /\ view' = ViewOf([t EXCEPT ![u] = EntryOf(new.mutex, new.lastModified, new.clocktime)],
                            o, n, s, lastModifier')
    BY <2>2, <2>3, <1>1
  <2>5. [t EXCEPT ![u].mutex = TRUE] = [t EXCEPT ![u] = EntryOf(TRUE, k0, c0)]
    <3>1. PICK x : x = TRUE
      OBVIOUS
    <3>2. [EntryOf(m, k0, c0) EXCEPT !.mutex = x] = EntryOf(x, k0, c0)
      BY EntryMutex
    <3> QED
      BY <3>1, <3>2, <2>4, Zenon
  <2>6. Store!Lock(ViewOf(t, o, n, s, lastModifier), u) =
          ViewOf([t EXCEPT ![u].mutex = TRUE], o, n, s, lastModifier)
    <3>1. u \in DOMAIN t
      BY <2>4
    <3> QED
      BY <3>1, StoreLocks
  <2>7. view' = Store!Lock(view, u)
    BY <2>2, <2>3, <2>4, <2>5, <2>6, ZenonT(60)
  <2> QED
    BY <2>2, <2>3, <2>7, <1>1 DEF Store!LockStep
<1>4. ASSUME Release(l) PROVE Stands(T, P)' /\ Store!ReleaseStep(u)
  <2>1. PICK new : new = [blk[b] EXCEPT !.mutex = FALSE]
    OBVIOUS
  <2>2. SetField(l, new) /\ lastModifier' = lastModifier /\ l.resource # NULL
    BY <2>1, <1>4 DEF Release, SetField
  <2>3. /\ new.name = blk[b].name /\ new.next = blk[b].next /\ new.prev = blk[b].prev
        /\ new.subRoot = blk[b].subRoot /\ new.data = blk[b].data
        /\ new.mutex = FALSE /\ new.lastModified = k0 /\ new.clocktime = c0
    BY <2>1, <2>2, <1>2 DEF Block
  <2>4. PICK t, o, n, s :
          /\ u \in DOMAIN t /\ t[u] = EntryOf(m, k0, c0)
          /\ view = ViewOf(t, o, n, s, lastModifier)
          /\ view' = ViewOf([t EXCEPT ![u] = EntryOf(new.mutex, new.lastModified, new.clocktime)],
                            o, n, s, lastModifier')
    BY <2>2, <2>3, <1>1
  <2>5. [t EXCEPT ![u].mutex = FALSE] = [t EXCEPT ![u] = EntryOf(FALSE, k0, c0)]
    <3>1. PICK x : x = FALSE
      OBVIOUS
    <3>2. [EntryOf(m, k0, c0) EXCEPT !.mutex = x] = EntryOf(x, k0, c0)
      BY EntryMutex
    <3> QED
      BY <3>1, <3>2, <2>4, Zenon
  <2>6. Store!Release(ViewOf(t, o, n, s, lastModifier), u) =
          ViewOf([t EXCEPT ![u].mutex = FALSE], o, n, s, lastModifier)
    <3>1. u \in DOMAIN t
      BY <2>4
    <3> QED
      BY <3>1, StoreReleases
  <2>7. view' = Store!Release(view, u)
    BY <2>2, <2>3, <2>4, <2>5, <2>6, Zenon
  <2> QED
    BY <2>2, <2>3, <2>7, <1>1 DEF Store!ReleaseStep
<1>5. ASSUME NEW k, SetLastModified(l, k) PROVE Stands(T, P)' /\ Store!SetLastModifiedStep(u, k)
  <2>1. PICK new : new = [blk[b] EXCEPT !.lastModified = k]
    OBVIOUS
  <2>2. SetField(l, new) /\ lastModifier' = k /\ l.resource # NULL
    BY <2>1, <1>5 DEF SetLastModified, SetField
  <2>3. /\ new.name = blk[b].name /\ new.next = blk[b].next /\ new.prev = blk[b].prev
        /\ new.subRoot = blk[b].subRoot /\ new.data = blk[b].data
        /\ new.mutex = m /\ new.lastModified = k /\ new.clocktime = c0
    BY <2>1, <2>2, <1>2 DEF Block
  <2>4. PICK t, o, n, s :
          /\ u \in DOMAIN t /\ t[u] = EntryOf(m, k0, c0)
          /\ view = ViewOf(t, o, n, s, lastModifier)
          /\ view' = ViewOf([t EXCEPT ![u] = EntryOf(new.mutex, new.lastModified, new.clocktime)],
                            o, n, s, lastModifier')
    BY <2>2, <2>3, <1>1
  <2>5. [t EXCEPT ![u].lastModified = k] = [t EXCEPT ![u] = EntryOf(m, k, c0)]
    <3>1. [EntryOf(m, k0, c0) EXCEPT !.lastModified = k] = EntryOf(m, k, c0)
      BY EntryModified
    <3> QED
      BY <3>1, <2>4, Zenon
  <2>6. Store!SetLastModified(ViewOf(t, o, n, s, lastModifier), u, k) =
          ViewOf([t EXCEPT ![u].lastModified = k], o, n, s, k)
    <3>1. u \in DOMAIN t
      BY <2>4
    <3> QED
      BY <3>1, StoreModifies
  <2>7. view' = Store!SetLastModified(view, u, k)
    BY <2>2, <2>3, <2>4, <2>5, <2>6, SMTT(30)
  <2> QED
    BY <2>2, <2>3, <2>7, <1>1 DEF Store!SetLastModifiedStep
<1>6. ASSUME NEW c, SetClocktime(l, c) PROVE Stands(T, P)' /\ Store!SetClocktimeStep(u, c)
  <2>1. PICK new : new = [blk[b] EXCEPT !.clocktime = c]
    OBVIOUS
  <2>2. SetField(l, new) /\ lastModifier' = lastModifier /\ l.resource # NULL
    BY <2>1, <1>6 DEF SetClocktime, SetField
  <2>3. /\ new.name = blk[b].name /\ new.next = blk[b].next /\ new.prev = blk[b].prev
        /\ new.subRoot = blk[b].subRoot /\ new.data = blk[b].data
        /\ new.mutex = m /\ new.lastModified = k0 /\ new.clocktime = c
    BY <2>1, <2>2, <1>2 DEF Block
  <2>4. PICK t, o, n, s :
          /\ u \in DOMAIN t /\ t[u] = EntryOf(m, k0, c0)
          /\ view = ViewOf(t, o, n, s, lastModifier)
          /\ view' = ViewOf([t EXCEPT ![u] = EntryOf(new.mutex, new.lastModified, new.clocktime)],
                            o, n, s, lastModifier')
    BY <2>2, <2>3, <1>1
  <2>5. [t EXCEPT ![u].clocktime = c] = [t EXCEPT ![u] = EntryOf(m, k0, c)]
    <3>1. [EntryOf(m, k0, c0) EXCEPT !.clocktime = c] = EntryOf(m, k0, c)
      BY EntryClock
    <3> QED
      BY <3>1, <2>4, Zenon
  <2>6. Store!SetClocktime(ViewOf(t, o, n, s, lastModifier), u, c) =
          ViewOf([t EXCEPT ![u].clocktime = c], o, n, s, lastModifier)
    <3>1. u \in DOMAIN t
      BY <2>4
    <3> QED
      BY <3>1, StoreClocks
  <2>7. view' = Store!SetClocktime(view, u, c)
    BY <2>2, <2>3, <2>4, <2>5, <2>6, SMTT(30)
  <2> QED
    BY <2>2, <2>3, <2>7, <1>1 DEF Store!SetClocktimeStep
<1> QED
  BY <1>3, <1>4, <1>5, <1>6

-----------------------------------------------------------------------------
(* The start.                                                              *)

Down(k) == [i \in 1 .. k |-> k + 1 - i]

BootNamed == [b \in Blocks |-> [root |-> "S", path |-> <<BootNames[Len(BootNames) + 1 - b]>>]]

BootOrder == [i \in 1 .. Len(BootNames) |-> [root |-> "S", path |-> <<BootNames[i]>>]]

LEMMA BootStands ==
  ASSUME Init
  PROVE  /\ Stands(BootHangs, BootNamed)
         /\ Orders(BootNamed) = [r \in Roots |-> IF r = "S" THEN BootOrder ELSE <<>>]
         /\ \A b \in 1 .. Len(BootNames) : BootNamed[b] \in Uris
<1> PICK n, P, T : n = Len(BootNames) /\ P = BootNamed /\ T = BootHangs
  OBVIOUS
<1>1. TreeTyped /\ LinksTyped /\ Forest(T) /\ DataOwn(T) /\ BootLinked
  BY BootTree, TypedLinks
<1>2. n \in Nat /\ 1 .. n \subseteq Blocks /\ \A i \in 1 .. n : BootNames[i] \in STRING
  BY TreeAssumption DEF Blocks
<1>3. \A b \in 1 .. n : n + 1 - b \in 1 .. n /\ P[b] = [root |-> "S", path |-> <<BootNames[n + 1 - b]>>]
  BY <1>2 DEF BootNamed
<1>4. \A b \in 1 .. n : /\ P[b] \in Uris /\ P[b].root = "S" /\ Level(P[b]) = 1
                        /\ P[b].path[1] = BootNames[n + 1 - b]
  <2> TAKE b \in 1 .. n
  <2>1. PICK i : i \in 1 .. n /\ i = n + 1 - b
    BY <1>3
  <2>2. P[b] = [root |-> "S", path |-> <<BootNames[i]>>]
    BY <1>3, <2>1
  <2>3. P[b] \in BootUris
    BY <2>1, <2>2 DEF BootUris
  <2>4. P[b].path = <<BootNames[i]>> /\ P[b].root = "S"
    BY <2>2
  <2> QED
    BY <2>1, <2>3, <2>4, TreeAssumption DEF Level
<1>5. \A b, c \in 1 .. n : P[b] = P[c] => b = c
  <2> TAKE b, c \in 1 .. n
  <2>1. PICK i, j : i = n + 1 - b /\ j = n + 1 - c /\ i \in 1 .. n /\ j \in 1 .. n
    BY <1>3
  <2>2. P[b] = P[c] => BootNames[i] = BootNames[j]
    BY <2>1, <1>4
  <2>3. P[b] = P[c] => i = j
    BY <2>1, <2>2, NamingAssumption
  <2> QED
    BY <2>1, <2>3, <1>2
<1>6. /\ \A b \in 1 .. n : blk[b].next = b - 1 /\ blk[b].subRoot = NULL /\ blk[b].name = BootNames[n + 1 - b]
      /\ \A r \in Roots : /\ list[r] = (IF r = "S" THEN n ELSE NULL)
                          /\ OfRoot(T, r) = (IF r = "S" THEN 1 .. n ELSE {})
  BY <1>1 DEF BootLinked
<1>7. Named(T, P)
  <2>1. \A r \in Roots : list[r] # NULL => r = "S" /\ list[r] = n /\ n \in 1 .. n
    BY <1>2, <1>6 DEF NULL
  <2>2. ASSUME NEW b \in 1 .. n
        PROVE  /\ blk[b].name = P[b].path[Level(P[b])] /\ blk[b].subRoot = NULL
               /\ blk[b].next # NULL => /\ Level(P[blk[b].next]) = Level(P[b])
                                        /\ Agree(P[blk[b].next], P[b], Level(P[b]) - 1)
    <3>1. blk[b].next # NULL => blk[b].next \in 1 .. n
      BY <1>2, <1>6 DEF NULL
    <3> QED
      BY <3>1, <1>4, <1>6 DEF Agree
  <2>3. \A r \in Roots : list[r] # NULL => Level(P[list[r]]) = 1
    BY <2>1, <1>4
  <2>4. \A r \in Roots : \A b \in OfRoot(T, r) : r = "S" /\ b \in 1 .. n
    BY <1>6
  <2> QED
    BY <2>2, <2>3, <2>4, <1>4, <1>5 DEF Named
<1>8. "S" \in Roots
  <2>1. RootSeq[3] = "S" /\ 3 \in 1 .. Len(RootSeq)
    BY DEF RootSeq
  <2> QED
    BY <2>1 DEF Roots
<1>9. /\ PostOrder(NULL) = <<>>
      /\ \A b \in 1 .. n : PostOrder(b) = PostOrder(blk[b].subRoot) \o <<b>> \o PostOrder(blk[b].next)
  <2>1. Unfolded(T, "S")
    BY <1>1, <1>8, OrdersUnfold DEF AllUnfold
  <2> QED
    BY <2>1, <1>6, <1>8 DEF Unfolded
<1> PICK O : O = [b \in 0 .. n |-> PostOrder(b)]
  OBVIOUS
<1>10. O[0] = <<>> /\ \A b \in 1 .. n : O[b] = <<b>> \o O[b - 1]
  <2>1. O[0] = <<>>
    BY <1>2, <1>9 DEF NULL
  <2>2. ASSUME NEW b \in 1 .. n PROVE O[b] = <<b>> \o O[b - 1]
    <3>1. b - 1 \in 0 .. n /\ b \in 0 .. n /\ 0 \in 0 .. n /\ blk[b].next = b - 1 /\ blk[b].subRoot = 0
      BY <1>2, <1>6 DEF NULL
    <3>2. PostOrder(b) = PostOrder(blk[b].subRoot) \o <<b>> \o PostOrder(blk[b].next)
      BY <1>9
    <3>3. O[b] = PostOrder(b) /\ PostOrder(blk[b].subRoot) = O[0] /\ PostOrder(blk[b].next) = O[b - 1]
      BY <3>1
    <3> QED
      BY <2>1, <3>2, <3>3
  <2> QED
    BY <2>1, <2>2
<1>11. \A k \in Nat : k <= n => O[k] = Down(k)
  <2> DEFINE Good == {k \in Nat : k <= n => O[k] = Down(k)}
  <2>1. 0 \in Good
    <3>1. Down(0) = <<>>
      BY DEF Down
    <3> QED
      BY <3>1, <1>10
  <2>2. ASSUME NEW k \in Good PROVE k + 1 \in Good
    <3> SUFFICES ASSUME k + 1 <= n PROVE O[k + 1] = Down(k + 1)
      BY <2>2
    <3>1. k + 1 \in 1 .. n /\ (k + 1) - 1 = k /\ k \in Nat /\ O[k] = Down(k)
      BY <1>2, <2>2
    <3>2. O[k + 1] = <<k + 1>> \o Down(k)
      BY <3>1, <1>10
    <3>3. <<k + 1>> \o Down(k) = Down(k + 1)
      BY <3>1 DEF Down
    <3> QED
      BY <3>2, <3>3
  <2> HIDE DEF Good
  <2>3. \A k \in Nat : k \in Good
    BY <2>1, <2>2, NumberInduction, SMTT(30)
  <2> QED
    BY <2>3 DEF Good
<1>12. Orders(P) = [r \in Roots |-> IF r = "S" THEN BootOrder ELSE <<>>]
  <2>1. PostOrder(n) = Down(n) /\ PostOrder(NULL) = <<>>
    <3>1. n \in 0 .. n
      BY <1>2
    <3> QED
      BY <3>1, <1>2, <1>9, <1>11
  <2>2. Names(P, Down(n)) = BootOrder
    <3>1. Len(Down(n)) = n /\ \A i \in 1 .. n : Down(n)[i] = n + 1 - i /\ n + 1 - i \in 1 .. n
      BY <1>2 DEF Down
    <3>2. \A i \in 1 .. n : P[n + 1 - i] = [root |-> "S", path |-> <<BootNames[i]>>]
      <4> TAKE i \in 1 .. n
      <4>1. PICK b : b = n + 1 - i /\ b \in 1 .. n /\ n + 1 - b = i
        BY <1>2
      <4> QED
        BY <4>1, <1>3
    <3>3. \A i \in 1 .. n : P[Down(n)[i]] = [root |-> "S", path |-> <<BootNames[i]>>]
      BY <3>1, <3>2
    <3> QED
      BY <3>1, <3>3 DEF Names, BootOrder
  <2>3. Names(P, <<>>) = <<>>
    BY DEF Names
  <2>4. \A r \in Roots : Names(P, PostOrder(list[r])) = IF r = "S" THEN BootOrder ELSE <<>>
    BY <2>1, <2>2, <2>3, <1>6
  <2> QED
    BY <2>4 DEF Orders
<1> QED
  BY <1>1, <1>4, <1>7, <1>12 DEF Stands

LEMMA BootSeen ==
  ASSUME Init, view = StoreView
  PROVE  Store!Init
<1> PICK n, P, T : n = Len(BootNames) /\ P = BootNamed /\ T = BootHangs
  OBVIOUS
<1>1. Stands(T, P) /\ Orders(P) = [r \in Roots |-> IF r = "S" THEN BootOrder ELSE <<>>]
  BY BootStands
<1>2. BootLinked /\ n \in Nat
  BY BootTree, TreeAssumption
<1>3. PICK t : TreeIs(T, P, t) /\ view = Seen(P, t)
  BY <1>1, SeenBefore
<1>4. \A b \in 1 .. n : /\ n + 1 - b \in 1 .. n /\ P[b] \in Uris
                        /\ P[b] = [root |-> "S", path |-> <<BootNames[n + 1 - b]>>]
  <2>1. \A b \in 1 .. n : P[b] \in Uris
    BY BootStands
  <2>2. 1 .. n \subseteq Blocks
    BY TreeAssumption DEF Blocks
  <2> TAKE b \in 1 .. n
  <2>3. n + 1 - b \in 1 .. n
    BY <1>2
  <2>4. P[b] = [root |-> "S", path |-> <<BootNames[n + 1 - b]>>]
    BY <2>2 DEF BootNamed
  <2> QED
    BY <2>1, <2>3, <2>4
<1>5. /\ "S" \in Roots
      /\ \A r \in Roots : OfRoot(T, r) = IF r = "S" THEN 1 .. n ELSE {}
  <2>1. RootSeq[3] = "S" /\ 3 \in 1 .. Len(RootSeq)
    BY DEF RootSeq
  <2> QED
    BY <2>1, <1>2 DEF BootLinked, Roots
<1>6. NamesIn(T, P) = BootUris
  <2>1. ASSUME NEW u \in Uris
        PROVE  (\E b \in OfRoot(T, u.root) : P[b] = u) <=> u \in BootUris
    <3>1. u.root \in Roots
      BY UriIs
    <3>2. ASSUME NEW b \in OfRoot(T, u.root), P[b] = u PROVE u \in BootUris
      <4>1. b \in 1 .. n
        BY <3>1, <1>5
      <4> QED
        BY <4>1, <3>2, <1>4 DEF BootUris
    <3>3. ASSUME NEW i \in 1 .. n, u = [root |-> "S", path |-> <<BootNames[i]>>]
          PROVE  \E b \in OfRoot(T, u.root) : P[b] = u
      <4>1. PICK b : b = n + 1 - i /\ b \in 1 .. n /\ n + 1 - b = i
        BY <1>2
      <4>2. P[b] = u /\ u.root = "S"
        BY <4>1, <3>3, <1>4
      <4> QED
        BY <4>1, <4>2, <1>5
    <3> QED
      BY <3>2, <3>3 DEF BootUris
  <2>2. BootUris \subseteq Uris
    BY TreeAssumption
  <2> QED
    BY <2>1, <2>2 DEF NamesIn
<1>7. \A u \in BootUris : t[u] = EntryOf(FALSE, 0, 0)
  <2> TAKE u \in BootUris
  <2>1. u \in NamesIn(T, P)
    BY <1>6
  <2>2. PICK b \in OfRoot(T, u.root) : P[b] = u
    BY <2>1 DEF NamesIn
  <2>3. u.root \in Roots
    BY <2>1, UriIs DEF NamesIn
  <2>4. b \in 1 .. n
    BY <2>2, <2>3, <1>5
  <2>5. t[u] = Content(b)
    BY <2>2, <2>3, <1>3 DEF TreeIs
  <2> QED
    BY <2>4, <2>5, <1>2 DEF BootLinked, Content, EntryOf
<1>8. t = [u \in BootUris |-> EntryOf(FALSE, 0, 0)]
  BY <1>3, <1>6, <1>7 DEF TreeIs
<1>9. Cardinality(used) = n /\ SlotsTaken = [r \in Roots |-> IF r = "S" THEN n ELSE 0] /\ lastModifier = 0
  <2>1. Cardinality(1 .. n) = n /\ Cardinality({}) = 0
    <3>1. 1 \in Int /\ n \in Int /\ (1 > n => n = 0) /\ n - 1 + 1 = n
      BY <1>2
    <3>2. Cardinality(1 .. n) = IF 1 > n THEN 0 ELSE n - 1 + 1
      BY <3>1, FS_Interval
    <3>3. Cardinality({}) = 0
      BY FS_EmptySet
    <3> QED
      BY <3>1, <3>2, <3>3
  <2>2. used = 1 .. n /\ pool = [r \in Roots |-> IF r = "S" THEN 1 .. n ELSE {}] /\ lastModifier = 0
    BY DEF Init
  <2>3. \A r \in Roots : Cardinality(pool[r]) = IF r = "S" THEN n ELSE 0
    BY <2>1, <2>2
  <2> QED
    BY <2>1, <2>2, <2>3 DEF SlotsTaken
<1>10. Store!BootUris = BootUris
  <2>1. Store!BootUris = {BootOrder[i] : i \in 1 .. Len(BootOrder)}
    BY Zenon DEF Store!BootUris, Store!Elements, BootOrder
  <2>2. Len(BootOrder) = n /\ \A i \in 1 .. n : BootOrder[i] = [root |-> "S", path |-> <<BootNames[i]>>]
    BY <1>2 DEF BootOrder
  <2> QED
    BY <2>1, <2>2 DEF BootUris
<1>11. Store!Roots = Roots /\ Len(BootOrder) = n
  BY <1>2 DEF Store!Roots, Roots, RootSeq, BootOrder
<1> PICK e : e = [u \in Store!BootUris |-> Store!NewEntry(0)]
  OBVIOUS
<1>12. t = e
  BY <1>8, <1>10 DEF Store!NewEntry, EntryOf
<1>13. view = ViewOf(e, [r \in Roots |-> IF r = "S" THEN BootOrder ELSE <<>>], n,
                     [r \in Roots |-> IF r = "S" THEN n ELSE 0], 0)
  BY <1>1, <1>3, <1>9, <1>12 DEF Seen
<1>14. Store!BootStore(e) =
         [tree |-> e, order |-> [r \in Roots |-> IF r = "S" THEN BootOrder ELSE <<>>],
          blocks |-> n, slots |-> [r \in Roots |-> IF r = "S" THEN n ELSE 0],
          lastModifier |-> 0, fault |-> FALSE]
  BY <1>11, Zenon DEF Store!BootStore, BootOrder
<1>15. view = Store!BootStore(e)
  BY <1>13, <1>14, Zenon DEF ViewOf
<1>16. 0 \in Times
  BY TreeAssumption
<1>17. view = Store!BootStore([u \in Store!BootUris |-> Store!NewEntry(0)])
  BY <1>15
<1> QED
  BY <1>16, <1>17, Zenon DEF Store!Init

(* emma_set_last_modified_node.                                            *)
LEMMA NodeSeen ==
  ASSUME NEW T, NEW P, Stands(T, P), NEW k, SetLastModifiedNode(k), TreeTyped',
         view = StoreView, view' = StoreView'
  PROVE  Stands(T, P)' /\ Store!SetLastModifiedStep(NoUri, k)
<1>1. PICK t : TreeIs(T, P, t) /\ view = Seen(P, t)
  BY SeenBefore
<1>2. UNCHANGED <<used, blk, list, pool>> /\ lastModifier' = k
  BY DEF SetLastModifiedNode
<1>3. SameLinks /\ \A b \in used : Content(b)' = Content(b)
  BY <1>2 DEF SameLinks, Content
<1>4. Stands(T, P)' /\ Orders(P)' = Orders(P) /\ TreeIs(T, P, t)'
  BY <1>1, <1>3, SameStands, SameTree
<1>5. view' = Seen(P, t)'
  BY <1>4, SeenThen
<1> PICK o, n, s, m : o = Orders(P) /\ n = Cardinality(used) /\ s = SlotsTaken /\ m = lastModifier
  OBVIOUS
<1>6. SlotsTaken' = SlotsTaken
  BY <1>2 DEF SlotsTaken
<1>7. view = ViewOf(t, o, n, s, m) /\ view' = ViewOf(t, o, n, s, k)
  BY <1>1, <1>2, <1>4, <1>5, <1>6 DEF Seen
<1>8. [ViewOf(t, o, n, s, m) EXCEPT !.lastModifier = k] = ViewOf(t, o, n, s, k)
  BY ViewModifier
<1>9. view' = [view EXCEPT !.lastModifier = k]
  BY <1>7, <1>8, Zenon
<1> QED
  BY <1>4, <1>9, Zenon DEF Store!SetLastModifiedStep, Store!SetLastModified

-----------------------------------------------------------------------------
(* The refinement.                                                         *)

ViewInv == view = StoreView /\ \E T, P : Stands(T, P)

LEMMA ViewTyped ==
  ASSUME ViewInv
  PROVE  TreeInv
BY DEF ViewInv, Stands, TreeInv

(* A call with a uri.                                                      *)
LEMMA CallSeen ==
  ASSUME NEW T, NEW P, Stands(T, P), NEW u \in Uris, NEW l, l = Lookup(u), TreeTyped',
         view = StoreView, view' = StoreView',
         \/ Add(u, l) \/ Del(u, l) \/ Lock(l) \/ Release(l)
         \/ \E k \in Keys : SetLastModified(l, k)
         \/ \E t \in Times : SetClocktime(l, t)
  PROVE  (\E S, P2 : Stands(S, P2)') /\ (view' = view \/ Store!Next)
<1>1. CASE AddNoBlock(u, l) \/ DelRefused(l)
  <2>1. UNCHANGED <<used, blk, list, pool, lastModifier>>
    BY <1>1 DEF AddNoBlock, DelRefused
  <2> QED
    BY <2>1, UntouchedSeen
<1>2. CASE AddRootFull(u, l)
  BY <1>2, RootFullSeen
<1>3. CASE AddInFolder(u, l) \/ AddAtRoot(u, l) \/ AddNoFolder(u, l)
  <2>1. (\E S, P2 : Stands(S, P2)') /\ Store!AddStep(u)
    BY <1>3, InFolderSeen, AtRootSeen, NoFolderSeen
  <2> QED
    BY <2>1 DEF Store!Next
<1>4. CASE DelUnlinked(u, l)
  <2>1. (\E S : Stands(S, P)') /\ Store!DelStep(u)
    BY <1>4, UnlinkedSeen
  <2> QED
    BY <2>1 DEF Store!Next
<1>5. CASE Lock(l) \/ Release(l)
  <2>1. Stands(T, P)' /\ (Store!LockStep(u) \/ Store!ReleaseStep(u))
    BY <1>5, FieldsSeen
  <2> QED
    BY <2>1 DEF Store!Next
<1>6. ASSUME NEW k \in Keys, SetLastModified(l, k)
      PROVE  (\E S, P2 : Stands(S, P2)') /\ (view' = view \/ Store!Next)
  <2>1. Stands(T, P)' /\ Store!SetLastModifiedStep(u, k)
    BY <1>6, FieldsSeen
  <2> QED
    BY <2>1, <1>6 DEF Store!Next
<1>7. ASSUME NEW c \in Times, SetClocktime(l, c)
      PROVE  (\E S, P2 : Stands(S, P2)') /\ (view' = view \/ Store!Next)
  <2>1. Stands(T, P)' /\ Store!SetClocktimeStep(u, c)
    BY <1>7, FieldsSeen
  <2> QED
    BY <2>1, <1>7 DEF Store!Next
<1> QED
  BY <1>1, <1>2, <1>3, <1>4, <1>5, <1>6, <1>7 DEF Add, Del

LEMMA ViewStep ==
  ViewInv /\ it \in Iterators /\ [ViewNext]_<<vars, view>> => ViewInv' /\ it' \in Iterators /\ [Store!Next]_view
<1> SUFFICES ASSUME ViewInv, it \in Iterators, [ViewNext]_<<vars, view>>
             PROVE  ViewInv' /\ it' \in Iterators /\ [Store!Next]_view
  OBVIOUS
<1>1. TreeInv' /\ it' \in Iterators
  BY ViewTyped, TreeStep DEF ViewNext, vars
<1>2. PICK T, P : Stands(T, P)
  BY DEF ViewInv
<1>3. view = StoreView /\ TreeTyped'
  BY <1>1 DEF ViewInv, TreeInv
<1>4. CASE UNCHANGED <<vars, view>>
  <2>1. UNCHANGED vars /\ view' = view
    BY <1>4
  <2>2. StoreView' = StoreView
    BY <2>1 DEF vars, StoreView, UriWalk, Resource, Lookup, OnList
  <2>3. UNCHANGED <<used, blk, list, pool, lastModifier>> /\ view' = StoreView'
    BY <2>1, <2>2, <1>3 DEF vars
  <2>4. Stands(T, P)'
    BY <2>3, <1>2, <1>3, UntouchedSeen
  <2> QED
    BY <2>1, <2>3, <2>4, <1>1 DEF ViewInv
<1>5. CASE ViewNext
  <2>1. Next /\ view' = StoreView'
    BY <1>5 DEF ViewNext
  <2>2. SUFFICES (\E S, P2 : Stands(S, P2)') /\ (view' = view \/ Store!Next)
    BY <2>1, <1>1 DEF ViewInv
  <2>3. ASSUME NEW u \in Uris, NEW l, l = Lookup(u),
               \/ Add(u, l) \/ Del(u, l) \/ Lock(l) \/ Release(l)
               \/ \E k \in Keys : SetLastModified(l, k)
               \/ \E t \in Times : SetClocktime(l, t)
        PROVE  (\E S, P2 : Stands(S, P2)') /\ (view' = view \/ Store!Next)
    BY <2>1, <2>3, <1>2, <1>3, CallSeen
  <2>4. ASSUME NEW k \in Keys, SetLastModifiedNode(k)
        PROVE  (\E S, P2 : Stands(S, P2)') /\ (view' = view \/ Store!Next)
    <3>1. Stands(T, P)' /\ Store!SetLastModifiedStep(NoUri, k)
      BY <2>1, <2>4, <1>2, <1>3, NodeSeen
    <3> QED
      BY <3>1, <2>4 DEF Store!Next
  <2>5. ASSUME NEW i, Walk(i) PROVE (\E S, P2 : Stands(S, P2)') /\ (view' = view \/ Store!Next)
    <3>1. UNCHANGED <<used, blk, list, pool, lastModifier>>
      BY <2>5 DEF Walk
    <3> QED
      BY <3>1, <2>1, <1>2, <1>3, UntouchedSeen
  <2>6. \/ \E u \in Uris : \E l \in {Lookup(u)} :
             \/ Add(u, l) \/ Del(u, l) \/ Lock(l) \/ Release(l)
             \/ \E k \in Keys : SetLastModified(l, k)
             \/ \E t \in Times : SetClocktime(l, t)
        \/ \E k \in Keys : SetLastModifiedNode(k)
        \/ \E r \in 1 .. Len(RootSeq) : StartWalk(r)
        \/ ContinueWalk
    BY <2>1 DEF Next
  <2> QED
    BY <2>3, <2>4, <2>5, <2>6 DEF StartWalk, ContinueWalk
<1> QED
  BY <1>4, <1>5

(* emma-resource.c implements the store its callers are told of: whatever  *)
(* was linked, unlinked and leaked before, every call does to the pointers *)
(* what ResourceStore says it does to the resources, to the order they are *)
(* walked in and to what is left of the pools.                             *)
THEOREM TreeIsStore == ViewSpec => ImplementsStore
<1>1. ViewInit => ViewInv /\ it \in Iterators
  BY BootStands, InitTree DEF ViewInit, ViewInv
<1>2. ViewInit => Store!Init
  BY BootSeen DEF ViewInit
<1>3. ViewInv /\ it \in Iterators /\ [ViewNext]_<<vars, view>>
        => (ViewInv /\ it \in Iterators)' /\ [Store!Next]_view
  BY ViewStep
<1>4. [Store!Next]_view => [Store!Next]_Store!vars
  BY DEF Store!vars
<1> QED
  BY <1>1, <1>2, <1>3, <1>4, PTL DEF ViewSpec, ImplementsStore, Store!Spec

-----------------------------------------------------------------------------
(* The pools. A block and a data slot are taken and given back together.   *)

Out(c) == c["A"] + c["L"] + c["S"]

Counted == Cardinality(used) = Out(SlotsTaken)

LEMMA RootsAre == Roots = {"A", "L", "S"}
BY DEF Roots, RootSeq

LEMMA OutMoves ==
  ASSUME NEW c \in [Roots -> Int], NEW then \in [Roots -> Int], NEW r \in Roots,
         \A q \in Roots \ {r} : then[q] = c[q]
  PROVE  Out(then) = Out(c) + (then[r] - c[r])
BY RootsAre DEF Out

LEMMA CountsTyped ==
  ASSUME TreeTyped
  PROVE  SlotsTaken \in [Roots -> Nat] /\ Cardinality(used) \in Nat
<1>1. \A r \in Roots : Cardinality(pool[r]) \in Nat
  BY Counts, FS_CardinalityType
<1> QED
  BY <1>1, Counts, FS_CardinalityType DEF SlotsTaken

(* A call that takes a block has taken a slot with it.                     *)
LEMMA TakeCounts ==
  ASSUME TreeTyped, Counted, NEW u \in Uris, NEW l, CanTake(u, l), Take(u)
  PROVE  Counted'
<1> PICK r : r = u.root
  OBVIOUS
<1>0. r \in Roots /\ used # Blocks /\ pool[r] # Slots(r) /\ IsFiniteSet(used) /\ IsFiniteSet(pool[r])
  BY UriIs, Counts DEF CanTake
<1>1. Cardinality(used') = Cardinality(used) + 1
  <2>1. PICK n : n = FreeBlock
    OBVIOUS
  <2>2. used' = used \cup {n} /\ n \notin used
    BY <2>1, <1>0, FreeBlockIs, TreeAssumption DEF Take, TreeTyped
  <2> QED
    BY <2>2, <1>0, FS_AddElement
<1>2. PICK c : c = SlotsTaken /\ c \in [Roots -> Nat]
  BY CountsTyped
<1>3. SlotsTaken' = [c EXCEPT ![r] = c[r] + 1]
  <2>1. PICK s : s = FreeSlot(r)
    OBVIOUS
  <2>2. s \notin pool[r] /\ pool' = [pool EXCEPT ![r] = @ \cup {s}]
    BY <2>1, <1>0, FreeSlotIs DEF TreeTyped, Take
  <2>3. Cardinality(pool[r] \cup {s}) = Cardinality(pool[r]) + 1
    BY <2>2, <1>0, FS_AddElement
  <2>4. \A q \in Roots : pool'[q] = IF q = r THEN pool[r] \cup {s} ELSE pool[q]
    BY <2>2 DEF TreeTyped
  <2>5. PICK f2 : f2 = [q \in Roots |-> Cardinality(pool'[q])]
    OBVIOUS
  <2>6. f2 = [c EXCEPT ![r] = c[r] + 1]
    BY <2>3, <2>4, <2>5, <1>0, <1>2 DEF SlotsTaken
  <2> QED
    BY <2>5, <2>6, Zenon DEF SlotsTaken
<1>4. PICK then : then = SlotsTaken' /\ then = [c EXCEPT ![r] = c[r] + 1]
  BY <1>3
<1>5. Out(then) = Out(c) + 1
  <2>1. /\ c \in [Roots -> Int] /\ then \in [Roots -> Int] /\ then[r] - c[r] = 1
        /\ \A q \in Roots \ {r} : then[q] = c[q]
    BY <1>0, <1>2, <1>4
  <2> QED
    BY <2>1, <1>0, OutMoves
<1> QED
  BY <1>1, <1>2, <1>4, <1>5 DEF Counted, Out

(* del gives back the slot of the block it unlinks.                        *)
LEMMA DelCounts ==
  ASSUME NEW T, NEW P, Stands(T, P), Counted, NEW u \in Uris, NEW l, l = Lookup(u), DelUnlinked(u, l)
  PROVE  Counted'
<1> PICK r, b : r = u.root /\ b = l.resource
  OBVIOUS
<1>0. r \in Roots /\ TreeTyped /\ LinksTyped /\ Forest(T) /\ DataOwn(T) /\ Named(T, P) /\ b # NULL
  BY TypedLinks, UriIs DEF Stands, DelUnlinked
<1>1. b \in OfRoot(T, r)
  <2>1. l.resource # NULL => l.resource \in OfRoot(T, u.root) /\ P[l.resource] = u
    BY <1>0, LookupIs
  <2> QED
    BY <2>1, <1>0
<1>2. IsFiniteSet(used) /\ IsFiniteSet(pool[r])
  BY <1>0, Counts
<1>3. Cardinality(used') = Cardinality(used) - 1
  <2>1. used' = used \ {b}
    BY DEF DelUnlinked
  <2>2. b \in used
    BY <1>0, <1>1 DEF Forest, InOrder
  <2> QED
    BY <2>1, <2>2, <1>2, FS_RemoveElement
<1>4. PICK c : c = SlotsTaken /\ c \in [Roots -> Nat]
  BY <1>0, CountsTyped
<1>5. SlotsTaken' = [c EXCEPT ![r] = c[r] + (-1)]
  <2>1. PICK s : s = blk[b].data
    OBVIOUS
  <2>2. s \in pool[r]
    BY <2>1, <1>0, <1>1 DEF DataOwn
  <2>3. pool' = [pool EXCEPT ![r] = @ \ {s}]
    BY <2>1, Zenon DEF DelUnlinked
  <2>4. Cardinality(pool[r] \ {s}) = Cardinality(pool[r]) - 1
    BY <2>2, <1>2, FS_RemoveElement
  <2>5. \A q \in Roots : pool'[q] = IF q = r THEN pool[r] \ {s} ELSE pool[q]
    BY <2>3, <1>0 DEF TreeTyped
  <2>6. PICK f2 : f2 = [q \in Roots |-> Cardinality(pool'[q])]
    OBVIOUS
  <2>7. f2 = [c EXCEPT ![r] = c[r] + (-1)]
    BY <2>4, <2>5, <2>6, <1>0, <1>4 DEF SlotsTaken
  <2> QED
    BY <2>6, <2>7, Zenon DEF SlotsTaken
<1>6. PICK then : then = SlotsTaken' /\ then = [c EXCEPT ![r] = c[r] + (-1)]
  BY <1>5
<1>7. Out(then) = Out(c) + (-1)
  <2>1. /\ c \in [Roots -> Int] /\ then \in [Roots -> Int] /\ then[r] - c[r] = (-1)
        /\ \A q \in Roots \ {r} : then[q] = c[q]
    BY <1>0, <1>4, <1>6
  <2> QED
    BY <2>1, <1>0, OutMoves
<1>8. Cardinality(used) \in Nat
  BY <1>0, CountsTyped
<1> QED
  BY <1>3, <1>4, <1>6, <1>7, <1>8 DEF Counted, Out

LEMMA CountedStep ==
  ViewInv /\ Counted /\ [ViewNext]_<<vars, view>> => Counted'
<1> SUFFICES ASSUME ViewInv, Counted, [ViewNext]_<<vars, view>> PROVE Counted'
  OBVIOUS
<1>1. PICK T, P : Stands(T, P)
  BY DEF ViewInv
<1>2. CASE UNCHANGED <<used, pool>>
  BY <1>2 DEF Counted, SlotsTaken
<1>3. ASSUME NEW u \in Uris, NEW l, l = Lookup(u), AddInFolder(u, l) \/ AddAtRoot(u, l) \/ AddNoFolder(u, l)
      PROVE  Counted'
  <2>1. CanTake(u, l) /\ Take(u) /\ TreeTyped
    BY <1>1, <1>3 DEF AddInFolder, AddAtRoot, AddNoFolder, Stands
  <2> QED
    BY <2>1, TakeCounts
<1>4. ASSUME NEW u \in Uris, NEW l, l = Lookup(u), DelUnlinked(u, l) PROVE Counted'
  BY <1>1, <1>4, DelCounts
<1>5. ASSUME NEW u \in Uris, NEW l, l = Lookup(u),
             \/ AddNoBlock(u, l) \/ AddRootFull(u, l) \/ DelRefused(l) \/ Lock(l) \/ Release(l)
             \/ \E k \in Keys : SetLastModified(l, k)
             \/ \E t \in Times : SetClocktime(l, t)
      PROVE  UNCHANGED <<used, pool>>
  BY <1>5 DEF AddNoBlock, AddRootFull, DelRefused, Lock, Release, SetLastModified, SetClocktime, SetField
<1>6. ASSUME NEW i, Walk(i) PROVE UNCHANGED <<used, pool>>
  BY <1>6 DEF Walk
<1>7. ASSUME NEW k \in Keys, SetLastModifiedNode(k) PROVE UNCHANGED <<used, pool>>
  BY <1>7 DEF SetLastModifiedNode
<1>8. CASE UNCHANGED <<vars, view>>
  BY <1>8, <1>2 DEF vars
<1>9. CASE Next
  BY <1>2, <1>3, <1>4, <1>5, <1>6, <1>7, <1>9 DEF Next, Add, Del, StartWalk, ContinueWalk
<1> QED
  BY <1>8, <1>9 DEF ViewNext

LEMMA CountUpTo ==
  ASSUME NEW n \in Nat
  PROVE  Cardinality(1 .. n) = n
<1>1. /\ 1 \in Int /\ n \in Int
  OBVIOUS
<1>2. Cardinality(1 .. n) = IF 1 > n THEN 0 ELSE n - 1 + 1
  BY <1>1, FS_Interval, Zenon
<1> QED
  BY <1>2

LEMMA CountedAtStart ==
  ASSUME Init
  PROVE  Counted
<1> PICK n : n = Len(BootNames) /\ n \in Nat
  BY TreeAssumption
<1>1. used = 1 .. n /\ \A r \in Roots : pool[r] = IF r = "S" THEN 1 .. n ELSE {}
  BY DEF Init
<1>2. Cardinality(1 .. n) = n /\ Cardinality({}) = 0
  BY CountUpTo, FS_EmptySet, Zenon
<1>3. SlotsTaken["A"] = 0 /\ SlotsTaken["L"] = 0 /\ SlotsTaken["S"] = n
  BY <1>1, <1>2, RootsAre DEF SlotsTaken
<1> QED
  BY <1>1, <1>2, <1>3 DEF Counted, Out

(* As many blocks are out as slots, so the last slot goes before the last  *)
(* block does.                                                             *)
LEMMA PoolLasts ==
  ASSUME ViewInv, Counted
  PROVE  PoolNeverExhausted
<1>1. PICK T, P : Stands(T, P) /\ TreeTyped
  BY DEF ViewInv, Stands
<1>2. PICK t : view = ViewOf(t, Orders(P), Cardinality(used), SlotsTaken, lastModifier)
  BY <1>1, SeenBefore DEF ViewInv, Seen
<1>3. view.blocks = Cardinality(used) /\ view.slots = SlotsTaken
  BY <1>2, ViewGet
<1>4. Store!BlocksAccounted(view)
  BY <1>3 DEF Store!BlocksAccounted, Counted, Out
<1>5. ASSUME NEW r \in Roots PROVE SlotsTaken[r] \in Nat /\ SlotsTaken[r] <= Capacity[r]
  <2>1. Capacity[r] \in Nat /\ IsFiniteSet(Slots(r)) /\ Cardinality(Slots(r)) = Capacity[r]
    BY TreeAssumption, FS_Interval, SMTT(30) DEF Slots
  <2>2. Cardinality(pool[r]) \in Nat /\ Cardinality(pool[r]) <= Capacity[r]
    BY <2>1, <1>1, FS_Subset, FS_CardinalityType DEF TreeTyped
  <2> QED
    BY <2>2 DEF SlotsTaken
<1>6. Cardinality(used) < MaxResources
  <2>1. PICK k, f : k = Cardinality(used) /\ f = SlotsTaken
    OBVIOUS
  <2>2. \A r \in {"A", "L", "S"} : f[r] \in Nat /\ f[r] <= Capacity[r] /\ Capacity[r] \in Nat
    BY <2>1, <1>5, RootsAre, TreeAssumption
  <2>3. k = f["A"] + f["L"] + f["S"]
    BY <2>1 DEF Counted, Out
  <2> QED
    BY <2>1, <2>2, <2>3, PoolAssumption, TreeAssumption
<1>7. used # Blocks
  <2>1. MaxResources \in Nat /\ IsFiniteSet(Blocks) /\ Cardinality(Blocks) = MaxResources
    BY TreeAssumption, FS_Interval DEF Blocks
  <2> QED
    BY <2>1, <1>6
<1> QED
  BY <1>4, <1>7 DEF PoolNeverExhausted

(* emma_resource_add never cleans a block it was not given                 *)
(* (emma-resource.c:498), however many adds have leaked their blocks, for  *)
(* pools of any size.                                                      *)
THEOREM BlocksLast == ViewSpec => []PoolNeverExhausted
<1>1. ViewInit => ViewInv /\ it \in Iterators /\ Counted
  BY BootStands, InitTree, CountedAtStart DEF ViewInit, ViewInv
<1>2. ViewInv /\ it \in Iterators /\ Counted /\ [ViewNext]_<<vars, view>>
        => (ViewInv /\ it \in Iterators /\ Counted)'
  BY ViewStep, CountedStep
<1>3. ViewInv /\ Counted => PoolNeverExhausted
  BY PoolLasts
<1> QED
  BY <1>1, <1>2, <1>3, PTL DEF ViewSpec
=============================================================================
