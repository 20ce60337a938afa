------------------------- MODULE ResourceStoreProofs -------------------------
(***************************************************************************)
(* The invariants of ResourceStore for all names, pools and boot lists.    *)
(*                                                                         *)
(* Sound(s) is inductive. Its heart is the count of blocks: an add takes a *)
(* block and a data slot together, and keeps both when it fails for a      *)
(* missing folder; a del gives both back. So the blocks in use are the     *)
(* slots in use, leaked ones included, and as the pools of the roots hold  *)
(* fewer slots than there are blocks, a block is left whenever a slot is.  *)
(* The rest is about sequences: the list of a root with a resource put in  *)
(* or taken out. There is one lemma per call, for any sound store s, so    *)
(* that handlers which make several calls can be proved about with them.   *)
(***************************************************************************)
EXTENDS ResourceStore, FiniteSetTheorems, FunctionTheorems, SequenceTheorems,
        WellFoundedInduction, TLAPS

-----------------------------------------------------------------------------
(* Sequences.                                                              *)

(* A non-empty set of numbers has a least element.                         *)
LEMMA LeastIndex ==
  ASSUME NEW I, I \subseteq Nat, I # {}
  PROVE  \E i \in I : \A j \in I : i <= j
<1>1. IsWellFoundedOn(OpToRel(<, Nat), Nat)
  BY NatLessThanWellFounded
<1>2. PICK i \in I : \A j \in I : <<j, i>> \notin OpToRel(<, Nat)
  BY <1>1, WFMin
<1>3. ASSUME NEW j \in I PROVE i <= j
  <2>1. j \in Nat /\ i \in Nat
    OBVIOUS
  <2>2. ASSUME j < i PROVE <<j, i>> \in OpToRel(<, Nat)
    BY <2>1, <2>2, Zenon DEF OpToRel
  <2>3. ~(j < i)
    BY <1>2, <2>2
  <2> QED
    BY <2>1, <2>3
<1> QED
  BY <1>3

(* Opening a sequence at k and putting u there moves the rest up by one.   *)
LEMMA PutAt ==
  ASSUME NEW S, NEW seq \in Seq(S), NEW u \in S, NEW k \in 1 .. Len(seq) + 1,
         u \notin Elements(seq), Distinct(seq)
  PROVE  LET new == SubSeq(seq, 1, k - 1) \o <<u>> \o SubSeq(seq, k, Len(seq))
         IN new \in Seq(S) /\ Elements(new) = Elements(seq) \cup {u} /\ Distinct(new)
<1> DEFINE before == SubSeq(seq, 1, k - 1)
           after == SubSeq(seq, k, Len(seq))
           new == before \o <<u>> \o after
<1>1. Len(seq) \in Nat /\ \A i \in 1 .. Len(seq) : seq[i] \in S
  OBVIOUS
<1>2. /\ before \in Seq(S)
      /\ Len(before) = k - 1
      /\ \A i \in 1 .. k - 1 : before[i] = seq[i]
  BY <1>1, SubSeqProperties
<1>3. /\ after \in Seq(S)
      /\ Len(after) = Len(seq) - k + 1
      /\ \A i \in 1 .. Len(seq) - k + 1 : after[i] = seq[k + i - 1]
  BY <1>1, SubSeqProperties
<1>4. /\ <<u>> \in Seq(S) /\ Len(<<u>>) = 1 /\ <<u>>[1] = u
  OBVIOUS
<1> HIDE DEF before, after
<1>5. /\ before \o <<u>> \in Seq(S)
      /\ Len(before \o <<u>>) = k
      /\ \A i \in 1 .. k : (before \o <<u>>)[i] = IF i < k THEN seq[i] ELSE u
  BY <1>1, <1>2, <1>4, ConcatProperties
<1>6. /\ new \in Seq(S)
      /\ Len(new) = Len(seq) + 1
      /\ \A i \in 1 .. Len(seq) + 1 :
            new[i] = IF i < k THEN seq[i] ELSE IF i = k THEN u ELSE seq[i - 1]
  BY <1>1, <1>3, <1>5, ConcatProperties
<1> HIDE DEF new
<1>7. Elements(new) = Elements(seq) \cup {u}
  <2>1. ASSUME NEW i \in 1 .. Len(seq) PROVE seq[i] \in Elements(new)
    <3>1. CASE i < k
      BY <1>1, <1>6, <3>1 DEF Elements
    <3>2. CASE i >= k
      <4>1. i + 1 \in 1 .. Len(new) /\ new[i + 1] = seq[i]
        BY <1>1, <1>6, <3>2
      <4> QED BY <4>1 DEF Elements
    <3> QED BY <3>1, <3>2, <1>1
  <2>2. u \in Elements(new)
    BY <1>1, <1>6 DEF Elements
  <2>3. ASSUME NEW i \in 1 .. Len(new) PROVE new[i] \in Elements(seq) \cup {u}
    BY <1>1, <1>6 DEF Elements
  <2> QED
    BY <2>1, <2>2, <2>3 DEF Elements
<1>8. Distinct(new)
  <2> SUFFICES ASSUME NEW i \in 1 .. Len(new), NEW j \in 1 .. Len(new), new[i] = new[j]
               PROVE  i = j
    BY DEF Distinct
  <2>1. \A n \in 1 .. Len(seq) : seq[n] # u
    BY DEF Elements
  <2>2. ASSUME NEW n \in 1 .. Len(new), n # k
        PROVE  \E m \in 1 .. Len(seq) : m = (IF n < k THEN n ELSE n - 1) /\ new[n] = seq[m]
    BY <1>1, <1>6, <2>2
  <2>3. CASE i = k \/ j = k
    BY <1>1, <1>6, <2>1, <2>2, <2>3
  <2>4. CASE i # k /\ j # k
    <3>1. PICK m \in 1 .. Len(seq) : m = (IF i < k THEN i ELSE i - 1) /\ new[i] = seq[m]
      BY <2>2, <2>4
    <3>2. PICK n \in 1 .. Len(seq) : n = (IF j < k THEN j ELSE j - 1) /\ new[j] = seq[n]
      BY <2>2, <2>4
    <3>3. m = n
      BY <3>1, <3>2 DEF Distinct
    <3> QED
      BY <1>1, <1>6, <2>4, <3>1, <3>2, <3>3
  <2> QED
    BY <2>3, <2>4
<1> QED
  BY <1>6, <1>7, <1>8 DEF new, before, after

(* Closing a sequence without repetitions over its element u removes u.    *)
LEMMA UnlinkedProperties ==
  ASSUME NEW seq \in Seq(Uris), NEW u \in Elements(seq), Distinct(seq)
  PROVE  /\ Unlinked(seq, u) \in Seq(Uris)
         /\ Elements(Unlinked(seq, u)) = Elements(seq) \ {u}
         /\ Distinct(Unlinked(seq, u))
<1> DEFINE k == CHOOSE i \in 1 .. Len(seq) : seq[i] = u
           before == SubSeq(seq, 1, k - 1)
           after == SubSeq(seq, k + 1, Len(seq))
           new == before \o after
<1>1. Len(seq) \in Nat /\ \A i \in 1 .. Len(seq) : seq[i] \in Uris
  OBVIOUS
<1>2. k \in 1 .. Len(seq) /\ seq[k] = u
  BY DEF Elements
<1> HIDE DEF k
<1>3. /\ before \in Seq(Uris)
      /\ Len(before) = k - 1
      /\ \A i \in 1 .. k - 1 : before[i] = seq[i]
  BY <1>1, <1>2, SubSeqProperties
<1>4. /\ after \in Seq(Uris)
      /\ Len(after) = Len(seq) - k
      /\ \A i \in 1 .. Len(seq) - k : after[i] = seq[k + i]
  BY <1>1, <1>2, SubSeqProperties
<1> HIDE DEF before, after
<1>5. /\ new \in Seq(Uris)
      /\ Len(new) = Len(seq) - 1
      /\ \A i \in 1 .. Len(seq) - 1 : new[i] = IF i < k THEN seq[i] ELSE seq[i + 1]
  <2>1. /\ new \in Seq(Uris)
        /\ Len(new) = Len(before) + Len(after)
        /\ \A i \in 1 .. Len(before) + Len(after) :
              new[i] = IF i <= Len(before) THEN before[i] ELSE after[i - Len(before)]
    BY <1>3, <1>4, ConcatProperties
  <2>2. Len(new) = Len(seq) - 1
    BY <1>1, <1>2, <1>3, <1>4, <2>1
  <2>3. ASSUME NEW i \in 1 .. Len(seq) - 1
        PROVE  new[i] = IF i < k THEN seq[i] ELSE seq[i + 1]
    <3> HIDE DEF new
    <3>1. CASE i < k
      BY <1>1, <1>2, <1>3, <1>4, <2>1, <3>1, SMTT(20)
    <3>2. CASE i >= k
      <4>1. i - (k - 1) \in 1 .. Len(seq) - k /\ k + (i - (k - 1)) = i + 1
        BY <1>1, <1>2, <3>2
      <4>2. new[i] = after[i - (k - 1)]
        BY <1>1, <1>2, <1>3, <1>4, <2>1, <3>2, SMTT(20)
      <4>3. after[i - (k - 1)] = seq[k + (i - (k - 1))]
        BY <1>4, <4>1
      <4> QED
        BY <1>1, <1>2, <3>2, <4>1, <4>2, <4>3
    <3> QED
      BY <1>1, <1>2, <3>1, <3>2
  <2> QED
    BY <2>1, <2>2, <2>3
<1> HIDE DEF new
<1>6. Elements(new) = Elements(seq) \ {u}
  <2>1. ASSUME NEW i \in 1 .. Len(seq), seq[i] # u PROVE seq[i] \in Elements(new)
    <3>1. CASE i < k
      BY <1>1, <1>2, <1>5, <3>1 DEF Elements
    <3>2. CASE i > k
      <4>1. i - 1 \in 1 .. Len(new) /\ new[i - 1] = seq[i]
        BY <1>1, <1>2, <1>5, <3>2
      <4> QED BY <4>1 DEF Elements
    <3> QED BY <1>1, <1>2, <2>1, <3>1, <3>2
  <2>2. ASSUME NEW i \in 1 .. Len(new) PROVE new[i] \in Elements(seq) \ {u}
    BY <1>1, <1>2, <1>5 DEF Elements, Distinct
  <2> QED
    BY <2>1, <2>2 DEF Elements
<1>7. Distinct(new)
  BY <1>1, <1>2, <1>5 DEF Distinct
<1>8. Unlinked(seq, u) = new
  BY DEF Unlinked, new, before, after, k
<1> QED
  BY <1>5, <1>6, <1>7, <1>8

(* A resource whose folder is in the walk gets a place in the walk.        *)
LEMMA LinkedProperties ==
  ASSUME NEW seq \in Seq(Uris), NEW u \in Uris, u \notin Elements(seq), Distinct(seq),
         Parent[u] = NoUri \/ Parent[u] \in Elements(seq)
  PROVE  /\ Linked(seq, u) \in Seq(Uris)
         /\ Elements(Linked(seq, u)) = Elements(seq) \cup {u}
         /\ Distinct(Linked(seq, u))
<1>1. Place(seq, u) \in 1 .. Len(seq) + 1
  <2>1. Len(seq) \in Nat
    OBVIOUS
  <2>2. CASE Parent[u] = NoUri
    BY <2>1, <2>2 DEF Place
  <2>3. CASE Parent[u] # NoUri
    <3> DEFINE I == {i \in 1 .. Len(seq) : seq[i] \in Under(Parent[u])}
    <3>1. I \subseteq Nat /\ I # {}
      <4>1. Parent[u] \in Under(Parent[u])
        BY Zenon DEF Under
      <4>2. PICK i \in 1 .. Len(seq) : seq[i] = Parent[u]
        BY <2>3 DEF Elements
      <4> QED
        BY <4>1, <4>2
    <3>2. PICK i \in I : \A j \in I : i <= j
      BY <3>1, LeastIndex
    <3>3. \A j \in 1 .. i - 1 : seq[j] \notin Under(Parent[u])
      BY <2>1, <3>2
    <3>4. Place(seq, u) \in 1 .. Len(seq)
      BY <2>3, <3>2, <3>3 DEF Place
    <3> QED
      BY <2>1, <3>4
  <2> QED
    BY <2>2, <2>3
<1> QED
  BY <1>1, PutAt DEF Linked

-----------------------------------------------------------------------------
(* Start-up.                                                               *)

(* The node starts with the resources of S, each with block and data slot. *)
LEMMA BootSound == Init => Sound(store)
<1> SUFFICES ASSUME NEW t \in Times, store = BootStore([u \in BootUris |-> NewEntry(t)])
             PROVE  Sound(store)
  BY DEF Init
<1>1. Len(Boot) \in Nat /\ BootUris \subseteq Uris
  BY BootAssumption DEF BootUris, Elements
<1>2. [u \in BootUris |-> NewEntry(t)] \in Trees
  <2>1. NewEntry(t) \in Entry
    BY NamesAssumption DEF NewEntry, Entry
  <2> QED
    BY <1>1, <2>1 DEF Trees
<1>3. store.order \in [Roots -> Seq(Uris)]
  BY BootAssumption DEF BootStore, Roots
<1>4. WellTyped(store)
  BY <1>1, <1>2, <1>3, NamesAssumption, PoolsAssumption
  DEF WellTyped, StoreType, BootStore, Roots
<1>5. BlocksAccounted(store) /\ ~store.fault
  BY <1>1 DEF BootStore, BlocksAccounted, Roots
<1>6. FoldersLinked(store)
  BY BootAssumption DEF FoldersLinked, FolderFound, BootStore
<1>7. \A r \in Roots : Listed(store, r) = IF r = "S" THEN BootUris ELSE {}
  BY BootAssumption DEF Listed, BootStore
<1>8. WalkListsAll(store)
  <2>1. Elements(<<>>) = {} /\ Distinct(<<>>)
    BY DEF Elements, Distinct
  <2> QED
    BY <1>7, <2>1, BootAssumption DEF WalkListsAll, BootStore, BootUris
<1>9. SlotsCover(store)
  <2>1. IsFiniteSet(BootUris) /\ Cardinality(BootUris) = Len(Boot)
    <3> DEFINE at == [i \in 1 .. Len(Boot) |-> Boot[i]]
    <3>1. at \in [1 .. Len(Boot) -> BootUris]
      BY DEF BootUris, Elements
    <3>2. \A i, j \in 1 .. Len(Boot) : at[i] = at[j] => i = j
      BY BootAssumption DEF Distinct
    <3>3. \A u \in BootUris : \E i \in 1 .. Len(Boot) : at[i] = u
      BY DEF BootUris, Elements
    <3>4. ExistsBijection(1 .. Len(Boot), BootUris)
      BY <3>1, <3>2, <3>3, Fun_ExistsBij
      DEF Bijection, Injection, Surjection, IsInjective
    <3>5. IsFiniteSet(1 .. Len(Boot)) /\ Cardinality(1 .. Len(Boot)) = Len(Boot)
      <4>1. 1 \in Int /\ Len(Boot) \in Int
        BY <1>1
      <4>2. /\ IsFiniteSet(1 .. Len(Boot))
            /\ Cardinality(1 .. Len(Boot)) = IF 1 > Len(Boot) THEN 0 ELSE Len(Boot) - 1 + 1
        BY <4>1, FS_Interval
      <4> QED
        BY <1>1, <4>2
    <3> QED
      BY <3>4, <3>5, FS_Bijection
  <2>2. \A r \in Roots : store.slots[r] = IF r = "S" THEN Len(Boot) ELSE 0
    BY DEF BootStore
  <2>3. ASSUME NEW r \in Roots
        PROVE  IsFiniteSet(Listed(store, r)) /\ Cardinality(Listed(store, r)) <= store.slots[r]
    <3>1. CASE r = "S"
      <4>1. Listed(store, r) = BootUris /\ store.slots[r] = Len(Boot)
        BY <1>7, <2>2, <3>1
      <4> QED
        BY <1>1, <2>1, <4>1
    <3>2. CASE r # "S"
      <4>1. Listed(store, r) = {} /\ store.slots[r] = 0
        BY <1>7, <2>2, <3>2
      <4> QED
        BY <4>1, FS_EmptySet
    <3> QED
      BY <3>1, <3>2
  <2> QED
    BY <2>3 DEF SlotsCover
<1> QED
  BY <1>4, <1>5, <1>6, <1>8, <1>9 DEF Sound

-----------------------------------------------------------------------------
(* Calls that neither link nor unlink: the tree keeps its names, and what  *)
(* the pools have handed out stays the same.                               *)

(* A call that neither links nor frees anything leaves a store sound.      *)
LEMMA KeepsSound ==
  ASSUME NEW s, Sound(s), NEW new, WellTyped(new),
         DOMAIN new.tree = DOMAIN s.tree,
         new.order = s.order, new.blocks = s.blocks, new.slots = s.slots,
         new.fault = s.fault
  PROVE  Sound(new)
<1>1. BlocksAccounted(new) /\ ~new.fault
  BY DEF Sound, BlocksAccounted
<1>2. FoldersLinked(new)
  BY DEF Sound, FoldersLinked, FolderFound, Exists
<1>3. \A r \in Roots : Listed(new, r) = Listed(s, r)
  BY DEF Listed
<1>4. WalkListsAll(new) /\ SlotsCover(new)
  BY <1>3 DEF Sound, WalkListsAll, SlotsCover
<1> QED
  BY <1>1, <1>2, <1>4 DEF Sound

(* The resources of a store are names with an entry each.                  *)
LEMMA TreeType ==
  ASSUME NEW s, WellTyped(s)
  PROVE  /\ DOMAIN s.tree \subseteq Uris
         /\ s.tree \in [DOMAIN s.tree -> Entry]
  BY DEF WellTyped, StoreType, Trees

(* Writing one entry leaves a sound store sound.                           *)
LEMMA EntryEdited ==
  ASSUME NEW s, Sound(s), NEW u \in DOMAIN s.tree, NEW e \in Entry, NEW k \in Keys,
         NEW new, new = [s EXCEPT !.lastModifier = k, !.tree = [s.tree EXCEPT ![u] = e]]
  PROVE  Sound(new)
<1>1. WellTyped(s)
  BY DEF Sound
<1>2. [s.tree EXCEPT ![u] = e] \in [DOMAIN s.tree -> Entry]
  BY <1>1, TreeType
<1>3. new.tree = [s.tree EXCEPT ![u] = e] /\ new.lastModifier = k
  BY <1>1 DEF WellTyped, StoreType
<1>4. /\ new.order = s.order /\ new.blocks = s.blocks /\ new.slots = s.slots
      /\ new.fault = s.fault
  BY <1>1 DEF WellTyped, StoreType
<1>5. new.tree \in Trees
  BY <1>1, <1>2, <1>3, TreeType DEF Trees
<1>6. WellTyped(new)
  BY <1>1, <1>5 DEF WellTyped, StoreType
<1>7. DOMAIN new.tree = DOMAIN s.tree
  BY <1>2, <1>3
<1> QED
  BY <1>4, <1>6, <1>7, KeepsSound

(* Locking and releasing keep a store sound, whoever calls them.           *)
LEMMA LockSound ==
  ASSUME NEW s, Sound(s), NEW u
  PROVE  Sound(Lock(s, u)) /\ Sound(Release(s, u))
<1>1. CASE ~Exists(s, u)
  BY <1>1 DEF Lock, Release
<1>2. CASE Exists(s, u)
  <2>1. WellTyped(s) /\ u \in DOMAIN s.tree /\ s.lastModifier \in Keys /\ s.tree[u] \in Entry
    BY <1>2, TreeType DEF Sound, WellTyped, StoreType, Exists
  <2>2. \A b \in BOOLEAN : [s.tree[u] EXCEPT !.mutex = b] \in Entry
    BY <2>1 DEF Entry
  <2>3. \A b \in BOOLEAN :
          [s EXCEPT !.tree[u].mutex = b]
            = [s EXCEPT !.lastModifier = s.lastModifier,
                        !.tree = [s.tree EXCEPT ![u] = [s.tree[u] EXCEPT !.mutex = b]]]
    BY <2>1 DEF WellTyped, StoreType
  <2>4. \A b \in BOOLEAN : Sound([s EXCEPT !.tree[u].mutex = b])
    BY <2>1, <2>2, <2>3, EntryEdited
  <2> QED
    BY <1>2, <2>4 DEF Lock, Release
<1> QED
  BY <1>1, <1>2

(* So does setting the last modifier, of a resource or of the node.        *)
LEMMA SetLastModifiedSound ==
  ASSUME NEW s, Sound(s), NEW u, NEW k \in Keys
  PROVE  Sound(SetLastModified(s, u, k))
<1>1. WellTyped(s)
  BY DEF Sound
<1>2. CASE u = NoUri
  <2> DEFINE new == [s EXCEPT !.lastModifier = k]
  <2>1. WellTyped(new)
    BY <1>1 DEF WellTyped, StoreType
  <2>2. /\ new.tree = s.tree /\ new.order = s.order /\ new.blocks = s.blocks
        /\ new.slots = s.slots /\ new.fault = s.fault
    BY <1>1 DEF WellTyped, StoreType
  <2>3. Sound(new)
    <3> HIDE DEF new
    <3> QED BY <2>1, <2>2, KeepsSound
  <2> QED
    BY <1>2, <2>3 DEF SetLastModified
<1>3. CASE u # NoUri /\ Exists(s, u)
  <2>1. u \in DOMAIN s.tree /\ s.tree[u] \in Entry
    BY <1>1, <1>3, TreeType DEF Exists
  <2>2. [s.tree[u] EXCEPT !.lastModified = k] \in Entry
    BY <2>1 DEF Entry
  <2>3. SetLastModified(s, u, k)
          = [s EXCEPT !.lastModifier = k,
                      !.tree = [s.tree EXCEPT ![u] = [s.tree[u] EXCEPT !.lastModified = k]]]
    BY <1>1, <1>3, <2>1 DEF SetLastModified, WellTyped, StoreType
  <2> QED
    BY <2>1, <2>2, <2>3, EntryEdited
<1>4. CASE u # NoUri /\ ~Exists(s, u)
  BY <1>4 DEF SetLastModified
<1> QED
  BY <1>2, <1>3, <1>4

(* So does setting the clock time of a resource.                           *)
LEMMA SetClocktimeSound ==
  ASSUME NEW s, Sound(s), NEW u, NEW t \in Times
  PROVE  Sound(SetClocktime(s, u, t))
<1>1. WellTyped(s)
  BY DEF Sound
<1>2. CASE Exists(s, u)
  <2>1. u \in DOMAIN s.tree /\ s.tree[u] \in Entry /\ s.lastModifier \in Keys
    BY <1>1, <1>2, TreeType DEF Exists, WellTyped, StoreType
  <2>2. [s.tree[u] EXCEPT !.clocktime = t] \in Entry
    BY <2>1 DEF Entry
  <2>3. SetClocktime(s, u, t)
          = [s EXCEPT !.lastModifier = s.lastModifier,
                      !.tree = [s.tree EXCEPT ![u] = [s.tree[u] EXCEPT !.clocktime = t]]]
    BY <1>1, <1>2, <2>1 DEF SetClocktime, WellTyped, StoreType
  <2> QED
    BY <2>1, <2>2, <2>3, EntryEdited
<1>3. CASE ~Exists(s, u)
  BY <1>3 DEF SetClocktime
<1> QED
  BY <1>2, <1>3

-----------------------------------------------------------------------------
(* Calls that link and unlink.                                             *)

(* A block is left whenever a slot is: the key to PoolNeverExhausted.      *)
LEMMA BlockLeft ==
  ASSUME NEW s, Sound(s)
  PROVE  s.blocks # MaxResources
<1>1. \A r \in {"A", "L", "S"} : s.slots[r] \in Nat /\ s.slots[r] <= Capacity[r]
  BY DEF Sound, WellTyped, StoreType, Roots
<1>2. \A r \in {"A", "L", "S"} : Capacity[r] \in Nat
  BY PoolsAssumption DEF Roots
<1> QED
  BY <1>1, <1>2, PoolsAssumption, SMTT(20) DEF Sound, BlocksAccounted

(* Taking a block and a slot of a root that has one left.                  *)
LEMMA TakenSound ==
  ASSUME NEW s, Sound(s), NEW r \in Roots, s.slots[r] # Capacity[r]
  PROVE  /\ Sound(Taken(s, r))
         /\ Taken(s, r).slots = [s.slots EXCEPT ![r] = @ + 1]
<1> DEFINE new == Taken(s, r)
<1>1. WellTyped(s)
  BY DEF Sound
<1>2. /\ new.tree = s.tree /\ new.order = s.order /\ new.fault = s.fault
      /\ new.blocks = s.blocks + 1
      /\ new.slots = [s.slots EXCEPT ![r] = @ + 1]
  BY <1>1 DEF Taken, WellTyped, StoreType
<1>3. \A q \in Roots : /\ s.slots[q] \in Nat /\ s.slots[q] <= Capacity[q]
                      /\ Capacity[q] \in Nat
                      /\ new.slots[q] = IF q = r THEN s.slots[q] + 1 ELSE s.slots[q]
  BY <1>1, <1>2, PoolsAssumption DEF WellTyped, StoreType
<1>4. WellTyped(new)
  <2>1. [s.slots EXCEPT ![r] = @ + 1] \in [Roots -> Nat] /\ s.blocks + 1 \in Nat
    BY <1>1 DEF WellTyped, StoreType
  <2>2. new = [s EXCEPT !.blocks = s.blocks + 1, !.slots = [s.slots EXCEPT ![r] = @ + 1]]
    BY <1>1 DEF Taken, WellTyped, StoreType
  <2>3. new \in StoreType
    <3> HIDE DEF new
    <3> QED BY <1>1, <2>1, <2>2 DEF WellTyped, StoreType
  <2>4. \A q \in Roots : new.slots[q] <= Capacity[q]
    BY <1>3
  <2> QED
    BY <2>3, <2>4 DEF WellTyped
<1>5. s.blocks \in Nat
  BY <1>1 DEF WellTyped, StoreType
<1> HIDE DEF new
<1>6. BlocksAccounted(new) /\ ~new.fault
  BY <1>2, <1>3, <1>5 DEF Sound, BlocksAccounted, Roots
<1>7. FoldersLinked(new) /\ WalkListsAll(new)
  BY <1>2 DEF Sound, FoldersLinked, FolderFound, Exists, WalkListsAll, Listed
<1>8. SlotsCover(new)
  <2>1. ASSUME NEW q \in Roots
        PROVE  IsFiniteSet(Listed(new, q)) /\ Cardinality(Listed(new, q)) <= new.slots[q]
    <3>1. Listed(new, q) = Listed(s, q) /\ new.slots[q] >= s.slots[q]
      BY <1>2, <1>3 DEF Listed
    <3>2. IsFiniteSet(Listed(s, q)) /\ Cardinality(Listed(s, q)) <= s.slots[q]
      BY DEF Sound, SlotsCover
    <3>3. Cardinality(Listed(s, q)) \in Nat
      BY <3>2, FS_CardinalityType
    <3> QED
      BY <1>3, <3>1, <3>2, <3>3
  <2> QED
    BY <2>1 DEF SlotsCover
<1>9. Sound(new)
  BY <1>4, <1>6, <1>7, <1>8 DEF Sound
<1> QED
  BY <1>2, <1>9 DEF new

(* emma_resource_add keeps a store sound with each of its return codes.    *)
LEMMA AddSound ==
  ASSUME NEW s, Sound(s), NEW u \in Uris, NEW t \in Times
  PROVE  Sound(Add(s, u, t))
<1> DEFINE r == RootOf[u]
           code == AddCode(s, u)
<1>1. r \in Roots /\ WellTyped(s)
  BY NamesAssumption DEF Sound
<1>2. code \in {AddOk, AddExists, AddNoFolder, AddRootFull}
  BY BlockLeft DEF AddCode
<1> USE DEF AddOk, AddExists, AddNoBlock, AddRootFull, AddNoFolder
<1>3. CASE code \in {AddExists, AddRootFull}
  BY <1>3 DEF Add
<1>4. CASE code = AddNoFolder
  <2>1. s.slots[r] # Capacity[r]
    BY <1>4 DEF AddCode
  <2>2. Add(s, u, t) = Taken(s, r)
    BY <1>4 DEF Add
  <2>3. Sound(Taken(s, r))
    BY <1>1, <2>1, TakenSound
  <2> QED
    BY <2>2, <2>3
<1>5. CASE code = AddOk
  <2>1. u \notin DOMAIN s.tree /\ s.slots[r] # Capacity[r] /\ FolderFound(s, u)
    BY <1>5 DEF AddCode, Exists
  <2> DEFINE old == Taken(s, r)
             tree == [v \in DOMAIN s.tree \cup {u} |->
                        IF v = u THEN NewEntry(t) ELSE s.tree[v]]
             new == [old EXCEPT !.tree = tree, !.order[r] = Linked(@, u)]
  <2>2. Sound(old) /\ old.slots = [s.slots EXCEPT ![r] = @ + 1]
    BY <1>1, <2>1, TakenSound
  <2>3. Add(s, u, t) = new
    BY <1>5 DEF Add
  <2>4. old.tree = s.tree /\ old.order = s.order
    BY <1>1 DEF Taken, WellTyped, StoreType
  <2>5. WellTyped(old) /\ BlocksAccounted(old) /\ ~old.fault
    BY <2>2 DEF Sound
  <2> HIDE DEF old
  <2>6. Elements(s.order[r]) = Listed(s, r) /\ Distinct(s.order[r])
        /\ s.order[r] \in Seq(Uris)
    BY <1>1 DEF Sound, WalkListsAll, WellTyped, StoreType
  <2>7. /\ Linked(s.order[r], u) \in Seq(Uris)
        /\ Elements(Linked(s.order[r], u)) = Listed(s, r) \cup {u}
        /\ Distinct(Linked(s.order[r], u))
    <3>1. u \notin Elements(s.order[r])
      BY <2>1, <2>6 DEF Listed
    <3>2. Parent[u] = NoUri \/ Parent[u] \in Elements(s.order[r])
      BY <2>1, <2>6, NamesAssumption DEF FolderFound, Exists, Listed
    <3> QED
      BY <2>6, <3>1, <3>2, LinkedProperties
  <2>8. tree \in Trees
    <3>1. NewEntry(t) \in Entry
      BY NamesAssumption DEF NewEntry, Entry
    <3>2. DOMAIN s.tree \subseteq Uris /\ s.tree \in [DOMAIN s.tree -> Entry]
      BY <1>1, TreeType
    <3>3. tree \in [DOMAIN s.tree \cup {u} -> Entry]
      BY <3>1, <3>2
    <3>4. DOMAIN s.tree \cup {u} \in SUBSET Uris
      BY <3>2
    <3> QED
      BY <3>3, <3>4 DEF Trees
  <2>9. /\ new.tree = tree
        /\ new.order = [s.order EXCEPT ![r] = Linked(s.order[r], u)]
        /\ new.blocks = old.blocks /\ new.slots = old.slots /\ new.fault = old.fault
    BY <1>1, <2>4, <2>5 DEF WellTyped, StoreType
  <2>10. WellTyped(new)
    <3>1. new \in StoreType
      <4> HIDE DEF tree
      <4> QED BY <1>1, <2>4, <2>5, <2>7, <2>8 DEF WellTyped, StoreType
    <3> QED
      BY <2>5, <2>9, <3>1 DEF WellTyped
  <2>11. DOMAIN tree = DOMAIN s.tree \cup {u}
    OBVIOUS
  <2> HIDE DEF new, tree
  <2>12. BlocksAccounted(new) /\ ~new.fault
    BY <2>5, <2>9 DEF BlocksAccounted
  <2>13. FoldersLinked(new)
    BY <2>1, <2>9, <2>11 DEF Sound, FoldersLinked, FolderFound, Exists
  <2>14. ASSUME NEW q \in Roots
         PROVE  Listed(new, q) = IF q = r THEN Listed(s, q) \cup {u} ELSE Listed(s, q)
    BY <2>9, <2>11 DEF Listed
  <2>15. WalkListsAll(new)
    <3>1. \A q \in Roots : new.order[q] = IF q = r THEN Linked(s.order[r], u) ELSE s.order[q]
      BY <1>1, <2>9 DEF WellTyped, StoreType
    <3> QED
      BY <2>7, <2>14, <3>1 DEF Sound, WalkListsAll
  <2>16. SlotsCover(new)
    <3>1. ASSUME NEW q \in Roots
          PROVE  IsFiniteSet(Listed(new, q)) /\ Cardinality(Listed(new, q)) <= new.slots[q]
      <4>1. IsFiniteSet(Listed(s, q)) /\ Cardinality(Listed(s, q)) <= s.slots[q]
        BY DEF Sound, SlotsCover
      <4>2. Cardinality(Listed(s, q)) \in Nat /\ s.slots[q] \in Nat
        BY <1>1, <4>1, FS_CardinalityType DEF WellTyped, StoreType
      <4>3. new.slots[q] = IF q = r THEN s.slots[q] + 1 ELSE s.slots[q]
        BY <1>1, <2>2, <2>9 DEF WellTyped, StoreType
      <4>4. CASE q = r
        <5>1. u \notin Listed(s, q)
          BY <2>1 DEF Listed
        <5>2. /\ IsFiniteSet(Listed(s, q) \cup {u})
              /\ Cardinality(Listed(s, q) \cup {u}) = Cardinality(Listed(s, q)) + 1
          BY <4>1, <5>1, FS_AddElement
        <5>3. Listed(new, q) = Listed(s, q) \cup {u} /\ new.slots[q] = s.slots[q] + 1
          BY <2>14, <4>3, <4>4
        <5> QED
          BY <4>1, <4>2, <5>2, <5>3
      <4>5. CASE q # r
        BY <2>14, <4>1, <4>3, <4>5
      <4> QED
        BY <4>4, <4>5
    <3> QED
      BY <3>1 DEF SlotsCover
  <2>17. Sound(new)
    BY <2>10, <2>12, <2>13, <2>15, <2>16 DEF Sound
  <2> QED
    BY <2>3, <2>17 DEF new, tree
<1> QED
  BY <1>2, <1>3, <1>4, <1>5

(* emma_resource_del keeps a store sound with each of its return codes.    *)
LEMMA DelSound ==
  ASSUME NEW s, Sound(s), NEW u \in Uris
  PROVE  Sound(Del(s, u))
<1> DEFINE r == RootOf[u]
<1>1. r \in Roots /\ WellTyped(s)
  BY NamesAssumption DEF Sound
<1>2. CASE DelCode(s, u) # DelOk
  BY <1>2 DEF Del
<1>3. CASE DelCode(s, u) = DelOk
  <2>1. u \in DOMAIN s.tree /\ Children(s, u) = {}
    BY <1>3 DEF DelCode, DelOk, DelNotFound, DelNotEmpty, Exists
  <2> DEFINE tree == [v \in DOMAIN s.tree \ {u} |-> s.tree[v]]
             slots == [s.slots EXCEPT ![r] = @ - 1]
             order == [s.order EXCEPT ![r] = Unlinked(@, u)]
             new == [s EXCEPT !.tree = tree, !.order = order,
                              !.blocks = s.blocks - 1, !.slots = slots]
  <2>2. Del(s, u) = new
    BY <1>1, <1>3 DEF Del, WellTyped, StoreType
  <2>3. \A q \in Roots : /\ s.slots[q] \in Nat /\ s.slots[q] <= Capacity[q]
                        /\ Capacity[q] \in Nat
                        /\ slots[q] = IF q = r THEN s.slots[q] - 1 ELSE s.slots[q]
    BY <1>1, PoolsAssumption DEF WellTyped, StoreType
  <2>4. s.blocks \in Nat
    BY <1>1 DEF WellTyped, StoreType
  <2>5. \A q \in Roots : IsFiniteSet(Listed(s, q)) /\ Cardinality(Listed(s, q)) <= s.slots[q]
    BY DEF Sound, SlotsCover
  <2>6. u \in Listed(s, r)
    BY <2>1 DEF Listed
  <2>7. s.slots[r] > 0
    <3>1. Cardinality(Listed(s, r)) \in Nat /\ Cardinality(Listed(s, r)) # 0
      BY <1>1, <2>5, <2>6, FS_CardinalityType, FS_EmptySet
    <3> QED
      BY <1>1, <2>3, <2>5, <3>1
  <2>8. s.blocks > 0 /\ BlocksAccounted(s) /\ ~s.fault
    BY <1>1, <2>3, <2>7 DEF Sound, BlocksAccounted, Roots
  <2>9. /\ Elements(s.order[r]) = Listed(s, r) /\ Distinct(s.order[r])
        /\ s.order[r] \in Seq(Uris)
    BY <1>1 DEF Sound, WalkListsAll, WellTyped, StoreType
  <2>10. /\ Unlinked(s.order[r], u) \in Seq(Uris)
         /\ Elements(Unlinked(s.order[r], u)) = Listed(s, r) \ {u}
         /\ Distinct(Unlinked(s.order[r], u))
    BY <2>6, <2>9, UnlinkedProperties
  <2>11. order \in [Roots -> Seq(Uris)]
    BY <1>1, <2>10 DEF WellTyped, StoreType
  <2>12. slots \in [Roots -> Nat] /\ s.blocks - 1 \in Nat
    BY <1>1, <2>3, <2>4, <2>7, <2>8 DEF WellTyped, StoreType
  <2>13. tree \in Trees
    <3>1. DOMAIN s.tree \subseteq Uris /\ s.tree \in [DOMAIN s.tree -> Entry]
      BY <1>1, TreeType
    <3>2. tree \in [DOMAIN s.tree \ {u} -> Entry] /\ DOMAIN s.tree \ {u} \in SUBSET Uris
      BY <3>1
    <3> QED
      BY <3>2 DEF Trees
  <2>14. DOMAIN tree = DOMAIN s.tree \ {u}
    OBVIOUS
  <2>15. \A q \in Roots : order[q] = IF q = r THEN Unlinked(s.order[r], u) ELSE s.order[q]
    BY <1>1 DEF WellTyped, StoreType
  <2> HIDE DEF tree, order, slots
  <2>16. /\ new.tree = tree /\ new.order = order /\ new.slots = slots
         /\ new.blocks = s.blocks - 1 /\ new.fault = s.fault
    BY <1>1 DEF WellTyped, StoreType
  <2>17. WellTyped(new)
    <3>1. new \in StoreType
      BY <1>1, <2>11, <2>12, <2>13 DEF WellTyped, StoreType
    <3>2. \A q \in Roots : slots[q] <= Capacity[q]
      BY <2>3
    <3> QED
      BY <2>16, <3>1, <3>2 DEF WellTyped
  <2> HIDE DEF new
  <2>18. BlocksAccounted(new) /\ ~new.fault
    BY <1>1, <2>3, <2>4, <2>8, <2>16 DEF BlocksAccounted, Roots
  <2>19. FoldersLinked(new)
    <3> SUFFICES ASSUME NEW v \in DOMAIN new.tree PROVE FolderFound(new, v)
      BY DEF FoldersLinked
    <3>1. v \in DOMAIN s.tree /\ Parent[v] # u
      BY <2>1, <2>14, <2>16 DEF Children
    <3>2. FolderFound(s, v)
      BY <3>1 DEF Sound, FoldersLinked
    <3> QED
      BY <2>14, <2>16, <3>1, <3>2 DEF FolderFound, Exists
  <2>20. ASSUME NEW q \in Roots
         PROVE  Listed(new, q) = IF q = r THEN Listed(s, q) \ {u} ELSE Listed(s, q)
    BY <2>14, <2>16 DEF Listed
  <2>21. WalkListsAll(new)
    BY <2>10, <2>15, <2>16, <2>20 DEF Sound, WalkListsAll
  <2>22. SlotsCover(new)
    <3>1. ASSUME NEW q \in Roots
          PROVE  IsFiniteSet(Listed(new, q)) /\ Cardinality(Listed(new, q)) <= new.slots[q]
      <4>1. CASE q = r
        <5>1. /\ IsFiniteSet(Listed(s, q) \ {u})
              /\ Cardinality(Listed(s, q) \ {u}) = Cardinality(Listed(s, q)) - 1
          BY <2>5, <2>6, <4>1, FS_RemoveElement
        <5>2. Listed(new, q) = Listed(s, q) \ {u} /\ new.slots[q] = s.slots[q] - 1
          BY <2>3, <2>16, <2>20, <4>1
        <5>3. Cardinality(Listed(s, q)) \in Nat
          BY <2>5, FS_CardinalityType
        <5> QED
          BY <2>3, <2>5, <5>1, <5>2, <5>3
      <4>2. CASE q # r
        BY <2>3, <2>5, <2>16, <2>20, <4>2
      <4> QED
        BY <4>1, <4>2
    <3> QED
      BY <3>1 DEF SlotsCover
  <2>23. Sound(new)
    BY <2>17, <2>18, <2>19, <2>21, <2>22 DEF Sound
  <2> QED
    BY <2>2, <2>23
<1> QED
  BY <1>2, <1>3

-----------------------------------------------------------------------------
(* The theorems.                                                           *)

(* Whatever calls are made, in whatever order, the store stays sound: it   *)
(* keeps its type, never cleans a block it was not given, links each       *)
(* resource below a linked folder and once in its root's walk.             *)
THEOREM StoreSound == Spec => []Sound(store)
<1>1. ASSUME Sound(store), [Next]_vars PROVE Sound(store)'
  <2>1. CASE UNCHANGED vars
    BY <1>1, <2>1 DEF vars, Sound, WellTyped, BlocksAccounted, FoldersLinked, FolderFound,
       Exists, WalkListsAll, SlotsCover, Listed
  <2>2. ASSUME NEW u \in Uris, AddStep(u) PROVE Sound(store)'
    <3>1. PICK t \in Times : store' = Add(store, u, t)
      BY <2>2 DEF AddStep
    <3>2. Sound(Add(store, u, t))
      BY <1>1, AddSound
    <3> QED
      BY <3>1, <3>2
  <2>3. ASSUME NEW u \in Uris, DelStep(u) PROVE Sound(store)'
    BY <1>1, <2>3, DelSound DEF DelStep
  <2>4. ASSUME NEW u \in Uris, LockStep(u) \/ ReleaseStep(u) PROVE Sound(store)'
    BY <1>1, <2>4, LockSound DEF LockStep, ReleaseStep
  <2>5. ASSUME NEW u \in Uris \cup {NoUri}, NEW k \in Keys, SetLastModifiedStep(u, k)
        PROVE  Sound(store)'
    BY <1>1, <2>5, SetLastModifiedSound DEF SetLastModifiedStep
  <2>6. ASSUME NEW u \in Uris, NEW t \in Times, SetClocktimeStep(u, t)
        PROVE  Sound(store)'
    BY <1>1, <2>6, SetClocktimeSound DEF SetClocktimeStep
  <2> QED
    BY <1>1, <2>1, <2>2, <2>3, <2>4, <2>5, <2>6 DEF Next
<1> QED
  BY <1>1, BootSound, PTL DEF Spec

(* The type of the store, and no data pool hands out more than it has.     *)
THEOREM StoreTyped == Spec => []TypeOK
<1>1. Sound(store) => TypeOK
  BY DEF Sound, TypeOK
<1> QED
  BY <1>1, StoreSound, PTL

(* emma_resource_add never works on a block that memb_alloc refused: with  *)
(* fewer data slots than blocks, a slot always runs out first.             *)
THEOREM BlocksNeverRunOut == Spec => []PoolNeverExhausted
<1>1. Sound(store) => PoolNeverExhausted
  BY DEF Sound, PoolNeverExhausted
<1> QED
  BY <1>1, StoreSound, PTL

(* No resource is ever left below a folder that is gone.                   *)
THEOREM NoOrphans == Spec => []FoldersExist
<1>1. Sound(store) => FoldersExist
  BY DEF Sound, FoldersExist
<1> QED
  BY <1>1, StoreSound, PTL

(* A walk along a root's list meets each of its resources exactly once.    *)
THEOREM WalkComplete == Spec => []WalkIsComplete
<1>1. Sound(store) => WalkIsComplete
  BY DEF Sound, WalkIsComplete
<1> QED
  BY <1>1, StoreSound, PTL

(* A linked resource never lacks its data slot.                            *)
THEOREM SlotsCovered == Spec => []SlotsCoverResources
<1>1. Sound(store) => SlotsCoverResources
  BY DEF Sound, SlotsCoverResources
<1> QED
  BY <1>1, StoreSound, PTL
=============================================================================
