---------------------------- MODULE CacheLemmas ----------------------------
(***************************************************************************)
(* Lemmas about the operators of Cache, for every set of keys and every    *)
(* size: what each call preserves, what it does to the entries, and which  *)
(* entries freeSpace chooses to evict.                                     *)
(***************************************************************************)
EXTENDS Cache, FiniteSetTheorems, WellFoundedInduction, TLAPS

----------------------------------------------------------------------------
(* The space that entries take.                                            *)

LEMMA DisjointUnion ==
  ASSUME NEW A, NEW B, IsFiniteSet(A), IsFiniteSet(B), A \cap B = {}
  PROVE  /\ IsFiniteSet(A \cup B)
         /\ Cardinality(A \cup B) = Cardinality(A) + Cardinality(B)
<1>1. /\ IsFiniteSet(A \cup B)
      /\ Cardinality(A \cup B)
           = Cardinality(A) + Cardinality(B) - Cardinality(A \cap B)
  BY FS_Union
<1>2. Cardinality(A \cap B) = 0
  BY FS_EmptySet
<1>3. Cardinality(A) \in Nat /\ Cardinality(B) \in Nat
  BY FS_CardinalityType
<1>. QED
  BY <1>1, <1>2, <1>3

(* The slots of fewer keys are fewer, and finite with the larger set. *)
LEMMA SlotsOfSubset ==
  ASSUME NEW c, NEW T, NEW S \in SUBSET T, IsFiniteSet(Slots(c, T))
  PROVE  /\ Slots(c, S) \subseteq Slots(c, T)
         /\ IsFiniteSet(Slots(c, S))
         /\ Space(c, S) \in Nat
         /\ Space(c, S) <= Space(c, T)
<1>1. Slots(c, S) \subseteq Slots(c, T)
  BY DEF Slots
<1>2. /\ IsFiniteSet(Slots(c, S))
      /\ Cardinality(Slots(c, S)) <= Cardinality(Slots(c, T))
  BY <1>1, FS_Subset
<1>3. Cardinality(Slots(c, S)) \in Nat
  BY <1>2, FS_CardinalityType
<1>. QED
  BY <1>1, <1>2, <1>3 DEF Space

(* Taking keys away takes away exactly their space. *)
LEMMA SpaceSplits ==
  ASSUME NEW c, NEW T, NEW S \in SUBSET T, IsFiniteSet(Slots(c, T))
  PROVE  Space(c, T) = Space(c, T \ S) + Space(c, S)
<1>1. Slots(c, T) = Slots(c, T \ S) \cup Slots(c, S)
  BY DEF Slots
<1>2. Slots(c, T \ S) \cap Slots(c, S) = {}
  BY DEF Slots
<1>3. IsFiniteSet(Slots(c, T \ S)) /\ IsFiniteSet(Slots(c, S))
  BY SlotsOfSubset
<1>. QED
  BY <1>1, <1>2, <1>3, DisjointUnion DEF Space

(* Appending n blocks to one buffer adds n slots. *)
LEMMA SpaceGrows ==
  ASSUME NEW c, NEW d, NEW S, NEW k \in S, NEW n \in Nat,
         IsFiniteSet(Slots(c, S)),
         Size(c, k) \in Nat,
         Size(d, k) = Size(c, k) + n,
         \A j \in S \ {k} : Size(d, j) = Size(c, j)
  PROVE  /\ IsFiniteSet(Slots(d, S))
         /\ Space(d, S) = Space(c, S) + n
<1>. DEFINE m   == Size(c, k)
            New == {k} \X ((m + 1)..(m + n))
<1>1. Slots(d, S) = Slots(c, S) \cup New
  <2>1. 1..(m + n) = (1..m) \cup ((m + 1)..(m + n))
    OBVIOUS
  <2>. QED
    BY <2>1 DEF Slots
<1>2. Slots(c, S) \cap New = {}
  BY DEF Slots
<1>3. IsFiniteSet(New) /\ Cardinality(New) = n
  <2>1. /\ IsFiniteSet((m + 1)..(m + n))
        /\ Cardinality((m + 1)..(m + n)) = n
    <3>1. /\ m + 1 \in Int /\ m + n \in Int
          /\ (IF m + 1 > m + n THEN 0 ELSE (m + n) - (m + 1) + 1) = n
      OBVIOUS
    <3>. HIDE DEF m
    <3>. QED
      BY <3>1, FS_Interval
  <2>2. IsFiniteSet({k}) /\ Cardinality({k}) = 1
    BY FS_Singleton
  <2>3. IsFiniteSet(New) /\ Cardinality(New) = 1 * n
    BY <2>1, <2>2, FS_Product
  <2>. QED
    BY <2>3
<1>. HIDE DEF New, m
<1>. QED
  BY <1>1, <1>2, <1>3, DisjointUnion DEF Space

----------------------------------------------------------------------------
(* What each call does to a well-formed cache.                             *)

(* The inductive invariant: finitely many slots, and the count is that of  *)
(* the bytes held and of x more that were lost count of.                   *)
Sound(c, x) ==
  /\ WellFormed(c)
  /\ IsFiniteSet(Slots(c, Present(c)))
  /\ c.size = Space(c, Present(c)) + x
  /\ c.size <= MaxSize

LEMMA SoundIsCounted == ASSUME NEW c, Sound(c, 0) PROVE Counted(c)
<1>1. Space(c, Present(c)) \in Nat
  BY FS_CardinalityType DEF Sound, Space
<1>. QED
  BY <1>1 DEF Sound, Counted

(* A call that changes no buffer and no key leaves the count exact. *)
LEMMA SameBuffersSound ==
  ASSUME NEW c, NEW x \in Nat, Sound(c, x), NEW d \in CacheValue,
         d.size = c.size, Present(d) = Present(c), Ordered(d),
         \A k \in Present(c) : /\ d.entry[k].buffer = c.entry[k].buffer
                               /\ d.entry[k].in_use \in Nat
  PROVE  Sound(d, x)
<1>1. WellFormed(d)
  BY DEF Sound, WellFormed
<1>2. Slots(d, Present(d)) = Slots(c, Present(c))
  BY DEF Slots, Size
<1>. QED
  BY <1>1, <1>2 DEF Sound, Space

(* The order of list_ once k is at its end. *)
LEMMA TouchOrder ==
  ASSUME NEW c, WellFormed(c), NEW k \in Present(c)
  PROVE  /\ Touch(c, k).entry = c.entry
         /\ Touch(c, k).size = c.size
         /\ Touch(c, k) \in CacheValue
         /\ \A i, j \in Key :
              <<i, j>> \in Touch(c, k).older
                <=> \/ i # k /\ j # k /\ <<i, j>> \in c.older
                    \/ j = k /\ i \in Present(c) \ {k}
<1>1. c \in CacheValue
  BY DEF WellFormed
<1>2. Touch(c, k).older = {p \in c.older : p[1] # k /\ p[2] # k}
                            \cup {<<j, k>> : j \in Present(c) \ {k}}
  BY <1>1 DEF Touch, CacheValue
<1>. QED
  BY <1>1, <1>2 DEF Touch, CacheValue, Present

LEMMA TouchWellFormed ==
  ASSUME NEW c, WellFormed(c), NEW k \in Present(c)
  PROVE  WellFormed(Touch(c, k))
<1>. DEFINE d == Touch(c, k)
<1>1. /\ d.entry = c.entry /\ d \in CacheValue
      /\ \A i, j \in Key :
           <<i, j>> \in d.older
             <=> \/ i # k /\ j # k /\ <<i, j>> \in c.older
                 \/ j = k /\ i \in Present(c) \ {k}
  BY TouchOrder
<1>2. Present(d) = Present(c)
  BY <1>1 DEF Present, Contains
<1>. HIDE DEF d
<1>3. Ordered(d)
  <2>1. d.older \subseteq Present(d) \X Present(d)
    BY <1>1, <1>2 DEF WellFormed, Ordered, CacheValue, Present
  <2>2. \A j \in Key : <<j, j>> \notin d.older
    BY <1>1 DEF WellFormed, Ordered
  <2>3. \A i, j \in Present(d) :
          i = j \/ <<i, j>> \in d.older \/ <<j, i>> \in d.older
    BY <1>1, <1>2 DEF WellFormed, Ordered, Present
  <2>4. \A h, i, j \in Key :
          <<h, i>> \in d.older /\ <<i, j>> \in d.older => <<h, j>> \in d.older
    BY <1>1 DEF WellFormed, Ordered
  <2>. QED
    BY <2>1, <2>2, <2>3, <2>4 DEF Ordered
<1>. QED
  BY <1>1, <1>2, <1>3 DEF WellFormed, d

(* Dropping contained keys. *)
LEMMA DropAllSound ==
  ASSUME NEW c, NEW x \in Nat, Sound(c, x), NEW S \in SUBSET Present(c)
  PROVE  /\ Sound(DropAll(c, S), x)
         /\ Present(DropAll(c, S)) = Present(c) \ S
         /\ \A k \in Present(c) \ S : DropAll(c, S).entry[k] = c.entry[k]
         /\ DropAll(c, S).size = c.size - Space(c, S)
         /\ Space(c, S) \in Nat
<1>. DEFINE d == DropAll(c, S)
<1>. USE DEF Sound
<1>1. /\ d.entry = [k \in Key |-> IF k \in S THEN NoEntry ELSE c.entry[k]]
      /\ d.older = {p \in c.older : p[1] \notin S /\ p[2] \notin S}
      /\ d.size = c.size - Space(c, S)
  BY DEF DropAll
<1>2. Present(d) = Present(c) \ S
  BY <1>1 DEF Present, Contains
<1>3. \A k \in Present(c) \ S : d.entry[k] = c.entry[k]
  BY <1>1 DEF Present
<1>4. Space(c, S) \in Nat
  BY SlotsOfSubset
<1>5. d \in CacheValue
  BY <1>4 DEF DropAll, CacheValue, WellFormed
<1>6. Ordered(d)
  BY <1>1, <1>2 DEF WellFormed, Ordered, Present
<1>7. WellFormed(d)
  BY <1>2, <1>3, <1>5, <1>6, FS_Subset DEF WellFormed
<1>8. Slots(d, Present(d)) = Slots(c, Present(c) \ S)
  BY <1>2, <1>3 DEF Slots, Size
<1>9. /\ IsFiniteSet(Slots(d, Present(d)))
      /\ Space(d, Present(d)) \in Nat
      /\ Space(c, Present(c)) = Space(d, Present(d)) + Space(c, S)
  BY <1>8, SlotsOfSubset, SpaceSplits DEF Space
<1>10. d.size = Space(d, Present(d)) + x /\ d.size <= MaxSize
  BY <1>1, <1>4, <1>9, CacheAssumption
<1>. QED
  BY <1>1, <1>2, <1>3, <1>4, <1>7, <1>9, <1>10

(* One more user of an entry, or its first. *)
LEMMA UseSound ==
  ASSUME NEW c, NEW x \in Nat, Sound(c, x), NEW k \in Key
  PROVE  /\ Sound(UseEntry(c, k), x)
         /\ UseEntry(c, k).entry =
              IF Contains(c, k)
              THEN [c.entry EXCEPT ![k].in_use = @ + 1]
              ELSE [c.entry EXCEPT ![k] =
                      [buffer |-> <<>>, completed |-> FALSE, in_use |-> 1]]
<1>. DEFINE d == UseEntry(c, k)
            t == Touch(c, k)
            first == [buffer |-> <<>>, completed |-> FALSE, in_use |-> 1]
<1>0. WellFormed(c) /\ c \in CacheValue
  BY DEF Sound, WellFormed
<1>1. CASE Contains(c, k)
  <2>1. /\ k \in Present(c) /\ c.entry[k] \in Entry
        /\ c.entry[k].in_use \in Nat
    BY <1>0, <1>1 DEF Present, Contains, CacheValue, WellFormed
  <2>2. WellFormed(t) /\ t.entry = c.entry /\ t.size = c.size /\ t \in CacheValue
    BY <1>0, <2>1, TouchOrder, TouchWellFormed
  <2>3. /\ d.entry = [c.entry EXCEPT ![k].in_use = @ + 1]
        /\ d.older = t.older /\ d.size = c.size
        /\ d = [t EXCEPT !.entry[k].in_use = @ + 1]
    BY <1>1, <2>2 DEF UseEntry, CacheValue
  <2>4. [c.entry[k] EXCEPT !.in_use = @ + 1] \in Entry
    BY <2>1 DEF Entry
  <2>5. d.entry \in [Key -> Entry \cup {NoEntry}]
    BY <1>0, <2>3, <2>4 DEF CacheValue
  <2>6. d \in CacheValue
    BY <2>2, <2>3, <2>5 DEF CacheValue
  <2>7. Present(d) = Present(c)
    BY <1>0, <2>1, <2>3, <2>4, CacheAssumption DEF Present, Contains, CacheValue
  <2>8. Present(t) = Present(c)
    BY <2>2 DEF Present, Contains
  <2>9. Ordered(d)
    BY <2>2, <2>3, <2>7, <2>8 DEF WellFormed, Ordered
  <2>10. \A j \in Present(c) : /\ d.entry[j].buffer = c.entry[j].buffer
                               /\ d.entry[j].in_use \in Nat
    BY <1>0, <2>1, <2>3 DEF WellFormed, CacheValue, Entry, Present
  <2>. QED
    BY <1>1, <2>3, <2>6, <2>7, <2>9, <2>10, SameBuffersSound
<1>2. CASE ~Contains(c, k)
  <2>1. /\ d.entry = [c.entry EXCEPT ![k] = first]
        /\ d.older = c.older \cup {<<j, k>> : j \in Present(c)}
        /\ d.size = c.size
    BY <1>0, <1>2 DEF UseEntry, CacheValue
  <2>2. first \in Entry
    BY DEF Entry
  <2>3. k \notin Present(c)
    BY <1>2 DEF Present
  <2>4. Present(d) = Present(c) \cup {k}
    BY <1>0, <2>1, <2>2, CacheAssumption DEF Present, Contains, CacheValue
  <2>5. d \in CacheValue
    <3>1. d.entry \in [Key -> Entry \cup {NoEntry}]
      BY <1>0, <2>1, <2>2 DEF CacheValue
    <3>2. d.older \in SUBSET (Key \X Key)
      BY <1>0, <2>1 DEF CacheValue, Present
    <3>3. d = [entry |-> d.entry, older |-> d.older, size |-> d.size]
      BY <1>0, <1>2 DEF UseEntry, CacheValue
    <3>4. d.size \in Int
      BY <1>0, <2>1 DEF CacheValue
    <3>. HIDE DEF d
    <3>. QED
      BY <3>1, <3>2, <3>3, <3>4 DEF CacheValue
  <2>6. IsFiniteSet(Present(d))
    BY <1>0, <2>4, FS_AddElement DEF WellFormed
  <2>7. \A j \in Present(d) : d.entry[j].in_use \in Nat
    BY <1>0, <2>1, <2>4 DEF WellFormed, CacheValue, Present
  <2>8. Ordered(d)
    <3>1. \A i, j \in Key :
            <<i, j>> \in d.older
              <=> <<i, j>> \in c.older \/ (j = k /\ i \in Present(c))
      BY <2>1
    <3>2. d.older \subseteq Present(d) \X Present(d)
      BY <1>0, <2>1, <2>4 DEF WellFormed, Ordered
    <3>3. \A j \in Key : <<j, j>> \notin d.older
      BY <1>0, <2>3, <3>1 DEF WellFormed, Ordered
    <3>4. \A i, j \in Present(d) :
            i = j \/ <<i, j>> \in d.older \/ <<j, i>> \in d.older
      BY <1>0, <2>4, <3>1 DEF WellFormed, Ordered, Present
    <3>5. \A h, i, j \in Key :
            <<h, i>> \in d.older /\ <<i, j>> \in d.older => <<h, j>> \in d.older
      BY <1>0, <2>3, <3>1 DEF WellFormed, Ordered
    <3>. QED
      BY <3>2, <3>3, <3>4, <3>5 DEF Ordered
  <2>9. Slots(d, Present(d)) = Slots(c, Present(c))
    <3>1. \A j \in Present(c) : d.entry[j] = c.entry[j]
      BY <1>0, <2>1, <2>3 DEF CacheValue, Present
    <3>2. d.entry[k].buffer = <<>>
      BY <1>0, <2>1 DEF CacheValue
    <3>. QED
      BY <2>4, <3>1, <3>2 DEF Slots, Size
  <2>. QED
    BY <1>2, <2>1, <2>5, <2>6, <2>7, <2>8, <2>9
       DEF Sound, WellFormed, Space
<1>. QED
  BY <1>1, <1>2

(* Changing the use count or the mark of one entry after a touch. *)
TouchAndSet(c, k, e) == [Touch(c, k) EXCEPT !.entry[k] = e]

LEMMA TouchAndSetSound ==
  ASSUME NEW c, NEW x \in Nat, Sound(c, x), NEW k \in Present(c), NEW e \in Entry,
         e.buffer = c.entry[k].buffer, e.in_use \in Nat
  PROVE  /\ Sound(TouchAndSet(c, k, e), x)
         /\ TouchAndSet(c, k, e).entry = [c.entry EXCEPT ![k] = e]
<1>. DEFINE t == Touch(c, k)
            d == TouchAndSet(c, k, e)
<1>1. WellFormed(c) /\ c \in CacheValue
  BY DEF Sound, WellFormed
<1>2. WellFormed(t) /\ t.entry = c.entry /\ t.size = c.size /\ t \in CacheValue
  BY <1>1, TouchOrder, TouchWellFormed
<1>3. /\ d.entry = [c.entry EXCEPT ![k] = e]
      /\ d.older = t.older /\ d.size = c.size
      /\ d = [entry |-> d.entry, older |-> d.older, size |-> d.size]
  BY <1>2 DEF CacheValue, TouchAndSet
<1>4. d.entry \in [Key -> Entry \cup {NoEntry}]
  BY <1>1, <1>3 DEF CacheValue
<1>. HIDE DEF d
<1>5. d \in CacheValue
  BY <1>2, <1>3, <1>4 DEF CacheValue
<1>6. Present(d) = Present(c) /\ Present(t) = Present(c)
  BY <1>1, <1>2, <1>3, CacheAssumption DEF Present, Contains, CacheValue
<1>7. Ordered(d)
  BY <1>2, <1>3, <1>6 DEF WellFormed, Ordered
<1>8. \A j \in Present(c) : /\ d.entry[j].buffer = c.entry[j].buffer
                            /\ d.entry[j].in_use \in Nat
  BY <1>1, <1>3 DEF WellFormed, CacheValue, Present
<1>. QED
  BY <1>3, <1>5, <1>6, <1>7, <1>8, SameBuffersSound DEF d

(* n users fewer. *)
LEMMA DisuseTimesSound ==
  ASSUME NEW c, NEW x \in Nat, Sound(c, x), NEW k \in Present(c),
         NEW n \in 1..c.entry[k].in_use
  PROVE  /\ Sound(DisuseTimes(c, k, n), x)
         /\ DisuseTimes(c, k, n).entry =
              IF c.entry[k].in_use = n /\ ~c.entry[k].completed
              THEN [j \in Key |-> IF j \in {k} THEN NoEntry ELSE c.entry[j]]
              ELSE [c.entry EXCEPT ![k].in_use = @ - n]
<1>. DEFINE left == c.entry[k].in_use
<1>1. /\ c.entry[k] \in Entry /\ left \in Nat /\ Contains(c, k)
      /\ c \in CacheValue /\ n \in Nat /\ 1 <= n /\ n <= left
  BY DEF Sound, WellFormed, Present, Contains, CacheValue
<1>2. CASE left = n /\ ~c.entry[k].completed
  <2>1. DisuseTimes(c, k, n) = DropAll(c, {k})
    BY <1>1, <1>2 DEF DisuseTimes
  <2>. QED
    BY <1>2, <2>1, DropAllSound DEF DropAll
<1>3. CASE ~(left = n /\ ~c.entry[k].completed)
  <2>. DEFINE e == [c.entry[k] EXCEPT !.in_use = left - n]
              d == DisuseTimes(c, k, n)
  <2>1. d = [Touch(c, k) EXCEPT !.entry[k].in_use = left - n]
    BY <1>1, <1>3 DEF DisuseTimes
  <2>2. Touch(c, k).entry = c.entry
    BY TouchOrder DEF Sound
  <2>3. d = TouchAndSet(c, k, e)
    BY <2>1, <2>2 DEF TouchAndSet
  <2>4. e \in Entry /\ e.buffer = c.entry[k].buffer /\ e.in_use \in Nat
    BY <1>1 DEF Entry
  <2>. HIDE DEF d, e
  <2>5. Sound(d, x) /\ d.entry = [c.entry EXCEPT ![k] = e]
    BY <2>3, <2>4, TouchAndSetSound
  <2>6. d.entry = [c.entry EXCEPT ![k].in_use = @ - n]
    BY <1>1, <2>5 DEF e
  <2>. QED
    BY <1>3, <2>5, <2>6 DEF d
<1>. QED
  BY <1>2, <1>3

(* One user fewer. *)
LEMMA DisuseSound ==
  ASSUME NEW c, NEW x \in Nat, Sound(c, x), NEW k \in Present(c),
         c.entry[k].in_use > 0
  PROVE  /\ Sound(DisuseEntry(c, k), x)
         /\ DisuseEntry(c, k).entry =
              IF c.entry[k].in_use = 1 /\ ~c.entry[k].completed
              THEN [j \in Key |-> IF j \in {k} THEN NoEntry ELSE c.entry[j]]
              ELSE [c.entry EXCEPT ![k].in_use = @ - 1]
<1>1. c.entry[k].in_use \in Nat
  BY DEF Sound, WellFormed
<1>2. 1 \in 1..c.entry[k].in_use
  BY <1>1
<1>. QED
  BY <1>2, DisuseTimesSound DEF DisuseEntry

(* A lookup changes the order of list_ and nothing else. *)
LEMMA TouchSound ==
  ASSUME NEW c, NEW x \in Nat, Sound(c, x), NEW k \in Present(c)
  PROVE  Sound(Touch(c, k), x) /\ Touch(c, k).entry = c.entry
<1>. DEFINE d == Touch(c, k)
<1>1. /\ WellFormed(d) /\ d.entry = c.entry /\ d.size = c.size
      /\ d \in CacheValue
  BY TouchOrder, TouchWellFormed DEF Sound
<1>2. Present(d) = Present(c)
  BY <1>1 DEF Present, Contains
<1>3. Slots(d, Present(d)) = Slots(c, Present(c))
  BY <1>1, <1>2 DEF Slots, Size
<1>. QED
  BY <1>1, <1>2, <1>3 DEF Sound, Space

LEMMA EmptyCacheSound == Sound(EmptyCache, 0) /\ Present(EmptyCache) = {}
<1>. DEFINE e == EmptyCache
<1>1. /\ e.entry = [k \in Key |-> NoEntry] /\ e.older = {} /\ e.size = 0
      /\ e = [entry |-> e.entry, older |-> e.older, size |-> e.size]
  BY DEF EmptyCache
<1>. HIDE DEF e
<1>2. Present(e) = {}
  BY <1>1 DEF Present, Contains
<1>3. e \in CacheValue
  BY <1>1 DEF CacheValue
<1>4. Ordered(e)
  BY <1>1, <1>2 DEF Ordered
<1>5. Slots(e, Present(e)) = {}
  BY <1>2 DEF Slots
<1>6. IsFiniteSet({}) /\ Cardinality({}) = 0
  BY FS_EmptySet
<1>7. WellFormed(e) /\ IsFiniteSet(Slots(e, Present(e)))
  BY <1>2, <1>3, <1>4, <1>5, <1>6 DEF WellFormed
<1>8. e.size = Space(e, Present(e)) + 0 /\ e.size <= MaxSize
  BY <1>1, <1>5, <1>6, CacheAssumption DEF Space
<1>. QED
  BY <1>2, <1>7, <1>8 DEF Sound, e

(* The mark that the response is whole. *)
LEMMA CompleteSound ==
  ASSUME NEW c, NEW x \in Nat, Sound(c, x), NEW k \in Present(c)
  PROVE  /\ Sound(CompleteEntry(c, k), x)
         /\ CompleteEntry(c, k).entry = [c.entry EXCEPT ![k].completed = TRUE]
<1>. DEFINE e == [c.entry[k] EXCEPT !.completed = TRUE]
            d == CompleteEntry(c, k)
<1>1. c.entry[k] \in Entry /\ c.entry[k].in_use \in Nat /\ c \in CacheValue
  BY DEF Sound, WellFormed, Present, Contains, CacheValue
<1>2. Touch(c, k).entry = c.entry
  BY TouchOrder DEF Sound
<1>3. d = TouchAndSet(c, k, e)
  BY <1>2 DEF CompleteEntry, TouchAndSet
<1>4. e \in Entry /\ e.buffer = c.entry[k].buffer /\ e.in_use \in Nat
  BY <1>1 DEF Entry
<1>. HIDE DEF d, e
<1>5. Sound(d, x) /\ d.entry = [c.entry EXCEPT ![k] = e]
  BY <1>3, <1>4, TouchAndSetSound
<1>. QED
  BY <1>1, <1>5 DEF d, e

----------------------------------------------------------------------------
(* Eviction.                                                               *)

(* If the evictions of freeSpace did not free enough, they were all the    *)
(* unused entries there are: among those kept there would be one with only *)
(* evicted entries before it, and it was kept because those free enough.   *)
LEMMA RefusedMeansNoneLeft ==
  ASSUME NEW c, NEW x \in Nat, Sound(c, x), NEW n \in Nat, FreeSpace(Freed(c, n)) < n
  PROVE  Victims(c, n) = Unused(c)
<1>. DEFINE V == Victims(c, n)
            P == Present(c)
            T == Unused(c) \ V
            Before(k) == {j \in Unused(c) : <<j, k>> \in c.older}
            B == {Before(k) : k \in T}
<1>1. /\ V \subseteq Unused(c) /\ Unused(c) \subseteq P /\ P \subseteq Key
      /\ IsFiniteSet(P) /\ Ordered(c) /\ c.size \in Int
  BY DEF Victims, Unused, Present, Sound, WellFormed, CacheValue
<1>2. SUFFICES ASSUME T # {} PROVE FALSE
  BY <1>1
<1>3. PICK k \in T : Before(k) \subseteq V
  <2>1. \A k \in T : Before(k) \in FiniteSubsetsOf(P)
    BY <1>1, FS_Subset DEF FiniteSubsetsOf
  <2>2. B \subseteq FiniteSubsetsOf(P) /\ B # {}
    BY <1>2, <2>1
  <2>3. IsWellFoundedOn(StrictSubsetOrdering(P), FiniteSubsetsOf(P))
    BY FS_StrictSubsetOrderingWellFounded
  <2>4. PICK b \in B : \A a \in B : <<a, b>> \notin StrictSubsetOrdering(P)
    <3>. HIDE DEF B
    <3>. QED
      BY <2>2, <2>3, WFMin
  <2>5. PICK k \in T : b = Before(k)
    OBVIOUS
  <2>6. ASSUME NEW j \in Before(k), j \notin V PROVE FALSE
    <3>1. j \in T /\ j \in Key /\ k \in Key
      BY <1>1, <2>6
    <3>2. Before(j) \subseteq Before(k)
      BY <1>1, <3>1, <2>6 DEF Ordered
    <3>3. j \notin Before(j)
      BY <1>1, <3>1 DEF Ordered
    <3>4. <<Before(j), Before(k)>> \in StrictSubsetOrdering(P)
      BY <1>1, <2>6, <3>2, <3>3 DEF StrictSubsetOrdering
    <3>. QED
      BY <2>4, <2>5, <3>1, <3>4
  <2>. QED
    BY <2>6
<1>4. ~(FreeSpace(c) + Space(c, Before(k)) < n)
  BY <1>3 DEF Victims
<1>5. IsFiniteSet(Slots(c, V)) /\ Space(c, V) \in Nat
  BY <1>1, SlotsOfSubset DEF Sound
<1>6. Space(c, Before(k)) \in Nat /\ Space(c, Before(k)) <= Space(c, V)
  BY <1>3, <1>5, SlotsOfSubset
<1>7. Freed(c, n).size = c.size - Space(c, V)
  BY <1>1, DropAllSound DEF Freed
<1>8. FreeSpace(Freed(c, n)) = FreeSpace(c) + Space(c, V)
  BY <1>1, <1>5, <1>7, CacheAssumption DEF FreeSpace
<1>. HIDE DEF Before, V
<1>. QED
  BY <1>1, <1>4, <1>5, <1>6, <1>8, CacheAssumption DEF FreeSpace

(* The entries left once V is evicted, and those with a chunk appended. *)
Left(c, V) == [j \in Key |-> IF j \in V THEN NoEntry ELSE c.entry[j]]

Grown(c, V, k, chunk) == [Left(c, V) EXCEPT ![k].buffer = @ \o chunk]

LEMMA GrownFacts ==
  ASSUME NEW c, NEW V, NEW k \in Key \ V, NEW chunk, c.entry[k] \in Entry
  PROVE  /\ Left(c, V)[k] = c.entry[k]
         /\ Grown(c, V, k, chunk)[k].in_use = c.entry[k].in_use
         /\ Grown(c, V, k, chunk)[k].completed = c.entry[k].completed
         /\ \A j \in Key \ {k} : Grown(c, V, k, chunk)[j] = Left(c, V)[j]
         /\ \A j \in Key : \/ Left(c, V)[j] = c.entry[j]
                           \/ j \in V /\ Left(c, V)[j] = NoEntry
<1>. DEFINE e == [c.entry[k] EXCEPT !.buffer = @ \o chunk]
<1>1. Left(c, V)[k] = c.entry[k]
  BY DEF Left
<1>2. Grown(c, V, k, chunk) = [Left(c, V) EXCEPT ![k] = e]
  BY <1>1 DEF Grown
<1>3. /\ e.in_use = c.entry[k].in_use
      /\ e.completed = c.entry[k].completed
  BY DEF Entry
<1>4. \A j \in Key : \/ Left(c, V)[j] = c.entry[j]
                     \/ j \in V /\ Left(c, V)[j] = NoEntry
  BY DEF Left
<1>5. DOMAIN Left(c, V) = Key
  BY DEF Left
<1>6. /\ Grown(c, V, k, chunk)[k] = e
      /\ \A j \in Key \ {k} : Grown(c, V, k, chunk)[j] = Left(c, V)[j]
  <2>. HIDE DEF e
  <2>. QED
    BY <1>2, <1>5
<1>. QED
  BY <1>1, <1>3, <1>4, <1>6

(* Cache::write to an entry in use: it is refused when what is in use      *)
(* leaves no room, and otherwise it appends the chunk.                     *)
LEMMA WriteSound ==
  ASSUME NEW c, NEW x \in Nat, Sound(c, x), NEW k \in Present(c), c.entry[k].in_use > 0,
         NEW chunk \in Seq(Block)
  PROVE  LET n    == Len(chunk)
             V    == Victims(c, n)
             w    == Write(c, k, chunk)
         IN  /\ Sound(w, x)
             /\ V \subseteq Unused(c)
             /\ \/ /\ WriteOutcome(c, k, chunk) = "AllInUse"
                   /\ V = Unused(c)
                   /\ Space(c, Present(c) \ V) + x + n > MaxSize
                   /\ w.entry = Left(c, V)
                \/ /\ WriteOutcome(c, k, chunk) = "Written"
                   /\ Space(c, Present(c) \ V) + x + n <= MaxSize
                   /\ w.entry = Grown(c, V, k, chunk)
<1>. DEFINE n    == Len(chunk)
            V    == Victims(c, n)
            f    == Freed(c, n)
            g    == [f EXCEPT !.size = @ + n]
            t    == Touch(g, k)
            w    == Write(c, k, chunk)
<1>1. /\ V \subseteq Unused(c) /\ Unused(c) \subseteq Present(c) /\ n \in Nat
      /\ Present(c) \subseteq Key
  BY DEF Victims, Unused, Present
<1>2. /\ Sound(f, x) /\ Present(f) = Present(c) \ V
      /\ f.size = c.size - Space(c, V)
      /\ f.entry = Left(c, V)
      /\ \A j \in Present(c) \ V : f.entry[j] = c.entry[j]
      /\ Space(c, V) \in Nat
  BY <1>1, DropAllSound DEF Freed, DropAll, Left
<1>3. f.size = Space(c, Present(c) \ V) + x /\ f.size \in Int
  <2>1. Slots(f, Present(f)) = Slots(c, Present(c) \ V)
    BY <1>2 DEF Slots, Size
  <2>. QED
    BY <1>2, <2>1 DEF Space, Sound, WellFormed, CacheValue
<1>4. k \in Present(f) /\ Contains(f, k) /\ f.entry[k] = c.entry[k]
  BY <1>1, <1>2 DEF Unused, Present
<1>. HIDE DEF f
<1>5. CASE FreeSpace(f) < n
  <2>1. w = f /\ WriteOutcome(c, k, chunk) = "AllInUse"
    BY <1>5 DEF Write, WriteOutcome, f
  <2>2. V = Unused(c)
    BY <1>1, <1>5, RefusedMeansNoneLeft DEF f
  <2>3. Space(c, Present(c) \ V) + x + n > MaxSize
    BY <1>1, <1>3, <1>5, CacheAssumption DEF FreeSpace
  <2>. QED
    BY <1>1, <1>2, <2>1, <2>2, <2>3
<1>6. CASE ~(FreeSpace(f) < n)
  <2>. DEFINE e == [f.entry[k] EXCEPT !.buffer = @ \o chunk]
  <2>1. WellFormed(f) /\ f \in CacheValue
    BY <1>2 DEF Sound, WellFormed
  <2>2. /\ g.entry = f.entry /\ g.older = f.older /\ g.size = f.size + n
        /\ g \in CacheValue
    <3>1. /\ g.entry = f.entry /\ g.older = f.older
          /\ g = [entry |-> g.entry, older |-> g.older, size |-> g.size]
      BY <2>1 DEF CacheValue
    <3>2. g.size = f.size + n
      BY <2>1 DEF CacheValue
    <3>3. f.size + n \in Int
      BY <1>1, <1>3
    <3>. HIDE DEF g, n
    <3>. QED
      BY <2>1, <3>1, <3>2, <3>3 DEF CacheValue
  <2>3. Present(g) = Present(f)
    BY <2>2 DEF Present, Contains
  <2>. HIDE DEF g
  <2>4. WellFormed(g)
    BY <2>1, <2>2, <2>3 DEF WellFormed, Ordered
  <2>5. /\ t.entry = f.entry /\ t.size = f.size + n
        /\ t \in CacheValue /\ WellFormed(t)
    BY <1>4, <2>2, <2>3, <2>4, TouchOrder, TouchWellFormed
  <2>6. /\ w = [t EXCEPT !.entry[k].buffer = @ \o chunk]
        /\ WriteOutcome(c, k, chunk) = "Written"
    BY <1>4, <1>6 DEF Write, WriteOutcome, f, g
  <2>. HIDE DEF t
  <2>7. /\ f.entry[k] \in Entry /\ f.entry[k].in_use \in Nat
        /\ f.entry[k].buffer \in Seq(Block)
    BY <1>4, <2>1 DEF Contains, Present, CacheValue, WellFormed, Entry
  <2>8. /\ e \in Entry /\ e.in_use \in Nat
        /\ e.buffer = f.entry[k].buffer \o chunk
        /\ Len(e.buffer) = Len(f.entry[k].buffer) + n
    <3>1. /\ f.entry[k].buffer \o chunk \in Seq(Block)
          /\ Len(f.entry[k].buffer \o chunk) = Len(f.entry[k].buffer) + n
      BY <2>7
    <3>2. e.buffer = f.entry[k].buffer \o chunk /\ e.in_use = f.entry[k].in_use
      BY <2>7 DEF Entry
    <3>3. e \in Entry
      BY <2>7, <3>1 DEF Entry
    <3>. QED
      BY <2>7, <3>1, <3>2, <3>3
  <2>9. /\ w.entry = [f.entry EXCEPT ![k] = e]
        /\ w.older = t.older /\ w.size = f.size + n
        /\ w = [entry |-> w.entry, older |-> w.older, size |-> w.size]
    BY <2>5, <2>6 DEF CacheValue
  <2>10. w.entry = Grown(c, V, k, chunk)
    BY <1>2, <2>9 DEF Grown
  <2>. HIDE DEF w, e
  <2>11. Present(w) = Present(f) /\ Present(t) = Present(f)
    BY <1>4, <2>1, <2>5, <2>8, <2>9, CacheAssumption
       DEF Present, Contains, CacheValue
  <2>12. w \in CacheValue
    <3>1. w.entry \in [Key -> Entry \cup {NoEntry}]
      BY <1>4, <2>1, <2>8, <2>9 DEF CacheValue
    <3>. QED
      BY <1>1, <1>3, <2>5, <2>9, <3>1 DEF CacheValue
  <2>13. Ordered(w)
    BY <2>5, <2>9, <2>11 DEF WellFormed, Ordered
  <2>14. \A j \in Present(w) : w.entry[j].in_use \in Nat
    BY <2>1, <2>8, <2>9, <2>11 DEF WellFormed, CacheValue, Present
  <2>15. WellFormed(w)
    BY <2>1, <2>11, <2>12, <2>13, <2>14 DEF WellFormed
  <2>16. /\ Size(f, k) \in Nat /\ Size(w, k) = Size(f, k) + n
         /\ \A j \in Present(f) \ {k} : Size(w, j) = Size(f, j)
    <3>1. f.entry[k].buffer \in Seq(Block) => Len(f.entry[k].buffer) \in Nat
      OBVIOUS
    <3>2. w.entry[k] = e /\ \A j \in Present(f) \ {k} : w.entry[j] = f.entry[j]
      BY <1>4, <2>1, <2>9 DEF CacheValue, Present
    <3>. QED
      BY <2>7, <2>8, <3>1, <3>2 DEF Size
  <2>17. /\ IsFiniteSet(Slots(w, Present(f)))
         /\ Space(w, Present(f)) = Space(f, Present(f)) + n
    <3>1. IsFiniteSet(Slots(f, Present(f))) /\ n \in Nat
      BY <1>1, <1>2 DEF Sound
    <3>. HIDE DEF n
    <3>. QED
      BY <1>4, <2>16, <3>1, SpaceGrows
  <2>18. Sound(w, x)
    <3>1. Space(f, Present(f)) \in Nat
      BY <1>2, FS_CardinalityType DEF Sound, Space
    <3>2. w.size = Space(w, Present(w)) + x
      BY <1>1, <1>2, <2>9, <2>11, <2>17, <3>1 DEF Sound
    <3>. QED
      BY <1>1, <1>3, <1>6, <2>9, <2>11, <2>15, <2>17, <3>2, CacheAssumption
         DEF Sound, FreeSpace
  <2>19. Space(c, Present(c) \ V) + x + n <= MaxSize
    BY <1>1, <1>3, <1>6, CacheAssumption DEF FreeSpace
  <2>. QED
    BY <1>1, <1>2, <2>6, <2>10, <2>18, <2>19 DEF w
<1>. QED
  BY <1>5, <1>6

(* Cache::write to a key that is not contained: the chunk is refused, or   *)
(* it is counted without being held.                                       *)
LEMMA WriteAbsentSound ==
  ASSUME NEW c, NEW x \in Nat, Sound(c, x), NEW k \in Key \ Present(c),
         NEW chunk \in Seq(Block)
  PROVE  LET n == Len(chunk)
             V == Victims(c, n)
             w == Write(c, k, chunk)
         IN  /\ V \subseteq Unused(c)
             /\ w.entry = Left(c, V)
             /\ \/ WriteOutcome(c, k, chunk) = "AllInUse" /\ Sound(w, x)
                \/ WriteOutcome(c, k, chunk) = "KeyNotFound" /\ Sound(w, x + n)
<1>. DEFINE n == Len(chunk)
            V == Victims(c, n)
            f == Freed(c, n)
            w == Write(c, k, chunk)
<1>1. V \subseteq Unused(c) /\ Unused(c) \subseteq Present(c) /\ n \in Nat
  BY DEF Victims, Unused
<1>2. Sound(f, x) /\ Present(f) = Present(c) \ V /\ f.entry = Left(c, V)
  BY <1>1, DropAllSound DEF Freed, DropAll, Left
<1>3. ~Contains(f, k)
  BY <1>2 DEF Present
<1>. HIDE DEF f
<1>4. CASE FreeSpace(f) < n
  <2>1. w = f /\ WriteOutcome(c, k, chunk) = "AllInUse"
    BY <1>4 DEF Write, WriteOutcome, f
  <2>. QED
    BY <1>1, <1>2, <2>1
<1>5. CASE ~(FreeSpace(f) < n)
  <2>1. w = [f EXCEPT !.size = @ + n] /\ WriteOutcome(c, k, chunk) = "KeyNotFound"
    BY <1>3, <1>5 DEF Write, WriteOutcome, f
  <2>2. f \in CacheValue /\ f.size \in Int
    BY <1>2 DEF Sound, WellFormed, CacheValue
  <2>3. /\ w.entry = f.entry /\ w.older = f.older /\ w.size = f.size + n
        /\ w = [entry |-> w.entry, older |-> w.older, size |-> w.size]
    BY <2>1, <2>2 DEF CacheValue
  <2>4. w.size \in Int
    BY <1>1, <2>2, <2>3
  <2>. HIDE DEF w
  <2>5. w \in CacheValue
    BY <2>2, <2>3, <2>4 DEF CacheValue
  <2>6. Present(w) = Present(f)
    BY <2>3 DEF Present, Contains
  <2>7. WellFormed(w)
    BY <1>2, <2>3, <2>5, <2>6 DEF Sound, WellFormed, Ordered
  <2>8. Slots(w, Present(w)) = Slots(f, Present(f))
    BY <2>3, <2>6 DEF Slots, Size
  <2>9. Space(f, Present(f)) \in Nat /\ Space(w, Present(w)) = Space(f, Present(f))
    BY <1>2, <2>8, FS_CardinalityType DEF Sound, Space
  <2>10. w.size = Space(w, Present(w)) + (x + n)
    BY <1>1, <1>2, <2>3, <2>9 DEF Sound
  <2>11. w.size <= MaxSize
    BY <1>1, <1>5, <2>2, <2>3, CacheAssumption DEF FreeSpace
  <2>12. Sound(w, x + n)
    BY <1>2, <2>7, <2>8, <2>10, <2>11 DEF Sound
  <2>. QED
    BY <1>1, <1>2, <2>1, <2>3, <2>12 DEF w
<1>. QED
  BY <1>4, <1>5

==============================================================================
