---------------------------- MODULE CacheProofs ----------------------------
(***************************************************************************)
(* Proofs about the response cache and its users, for every set of keys,   *)
(* every size and every number of users.                                   *)
(***************************************************************************)
EXTENDS CacheUsers, CacheLemmas

----------------------------------------------------------------------------
(* The state machine.                                                      *)

LEMMA ChunkIsSeq == \A chunk \in Chunk : chunk \in Seq(Block)
BY DEF Chunk

(* Every entry in use is a contained one. *)
LEMMA InUseFacts ==
  ASSUME Sound(cache, 0), NEW k \in InUse
  PROVE  /\ k \in Present(cache) /\ k \in Key /\ Contains(cache, k)
         /\ cache.entry[k] \in Entry
         /\ cache.entry[k].in_use \in Nat /\ cache.entry[k].in_use > 0
         /\ cache \in CacheValue
BY DEF InUse, Sound, WellFormed, Present, Contains, CacheValue

Inv(c) == Sound(c, 0) /\ Whole(c)

IInv == Inv(cache)

LEMMA PrimedInvariant == Inv(cache') => IInv'
BY DEF IInv, Inv, Whole, Unused, Sound, WellFormed, Ordered, CacheValue,
       Present, Contains, Space, Slots, Size

LEMMA InitInvariant == Init => IInv
<1>. SUFFICES ASSUME Init PROVE IInv
  OBVIOUS
<1>1. /\ cache.entry = [k \in Key |-> NoEntry] /\ cache.older = {} /\ cache.size = 0
      /\ cache = [entry |-> cache.entry, older |-> cache.older, size |-> cache.size]
  BY DEF Init, EmptyCache
<1>2. Present(cache) = {}
  BY <1>1 DEF Present, Contains
<1>3. cache \in CacheValue
  BY <1>1 DEF CacheValue
<1>4. Ordered(cache)
  BY <1>1, <1>2 DEF Ordered
<1>5. Slots(cache, Present(cache)) = {}
  BY <1>2 DEF Slots
<1>6. IsFiniteSet({}) /\ Cardinality({}) = 0
  BY FS_EmptySet
<1>. QED
  BY <1>1, <1>2, <1>3, <1>4, <1>5, <1>6, CacheAssumption
     DEF IInv, Inv, Sound, WellFormed, Space, Whole, Unused

(* The calls a step may be, each on an entry that is there to be called on. *)
LEMMA NextCases ==
  ASSUME Sound(cache, 0), Next
  PROVE  \/ \E k \in Key : Use(k)
         \/ \E k \in InUse : Disuse(k)
         \/ \E k \in InUse : Look(k)
         \/ \E k \in Open : Complete(k)
         \/ \E k \in Open, chunk \in Chunk : WriteChunk(k, chunk)
BY DEF Next, Disuse, Look, Complete, WriteChunk, Open, InUse, Present

LEMMA StepInvariant == IInv /\ [Next]_cache => IInv'
<1>. SUFFICES ASSUME IInv, [Next]_cache PROVE Inv(cache')
  BY PrimedInvariant
<1>0. /\ Sound(cache, 0) /\ Whole(cache) /\ Inv(cache)
      /\ cache.entry \in [Key -> Entry \cup {NoEntry}]
      /\ Present(cache) \subseteq Key
  BY DEF IInv, Inv, Sound, WellFormed, CacheValue, Present
<1>1. CASE UNCHANGED cache
  BY <1>0, <1>1
<1>2. ASSUME NEW k \in Key, Use(k) PROVE Inv(cache')
  <2>. DEFINE d == UseEntry(cache, k)
  <2>1. cache' = d
    BY <1>2 DEF Use
  <2>2. /\ Sound(d, 0)
        /\ d.entry = IF Contains(cache, k)
                     THEN [cache.entry EXCEPT ![k].in_use = @ + 1]
                     ELSE [cache.entry EXCEPT ![k] =
                             [buffer |-> <<>>, completed |-> FALSE, in_use |-> 1]]
    BY <1>0, UseSound
  <2>. HIDE DEF d
  <2>3. Contains(cache, k) => cache.entry[k] \in Entry /\ cache.entry[k].in_use \in Nat
    BY <1>0 DEF Sound, WellFormed, Contains, Present
  <2>4. d.entry[k].in_use > 0
    BY <1>0, <2>2, <2>3 DEF Entry
  <2>5. \A j \in Key \ {k} : d.entry[j] = cache.entry[j]
    BY <1>0, <2>2
  <2>6. Whole(d)
    BY <1>0, <2>4, <2>5 DEF Whole, Unused, Present, Contains
  <2>. QED
    BY <2>1, <2>2, <2>6 DEF Inv
<1>3. ASSUME NEW k \in InUse, Disuse(k) PROVE Inv(cache')
  <2>. DEFINE d == DisuseEntry(cache, k)
  <2>1. cache' = d
    BY <1>3 DEF Disuse
  <2>2. /\ k \in Present(cache) /\ cache.entry[k].in_use > 0
        /\ cache.entry[k].in_use \in Nat /\ cache.entry[k] \in Entry
    BY <1>0, <1>3, InUseFacts
  <2>3. /\ Sound(d, 0)
        /\ d.entry = IF cache.entry[k].in_use = 1 /\ ~cache.entry[k].completed
                     THEN [j \in Key |-> IF j \in {k} THEN NoEntry ELSE cache.entry[j]]
                     ELSE [cache.entry EXCEPT ![k].in_use = @ - 1]
    BY <1>0, <2>2, DisuseSound
  <2>. HIDE DEF d
  <2>4. \A j \in Key \ {k} : d.entry[j] = cache.entry[j]
    BY <1>0, <2>3
  <2>5. Contains(d, k) /\ d.entry[k].in_use = 0 => d.entry[k].completed
    BY <1>0, <2>2, <2>3 DEF Contains, Entry
  <2>6. Whole(d)
    BY <1>0, <2>4, <2>5 DEF Whole, Unused, Present, Contains
  <2>. QED
    BY <2>1, <2>3, <2>6 DEF Inv
<1>4. ASSUME NEW k \in InUse, Look(k) PROVE Inv(cache')
  <2>1. k \in Present(cache) /\ cache' = Touch(cache, k)
    BY <1>4, InUseFacts DEF Look, InUse
  <2>2. /\ WellFormed(cache') /\ cache'.entry = cache.entry
        /\ cache'.size = cache.size
    BY <1>0, <2>1, TouchOrder, TouchWellFormed DEF Sound
  <2>3. Present(cache') = Present(cache)
    BY <2>2 DEF Present, Contains
  <2>4. Slots(cache', Present(cache')) = Slots(cache, Present(cache))
    BY <2>2, <2>3 DEF Slots, Size
  <2>. QED
    BY <1>0, <2>2, <2>3, <2>4 DEF Inv, Sound, Space, Whole, Unused
<1>5. ASSUME NEW k \in Open, Complete(k) PROVE Inv(cache')
  <2>1. /\ k \in Present(cache) /\ cache.entry[k] \in Entry
        /\ cache' = CompleteEntry(cache, k)
    BY <1>0, <1>5, InUseFacts DEF Complete, Open
  <2>2. /\ Sound(cache', 0)
        /\ cache'.entry = [cache.entry EXCEPT ![k].completed = TRUE]
    BY <1>0, <2>1, CompleteSound
  <2>3. Whole(cache')
    BY <1>0, <2>1, <2>2 DEF Whole, Unused, Present, Contains, Entry
  <2>. QED
    BY <2>2, <2>3 DEF Inv
<1>6. ASSUME NEW k \in Open, NEW chunk \in Chunk, WriteChunk(k, chunk)
      PROVE  Inv(cache')
  <2>. DEFINE V == Victims(cache, Len(chunk))
  <2>1. /\ k \in Present(cache) /\ cache.entry[k] \in Entry
        /\ cache.entry[k].in_use > 0 /\ chunk \in Seq(Block)
        /\ cache' = Write(cache, k, chunk)
    BY <1>0, <1>6, InUseFacts, ChunkIsSeq DEF WriteChunk, Open
  <2>2. /\ Sound(cache', 0)
        /\ \/ cache'.entry = Left(cache, V)
           \/ cache'.entry = Grown(cache, V, k, chunk)
        /\ V \subseteq Unused(cache)
    BY <1>0, <2>1, WriteSound
  <2>3. k \in Key \ V
    BY <2>1, <2>2 DEF Unused, Present
  <2>. HIDE DEF V
  <2>4. \A j \in Key : \/ cache'.entry[j] = cache.entry[j]
                       \/ cache'.entry[j] = NoEntry
                       \/ j = k /\ cache'.entry[j].in_use = cache.entry[j].in_use
    <3>1. /\ Grown(cache, V, k, chunk)[k].in_use = cache.entry[k].in_use
          /\ \A j \in Key \ {k} : Grown(cache, V, k, chunk)[j] = Left(cache, V)[j]
          /\ \A j \in Key : \/ Left(cache, V)[j] = cache.entry[j]
                            \/ Left(cache, V)[j] = NoEntry
      BY <2>1, <2>3, GrownFacts
    <3>. QED
      BY <2>2, <3>1
  <2>5. Whole(cache')
    BY <1>0, <2>1, <2>4 DEF Whole, Unused, Present, Contains
  <2>. QED
    BY <2>2, <2>5 DEF Inv
<1>. QED
  BY <1>0, <1>1, <1>2, <1>3, <1>4, <1>5, <1>6, NextCases

(* The cache stays well formed whatever the users do. *)
THEOREM CacheTypeCorrect == Spec => []TypeOK
<1>1. IInv => TypeOK
  BY DEF IInv, Inv, Sound, TypeOK
<1>. QED
  BY <1>1, InitInvariant, StepInvariant, PTL DEF Spec

(* The running count is the number of bytes held, and they fit: for any    *)
(* keys, any max_size_ and any number of users.                            *)
THEOREM CacheSizeIsExact == Spec => []SizeIsExact
<1>1. IInv => SizeIsExact
  BY SoundIsCounted DEF IInv, Inv, SizeIsExact
<1>. QED
  BY <1>1, InitInvariant, StepInvariant, PTL DEF Spec

(* Nothing half fetched is left behind once its last user is gone. *)
THEOREM UnusedEntriesAreComplete == Spec => []UnusedIsComplete
<1>1. IInv => UnusedIsComplete
  BY DEF IInv, Inv, UnusedIsComplete
<1>. QED
  BY <1>1, InitInvariant, StepInvariant, PTL DEF Spec

----------------------------------------------------------------------------
(* What a step may never do, and the abstract store.                       *)

(* What every kind of step does to the entries. *)
NewEntry == [buffer |-> <<>>, completed |-> FALSE, in_use |-> 1]

Opened(k) ==
  cache'.entry = IF Contains(cache, k)
                 THEN [cache.entry EXCEPT ![k].in_use = @ + 1]
                 ELSE [cache.entry EXCEPT ![k] = NewEntry]

Closed(k) ==
  cache'.entry = IF cache.entry[k].in_use = 1 /\ ~cache.entry[k].completed
                 THEN Left(cache, {k})
                 ELSE [cache.entry EXCEPT ![k].in_use = @ - 1]

Finished(k) == cache'.entry = [cache.entry EXCEPT ![k].completed = TRUE]

Refused(k, chunk) ==
  /\ Space(cache, Present(cache) \ Unused(cache)) + Len(chunk) > MaxSize
  /\ Victims(cache, Len(chunk)) = Unused(cache)
  /\ cache'.entry = Left(cache, Unused(cache))

Written(k, chunk) ==
  LET V == Victims(cache, Len(chunk))
  IN  /\ V \subseteq Unused(cache)
      /\ Space(cache, Present(cache) \ V) + Len(chunk) <= MaxSize
      /\ cache'.entry = Grown(cache, V, k, chunk)

LEMMA StepEntries ==
  ASSUME IInv, [Next]_cache
  PROVE  \/ cache'.entry = cache.entry
         \/ \E k \in Key : Opened(k)
         \/ \E k \in InUse : Disuse(k) /\ Closed(k)
         \/ \E k \in Open : Finished(k)
         \/ \E k \in Open, chunk \in Chunk : Refused(k, chunk) \/ Written(k, chunk)
<1>0. Sound(cache, 0)
  BY DEF IInv, Inv
<1>1. CASE UNCHANGED cache
  BY <1>1
<1>2. ASSUME NEW k \in Key, Use(k) PROVE Opened(k)
  BY <1>0, <1>2, UseSound DEF Use, Opened, NewEntry
<1>3. ASSUME NEW k \in InUse, Disuse(k) PROVE Closed(k)
  <2>1. k \in Present(cache) /\ cache.entry[k].in_use > 0
    BY <1>0, InUseFacts
  <2>. QED
    BY <1>0, <1>3, <2>1, DisuseSound DEF Disuse, Closed, Left
<1>4. ASSUME NEW k \in InUse, Look(k) PROVE cache'.entry = cache.entry
  <2>1. k \in Present(cache)
    BY <1>0, InUseFacts
  <2>. QED
    BY <1>0, <1>4, <2>1, TouchOrder DEF Look, Sound
<1>5. ASSUME NEW k \in Open, Complete(k) PROVE Finished(k)
  <2>1. k \in Present(cache)
    BY DEF Open, InUse
  <2>. QED
    BY <1>0, <1>5, <2>1, CompleteSound DEF Complete, Finished
<1>6. ASSUME NEW k \in Open, NEW chunk \in Chunk, WriteChunk(k, chunk)
      PROVE  Refused(k, chunk) \/ Written(k, chunk)
  <2>1. /\ k \in Present(cache) /\ cache.entry[k].in_use > 0
        /\ chunk \in Seq(Block) /\ cache' = Write(cache, k, chunk)
    BY <1>0, <1>6, InUseFacts, ChunkIsSeq DEF WriteChunk, Open
  <2>. DEFINE V == Victims(cache, Len(chunk))
              n == Len(chunk)
  <2>2. Space(cache, Present(cache) \ V) \in Nat /\ n \in Nat
    BY <1>0, <2>1, SlotsOfSubset DEF Sound
  <2>3. /\ V \subseteq Unused(cache)
        /\ \/ /\ V = Unused(cache)
              /\ Space(cache, Present(cache) \ V) + 0 + n > MaxSize
              /\ cache'.entry = Left(cache, V)
           \/ /\ Space(cache, Present(cache) \ V) + 0 + n <= MaxSize
              /\ cache'.entry = Grown(cache, V, k, chunk)
    BY <1>0, <2>1, WriteSound
  <2>. HIDE DEF V, n
  <2>4. Space(cache, Present(cache) \ V) + 0 + n = Space(cache, Present(cache) \ V) + n
    BY <2>2
  <2>. QED
    BY <2>3, <2>4 DEF Refused, Written, V, n
<1>. QED
  BY <1>0, <1>1, <1>2, <1>3, <1>4, <1>5, <1>6, NextCases

(* The entries are a total function and their fields have their types. *)
LEMMA EntryFacts ==
  ASSUME IInv
  PROVE  /\ cache.entry \in [Key -> Entry \cup {NoEntry}]
         /\ DOMAIN cache.entry = Key
         /\ Present(cache) \subseteq Key
         /\ \A k \in Present(cache) :
              /\ cache.entry[k] \in Entry /\ cache.entry[k] # NoEntry
              /\ cache.entry[k].in_use \in Nat
              /\ cache.entry[k].buffer \in Seq(Block)
              /\ cache.entry[k].buffer \o <<>> = cache.entry[k].buffer
         /\ \A k \in Key : k \notin Present(cache) => cache.entry[k] = NoEntry
<1>1. /\ cache.entry \in [Key -> Entry \cup {NoEntry}]
      /\ \A k \in Present(cache) : cache.entry[k].in_use \in Nat
  BY DEF IInv, Inv, Sound, WellFormed, CacheValue
<1>2. \A k \in Present(cache) : cache.entry[k] \in Entry /\ cache.entry[k] # NoEntry
  BY <1>1 DEF Present, Contains
<1>3. \A k \in Present(cache) : cache.entry[k].buffer \in Seq(Block)
  BY <1>2 DEF Entry
<1>4. \A s \in Seq(Block) : s \o <<>> = s
  OBVIOUS
<1>. QED
  BY <1>1, <1>2, <1>3, <1>4 DEF Present, Contains

(* How one step may change the entry of one key. *)
EntryStep(j, old, new) ==
  \/ /\ new = NoEntry
     /\ \/ j \in Unused(cache)
        \/ old.in_use = 1 /\ j \in Open /\ Disuse(j)
  \/ /\ new # NoEntry
     /\ old.completed => new.completed
     /\ \/ new.buffer = old.buffer
        \/ /\ ~old.completed
           /\ \E chunk \in Chunk : new.buffer = old.buffer \o chunk

LEMMA EntrySteps ==
  ASSUME IInv, [Next]_cache, NEW j \in Present(cache)
  PROVE  EntryStep(j, cache.entry[j], cache'.entry[j])
<1>. DEFINE old == cache.entry[j]
            new == cache'.entry[j]
<1>0. /\ j \in Key /\ old \in Entry /\ old # NoEntry /\ old.in_use \in Nat
      /\ DOMAIN cache.entry = Key
  BY EntryFacts
<1>2. ASSUME NEW k \in Key, Opened(k)
      PROVE  new # NoEntry /\ new.completed = old.completed /\ new.buffer = old.buffer
  <2>1. CASE k = j
    <3>1. new = [old EXCEPT !.in_use = @ + 1]
      BY <1>0, <1>2, <2>1 DEF Opened, Present
    <3>2. [old EXCEPT !.in_use = @ + 1] \in Entry
      BY <1>0 DEF Entry
    <3>. QED
      BY <1>0, <3>1, <3>2, CacheAssumption DEF Entry
  <2>2. CASE k # j
    BY <1>0, <1>2, <2>2 DEF Opened
  <2>. QED
    BY <2>1, <2>2
<1>3. ASSUME NEW k \in InUse, Disuse(k), Closed(k)
      PROVE  \/ /\ new = NoEntry
                /\ old.in_use = 1 /\ j \in Open /\ Disuse(j)
             \/ /\ new # NoEntry
                /\ new.completed = old.completed /\ new.buffer = old.buffer
  <2>1. CASE k = j /\ old.in_use = 1 /\ ~old.completed
    BY <1>0, <1>3, <2>1 DEF Closed, Left, Open
  <2>2. CASE k = j /\ ~(old.in_use = 1 /\ ~old.completed)
    <3>1. new = [old EXCEPT !.in_use = @ - 1]
      BY <1>0, <1>3, <2>2 DEF Closed
    <3>2. [old EXCEPT !.in_use = @ - 1] \in Entry
      BY <1>0 DEF Entry
    <3>. QED
      BY <1>0, <3>1, <3>2, CacheAssumption DEF Entry
  <2>3. CASE k # j
    BY <1>0, <1>3, <2>3 DEF Closed, Left
  <2>. QED
    BY <2>1, <2>2, <2>3
<1>4. ASSUME NEW k \in Open, Finished(k)
      PROVE  new # NoEntry /\ (old.completed => new.completed) /\ new.buffer = old.buffer
  <2>1. CASE k = j
    <3>1. new = [old EXCEPT !.completed = TRUE]
      BY <1>0, <1>4, <2>1 DEF Finished
    <3>2. [old EXCEPT !.completed = TRUE] \in Entry
      BY <1>0 DEF Entry
    <3>. QED
      BY <1>0, <3>1, <3>2, CacheAssumption DEF Entry
  <2>2. CASE k # j
    BY <1>0, <1>4, <2>2 DEF Finished
  <2>. QED
    BY <2>1, <2>2
<1>5. ASSUME NEW k \in Open, NEW chunk \in Chunk, Refused(k, chunk)
      PROVE  (new = NoEntry /\ j \in Unused(cache)) \/ new = old
  BY <1>0, <1>5 DEF Refused, Left
<1>6. ASSUME NEW k \in Open, NEW chunk \in Chunk, Written(k, chunk)
      PROVE  \/ new = NoEntry /\ j \in Unused(cache)
             \/ new = old
             \/ /\ new # NoEntry /\ new.completed = old.completed
                /\ ~old.completed /\ new.buffer = old.buffer \o chunk
  <2>. DEFINE V == Victims(cache, Len(chunk))
  <2>1. V \subseteq Unused(cache) /\ cache'.entry = Grown(cache, V, k, chunk)
    BY <1>6 DEF Written
  <2>2. k \in Key \ V /\ ~cache.entry[k].completed /\ cache.entry[k] \in Entry
    BY <2>1, EntryFacts DEF Open, InUse, Unused
  <2>. HIDE DEF V
  <2>3. CASE k = j
    <3>1. new.completed = old.completed /\ new.in_use = old.in_use
      BY <1>0, <2>1, <2>2, <2>3, GrownFacts
    <3>2. new = [old EXCEPT !.buffer = @ \o chunk]
      BY <2>1, <2>2, <2>3 DEF Grown, Left
    <3>3. new.buffer = old.buffer \o chunk
      BY <1>0, <3>2 DEF Entry
    <3>4. new # NoEntry
      <4>1. chunk \in Seq(Block) /\ old.buffer \in Seq(Block)
        BY EntryFacts, ChunkIsSeq
      <4>2. old.buffer \o chunk \in Seq(Block)
        BY <4>1
      <4>3. [old EXCEPT !.buffer = @ \o chunk] \in Entry
        BY <1>0, <4>2 DEF Entry
      <4>. QED
        BY <3>2, <4>3, CacheAssumption
    <3>. QED
      BY <2>2, <2>3, <3>1, <3>3, <3>4
  <2>4. CASE k # j
    <3>1. new = Left(cache, V)[j]
      BY <1>0, <2>1, <2>2, <2>4, GrownFacts
    <3>. QED
      BY <1>0, <2>1, <3>1 DEF Left
  <2>. QED
    BY <2>3, <2>4
<1>. HIDE DEF old, new
<1>7. \/ new = old
      \/ \E k \in Key : Opened(k)
      \/ \E k \in InUse : Disuse(k) /\ Closed(k)
      \/ \E k \in Open : Finished(k)
      \/ \E k \in Open, chunk \in Chunk : Refused(k, chunk) \/ Written(k, chunk)
  BY StepEntries DEF old, new
<1>8. EntryStep(j, old, new)
  BY ONLY <1>0, <1>2, <1>3, <1>4, <1>5, <1>6, <1>7 DEF EntryStep
<1>. QED
  BY <1>8 DEF old, new

(* An entry in use survives every write to other keys and only grows: a    *)
(* client in the middle of an entry finds the rest of it where it was.     *)
THEOREM EntriesInUseSurvive == Spec => KeepsWhatIsInUse
<1>1. ASSUME IInv, [Next]_cache, NEW k \in InUse
      PROVE  \/ /\ k \in Present(cache')
                /\ \E more \in {<<>>} \cup Chunk :
                     cache.entry[k].buffer \o more = cache'.entry[k].buffer
             \/ cache.entry[k].in_use = 1 /\ k \in Open /\ Disuse(k)
  <2>1. k \in Present(cache) /\ k \in Key /\ k \notin Unused(cache)
    BY <1>1, InUseFacts DEF IInv, Inv, InUse, Unused
  <2>2. EntryStep(k, cache.entry[k], cache'.entry[k])
    BY <1>1, <2>1, EntrySteps
  <2>3. cache.entry[k].buffer \o <<>> = cache.entry[k].buffer
    BY <1>1, <2>1, EntryFacts
  <2>. QED
    BY <2>1, <2>2, <2>3 DEF EntryStep, Present, Contains
<1>2. IInv /\ [Next]_cache =>
        [\A k \in InUse :
           \/ /\ k \in Present(cache)'
              /\ \E more \in {<<>>} \cup Chunk :
                   cache.entry[k].buffer \o more = cache'.entry[k].buffer
           \/ cache.entry[k].in_use = 1 /\ k \in Open /\ Disuse(k)]_cache
  BY <1>1 DEF Present, Contains
<1>. QED
  BY <1>2, InitInvariant, StepInvariant, PTL DEF Spec, KeepsWhatIsInUse

(* A completed response never changes again while the cache holds it. *)
THEOREM CompletedEntriesAreFinal == Spec => CompletedIsFinal
<1>1. ASSUME IInv, [Next]_cache, NEW k \in Present(cache), k \in Present(cache'),
             cache.entry[k].completed
      PROVE  /\ cache'.entry[k].completed
             /\ cache'.entry[k].buffer = cache.entry[k].buffer
  BY <1>1, EntrySteps DEF EntryStep, Present, Contains
<1>2. IInv /\ [Next]_cache =>
        [\A k \in Present(cache) \cap Present(cache)' :
           cache.entry[k].completed =>
             /\ cache'.entry[k].completed
             /\ cache'.entry[k].buffer = cache.entry[k].buffer]_cache
  BY <1>1 DEF Present, Contains
<1>. QED
  BY <1>2, InitInvariant, StepInvariant, PTL DEF Spec, CompletedIsFinal

(* Victims are closed under "used less recently". *)
LEMMA OlderVictims ==
  ASSUME NEW c, Sound(c, 0), NEW n, n \in Nat,
         NEW gone \in Victims(c, n), NEW kept \in Unused(c) \ Victims(c, n)
  PROVE  <<gone, kept>> \in c.older
<1>. DEFINE Before(k) == {j \in Unused(c) : <<j, k>> \in c.older}
<1>1. /\ gone \in Unused(c) /\ kept \in Unused(c) /\ gone # kept
      /\ Unused(c) \subseteq Present(c) /\ Present(c) \subseteq Key /\ Ordered(c)
  BY DEF Victims, Unused, Present, Sound, WellFormed
<1>2. SUFFICES ASSUME <<kept, gone>> \in c.older PROVE FALSE
  BY <1>1 DEF Ordered
<1>3. Before(kept) \subseteq Before(gone)
  BY <1>1, <1>2 DEF Ordered
<1>4. IsFiniteSet(Slots(c, Before(gone)))
  BY <1>1, SlotsOfSubset DEF Sound
<1>5. Space(c, Before(kept)) \in Nat /\ Space(c, Before(kept)) <= Space(c, Before(gone))
  BY <1>3, <1>4, SlotsOfSubset
<1>6. Space(c, Before(gone)) \in Nat
  BY <1>4, SlotsOfSubset
<1>7. FreeSpace(c) + Space(c, Before(gone)) < n /\ ~(FreeSpace(c) + Space(c, Before(kept)) < n)
  BY DEF Victims
<1>8. FreeSpace(c) \in Int
  BY CacheAssumption DEF FreeSpace, Sound, WellFormed, CacheValue
<1>. HIDE DEF Before
<1>. QED
  BY <1>5, <1>6, <1>7, <1>8

(* Eviction is in order of last use, whatever the sizes of the entries. *)
THEOREM EvictionIsInOrder == Spec => EvictsOldestFirst
<1>1. ASSUME IInv, [Next]_cache, NEW gone \in Unused(cache), gone \notin Present(cache'),
             NEW kept \in Unused(cache), kept \in Present(cache')
      PROVE  <<gone, kept>> \in cache.older
  <2>1. /\ gone \in Present(cache) /\ kept \in Present(cache)
        /\ gone \in Key /\ kept \in Key
        /\ cache.entry[gone].in_use = 0 /\ cache.entry[kept].in_use = 0
    BY DEF Unused, Present
  <2>2. cache'.entry[gone] = NoEntry /\ cache'.entry[kept] # NoEntry
    BY <1>1, <2>1 DEF Present, Contains
  <2>3. PICK k \in Open, chunk \in Chunk : Refused(k, chunk) \/ Written(k, chunk)
    <3>1. /\ cache.entry[gone] \in Entry /\ cache.entry[gone] # NoEntry
          /\ DOMAIN cache.entry = Key
      BY <1>1, <2>1, EntryFacts
    <3>2. cache'.entry # cache.entry
      BY <2>2, <3>1
    <3>3. ASSUME NEW k \in Key, Opened(k) PROVE FALSE
      <4>1. CASE k = gone
        <5>1. cache'.entry[gone] = [cache.entry[gone] EXCEPT !.in_use = @ + 1]
          BY <2>1, <3>1, <3>3, <4>1 DEF Opened, Present
        <5>2. [cache.entry[gone] EXCEPT !.in_use = @ + 1] \in Entry
          BY <3>1 DEF Entry
        <5>. QED
          BY <2>2, <5>1, <5>2, CacheAssumption
      <4>2. CASE k # gone
        BY <2>1, <2>2, <3>1, <3>3, <4>2 DEF Opened
      <4>. QED
        BY <4>1, <4>2
    <3>4. ASSUME NEW k \in InUse, Closed(k) PROVE FALSE
      <4>1. k # gone
        BY <2>1 DEF InUse
      <4>. QED
        BY <2>1, <2>2, <3>1, <3>4, <4>1 DEF Closed, Left
    <3>5. ASSUME NEW k \in Open, Finished(k) PROVE FALSE
      <4>1. k # gone
        BY <2>1 DEF Open, InUse
      <4>. QED
        BY <2>1, <2>2, <3>1, <3>5, <4>1 DEF Finished
    <3>. QED
      BY <1>1, <3>2, <3>3, <3>4, <3>5, StepEntries
  <2>. DEFINE n == Len(chunk)
              V == Victims(cache, n)
  <2>4. n \in Nat
    BY ChunkIsSeq
  <2>5. gone \in V /\ kept \notin V
    <3>1. CASE Refused(k, chunk)
      BY <2>1, <2>2, <3>1 DEF Refused, Left
    <3>2. CASE Written(k, chunk)
      <4>1. V \subseteq Unused(cache) /\ cache'.entry = Grown(cache, V, k, chunk)
        BY <3>2 DEF Written
      <4>2. k \in Key \ V /\ cache.entry[k] \in Entry /\ k # gone /\ k # kept
        BY <1>1, <2>1, <4>1, EntryFacts DEF Open, InUse, Unused
      <4>. HIDE DEF V
      <4>3. /\ cache'.entry[gone] = Left(cache, V)[gone]
            /\ cache'.entry[kept] = Left(cache, V)[kept]
        <5>1. \A j \in Key \ {k} : Grown(cache, V, k, chunk)[j] = Left(cache, V)[j]
          BY <4>2, GrownFacts
        <5>. QED
          BY <2>1, <4>1, <4>2, <5>1
      <4>4. cache.entry[gone] # NoEntry
        BY <1>1, <2>1, EntryFacts
      <4>. QED
        BY <2>1, <2>2, <4>3, <4>4 DEF Left
    <3>. QED
      BY <2>3, <3>1, <3>2
  <2>. HIDE DEF n
  <2>. QED
    BY <1>1, <2>4, <2>5, OlderVictims DEF IInv, Inv
<1>2. IInv /\ [Next]_cache =>
        [\A gone \in Unused(cache) \ Present(cache)', kept \in Unused(cache) :
           kept \in Present(cache)' => <<gone, kept>> \in cache.older]_cache
  BY <1>1 DEF Present, Contains
<1>. QED
  BY <1>2, InitInvariant, StepInvariant, PTL DEF Spec, EvictsOldestFirst

(* The cache implements the pinned store: whatever the order of last use,  *)
(* the counter and the choice of victims do, its users see a store that    *)
(* keeps what is pinned, refuses data only when the pinned entries leave   *)
(* no room, and forgets what nobody finished.                              *)
THEOREM CacheIsAPinnedStore == Spec => IsAPinnedStore
<1>. USE DEF Promise!Held, Promise!Pinned, Promise!Loose, Promise!Positions,
             Promise!Volume, Promise!GiveUp
<1>1. Init => Promise!Init
  BY DEF Init, EmptyCache, Promise!Init
<1>2. ASSUME IInv, [Next]_cache PROVE [Promise!Next]_(cache.entry)
  <2>0. /\ Promise!Held = Present(cache) /\ InUse = Promise!Pinned
        /\ Promise!Loose = Unused(cache)
        /\ \A S : Promise!Volume(S) = Space(cache, S)
        /\ \A V : Promise!GiveUp(V) = Left(cache, V)
        /\ \A k \in Open : k \in Promise!Pinned /\ k \in Key
                          /\ ~cache.entry[k].completed
    <3>1. Promise!Held = Present(cache) /\ InUse = Promise!Pinned
      BY DEF Present, Contains, InUse
    <3>2. Promise!Loose = Unused(cache)
      BY <1>2, <3>1, EntryFacts DEF Unused, InUse
    <3>3. \A S : Promise!Volume(S) = Space(cache, S)
      BY DEF Space, Slots, Size, Cardinality, Promise!Cardinality
    <3>4. \A V : Promise!GiveUp(V) = Left(cache, V)
      BY DEF Left
    <3>5. \A k \in Open : k \in Promise!Pinned /\ k \in Key
                          /\ ~cache.entry[k].completed
      BY <3>1 DEF Open, InUse, Present
    <3>. QED
      BY <3>1, <3>2, <3>3, <3>4, <3>5
  <2>1. CASE cache'.entry = cache.entry
    BY <2>1
  <2>2. ASSUME NEW k \in Key, Opened(k) PROVE Promise!Next
    <3>1. Promise!Open(k)
      BY <2>2 DEF Opened, Contains, NewEntry, Promise!Open
    <3>. QED
      BY <3>1 DEF Promise!Next
  <2>3. ASSUME NEW k \in InUse, Closed(k) PROVE Promise!Next
    <3>1. Promise!Close(k) /\ k \in Key
      BY <2>0, <2>3 DEF Closed, Promise!Close, InUse, Present, Left
    <3>. QED
      BY <3>1 DEF Promise!Next
  <2>4. ASSUME NEW k \in Open, Finished(k) PROVE Promise!Next
    <3>1. Promise!Finish(k) /\ k \in Key
      BY <2>0, <2>4 DEF Finished, Promise!Finish
    <3>. QED
      BY <3>1 DEF Promise!Next
  <2>5. ASSUME NEW k \in Open, NEW chunk \in Chunk, Refused(k, chunk)
        PROVE  Promise!Next
    <3>1. Promise!Refuse(k, chunk) /\ k \in Key
      <4>1. Promise!Pinned = Present(cache) \ Unused(cache)
        BY <1>2, <2>0, EntryFacts DEF Unused, Present
      <4>2. /\ Promise!Volume(Promise!Pinned) + Len(chunk) > MaxSize
            /\ cache'.entry = Promise!GiveUp(Promise!Loose)
        BY <2>0, <2>5, <4>1 DEF Refused
      <4>. QED
        BY <2>0, <4>2 DEF Promise!Refuse
    <3>. QED
      BY <3>1 DEF Promise!Next
  <2>6. ASSUME NEW k \in Open, NEW chunk \in Chunk, Written(k, chunk)
        PROVE  Promise!Next
    <3>1. Promise!Put(k, chunk) /\ k \in Key
      <4>. DEFINE V == Victims(cache, Len(chunk))
      <4>1. /\ V \in SUBSET Promise!Loose
            /\ Promise!Volume(Promise!Held \ V) + Len(chunk) <= MaxSize
            /\ cache'.entry = Grown(cache, V, k, chunk)
        BY <2>0, <2>6 DEF Written
      <4>. HIDE DEF V
      <4>2. cache'.entry = [Promise!GiveUp(V) EXCEPT ![k].buffer = @ \o chunk]
        BY <4>1 DEF Grown, Left
      <4>. QED
        BY <2>0, <4>1, <4>2 DEF Promise!Put
    <3>. QED
      BY <3>1 DEF Promise!Next
  <2>. QED
    BY <1>2, <2>1, <2>2, <2>3, <2>4, <2>5, <2>6, StepEntries
<1>. QED
  BY <1>1, <1>2, InitInvariant, StepInvariant, PTL DEF Spec, IsAPinnedStore, Promise!Spec

==============================================================================
