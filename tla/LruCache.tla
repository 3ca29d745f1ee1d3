------------------------------ MODULE LruCache ------------------------------
(***************************************************************************)
(* The two containers of src/cache/cache.cpp, call by call and loop by     *)
(* loop: list_, a sequence of key and entry, and hash_table_, from keys to *)
(* iterators into list_.  An iterator is as good as the key it stands for: *)
(* list_ holds a key once at most, and a key of the table that list_ does  *)
(* not hold has an iterator to a node that is freed.                       *)
(*                                                                         *)
(* removeLeastRecentlyUsed passes drop() a reference to the key inside the *)
(* node to be erased, so that drop() looks up a freed string to erase it   *)
(* from the table.  What that string reads like is up to the allocator of  *)
(* the build; FreedKey says which readings are considered.                 *)
(*                                                                         *)
(* A cache value here is [list, table, size, undefined], the last one true *)
(* once the program followed an iterator to a freed node.                  *)
(***************************************************************************)
EXTENDS Integers, Sequences, FiniteSets, SequencesExt

CONSTANTS
  Key, Block, MaxSize, NoEntry,
  MaxUsers, MaxChunk,  \* bounds, as in CacheUsers
  FreedKey             \* of {"intact", "overwritten"}

ASSUME FreedKeyAssumption == FreedKey \subseteq {"intact", "overwritten"}

VARIABLE lru

Chunk == UNION {[1..n -> Block] : n \in 1..MaxChunk}

ContainsKey(m, k) == k \in m.table

PositionOf(m, k) == {i \in DOMAIN m.list : m.list[i].key = k}

(* The result of F, unless the iterator of k cannot be followed. *)
Follow(m, k, F(_)) ==
  IF PositionOf(m, k) = {} THEN [m EXCEPT !.undefined = TRUE]
  ELSE F(CHOOSE i \in PositionOf(m, k) : TRUE)

MakeMostRecentlyUsed(m, k) ==
  Follow(m, k, LAMBDA i :
    [m EXCEPT !.list = Append(RemoveAt(@, i), @[i])])

(* Faulty variant: the entry is erased from list_ alone. *)
DropKeyFromList(m, k) ==
  Follow(m, k, LAMBDA i :
    [m EXCEPT !.size = @ - Len(m.list[i].buffer), !.list = RemoveAt(@, i)])

(* drop() of a key of the table, given as a reference that outlives it ... *)
DropKey(m, k) ==
  Follow(m, k, LAMBDA i :
    [m EXCEPT !.size = @ - Len(m.list[i].buffer),
              !.list = RemoveAt(@, i), !.table = @ \ {k}])

(* ... and given as the key inside the node it erases. *)
DropNode(m, k, reads) ==
  IF reads = "intact" THEN DropKey(m, k)
  ELSE [DropKey(m, k) EXCEPT !.table = m.table]

UnusedAt(m) == {i \in DOMAIN m.list : m.list[i].in_use = 0}

(* Faulty variant: the scan of list_ ends with the last unused entry. *)
LastUnused(m) == CHOOSE i \in UnusedAt(m) : \A j \in UnusedAt(m) : j <= i

(* The entry removeLeastRecentlyUsed finds in its scan of list_. *)
FirstUnused(m) == CHOOSE i \in UnusedAt(m) : \A j \in UnusedAt(m) : i <= j

(* freeSpace calls removeLeastRecentlyUsed until there is room: the caches *)
(* it may leave, with whether it threw AllInUseException.                  *)
RECURSIVE FreeSpaceFor(_, _)
FreeSpaceFor(m, needed) ==
  IF MaxSize - m.size >= needed THEN {[m |-> m, threw |-> FALSE]}
  ELSE IF UnusedAt(m) = {} THEN {[m |-> m, threw |-> TRUE]}
  ELSE UNION {FreeSpaceFor(DropNode(m, m.list[FirstUnused(m)].key, reads), needed) :
                reads \in FreedKey}

AppendTo(m, k, chunk) ==
  LET n == MakeMostRecentlyUsed(m, k)
  IN  IF n.undefined THEN n
      ELSE [n EXCEPT !.list[Len(n.list)].buffer = @ \o chunk]

(* append() runs when freeSpace did not throw *)
Write(m, k, chunk) ==
  {IF f.threw THEN f.m
   ELSE AppendTo([f.m EXCEPT !.size = @ + Len(chunk)], k, chunk) :
     f \in FreeSpaceFor(m, Len(chunk))}

(* getEntry(key), and an assignment to the entry it returns, now the last. *)
ChangeEntry(m, k, F(_)) ==
  LET n == MakeMostRecentlyUsed(m, k)
  IN  IF n.undefined THEN n ELSE [n EXCEPT !.list[Len(n.list)] = F(@)]

UseEntry(m, k) ==
  IF ContainsKey(m, k)
  THEN ChangeEntry(m, k, LAMBDA e : [e EXCEPT !.in_use = @ + 1])
  ELSE [m EXCEPT !.table = @ \cup {k},
                 !.list = Append(@, [key |-> k, buffer |-> <<>>,
                                     completed |-> FALSE, in_use |-> 1])]

DisuseEntry(m, k) ==
  IF ~ContainsKey(m, k) THEN m
  ELSE LET n == ChangeEntry(m, k, LAMBDA e : [e EXCEPT !.in_use = @ - 1])
       IN  IF n.undefined THEN n
           ELSE IF Last(n.list).in_use = 0 /\ ~Last(n.list).completed
           THEN DropKey(n, k) ELSE n

----------------------------------------------------------------------------
Init == lru = [list |-> <<>>, table |-> {}, size |-> 0, undefined |-> FALSE]

Users(k) == IF PositionOf(lru, k) = {} THEN 0
            ELSE lru.list[CHOOSE i \in PositionOf(lru, k) : TRUE].in_use

Unfinished(k) == \A i \in PositionOf(lru, k) : ~lru.list[i].completed

Use(k) ==
  /\ Users(k) < MaxUsers
  /\ lru' = UseEntry(lru, k)

Disuse(k) ==
  /\ Users(k) > 0
  /\ lru' = DisuseEntry(lru, k)

Look(k) ==
  /\ Users(k) > 0
  /\ lru' = MakeMostRecentlyUsed(lru, k)

WriteChunk(k, chunk) ==
  /\ Users(k) > 0 /\ Unfinished(k)
  /\ lru' \in Write(lru, k, chunk)

Complete(k) ==
  /\ Users(k) > 0 /\ Unfinished(k)
  /\ lru' = ChangeEntry(lru, k, LAMBDA e : [e EXCEPT !.completed = TRUE])

Next ==
  /\ ~lru.undefined
  /\ \E k \in Key :
       \/ Use(k) \/ Disuse(k) \/ Look(k) \/ Complete(k)
       \/ \E chunk \in Chunk : WriteChunk(k, chunk)

Spec == Init /\ [][Next]_lru

----------------------------------------------------------------------------
(* Properties.                                                             *)

(* Every key of hash_table_ stands in list_, once, and no other key does:  *)
(* a key that was dropped ("Dropped cache with key") is not contained any  *)
(* more, and no iterator of the table leads to a freed node.               *)
TableMatchesList ==
  /\ lru.table = {lru.list[i].key : i \in DOMAIN lru.list}
  /\ \A k \in lru.table : Cardinality(PositionOf(lru, k)) = 1

(* The containers, the scan for a victim and the loop that frees space do  *)
(* together what the sets of CacheUsers say a cache does.                  *)
EntryOf(e) == [buffer |-> e.buffer, completed |-> e.completed, in_use |-> e.in_use]

EntryAt(k) == IF ContainsKey(lru, k) /\ PositionOf(lru, k) # {}
              THEN EntryOf(lru.list[CHOOSE i \in PositionOf(lru, k) : TRUE])
              ELSE NoEntry

AsCache ==
  [entry |-> [k \in Key |-> EntryAt(k)],
   older |-> {<<lru.list[p[1]].key, lru.list[p[2]].key>> :
                p \in {q \in (DOMAIN lru.list) \X (DOMAIN lru.list) : q[1] < q[2]}},
   size  |-> lru.size]

Abstract == INSTANCE CacheUsers WITH cache <- AsCache

IsTheCache == Abstract!Spec
============================================================================
