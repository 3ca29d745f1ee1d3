----------------------------- MODULE CacheUsers -----------------------------
(***************************************************************************)
(* One Cache object and the calls the server makes on it.  The server      *)
(* calls useEntry when a client starts on a response and disuseEntry when  *)
(* it is done with it, and between the two it reads, writes and completes  *)
(* the entry.  The module Server shows that it keeps to this protocol.     *)
(***************************************************************************)
EXTENDS Cache

CONSTANTS
  MaxUsers,  \* bound: how many users of one entry the model lets in
  MaxChunk   \* the longest chunk one call writes, in blocks

ASSUME UsersAssumption == MaxUsers \in Nat /\ MaxChunk \in Nat

(* readResponseChunk never returns an empty chunk. *)
Chunk == UNION {[1..n -> Block] : n \in 1..MaxChunk}

VARIABLE cache

Init == cache = EmptyCache

InUse == {k \in Present(cache) : cache.entry[k].in_use > 0}
Open  == {k \in InUse : ~cache.entry[k].completed}

Use(k) ==
  /\ Contains(cache, k) => cache.entry[k].in_use < MaxUsers
  /\ cache' = UseEntry(cache, k)

Disuse(k) ==
  /\ k \in InUse
  /\ cache' = DisuseEntry(cache, k)

(* Cache::getEntry, and Cache::read after it *)
Look(k) ==
  /\ k \in InUse
  /\ cache' = Touch(cache, k)

WriteChunk(k, chunk) ==
  /\ k \in Open
  /\ cache' = Write(cache, k, chunk)

Complete(k) ==
  /\ k \in Open
  /\ cache' = CompleteEntry(cache, k)

Next == \E k \in Key :
          \/ Use(k) \/ Disuse(k) \/ Look(k) \/ Complete(k)
          \/ \E chunk \in Chunk : WriteChunk(k, chunk)

Spec == Init /\ [][Next]_cache

----------------------------------------------------------------------------
(* Properties.                                                             *)

(* The cache stays well formed: list_ and hash_table_ hold the same keys,  *)
(* in one order of last use, and no use count ever goes below zero.        *)
TypeOK == WellFormed(cache)

(* current_size_ counts exactly the bytes of the entries list_ holds,      *)
(* through every append, eviction and drop, and never passes max_size_: so *)
(* the unsigned max_size_ - current_size_ of getFreeSpace never wraps.     *)
SizeIsExact == Counted(cache)

(* An entry that nobody uses is a whole response: what a fetch left        *)
(* unfinished is gone once its last user is, and is never served again.    *)
Whole(c) == \A k \in Unused(c) : c.entry[k].completed

UnusedIsComplete == Whole(cache)

(* An entry in use survives whatever else is written, and its bytes stay   *)
(* where they are: a client that has sent n bytes finds byte n + 1 where   *)
(* it left off.  Only its last user's own departure removes an entry.      *)
KeepsWhatIsInUse ==
  [][\A k \in InUse :
       \/ /\ k \in Present(cache)'
          /\ \E more \in {<<>>} \cup Chunk :
               cache.entry[k].buffer \o more = cache'.entry[k].buffer
       \/ cache.entry[k].in_use = 1 /\ k \in Open /\ Disuse(k)]_cache

(* Nothing is appended to a response that was completed. *)
CompletedIsFinal ==
  [][\A k \in Present(cache) \cap Present(cache)' :
       cache.entry[k].completed =>
         /\ cache'.entry[k].completed
         /\ cache'.entry[k].buffer = cache.entry[k].buffer]_cache

(* Eviction takes the least recently used entries first: whoever goes      *)
(* leaves no unused entry behind that was used less recently.              *)
EvictsOldestFirst ==
  [][\A gone \in Unused(cache) \ Present(cache)', kept \in Unused(cache) :
       kept \in Present(cache)' => <<gone, kept>> \in cache.older]_cache

(* The cache is a pinned store: no list, no counter, no policy. *)
Promise == INSTANCE PinnedStore
             WITH store <- cache.entry, Capacity <- MaxSize, Absent <- NoEntry

IsAPinnedStore == Promise!Spec
============================================================================
