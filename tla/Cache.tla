------------------------------- MODULE Cache -------------------------------
(***************************************************************************)
(* The response cache of src/cache/cache.h and src/cache/cache.cpp, as     *)
(* operators on the value of one Cache object.  A cache value is a record  *)
(*                                                                         *)
(*   entry   what hash_table_ maps each key to (NoEntry: not contained),   *)
(*   older   the order of list_, least recently used first, as the set of  *)
(*           pairs <<k, l>> such that k stands before l,                   *)
(*   size    current_size_, the running count of the bytes held.           *)
(*                                                                         *)
(* Each operator takes a cache value and returns the one a call leaves     *)
(* behind, so that a server handler can chain several calls in one step.   *)
(* A Block is the unit in which the model counts bytes.                    *)
(***************************************************************************)
EXTENDS Integers, Sequences, FiniteSets

CONSTANTS
  Key,      \* request strings
  Block,    \* the units of data a response is made of
  MaxSize,  \* max_size_
  NoEntry   \* marks a key the cache does not contain

(* Cache::Entry *)
Entry == [buffer : Seq(Block), completed : BOOLEAN, in_use : Int]

(* max_size_ is a size_t, and the marker is not an entry. *)
ASSUME CacheAssumption == MaxSize \in Nat /\ NoEntry \notin Entry

CacheValue == [entry : [Key -> Entry \cup {NoEntry}],
               older : SUBSET (Key \X Key),
               size  : Int]

(* Cache::Cache *)
EmptyCache == [entry |-> [k \in Key |-> NoEntry], older |-> {}, size |-> 0]

(* Cache::contains, and the keys for which it returns true *)
Contains(c, k) == c.entry[k] # NoEntry
Present(c)     == {k \in Key : Contains(c, k)}

(* inUse() is zero: nobody needs the entry and it may be evicted. *)
Unused(c) == {k \in Present(c) : c.entry[k].in_use = 0}

(* Entry::size, and the space a set of contained keys takes: the number of *)
(* block positions in their buffers.                                       *)
Size(c, k)   == Len(c.entry[k].buffer)
Slots(c, S)  == UNION {{k} \X (1..Size(c, k)) : k \in S}
Space(c, S)  == Cardinality(Slots(c, S))

(* Cache::getFreeSpace *)
FreeSpace(c) == MaxSize - c.size

(* list_ and hash_table_ agree on the keys, finitely many, and list_ is a  *)
(* sequence: the pairs are a strict total order of the contained keys.  No *)
(* count of users is negative, although in_use is a signed int.            *)
Ordered(c) ==
  /\ c.older \subseteq Present(c) \X Present(c)
  /\ \A k \in Key : <<k, k>> \notin c.older
  /\ \A j, k \in Present(c) :
       j = k \/ <<j, k>> \in c.older \/ <<k, j>> \in c.older
  /\ \A i, j, k \in Key :
       <<i, j>> \in c.older /\ <<j, k>> \in c.older => <<i, k>> \in c.older

WellFormed(c) ==
  /\ c \in CacheValue
  /\ IsFiniteSet(Present(c))
  /\ \A k \in Present(c) : c.entry[k].in_use \in Nat
  /\ Ordered(c)

(* The running count is the bytes held, and they fit. *)
Counted(c) == c.size = Space(c, Present(c)) /\ c.size <= MaxSize

----------------------------------------------------------------------------
(* Faulty variants of the operators below, each the code with one slip.    *)

(* the counter forgets what was freed *)
DropAllKeepSize(c, S) ==
  [entry |-> [k \in Key |-> IF k \in S THEN NoEntry ELSE c.entry[k]],
   older |-> {p \in c.older : p[1] \notin S /\ p[2] \notin S},
   size  |-> c.size]

(* the scan of list_ takes entries that are in use as well *)
VictimsInUse(c, needed) ==
  {k \in Present(c) :
     FreeSpace(c) + Space(c, {j \in Present(c) : <<j, k>> \in c.older}) < needed}

(* the scan starts at the most recently used end *)
VictimsNewestFirst(c, needed) ==
  {k \in Unused(c) :
     FreeSpace(c) + Space(c, {j \in Unused(c) : <<k, j>> \in c.older}) < needed}

(* freeSpace asks for one eviction instead of looping until enough is free *)
VictimsAtMostOne(c, needed) ==
  {k \in Unused(c) : /\ FreeSpace(c) < needed
                     /\ \A j \in Unused(c) : <<j, k>> \notin c.older}

(* drop erases the key from hash_table_ but not from list_ *)
DropAllKeepOrder(c, S) ==
  [entry |-> [k \in Key |-> IF k \in S THEN NoEntry ELSE c.entry[k]],
   older |-> c.older,
   size  |-> c.size - Space(c, S)]

(* useEntry does not ask whether the cache contains the key *)
UseAfresh(c, k) ==
  [entry |-> [c.entry EXCEPT ![k] =
                [buffer |-> <<>>, completed |-> FALSE, in_use |-> 1]],
   older |-> c.older \cup {<<j, k>> : j \in Present(c) \ {k}},
   size  |-> c.size]

(* an incomplete entry stays behind when its last user leaves *)
DisuseKeeps(c, k) ==
  IF Contains(c, k) THEN [c EXCEPT !.entry[k].in_use = @ - 1] ELSE c

----------------------------------------------------------------------------

(* Cache::drop of every key of a set of contained keys *)
DropAll(c, S) ==
  [entry |-> [k \in Key |-> IF k \in S THEN NoEntry ELSE c.entry[k]],
   older |-> {p \in c.older : p[1] \notin S /\ p[2] \notin S},
   size  |-> c.size - Space(c, S)]

(* What Cache::freeSpace removes: it drops the first unused entry of list_ *)
(* until enough is free, so an unused entry goes iff the unused entries    *)
(* before it do not free enough.                                           *)
Victims(c, needed) ==
  {k \in Unused(c) :
     FreeSpace(c) + Space(c, {j \in Unused(c) : <<j, k>> \in c.older}) < needed}

(* Cache::makeMostRecentlyUsed of a contained key: splice to the end. *)
Touch(c, k) ==
  [c EXCEPT !.older = {p \in @ : p[1] # k /\ p[2] # k}
                        \cup {<<j, k>> : j \in Present(c) \ {k}}]

(* Cache::useEntry *)
UseEntry(c, k) ==
  IF Contains(c, k)
  THEN [Touch(c, k) EXCEPT !.entry[k].in_use = @ + 1]
  ELSE [c EXCEPT
          !.entry[k] = [buffer |-> <<>>, completed |-> FALSE, in_use |-> 1],
          !.older    = @ \cup {<<j, k>> : j \in Present(c)}]

(* Cache::disuseEntry called n times in a row, n >= 1: the entry is        *)
(* dropped by the call that brings the count of an incomplete entry to 0,  *)
(* and the calls after that find no entry.                                 *)
DisuseTimes(c, k, n) ==
  IF ~Contains(c, k) THEN c
  ELSE LET left == c.entry[k].in_use
       IN  IF left \in 1..n /\ ~c.entry[k].completed
           THEN DropAll(c, {k})
           ELSE [Touch(c, k) EXCEPT !.entry[k].in_use = left - n]

DisuseEntry(c, k) == DisuseTimes(c, k, 1)

(* Entry::complete through getEntry *)
CompleteEntry(c, k) == [Touch(c, k) EXCEPT !.entry[k].completed = TRUE]

(* What Cache::write of chunk leaves behind, and how it ends.  Eviction is *)
(* meant to drop the victims; the C++ drops each by a reference into the   *)
(* node it frees, and the module LruCache has what may come of that.  After *)
(* freeSpace there is room or AllInUseException is thrown; append throws   *)
(* KeyNotFoundException, with the size already counted, when the key is    *)
(* not contained.                                                          *)
Freed(c, n) == DropAll(c, Victims(c, n))

WriteOutcome(c, k, chunk) ==
  LET f == Freed(c, Len(chunk))
  IN  IF FreeSpace(f) < Len(chunk) THEN "AllInUse"
      ELSE IF ~Contains(f, k)      THEN "KeyNotFound"
      ELSE "Written"

Write(c, k, chunk) ==
  LET f == Freed(c, Len(chunk))
      g == [f EXCEPT !.size = @ + Len(chunk)]
  IN  CASE WriteOutcome(c, k, chunk) = "AllInUse"    -> f
        [] WriteOutcome(c, k, chunk) = "KeyNotFound" -> g
        [] WriteOutcome(c, k, chunk) = "Written"     ->
             [Touch(g, k) EXCEPT !.entry[k].buffer = @ \o chunk]

============================================================================
