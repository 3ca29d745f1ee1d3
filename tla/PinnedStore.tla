---------------------------- MODULE PinnedStore ----------------------------
(***************************************************************************)
(* What the response cache promises the rest of the proxy, without its     *)
(* list, its counter or its way of choosing whom to evict.                 *)
(*                                                                         *)
(* A store maps keys to responses.  Whoever opens an entry pins it until   *)
(* he closes it.  A pinned entry never disappears and never loses data.    *)
(* Data is appended when it fits, and unpinned entries may be given up to  *)
(* make it fit.  An append is refused only when even giving up every       *)
(* unpinned entry would not make room.  A response that nobody finished is *)
(* forgotten when the last one to pin it leaves.                           *)
(***************************************************************************)
EXTENDS Integers, Sequences, FiniteSets

CONSTANTS Key, Block, Chunk, Capacity, MaxUsers, Absent

VARIABLE store

Held    == {k \in Key : store[k] # Absent}
Pinned  == {k \in Held : store[k].in_use > 0}
Loose   == Held \ Pinned

(* the block positions of the entries of S, and how many there are *)
Positions(S) == UNION {{k} \X (1..Len(store[k].buffer)) : k \in S}
Volume(S)    == Cardinality(Positions(S))

GiveUp(V) == [k \in Key |-> IF k \in V THEN Absent ELSE store[k]]

Init == store = [k \in Key |-> Absent]

Open(k) ==
  \/ /\ k \notin Held
     /\ store' = [store EXCEPT ![k] =
                    [buffer |-> <<>>, completed |-> FALSE, in_use |-> 1]]
  \/ /\ k \in Held
     /\ store' = [store EXCEPT ![k].in_use = @ + 1]

Close(k) ==
  /\ k \in Pinned
  /\ store' = IF store[k].in_use = 1 /\ ~store[k].completed
              THEN GiveUp({k})
              ELSE [store EXCEPT ![k].in_use = @ - 1]

Put(k, chunk) ==
  /\ k \in Pinned /\ ~store[k].completed
  /\ \E V \in SUBSET Loose :
       /\ Volume(Held \ V) + Len(chunk) <= Capacity
       /\ store' = [GiveUp(V) EXCEPT ![k].buffer = @ \o chunk]

Refuse(k, chunk) ==
  /\ k \in Pinned /\ ~store[k].completed
  /\ Volume(Pinned) + Len(chunk) > Capacity
  /\ store' = GiveUp(Loose)

Finish(k) ==
  /\ k \in Pinned /\ ~store[k].completed
  /\ store' = [store EXCEPT ![k].completed = TRUE]

Next == \E k \in Key :
          \/ Open(k) \/ Close(k) \/ Finish(k)
          \/ \E chunk \in Chunk : Put(k, chunk) \/ Refuse(k, chunk)

Spec == Init /\ [][Next]_store
============================================================================
