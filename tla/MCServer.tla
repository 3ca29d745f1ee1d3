------------------------------ MODULE MCServer ------------------------------
(* Small proxies for TLC: a few clients and requests, short answers. *)
EXTENDS Server, TLC

CONSTANTS r1, o1, o2, o3, e1, e2, e3

TwoBlockBodies == [ok |-> <<o1, o2>>, error |-> <<e1, e2>>]

LongBodies == [ok |-> <<o1, o2, o3>>, error |-> <<e1, e2, e3>>]

AnyAnswer == [r \in Key |-> {"ok", "error", "garbled"}]
OkAnswer  == [r \in Key |-> {"ok"}]
NotFound  == [r \in Key |-> {"error"}]
OnlyFirstIsFound == [r \in Key |-> IF r = r1 THEN {"ok"} ELSE {"error"}]

ClientSymmetry == Permutations(Client)
Symmetry == Permutations(Client) \cup Permutations(Key)
============================================================================
