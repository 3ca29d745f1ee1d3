----------------------------- MODULE MCEventLoop -----------------------------
(* Two clients at a time and three places for them. *)
EXTENDS EventLoop

CONSTANTS r1, o1, o2, e1

ShortBodies == [ok |-> <<o1, o2>>, error |-> <<e1>>]

OnlyFirstIsFound == [r \in Key |-> IF r = r1 THEN {"ok"} ELSE {"error"}]
============================================================================
