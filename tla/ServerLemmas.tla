---------------------------- MODULE ServerLemmas ----------------------------
(***************************************************************************)
(* The inductive invariant of Server, as a predicate Good of worlds, and   *)
(* what the operators from one world to the next do to it, for every set   *)
(* of clients and of requests, every size of the cache, all answers and    *)
(* whatever may fail.                                                      *)
(***************************************************************************)
EXTENDS Server, CacheLemmas, SequenceTheorems

World == [clients : [Client -> ClientRecord \cup {NoClient}],
          map : [Key -> Seq(Client)],
          cache : CacheValue,
          stranded : SUBSET Key]

----------------------------------------------------------------------------
(* The invariant.                                                          *)

IsOf(w, c, r)    == w.clients[c] # NoClient /\ w.clients[c].request = r
Fetches(w, c, r) == IsOf(w, c, r) /\ w.clients[c].state = "waiting_response"

Fetching == {"sending_request", "waiting_response_status_code", "waiting_response"}

(* A client by himself. *)
ConnOk(conn) ==
  /\ conn.answer = "unknown" => conn.pos = 0
  /\ conn.answer # "unknown" => conn.pos <= Len(Body[conn.answer])

ClientOk(cl) ==
  /\ cl.state \in Fetching => cl.conn # NoConn
  /\ cl.state = "waiting_for_response_for_another_client" => cl.conn = NoConn
  /\ cl.state = "waiting_for_request" <=> cl.request = NoRequest
  /\ cl.state = "waiting_for_request" => cl = NewClient
  /\ cl.conn # NoConn => ConnOk(cl.conn)

(* The list of a request has each of its clients once and nobody else. *)
Elements(s) == {s[i] : i \in DOMAIN s}
OnceEach(s) == \A i, j \in DOMAIN s : s[i] = s[j] => i = j

ListOk(w, r) ==
  /\ OnceEach(w.map[r])
  /\ \A c \in Client : c \in Elements(w.map[r]) <=> IsOf(w, c, r)

(* What is in an entry is part of one answer, and the connection of the    *)
(* client who writes it stands at its end.                                 *)
PartOfOne(buffer) ==
  \E a \in DOMAIN Body : \E n \in 0..(Len(Body[a]) - Len(buffer)) :
    buffer = SubSeq(Body[a], n + 1, n + Len(buffer))

Continues(conn, buffer) ==
  /\ conn.answer # "unknown"
  /\ Len(buffer) <= conn.pos
  /\ buffer = SubSeq(Body[conn.answer], conn.pos - Len(buffer) + 1, conn.pos)

(* The clients of a request with an entry are its users; all of them read  *)
(* it, and one at most writes it.                                          *)
WriterOk(cl, e) ==
  cl.should_write_to_cache /\ ~e.completed /\ Continues(cl.conn, e.buffer)

EntryOk(w, r) ==
  LET e == w.cache.entry[r]
  IN  /\ e.in_use = Len(w.map[r])
      /\ PartOfOne(e.buffer)
      /\ \A c \in Client : IsOf(w, c, r) =>
           /\ w.clients[c].state \in {"got_response", "waiting_response"}
           /\ w.clients[c].should_read_from_cache
      /\ \A c \in Client : Fetches(w, c, r) => WriterOk(w.clients[c], e)
      /\ \A c, d \in Client : Fetches(w, c, r) /\ Fetches(w, d, r) => c = d

(* No client has a flag left that the cache does not answer to, except     *)
(* those of S, in the middle of a handler.                                 *)
CleanOk(w, r, S) ==
  \A c \in Client \ S : IsOf(w, c, r) =>
    IF Contains(w.cache, r)
    THEN ~w.cache.entry[r].completed /\ w.clients[c].should_write_to_cache =>
           w.clients[c].state = "waiting_response"
    ELSE ~w.clients[c].should_read_from_cache /\ ~w.clients[c].should_write_to_cache

RequestOk(w, r, S) ==
  /\ ListOk(w, r)
  /\ Contains(w.cache, r) => EntryOk(w, r)
  /\ r \notin w.stranded => CleanOk(w, r, S)

(* Bytes are lost count of only once a recovery was cut short. *)
CacheOk(w) ==
  \E x \in Nat : Sound(w.cache, x) /\ (w.stranded = {} => x = 0)

Good(w, S) ==
  /\ w \in World
  /\ CacheOk(w)
  /\ \A c \in Client : w.clients[c] # NoClient => ClientOk(w.clients[c])
  /\ \A r \in Key : RequestOk(w, r, S)

----------------------------------------------------------------------------
(* A step that is about the requests of R.                                 *)

(* For any other request nothing happens but, perhaps, the eviction of an  *)
(* entry that nobody uses.                                                 *)
Keeps(w, v, q) ==
  /\ v.map[q] = w.map[q]
  /\ q \in v.stranded <=> q \in w.stranded
  /\ \/ v.cache.entry[q] = w.cache.entry[q]
     \/ v.cache.entry[q] = NoEntry /\ w.cache.entry[q].in_use = 0

(* Whoever is changed by the step has a request of R, or none. *)
Concerns(w, v, c, R) ==
  /\ w.clients[c] # NoClient => w.clients[c].request \in R
  /\ v.clients[c] # NoClient => v.clients[c].request \in R /\ ClientOk(v.clients[c])

LEMMA KeptRequest ==
  ASSUME NEW w, NEW v, NEW q, NEW S, NEW T, NEW R,
         q \notin R, RequestOk(w, q, S), Keeps(w, v, q),
         \A c \in S : ~IsOf(w, c, q),
         w.map[q] \in Seq(Client),
         \A c \in Client : v.clients[c] = w.clients[c] \/ Concerns(w, v, c, R)
  PROVE  RequestOk(v, q, T)
<1>1. \A c \in Client : /\ IsOf(v, c, q) <=> IsOf(w, c, q)
                        /\ IsOf(v, c, q) => v.clients[c] = w.clients[c]
  BY DEF Concerns, IsOf
<1>2. ListOk(v, q)
  BY <1>1 DEF RequestOk, Keeps, ListOk
<1>3. CASE v.cache.entry[q] = w.cache.entry[q]
  <2>1. Contains(v.cache, q) <=> Contains(w.cache, q)
    BY <1>3 DEF Contains
  <2>2. Contains(v.cache, q) => EntryOk(v, q)
    <3>. SUFFICES ASSUME Contains(v.cache, q) PROVE EntryOk(v, q)
      OBVIOUS
    <3>1. EntryOk(w, q)
      BY <2>1 DEF RequestOk
    <3>2. \A c \in Client : Fetches(v, c, q) => Fetches(w, c, q)
      BY <1>1 DEF Fetches
    <3>. QED
      BY <1>1, <1>3, <3>1, <3>2 DEF EntryOk, Keeps, Fetches
  <2>3. q \notin v.stranded => CleanOk(v, q, T)
    BY <1>1, <1>3, <2>1 DEF RequestOk, CleanOk, Keeps
  <2>. QED
    BY <1>2, <2>2, <2>3 DEF RequestOk
<1>4. CASE v.cache.entry[q] # w.cache.entry[q]
  <2>1. /\ ~Contains(v.cache, q) /\ Contains(w.cache, q)
        /\ w.cache.entry[q].in_use = 0
    BY <1>4 DEF Keeps, Contains
  <2>2. Len(w.map[q]) = 0
    BY <2>1 DEF RequestOk, EntryOk
  <2>3. Elements(w.map[q]) = {}
    BY <2>2 DEF Elements
  <2>4. \A c \in Client : ~IsOf(v, c, q)
    BY <1>1, <2>3 DEF RequestOk, ListOk
  <2>. QED
    BY <1>2, <2>1, <2>4 DEF RequestOk, CleanOk
<1>. QED
  BY <1>3, <1>4

LEMMA StepIsGood ==
  ASSUME NEW w, NEW v \in World, NEW R \in SUBSET Key, NEW S, NEW T,
         Good(w, S), CacheOk(v),
         \A c \in S : \A q \in Key \ R : ~IsOf(w, c, q),
         \A c \in Client : v.clients[c] = w.clients[c]
                             \/ Concerns(w, v, c, R \cup {NoRequest}),
         \A q \in Key \ R : Keeps(w, v, q),
         \A r \in R : RequestOk(v, r, T)
  PROVE  Good(v, T)
<1>1. w \in World /\ \A q \in Key : w.map[q] \in Seq(Client)
  BY DEF Good, World
<1>2. \A c \in Client : v.clients[c] # NoClient => ClientOk(v.clients[c])
  BY DEF Good, Concerns
<1>3. ASSUME NEW q \in Key PROVE RequestOk(v, q, T)
  <2>1. CASE q \in R
    BY <2>1
  <2>2. CASE q \notin R
    <3>1. q \notin R \cup {NoRequest}
      BY <2>2, ServerAssumption
    <3>2. /\ RequestOk(w, q, S) /\ Keeps(w, v, q) /\ w.map[q] \in Seq(Client)
          /\ \A c \in S : ~IsOf(w, c, q)
      BY <1>1, <2>2 DEF Good
    <3>. QED
      BY <3>1, <3>2, KeptRequest
  <2>. QED
    BY <2>1, <2>2
<1>. QED
  BY <1>2, <1>3 DEF Good

----------------------------------------------------------------------------
(* Lists of clients.                                                       *)

LEMMA LeastExists ==
  ASSUME NEW n \in Nat, NEW S \in SUBSET (1..n), S # {}
  PROVE  \E i \in S : \A j \in S : i <= j
<1>. DEFINE B == {1..i : i \in S}
<1>1. B \subseteq FiniteSubsetsOf(1..n) /\ B # {}
  <2>1. \A i \in S : 1..i \in SUBSET (1..n) /\ IsFiniteSet(1..i)
    BY FS_Interval
  <2>. QED
    BY <2>1 DEF FiniteSubsetsOf
<1>2. IsWellFoundedOn(StrictSubsetOrdering(1..n), FiniteSubsetsOf(1..n))
  BY FS_StrictSubsetOrderingWellFounded
<1>3. PICK b \in B : \A a \in B : <<a, b>> \notin StrictSubsetOrdering(1..n)
  <2>. HIDE DEF B
  <2>. QED
    BY <1>1, <1>2, WFMin
<1>4. PICK i \in S : b = 1..i
  OBVIOUS
<1>5. ASSUME NEW j \in S, ~(i <= j) PROVE FALSE
  <2>1. 1..j \subseteq 1..i /\ 1..j # 1..i /\ 1..i \subseteq 1..n
    BY <1>5
  <2>. QED
    BY <1>3, <1>4, <2>1 DEF StrictSubsetOrdering
<1>. QED
  BY <1>5

LEMMA OnceEachCounts ==
  ASSUME NEW s \in Seq(Client), OnceEach(s)
  PROVE  IsFiniteSet(Elements(s)) /\ Cardinality(Elements(s)) = Len(s)
<1>. DEFINE n == Len(s)
<1>1. n \in Nat /\ DOMAIN s = 1..n
  OBVIOUS
<1>2. s \in Bijection(1..n, Elements(s))
  <2>1. s \in [1..n -> Elements(s)]
    BY <1>1 DEF Elements
  <2>. QED
    BY <1>1, <2>1 DEF Bijection, Injection, Surjection, IsInjective, OnceEach, Elements
<1>3. IsFiniteSet(1..n) /\ Cardinality(1..n) = n
  BY <1>1, FS_Interval
<1>. QED
  BY <1>2, <1>3, FS_Bijection DEF ExistsBijection

LEMMA WithoutFacts ==
  ASSUME NEW s \in Seq(Client), OnceEach(s), NEW c
  PROVE  LET t == Without(s, c)
         IN  /\ t \in Seq(Client)
             /\ OnceEach(t)
             /\ Elements(t) = Elements(s) \ {c}
             /\ Len(t) = IF c \in Elements(s) THEN Len(s) - 1 ELSE Len(s)
<1>. DEFINE t == Without(s, c)
<1>0. Len(s) \in Nat /\ DOMAIN s = 1..Len(s) /\ \A i \in 1..Len(s) : s[i] \in Client
  OBVIOUS
<1>1. CASE c \notin Elements(s)
  BY <1>1 DEF Elements, Without
<1>2. CASE c \in Elements(s)
  <2>. DEFINE i == CHOOSE i \in DOMAIN s : s[i] = c
              a == SubSeq(s, 1, i - 1)
              b == SubSeq(s, i + 1, Len(s))
  <2>1. i \in 1..Len(s) /\ s[i] = c /\ t = a \o b
    BY <1>0, <1>2 DEF Elements, Without
  <2>. HIDE DEF i, t
  <2>2. /\ a \in Seq(Client) /\ Len(a) = i - 1
        /\ \A j \in 1..(i - 1) : a[j] = s[j]
    <3>1. /\ 1 \in Int /\ i - 1 \in Int /\ \A j \in 1..(i - 1) : s[j] \in Client
      BY <1>0, <2>1
    <3>2. /\ SubSeq(s, 1, i - 1) \in Seq(Client)
          /\ Len(SubSeq(s, 1, i - 1)) = IF 1 <= i - 1 THEN (i - 1) - 1 + 1 ELSE 0
          /\ \A j \in 1..((i - 1) - 1 + 1) : SubSeq(s, 1, i - 1)[j] = s[1 + j - 1]
      BY <3>1, SubSeqProperties
    <3>. QED
      BY <2>1, <3>2
  <2>3. /\ b \in Seq(Client) /\ Len(b) = Len(s) - i
        /\ \A j \in 1..(Len(s) - i) : b[j] = s[i + j]
    <3>1. /\ i + 1 \in Int /\ Len(s) \in Int
          /\ \A j \in (i + 1)..Len(s) : s[j] \in Client
      BY <1>0, <2>1
    <3>2. /\ SubSeq(s, i + 1, Len(s)) \in Seq(Client)
          /\ Len(SubSeq(s, i + 1, Len(s))) =
               IF i + 1 <= Len(s) THEN Len(s) - (i + 1) + 1 ELSE 0
          /\ \A j \in 1..(Len(s) - (i + 1) + 1) :
               SubSeq(s, i + 1, Len(s))[j] = s[(i + 1) + j - 1]
      BY <3>1, SubSeqProperties
    <3>3. Len(b) = Len(s) - i
      <4>1. ASSUME NEW n \in Nat, NEW h \in 1..n
            PROVE  (IF h + 1 <= n THEN n - (h + 1) + 1 ELSE 0) = n - h
        OBVIOUS
      <4>. QED
        BY <1>0, <2>1, <3>2, <4>1
    <3>4. ASSUME NEW j \in 1..(Len(s) - i) PROVE b[j] = s[i + j]
      <4>1. j \in 1..(Len(s) - (i + 1) + 1) /\ (i + 1) + j - 1 = i + j
        BY <1>0, <2>1
      <4>. QED
        BY <3>2, <4>1
    <3>. QED
      BY <3>2, <3>3, <3>4
  <2>. HIDE DEF a, b
  <2>4. /\ t \in Seq(Client) /\ Len(t) = Len(s) - 1 /\ DOMAIN t = 1..(Len(s) - 1)
        /\ \A j \in 1..(Len(s) - 1) : t[j] = IF j < i THEN s[j] ELSE s[j + 1]
    <3>1. /\ t \in Seq(Client) /\ Len(t) = Len(a) + Len(b)
          /\ \A j \in 1..(Len(a) + Len(b)) :
               t[j] = IF j <= Len(a) THEN a[j] ELSE b[j - Len(a)]
      BY <2>1, <2>2, <2>3, ConcatProperties
    <3>2. Len(a) + Len(b) = Len(s) - 1 /\ Len(s) - 1 \in Nat
      BY <1>0, <2>1, <2>2, <2>3
    <3>4. Len(t) = Len(s) - 1 /\ DOMAIN t = 1..Len(t)
      BY <3>1, <3>2
    <3>3. ASSUME NEW j \in 1..(Len(s) - 1)
          PROVE  t[j] = IF j < i THEN s[j] ELSE s[j + 1]
      <4>1. j <= Len(a) <=> j < i
        BY <1>0, <2>1, <2>2
      <4>2. CASE j < i
        BY <1>0, <2>1, <2>2, <3>1, <3>2, <4>1, <4>2
      <4>3. CASE ~(j < i)
        <5>1. j - Len(a) \in 1..(Len(s) - i) /\ i + (j - Len(a)) = j + 1
          BY ONLY <1>0, <2>1, <2>2, <4>3
        <5>2. b[j - Len(a)] = s[i + (j - Len(a))]
          BY <2>3, <5>1
        <5>. QED
          BY <3>1, <3>2, <4>1, <4>3, <5>1, <5>2
      <4>. QED
        BY <4>2, <4>3
    <3>. QED
      BY <3>1, <3>3, <3>4
  <2>. DEFINE n     == Len(s)
              At(j) == IF j < i THEN j ELSE j + 1
  <2>10. /\ n \in Nat /\ i \in 1..n /\ s[i] = c
         /\ DOMAIN s = 1..n /\ DOMAIN t = 1..(n - 1)
         /\ \A j \in 1..(n - 1) : t[j] = IF j < i THEN s[j] ELSE s[j + 1]
    BY <1>0, <2>1, <2>4
  <2>. HIDE DEF n
  <2>7. ASSUME NEW j \in DOMAIN t
        PROVE  At(j) \in DOMAIN s /\ t[j] = s[At(j)] /\ At(j) # i
    BY <2>10
  <2>8. \A j, h \in DOMAIN t : At(j) = At(h) => j = h
    BY <2>10
  <2>9. \A h \in DOMAIN s : h # i => \E j \in DOMAIN t : At(j) = h
    <3>1. ASSUME NEW h \in DOMAIN s, h < i PROVE h \in DOMAIN t /\ At(h) = h
      BY <2>10, <3>1
    <3>2. ASSUME NEW h \in DOMAIN s, h > i
          PROVE  h - 1 \in DOMAIN t /\ At(h - 1) = h
      BY <2>10, <3>2
    <3>. HIDE DEF At
    <3>. QED
      BY <2>10, <3>1, <3>2
  <2>. HIDE DEF At
  <2>5. OnceEach(t)
    BY <2>7, <2>8 DEF OnceEach
  <2>6. Elements(t) = Elements(s) \ {c}
    <3>1. \A j \in DOMAIN t : t[j] \in Elements(s) /\ t[j] # c
      BY <2>7, <2>10 DEF OnceEach, Elements
    <3>2. \A h \in DOMAIN s : s[h] # c => s[h] \in Elements(t)
      BY <2>7, <2>9, <2>10 DEF Elements
    <3>. QED
      BY <3>1, <3>2 DEF Elements
  <2>. QED
    BY <1>2, <2>4, <2>5, <2>6 DEF t
<1>. QED
  BY <1>1, <1>2

LEMMA AppendFacts ==
  ASSUME NEW s \in Seq(Client), OnceEach(s), NEW c \in Client, c \notin Elements(s)
  PROVE  LET t == Append(s, c)
         IN  /\ t \in Seq(Client)
             /\ OnceEach(t)
             /\ Elements(t) = Elements(s) \cup {c}
             /\ Len(t) = Len(s) + 1
<1>. DEFINE t == Append(s, c)
<1>1. /\ t \in Seq(Client) /\ Len(t) = Len(s) + 1
      /\ \A i \in 1..Len(s) : t[i] = s[i]
      /\ t[Len(s) + 1] = c
  BY AppendProperties
<1>2. /\ Len(s) \in Nat /\ DOMAIN s = 1..Len(s)
      /\ DOMAIN t = 1..(Len(s) + 1)
  BY <1>1
<1>. HIDE DEF t
<1>3. DOMAIN t = DOMAIN s \cup {Len(s) + 1} /\ Len(s) + 1 \notin DOMAIN s
  BY <1>2
<1>4. Elements(t) = Elements(s) \cup {c}
  BY <1>1, <1>2, <1>3 DEF Elements
<1>5. OnceEach(t)
  BY <1>1, <1>2, <1>3 DEF OnceEach, Elements
<1>. QED
  BY <1>1, <1>4, <1>5 DEF t

(* Who is alone in a list. *)
LEMMA AloneInList ==
  ASSUME NEW s \in Seq(Client), OnceEach(s), Len(s) = 1, NEW c \in Elements(s)
  PROVE  Elements(s) = {c}
BY DEF Elements

----------------------------------------------------------------------------
(* What the handlers do to one client.                                     *)

LEMMA NewClientFacts ==
  /\ NewClient \in ClientRecord /\ NewClient # NoClient /\ ClientOk(NewClient)
  /\ NewConnection \in Connection /\ NewConnection # NoConn /\ ConnOk(NewConnection)
<1>1. NewClient \in ClientRecord
  BY DEF NewClient, ClientRecord, State
<1>2. NewConnection \in Connection /\ ConnOk(NewConnection)
  BY DEF NewConnection, Connection, ConnOk
<1>3. ClientOk(NewClient)
  BY DEF NewClient, ClientOk, Fetching
<1>. QED
  BY <1>1, <1>2, <1>3, MarkerAssumption

LEMMA LeaveCacheFacts ==
  ASSUME NEW cl \in ClientRecord, NEW more \in Seq(Seq(Block))
  PROVE  LET k == LeaveCache(cl)
             l == [k EXCEPT !.chunks = more]
         IN  /\ k \in ClientRecord /\ l \in ClientRecord
             /\ k.request = cl.request /\ l.request = cl.request
             /\ k.conn = cl.conn /\ l.conn = cl.conn
             /\ k.state = "getting_response_from_another_client"
             /\ l.state = "getting_response_from_another_client"
             /\ ~k.should_read_from_cache /\ ~l.should_read_from_cache
             /\ k.should_write_to_cache = cl.should_write_to_cache
             /\ l.should_write_to_cache = cl.should_write_to_cache
<1>. DEFINE k == LeaveCache(cl)
            l == [k EXCEPT !.chunks = more]
<1>1. /\ k \in ClientRecord
      /\ k.request = cl.request /\ k.conn = cl.conn /\ ~k.should_read_from_cache
      /\ k.state = "getting_response_from_another_client"
      /\ k.should_write_to_cache = cl.should_write_to_cache
  BY DEF ClientRecord, LeaveCache, State
<1>. HIDE DEF k
<1>2. /\ l \in ClientRecord
      /\ l.request = k.request /\ l.conn = k.conn /\ l.state = k.state
      /\ l.should_read_from_cache = k.should_read_from_cache
      /\ l.should_write_to_cache = k.should_write_to_cache
  BY <1>1 DEF ClientRecord
<1>. QED
  BY <1>1, <1>2 DEF k

LEMMA UpdateFacts ==
  ASSUME NEW cl \in ClientRecord, NEW other \in ClientRecord
  PROVE  /\ LET k == ObtainServerConnection(cl, other)
            IN  /\ k \in ClientRecord
                /\ k.request = cl.request /\ k.conn = other.conn
                /\ k.state = "waiting_response" /\ k.should_write_to_cache
                /\ k.should_read_from_cache = cl.should_read_from_cache
         /\ LET k == GetResponseFromCache(cl)
            IN  /\ k \in ClientRecord
                /\ k.request = cl.request /\ k.conn = cl.conn
                /\ k.state = "got_response" /\ k.should_read_from_cache
                /\ k.should_write_to_cache = cl.should_write_to_cache
         /\ LET k == PrepareForSendingRequest(cl)
            IN  /\ k \in ClientRecord
                /\ k.request = cl.request /\ k.conn = NewConnection
                /\ k.state = "sending_request"
                /\ k.should_read_from_cache = cl.should_read_from_cache
                /\ k.should_write_to_cache = cl.should_write_to_cache
         /\ LET k == GotResponse(cl)
            IN  /\ k \in ClientRecord
                /\ k.request = cl.request /\ k.conn = cl.conn
                /\ k.state = "got_response"
                /\ k.should_read_from_cache = cl.should_read_from_cache
                /\ k.should_write_to_cache = cl.should_write_to_cache
<1>1. NewConnection \in Connection
  BY NewClientFacts
<1>2. ObtainServerConnection(cl, other) \in ClientRecord
  BY DEF ClientRecord, ObtainServerConnection, State
<1>3. GetResponseFromCache(cl) \in ClientRecord
  BY DEF ClientRecord, GetResponseFromCache, State
<1>4. PrepareForSendingRequest(cl) \in ClientRecord
  BY <1>1 DEF ClientRecord, PrepareForSendingRequest, State
<1>5. GotResponse(cl) \in ClientRecord
  BY DEF ClientRecord, GotResponse, State
<1>. QED
  BY <1>2, <1>3, <1>4, <1>5
     DEF ClientRecord, ObtainServerConnection, GetResponseFromCache,
         PrepareForSendingRequest, GotResponse

LEMMA WorldFacts ==
  ASSUME NEW w, NEW S, Good(w, S)
  PROVE  /\ w \in World
         /\ w = [clients |-> w.clients, map |-> w.map, cache |-> w.cache,
                 stranded |-> w.stranded]
         /\ w.clients \in [Client -> ClientRecord \cup {NoClient}]
         /\ w.map \in [Key -> Seq(Client)]
         /\ w.cache \in CacheValue
         /\ w.stranded \in SUBSET Key
         /\ \A c \in Client : w.clients[c] # NoClient =>
              w.clients[c] \in ClientRecord /\ ClientOk(w.clients[c])
         /\ \A r \in Key : /\ w.map[r] \in Seq(Client) /\ OnceEach(w.map[r])
                           /\ \A c \in Client : c \in Elements(w.map[r]) <=> IsOf(w, c, r)
         /\ \A r \in Key : RequestOk(w, r, S)
<1>1. w \in World
  BY DEF Good
<1>2. w = [clients |-> w.clients, map |-> w.map, cache |-> w.cache,
           stranded |-> w.stranded]
  BY <1>1 DEF World
<1>. QED
  BY <1>1, <1>2 DEF Good, World, RequestOk, ListOk

(* A world with one component replaced. *)
LEMMA Replaced ==
  ASSUME NEW w \in World, NEW y
  PROVE  /\ [w EXCEPT !.clients = y] =
              [clients |-> y, map |-> w.map, cache |-> w.cache, stranded |-> w.stranded]
         /\ [w EXCEPT !.map = y] =
              [clients |-> w.clients, map |-> y, cache |-> w.cache, stranded |-> w.stranded]
         /\ [w EXCEPT !.cache = y] =
              [clients |-> w.clients, map |-> w.map, cache |-> y, stranded |-> w.stranded]
         /\ [w EXCEPT !.stranded = y] =
              [clients |-> w.clients, map |-> w.map, cache |-> w.cache, stranded |-> y]
<1>. DEFINE A == [Client -> ClientRecord \cup {NoClient}]
            B == [Key -> Seq(Client)]
            C == CacheValue
            D == SUBSET Key
<1>1. w \in [clients : A, map : B, cache : C, stranded : D]
  BY DEF World
<1>. HIDE DEF A, B, C, D
<1>. QED
  BY <1>1

LEMMA Rebuilt ==
  ASSUME NEW y, NEW m, NEW d, NEW s, NEW a
  PROVE  LET w == [clients |-> y, map |-> m, cache |-> d, stranded |-> s]
         IN  /\ [w EXCEPT !.clients = a] =
                  [clients |-> a, map |-> m, cache |-> d, stranded |-> s]
             /\ [w EXCEPT !.map = a] =
                  [clients |-> y, map |-> a, cache |-> d, stranded |-> s]
             /\ [w EXCEPT !.cache = a] =
                  [clients |-> y, map |-> m, cache |-> a, stranded |-> s]
             /\ w.clients = y /\ w.map = m /\ w.cache = d /\ w.stranded = s
OBVIOUS

(* Two clients that differ at most in what they were sent, in what is      *)
(* buffered for them and in whether their connection was reset.            *)
Alike(k, l) ==
  \/ l = k
  \/ /\ k # NoClient /\ l # NoClient
     /\ k.state # "waiting_for_request"
     /\ l.request = k.request /\ l.state = k.state
     /\ l.should_read_from_cache = k.should_read_from_cache
     /\ l.should_write_to_cache = k.should_write_to_cache
     /\ \/ l.conn = k.conn
        \/ /\ l.conn # NoConn /\ k.conn # NoConn
           /\ l.conn.answer = k.conn.answer /\ l.conn.pos = k.conn.pos

(* A step that leaves the clients alike keeps the invariant. *)
LEMMA AlikeIsGood ==
  ASSUME NEW w, NEW v \in World, NEW S, Good(w, S), CacheOk(v),
         \A c \in Client : Alike(w.clients[c], v.clients[c]),
         v.map = w.map, v.stranded = w.stranded, v.cache.entry = w.cache.entry
  PROVE  Good(v, S)
<1>1. \A c \in Client : v.clients[c] # NoClient => ClientOk(v.clients[c])
  BY DEF Good, Alike, ClientOk, ConnOk
<1>2. \A c \in Client, r \in Key : /\ IsOf(v, c, r) <=> IsOf(w, c, r)
                                   /\ Fetches(v, c, r) <=> Fetches(w, c, r)
  BY DEF Alike, IsOf, Fetches
<1>3. ASSUME NEW r \in Key PROVE RequestOk(v, r, S)
  <2>1. RequestOk(w, r, S) /\ (Contains(v.cache, r) <=> Contains(w.cache, r))
    BY DEF Good, Contains
  <2>2. ListOk(v, r)
    BY <1>2, <2>1 DEF RequestOk, ListOk
  <2>3. ASSUME EntryOk(w, r) PROVE EntryOk(v, r)
    <3>. DEFINE e == w.cache.entry[r]
    <3>1. ASSUME NEW c \in Client, Fetches(w, c, r) PROVE WriterOk(v.clients[c], e)
      <4>1. WriterOk(w.clients[c], e) /\ Alike(w.clients[c], v.clients[c])
        BY <2>3, <3>1 DEF EntryOk
      <4>. QED
        BY <4>1 DEF WriterOk, Alike, Continues
    <3>2. \A c \in Client : IsOf(w, c, r) =>
            /\ v.clients[c].state \in {"got_response", "waiting_response"}
            /\ v.clients[c].should_read_from_cache
      BY <2>3 DEF EntryOk, Alike, IsOf
    <3>. QED
      BY <1>2, <2>3, <3>1, <3>2 DEF EntryOk
  <2>4. ASSUME CleanOk(w, r, S) PROVE CleanOk(v, r, S)
    BY <1>2, <2>1, <2>4 DEF CleanOk, Alike, IsOf
  <2>. QED
    BY <2>1, <2>2, <2>3, <2>4 DEF RequestOk
<1>. QED
  BY <1>1, <1>3 DEF Good

(* A step that is about a request without an entry: its clients keep the   *)
(* flags that the cache does not answer to, except those of T.             *)
LEMMA AbsentIsGood ==
  ASSUME NEW w, NEW v \in World, NEW r \in Key, NEW S, NEW T, Good(w, S), CacheOk(v),
         ~Contains(w.cache, r), v.cache.entry[r] = w.cache.entry[r],
         \A c \in S : \A q \in Key \ {r} : ~IsOf(w, c, q),
         \A q \in Key \ {r} : Keeps(w, v, q),
         v.map[r] = w.map[r],
         r \in w.stranded => r \in v.stranded,
         \A c \in Client :
           \/ v.clients[c] = w.clients[c] /\ (c \in S => c \in T)
           \/ /\ IsOf(w, c, r) /\ IsOf(v, c, r) /\ ClientOk(v.clients[c])
              /\ \/ c \in T \/ r \in v.stranded
                 \/ /\ c \notin S
                    /\ v.clients[c].should_read_from_cache =>
                         w.clients[c].should_read_from_cache
                    /\ v.clients[c].should_write_to_cache =>
                         w.clients[c].should_write_to_cache
  PROVE  Good(v, T)
<1>1. \A c \in Client : IsOf(v, c, r) <=> IsOf(w, c, r)
  BY DEF IsOf
<1>2. ListOk(v, r) /\ RequestOk(w, r, S)
  BY <1>1 DEF Good, RequestOk, ListOk
<1>3. ~Contains(v.cache, r)
  BY DEF Contains
<1>4. ASSUME r \notin v.stranded PROVE CleanOk(v, r, T)
  BY <1>1, <1>2, <1>3, <1>4 DEF RequestOk, CleanOk
<1>5. RequestOk(v, r, T)
  BY <1>2, <1>3, <1>4 DEF RequestOk
<1>. DEFINE R == {r}
<1>6. /\ \A c \in Client : v.clients[c] = w.clients[c]
                             \/ Concerns(w, v, c, R \cup {NoRequest})
      /\ R \in SUBSET Key
      /\ \A c \in S : \A q \in Key \ R : ~IsOf(w, c, q)
      /\ \A q \in Key \ R : Keeps(w, v, q)
      /\ \A q \in R : RequestOk(v, q, T)
  BY <1>5 DEF Concerns, IsOf
<1>. HIDE DEF R
<1>. QED
  BY <1>6, StepIsGood

----------------------------------------------------------------------------
(* DiscardClient.                                                          *)

(* Whoever takes the connection over is in the list and reads; if nobody   *)
(* does, then nobody in the list is reading.                               *)
LEMMA HandOverFacts ==
  ASSUME NEW w, NEW c, NEW r, w.clients[c].request = r, w.map[r] \in Seq(Client)
  PROVE  \/ /\ HandOver(w, c) = w
            /\ \/ w.clients[c].state # "waiting_response"
               \/ \A h \in Elements(w.map[r]) : ~IsReadingFromCache(w.clients[h])
         \/ /\ w.clients[c].state = "waiting_response"
            /\ \E h \in Elements(w.map[r]) :
                 /\ IsReadingFromCache(w.clients[h])
                 /\ HandOver(w, c) =
                      [w EXCEPT !.clients[h] =
                         ObtainServerConnection(w.clients[h], w.clients[c])]
<1>. DEFINE list    == w.map[r]
            readers == {i \in DOMAIN list : IsReadingFromCache(w.clients[list[i]])}
            i       == CHOOSE i \in readers : \A j \in readers : i <= j
            heir    == list[i]
<1>1. CASE w.clients[c].state # "waiting_response" \/ readers = {}
  BY <1>1 DEF HandOver, Elements
<1>2. CASE w.clients[c].state = "waiting_response" /\ readers # {}
  <2>1. Len(list) \in Nat /\ readers \in SUBSET (1..Len(list))
    OBVIOUS
  <2>2. i \in readers
    <3>. HIDE DEF readers
    <3>1. \E k \in readers : \A j \in readers : k <= j
      BY <1>2, <2>1, LeastExists
    <3>. QED
      BY <3>1
  <2>3. HandOver(w, c) =
          [w EXCEPT !.clients[heir] = ObtainServerConnection(@, w.clients[c])]
    BY <1>2 DEF HandOver
  <2>4. heir \in Elements(list) /\ IsReadingFromCache(w.clients[heir])
    <3>. HIDE DEF i
    <3>. QED
      BY <2>2 DEF Elements
  <2>. HIDE DEF heir
  <2>. QED
    BY <1>2, <2>3, <2>4
<1>. QED
  BY ONLY <1>1, <1>2

(* The world that a client with a request leaves behind. *)
LEMMA DiscardFacts ==
  ASSUME NEW w, NEW S, Good(w, S), NEW c \in Client, NEW r \in Key, IsOf(w, c, r)
  PROVE  LET v == DiscardClient(w, c)
             l == Without(w.map[r], c)
         IN  /\ v = [clients |-> v.clients, map |-> v.map, cache |-> v.cache,
                     stranded |-> v.stranded]
             /\ v.clients \in [Client -> ClientRecord \cup {NoClient}]
             /\ v.map = [w.map EXCEPT ![r] = l]
             /\ v.cache = DisuseEntry(w.cache, r)
             /\ v.stranded = w.stranded
             /\ v.clients[c] = NoClient
             /\ \/ /\ \A d \in Client \ {c} : v.clients[d] = w.clients[d]
                   /\ \/ w.clients[c].state # "waiting_response"
                      \/ \A h \in Elements(l) : ~IsReadingFromCache(w.clients[h])
                \/ /\ w.clients[c].state = "waiting_response"
                   /\ \E h \in Elements(l) \ {c} :
                        /\ IsReadingFromCache(w.clients[h])
                        /\ v.clients[h] =
                             ObtainServerConnection(w.clients[h], w.clients[c])
                        /\ \A d \in Client \ {c, h} : v.clients[d] = w.clients[d]
<1>. DEFINE l  == Without(w.map[r], c)
            u  == [w EXCEPT !.map[r] = l]
            h0 == HandOver(u, c)
            v  == DiscardClient(w, c)
            cl == w.clients[c]
<1>1. /\ w = [clients |-> w.clients, map |-> w.map, cache |-> w.cache,
              stranded |-> w.stranded]
      /\ w.clients \in [Client -> ClientRecord \cup {NoClient}]
      /\ w.map \in [Key -> Seq(Client)]
      /\ cl \in ClientRecord /\ cl.request = r /\ r # NoRequest
      /\ w.map[r] \in Seq(Client) /\ OnceEach(w.map[r])
      /\ \A d \in Elements(w.map[r]) : d \in Client /\ IsOf(w, d, r)
  <2>1. \A d \in Elements(w.map[r]) : d \in Client
    BY WorldFacts DEF Elements
  <2>. QED
    BY <2>1, WorldFacts, ServerAssumption DEF IsOf
<1>2. l \in Seq(Client) /\ Elements(l) = Elements(w.map[r]) \ {c}
  BY <1>1, WithoutFacts
<1>. HIDE DEF l
<1>3. RemoveFromRequestClients(w, c) = u
  BY <1>1 DEF RemoveFromRequestClients, l
<1>4. v = [h0 EXCEPT !.cache = DisuseEntry(@, r), !.clients[c] = NoClient]
  BY <1>1, <1>3 DEF DiscardClient
<1>5. /\ u.clients = w.clients /\ u.cache = w.cache /\ u.stranded = w.stranded
      /\ u.map = [w.map EXCEPT ![r] = l] /\ u.map[r] = l
      /\ u = [clients |-> u.clients, map |-> u.map, cache |-> u.cache,
              stranded |-> u.stranded]
  <2>1. w.map \in [Key -> Seq(Client)]
    BY <1>1
  <2>2. u = [clients |-> w.clients, map |-> [w.map EXCEPT ![r] = l],
             cache |-> w.cache, stranded |-> w.stranded]
    <3>. DEFINE y == [w.map EXCEPT ![r] = l]
    <3>1. w \in World
      BY WorldFacts
    <3>2. u = [w EXCEPT !.map = y]
      OBVIOUS
    <3>. HIDE DEF y, u
    <3>3. [w EXCEPT !.map = y] =
            [clients |-> w.clients, map |-> y, cache |-> w.cache, stranded |-> w.stranded]
      BY <3>1, Replaced
    <3>. QED
      BY <3>2, <3>3 DEF y
  <2>. HIDE DEF u
  <2>. QED
    BY <2>1, <2>2
<1>. HIDE DEF u, v
<1>6. \/ /\ h0 = u
         /\ \/ cl.state # "waiting_response"
            \/ \A h \in Elements(l) : ~IsReadingFromCache(w.clients[h])
      \/ /\ cl.state = "waiting_response"
         /\ \E h \in Elements(l) :
              /\ IsReadingFromCache(w.clients[h])
              /\ h0 = [u EXCEPT !.clients[h] = ObtainServerConnection(w.clients[h], cl)]
  <2>1. u.clients[c].request = r /\ u.map[r] \in Seq(Client)
    BY <1>1, <1>2, <1>5
  <2>2. \/ /\ HandOver(u, c) = u
           /\ \/ u.clients[c].state # "waiting_response"
              \/ \A h \in Elements(u.map[r]) : ~IsReadingFromCache(u.clients[h])
        \/ /\ u.clients[c].state = "waiting_response"
           /\ \E h \in Elements(u.map[r]) :
                /\ IsReadingFromCache(u.clients[h])
                /\ HandOver(u, c) =
                     [u EXCEPT !.clients[h] =
                        ObtainServerConnection(u.clients[h], u.clients[c])]
    BY <2>1, HandOverFacts
  <2>. QED
    BY <1>5, <2>2
<1>7. ASSUME h0 = u
      PROVE  /\ v = [clients |-> v.clients, map |-> v.map, cache |-> v.cache,
                     stranded |-> v.stranded]
             /\ v.clients \in [Client -> ClientRecord \cup {NoClient}]
             /\ v.map = [w.map EXCEPT ![r] = l]
             /\ v.cache = DisuseEntry(w.cache, r)
             /\ v.stranded = w.stranded
             /\ v.clients[c] = NoClient
             /\ \A d \in Client \ {c} : v.clients[d] = w.clients[d]
  <2>1. v = [u EXCEPT !.cache = DisuseEntry(@, r), !.clients[c] = NoClient]
    BY <1>4, <1>7
  <2>2. v = [clients |-> [w.clients EXCEPT ![c] = NoClient], map |-> u.map,
             cache |-> DisuseEntry(w.cache, r), stranded |-> w.stranded]
    BY <1>5, <2>1
  <2>3. [w.clients EXCEPT ![c] = NoClient] \in [Client -> ClientRecord \cup {NoClient}]
    BY <1>1
  <2>. QED
    BY <1>1, <1>5, <2>2, <2>3
<1>8. ASSUME cl.state = "waiting_response",
             NEW h \in Elements(l), IsReadingFromCache(w.clients[h]),
             h0 = [u EXCEPT !.clients[h] = ObtainServerConnection(w.clients[h], cl)]
      PROVE  /\ v = [clients |-> v.clients, map |-> v.map, cache |-> v.cache,
                     stranded |-> v.stranded]
             /\ v.clients \in [Client -> ClientRecord \cup {NoClient}]
             /\ v.map = [w.map EXCEPT ![r] = l]
             /\ v.cache = DisuseEntry(w.cache, r)
             /\ v.stranded = w.stranded
             /\ v.clients[c] = NoClient
             /\ h # c
             /\ v.clients[h] = ObtainServerConnection(w.clients[h], cl)
             /\ \A d \in Client \ {c, h} : v.clients[d] = w.clients[d]
  <2>1. h \in Client /\ h # c /\ w.clients[h] \in ClientRecord
    BY <1>1, <1>2, <1>8 DEF IsOf
  <2>. DEFINE k == ObtainServerConnection(w.clients[h], cl)
  <2>2. k \in ClientRecord
    BY <1>1, <2>1, UpdateFacts
  <2>. HIDE DEF k
  <2>3. /\ h0.clients = [w.clients EXCEPT ![h] = k] /\ h0.map = u.map
        /\ h0.cache = w.cache /\ h0.stranded = w.stranded
        /\ h0 = [clients |-> h0.clients, map |-> h0.map, cache |-> h0.cache,
                 stranded |-> h0.stranded]
    BY <1>5, <1>8 DEF k
  <2>. HIDE DEF h0
  <2>4. /\ v.clients = [[w.clients EXCEPT ![h] = k] EXCEPT ![c] = NoClient]
        /\ v.map = u.map /\ v.cache = DisuseEntry(w.cache, r)
        /\ v.stranded = w.stranded
        /\ v = [clients |-> v.clients, map |-> v.map, cache |-> v.cache,
                stranded |-> v.stranded]
    BY <1>4, <2>3
  <2>. QED
    BY <1>1, <1>5, <2>1, <2>2, <2>4 DEF k
<1>. HIDE DEF h0
<1>. QED
  BY <1>6, <1>7, <1>8 DEF v, l

LEMMA GoodWeakens ==
  ASSUME NEW w, NEW S, NEW T, S \subseteq T, Good(w, S)
  PROVE  Good(w, T)
BY DEF Good, RequestOk, CleanOk

(* What discarding one of the users does to the entries. *)
LEMMA DisuseOne ==
  ASSUME NEW w, NEW S, Good(w, S), NEW c \in Client, NEW r \in Key, IsOf(w, c, r)
  PROVE  LET d == DisuseEntry(w.cache, r)
         IN  /\ d \in CacheValue
             /\ \A x \in Nat : Sound(w.cache, x) => Sound(d, x)
             /\ \A q \in Key \ {r} : d.entry[q] = w.cache.entry[q]
             /\ ~Contains(w.cache, r) => ~Contains(d, r)
             /\ Contains(w.cache, r) /\ ~Contains(d, r) => Len(w.map[r]) = 1
             /\ Contains(d, r) /\ ~d.entry[r].completed => Len(w.map[r]) > 1
             /\ Contains(d, r) =>
                  /\ Contains(w.cache, r)
                  /\ d.entry[r].in_use = Len(w.map[r]) - 1
                  /\ d.entry[r].completed = w.cache.entry[r].completed
                  /\ d.entry[r].buffer = w.cache.entry[r].buffer
<1>. DEFINE d == DisuseEntry(w.cache, r)
            e == w.cache.entry[r]
<1>1. PICK x \in Nat : Sound(w.cache, x)
  BY DEF Good, CacheOk
<1>2. w.cache \in CacheValue /\ w.cache.entry \in [Key -> Entry \cup {NoEntry}]
  BY WorldFacts DEF CacheValue
<1>3. CASE ~Contains(w.cache, r)
  <2>1. d = w.cache
    BY <1>3 DEF DisuseEntry, DisuseTimes
  <2>. QED
    BY <1>2, <1>3, <2>1
<1>4. CASE Contains(w.cache, r)
  <2>1. /\ w.map[r] \in Seq(Client) /\ c \in Elements(w.map[r])
        /\ RequestOk(w, r, S)
    BY WorldFacts
  <2>2. Len(w.map[r]) \in Nat /\ Len(w.map[r]) > 0
    BY <2>1 DEF Elements
  <2>3. e.in_use = Len(w.map[r]) /\ e \in Entry /\ r \in Present(w.cache)
    BY <1>2, <1>4, <2>1 DEF RequestOk, EntryOk, Contains, Present
  <2>4. ASSUME NEW y \in Nat, Sound(w.cache, y)
        PROVE  /\ Sound(d, y)
               /\ d.entry = IF e.in_use = 1 /\ ~e.completed
                            THEN [j \in Key |-> IF j \in {r} THEN NoEntry
                                                ELSE w.cache.entry[j]]
                            ELSE [w.cache.entry EXCEPT ![r].in_use = @ - 1]
    <3>1. r \in Present(w.cache) /\ w.cache.entry[r].in_use > 0
      BY <2>2, <2>3
    <3>. QED
      BY <2>4, <3>1, DisuseSound
  <2>5. d \in CacheValue
    BY <1>1, <2>4 DEF Sound, WellFormed
  <2>6. CASE e.in_use = 1 /\ ~e.completed
    <3>1. d.entry = [j \in Key |-> IF j \in {r} THEN NoEntry ELSE w.cache.entry[j]]
      BY <1>1, <2>4, <2>6
    <3>. QED
      BY <1>4, <2>3, <2>4, <2>5, <2>6, <3>1 DEF Contains
  <2>7. CASE ~(e.in_use = 1 /\ ~e.completed)
    <3>. DEFINE f == [e EXCEPT !.in_use = @ - 1]
    <3>1. d.entry = [w.cache.entry EXCEPT ![r] = f]
      BY <1>1, <2>4, <2>7
    <3>2. /\ f \in Entry /\ f.in_use = Len(w.map[r]) - 1
          /\ f.completed = e.completed /\ f.buffer = e.buffer
      BY <2>2, <2>3 DEF Entry
    <3>. HIDE DEF f
    <3>3. d.entry[r] = f /\ \A q \in Key \ {r} : d.entry[q] = w.cache.entry[q]
      BY <1>2, <3>1
    <3>4. ~e.completed => Len(w.map[r]) > 1
      <4>1. e.in_use = Len(w.map[r]) /\ (e.in_use # 1 \/ e.completed)
        BY <2>3, <2>7
      <4>. DEFINE n == Len(w.map[r])
      <4>2. n \in Nat /\ n > 0 /\ (n # 1 \/ e.completed)
        BY <2>2, <4>1
      <4>. HIDE DEF n, e
      <4>3. CASE ~e.completed
        <5>1. n > 1
          BY <4>2, <4>3
        <5>. QED
          BY <5>1 DEF n
      <4>. QED
        BY <4>3
    <3>. HIDE DEF e
    <3>. QED
      BY <1>4, <2>4, <2>5, <3>2, <3>3, <3>4, CacheAssumption DEF Contains, e
  <2>. QED
    BY <2>6, <2>7
<1>. QED
  BY <1>3, <1>4

(* A client that is discarded takes whatever flags he had with him, and    *)
(* his connection goes to a reader or is closed.                           *)
LEMMA DiscardIsGood ==
  ASSUME NEW w, NEW c \in Client, NEW r \in Key, IsOf(w, c, r), Good(w, {c})
  PROVE  Good(DiscardClient(w, c), {})
<1>. DEFINE v == DiscardClient(w, c)
            l == Without(w.map[r], c)
            cl == w.clients[c]
            Heir(h) == /\ cl.state = "waiting_response"
                       /\ h \in Elements(l) \ {c}
                       /\ IsReadingFromCache(w.clients[h])
                       /\ v.clients[h] = ObtainServerConnection(w.clients[h], cl)
                       /\ \A d \in Client \ {c, h} : v.clients[d] = w.clients[d]
<1>1. /\ v = [clients |-> v.clients, map |-> v.map, cache |-> v.cache,
              stranded |-> v.stranded]
      /\ v.clients \in [Client -> ClientRecord \cup {NoClient}]
      /\ v.map = [w.map EXCEPT ![r] = l]
      /\ v.cache = DisuseEntry(w.cache, r)
      /\ v.stranded = w.stranded
      /\ v.clients[c] = NoClient
      /\ (\A d \in Client \ {c} : v.clients[d] = w.clients[d]) \/ \E h : Heir(h)
  BY DiscardFacts
<1>2. /\ w.map[r] \in Seq(Client) /\ OnceEach(w.map[r]) /\ c \in Elements(w.map[r])
      /\ \A d \in Client : d \in Elements(w.map[r]) <=> IsOf(w, d, r)
      /\ w.map \in [Key -> Seq(Client)] /\ w.stranded \in SUBSET Key
      /\ RequestOk(w, r, {c})
      /\ \A d \in Client : w.clients[d] # NoClient =>
           w.clients[d] \in ClientRecord /\ ClientOk(w.clients[d])
      /\ cl \in ClientRecord /\ ClientOk(cl) /\ cl.request = r
  BY WorldFacts DEF IsOf
<1>3. /\ l \in Seq(Client) /\ OnceEach(l) /\ Elements(l) = Elements(w.map[r]) \ {c}
      /\ Len(l) = Len(w.map[r]) - 1
  BY <1>2, WithoutFacts
<1>4. /\ v.cache \in CacheValue
      /\ \A x \in Nat : Sound(w.cache, x) => Sound(v.cache, x)
      /\ \A q \in Key \ {r} : v.cache.entry[q] = w.cache.entry[q]
      /\ ~Contains(w.cache, r) => ~Contains(v.cache, r)
      /\ Contains(w.cache, r) /\ ~Contains(v.cache, r) => Len(w.map[r]) = 1
      /\ Contains(v.cache, r) =>
           /\ Contains(w.cache, r)
           /\ v.cache.entry[r].in_use = Len(w.map[r]) - 1
           /\ v.cache.entry[r].completed = w.cache.entry[r].completed
           /\ v.cache.entry[r].buffer = w.cache.entry[r].buffer
  BY <1>1, DisuseOne
<1>. HIDE DEF v, l
<1>5. v \in World
  <2>1. v.map \in [Key -> Seq(Client)]
    BY <1>1, <1>2, <1>3
  <2>. QED
    BY <1>1, <1>2, <1>4, <2>1 DEF World
<1>6. CacheOk(v)
  BY <1>1, <1>4 DEF Good, CacheOk
<1>7. ASSUME NEW h, Heir(h)
      PROVE  /\ h \in Client \ {c} /\ IsOf(w, h, r) /\ IsOf(v, h, r)
             /\ w.clients[h].state = "got_response"
             /\ w.clients[h].should_read_from_cache
             /\ v.clients[h].conn = cl.conn /\ cl.conn # NoConn
             /\ v.clients[h].state = "waiting_response"
             /\ v.clients[h].should_write_to_cache
             /\ v.clients[h].should_read_from_cache
             /\ ClientOk(v.clients[h])
  <2>1. h \in Client \ {c} /\ IsOf(w, h, r) /\ w.clients[h] \in ClientRecord
    <3>1. h \in Elements(w.map[r]) /\ h # c
      BY <1>3, <1>7
    <3>2. h \in Client
      BY <1>2, <3>1 DEF Elements
    <3>. QED
      BY <1>2, <3>1, <3>2 DEF IsOf
  <2>. DEFINE k == ObtainServerConnection(w.clients[h], cl)
  <2>2. /\ k \in ClientRecord /\ k.request = w.clients[h].request /\ k.conn = cl.conn
        /\ k.state = "waiting_response" /\ k.should_write_to_cache
        /\ k.should_read_from_cache = w.clients[h].should_read_from_cache
    <3>1. w.clients[h] \in ClientRecord /\ cl \in ClientRecord
      BY <1>2, <2>1
    <3>. HIDE DEF cl
    <3>. QED
      BY <3>1, UpdateFacts
  <2>. HIDE DEF k
  <2>3. v.clients[h] = k /\ cl.state = "waiting_response"
    BY <1>7 DEF k
  <2>4. w.clients[h].state = "got_response" /\ w.clients[h].should_read_from_cache
    BY <1>7 DEF IsReadingFromCache
  <2>5. cl.conn # NoConn /\ ConnOk(cl.conn)
    BY <1>2, <2>3 DEF ClientOk, Fetching
  <2>6. k.request # NoRequest /\ IsOf(v, h, r)
    BY <2>1, <2>2, <2>3, MarkerAssumption, ServerAssumption DEF IsOf
  <2>7. ClientOk(k)
    BY <2>2, <2>5, <2>6 DEF ClientOk
  <2>. QED
    BY <2>1, <2>2, <2>3, <2>4, <2>5, <2>6, <2>7
<1>8. \A d \in Client : IsOf(v, d, r) <=> IsOf(w, d, r) /\ d # c
  BY <1>1, <1>7 DEF IsOf
<1>9. ListOk(v, r)
  BY <1>1, <1>2, <1>3, <1>8 DEF ListOk
<1>10. ASSUME Contains(v.cache, r) PROVE EntryOk(v, r)
  <2>. DEFINE e == w.cache.entry[r]
              f == v.cache.entry[r]
  <2>1. /\ EntryOk(w, r) /\ f.in_use = Len(v.map[r])
        /\ f.completed = e.completed /\ f.buffer = e.buffer
    BY <1>1, <1>2, <1>3, <1>4, <1>10 DEF RequestOk
  <2>2. CASE \A d \in Client \ {c} : v.clients[d] = w.clients[d]
    <3>1. \A d \in Client : Fetches(v, d, r) => Fetches(w, d, r) /\ d # c
      BY <1>8, <2>2 DEF Fetches
    <3>. QED
      BY <1>8, <2>1, <2>2, <3>1 DEF EntryOk, WriterOk, Fetches
  <2>3. ASSUME NEW h, Heir(h) PROVE EntryOk(v, r)
    <3>1. Fetches(w, c, r)
      BY <2>3 DEF Fetches
    <3>2. \A d \in Client : Fetches(v, d, r) <=> d = h
      BY <1>7, <1>8, <2>1, <2>3, <3>1 DEF EntryOk, Fetches
    <3>3. WriterOk(cl, e) /\ WriterOk(v.clients[h], f)
      BY <1>7, <2>1, <2>3, <3>1 DEF EntryOk, WriterOk
    <3>4. \A d \in Client : IsOf(v, d, r) =>
            /\ v.clients[d].state \in {"got_response", "waiting_response"}
            /\ v.clients[d].should_read_from_cache
      BY <1>7, <1>8, <2>1, <2>3 DEF EntryOk
    <3>. QED
      BY <2>1, <3>2, <3>3, <3>4 DEF EntryOk
  <2>. QED
    BY <1>1, <2>2, <2>3
<1>11. ASSUME r \notin v.stranded PROVE CleanOk(v, r, {})
  <2>. SUFFICES ASSUME NEW d \in Client, IsOf(v, d, r)
                PROVE  IF Contains(v.cache, r)
                       THEN ~v.cache.entry[r].completed
                              /\ v.clients[d].should_write_to_cache =>
                                v.clients[d].state = "waiting_response"
                       ELSE /\ ~v.clients[d].should_read_from_cache
                            /\ ~v.clients[d].should_write_to_cache
    BY DEF CleanOk
  <2>1. CleanOk(w, r, {c}) /\ IsOf(w, d, r) /\ d # c
    BY <1>1, <1>2, <1>8, <1>11 DEF RequestOk
  <2>2. CASE Contains(w.cache, r) /\ ~Contains(v.cache, r)
    <3>1. Elements(w.map[r]) = {c}
      BY <1>2, <1>4, <2>2, AloneInList
    <3>. QED
      BY <1>2, <2>1, <3>1
  <2>3. CASE Contains(w.cache, r) <=> Contains(v.cache, r)
    BY <1>1, <1>4, <1>7, <2>1, <2>3 DEF CleanOk
  <2>. QED
    BY <1>4, <2>2, <2>3
<1>12. RequestOk(v, r, {})
  BY <1>9, <1>10, <1>11 DEF RequestOk
<1>. DEFINE R == {r}
<1>13. \A d \in Client : v.clients[d] = w.clients[d] \/ Concerns(w, v, d, R \cup {NoRequest})
  BY <1>1, <1>2, <1>7 DEF Concerns, IsOf
<1>14. /\ R \in SUBSET Key /\ \A q \in R : RequestOk(v, q, {})
       /\ \A q \in Key \ R : Keeps(w, v, q)
       /\ \A d \in {c} : \A q \in Key \ R : ~IsOf(w, d, q)
  BY <1>1, <1>2, <1>4, <1>12 DEF Keeps, IsOf
<1>. HIDE DEF R
<1>15. Good(v, {})
  BY <1>5, <1>6, <1>13, <1>14, StepIsGood
<1>. QED
  BY <1>15 DEF v

=============================================================================
