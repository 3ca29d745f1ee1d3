---------------------------- MODULE ServerProofs ----------------------------
(***************************************************************************)
(* What holds of the server for every set of clients and of requests,      *)
(* every size of the cache, all answers and whatever may fail.  First      *)
(* every handler leads from a good world to a good world, one lemma per    *)
(* handler and before it those on the functions it calls; then the         *)
(* invariant of ServerLemmas is inductive, and the properties of Server    *)
(* follow from it.                                                         *)
(***************************************************************************)
EXTENDS ServerLemmas, TLAPS

----------------------------------------------------------------------------
(* The catch block of readResponseStatusCodeFromServer.                    *)

(* Waking waiting clients. *)
LEMMA PrepareIsGood ==
  ASSUME NEW w, NEW c \in Client, NEW r \in Key, NEW n, NEW S \in SUBSET {c},
         Good(w, S), IsOf(w, c, r), ~Contains(w.cache, r)
  PROVE  LET v == PrepareWaiting(w, r, n)
         IN  /\ Good(v, S) /\ IsOf(v, c, r)
             /\ v.cache = w.cache /\ v.stranded = w.stranded
             /\ w.clients[c].state # "waiting_for_response_for_another_client" =>
                  v.clients[c] = w.clients[c]
<1>. DEFINE v     == PrepareWaiting(w, r, n)
            woken == {w.map[r][i] : i \in {j \in WaitingAt(w, r) :
                                Cardinality({h \in WaitingAt(w, r) : h <= j}) <= n}}
            y     == [d \in Client |-> IF d \in woken
                                       THEN PrepareForSendingRequest(w.clients[d])
                                       ELSE w.clients[d]]
<1>1. /\ w \in World /\ w.map[r] \in Seq(Client)
      /\ \A d \in Client : d \in Elements(w.map[r]) <=> IsOf(w, d, r)
      /\ \A d \in Client : w.clients[d] # NoClient =>
           w.clients[d] \in ClientRecord /\ ClientOk(w.clients[d])
      /\ w.clients \in [Client -> ClientRecord \cup {NoClient}]
      /\ w.map \in [Key -> Seq(Client)]
      /\ w.cache \in CacheValue
      /\ w.stranded \in SUBSET Key
  BY WorldFacts
<1>2. ASSUME NEW d \in woken
      PROVE  /\ d \in Client /\ IsOf(w, d, r) /\ w.clients[d] \in ClientRecord
             /\ w.clients[d].state = "waiting_for_response_for_another_client"
  <2>1. /\ d \in Elements(w.map[r])
        /\ w.clients[d].state = "waiting_for_response_for_another_client"
    BY DEF WaitingAt, Elements
  <2>2. d \in Client
    BY <1>1, <2>1 DEF Elements
  <2>. QED
    BY <1>1, <2>1, <2>2 DEF IsOf
<1>3. v = [w EXCEPT !.clients = y]
  BY DEF PrepareWaiting, ForEach
<1>. HIDE DEF woken
<1>4. \A d \in Client : d \notin woken => y[d] = w.clients[d]
  OBVIOUS
<1>5. ASSUME NEW d \in woken
      PROVE  /\ y[d] \in ClientRecord /\ IsOf(w, d, r)
             /\ y[d].request = r /\ ClientOk(y[d])
             /\ y[d].should_read_from_cache = w.clients[d].should_read_from_cache
             /\ y[d].should_write_to_cache = w.clients[d].should_write_to_cache
  <2>. DEFINE cl == w.clients[d]
              k == PrepareForSendingRequest(cl)
  <2>1. y[d] = k /\ cl \in ClientRecord /\ cl.request = r
    BY <1>2 DEF IsOf
  <2>2. /\ k \in ClientRecord /\ k.request = cl.request
        /\ k.conn = NewConnection /\ k.state = "sending_request"
        /\ k.should_read_from_cache = cl.should_read_from_cache
        /\ k.should_write_to_cache = cl.should_write_to_cache
    <3>. HIDE DEF cl
    <3>. QED
      BY <2>1, UpdateFacts
  <2>. HIDE DEF k
  <2>3. ClientOk(k)
    BY <2>1, <2>2, NewClientFacts, ServerAssumption DEF ClientOk, Fetching
  <2>. QED
    BY <1>2, <2>1, <2>2, <2>3
<1>6. y \in [Client -> ClientRecord \cup {NoClient}]
  BY <1>1, <1>5
<1>. HIDE DEF y
<1>7. v = [clients |-> y, map |-> w.map, cache |-> w.cache, stranded |-> w.stranded]
  BY <1>1, <1>3, Replaced
<1>. HIDE DEF v
<1>8. /\ v \in World /\ v.clients = y /\ v.map = w.map /\ v.cache = w.cache
      /\ v.stranded = w.stranded
  BY <1>1, <1>6, <1>7 DEF World
<1>9. \A d \in woken : IsOf(v, d, r) /\ d \in Client
  BY <1>2, <1>5, <1>8, MarkerAssumption DEF IsOf
<1>10. CacheOk(v)
  BY <1>8 DEF Good, CacheOk
<1>11. Good(v, S)
  <2>1. \A d \in Client :
          \/ v.clients[d] = w.clients[d] /\ (d \in S => d \in S)
          \/ /\ IsOf(w, d, r) /\ IsOf(v, d, r) /\ ClientOk(v.clients[d])
             /\ \/ d \in S \/ r \in v.stranded
                \/ /\ d \notin S
                   /\ v.clients[d].should_read_from_cache =>
                        w.clients[d].should_read_from_cache
                   /\ v.clients[d].should_write_to_cache =>
                        w.clients[d].should_write_to_cache
    BY <1>4, <1>5, <1>8, <1>9
  <2>2. /\ \A d \in S : \A q \in Key \ {r} : ~IsOf(w, d, q)
        /\ \A q \in Key \ {r} : Keeps(w, v, q)
    BY <1>8 DEF IsOf, Keeps
  <2>. QED
    BY <1>8, <1>10, <2>1, <2>2, AbsentIsGood
<1>12. IsOf(v, c, r)
  BY <1>4, <1>8, <1>9 DEF IsOf
<1>13. w.clients[c].state # "waiting_for_response_for_another_client" =>
         v.clients[c] = w.clients[c]
  BY <1>2, <1>4, <1>8
<1>. QED
  BY <1>8, <1>11, <1>12, <1>13 DEF v

(* A recovery that is cut short leaves the client with his flags. *)
LEMMA StrandIsGood ==
  ASSUME NEW w, NEW c \in Client, NEW r \in Key,
         Good(w, {c}), IsOf(w, c, r), ~Contains(w.cache, r)
  PROVE  Good([w EXCEPT !.stranded = @ \cup {r}], {})
<1>. DEFINE y == w.stranded \cup {r}
            v == [w EXCEPT !.stranded = y]
<1>1. w \in World /\ y \in SUBSET Key /\ r \in y
  BY WorldFacts
<1>. HIDE DEF y
<1>2. v = [clients |-> w.clients, map |-> w.map, cache |-> w.cache, stranded |-> y]
  BY <1>1, Replaced
<1>. HIDE DEF v
<1>3. /\ v \in World /\ v.clients = w.clients /\ v.map = w.map /\ v.cache = w.cache
      /\ v.stranded = y
  BY <1>1, <1>2 DEF World
<1>4. CacheOk(v)
  BY <1>1, <1>3 DEF Good, CacheOk
<1>5. \A d \in Client :
        \/ v.clients[d] = w.clients[d] /\ (d \in {c} => d \in {})
        \/ IsOf(w, d, r) /\ IsOf(v, d, r) /\ ClientOk(v.clients[d]) /\ r \in v.stranded
  BY <1>1, <1>3, WorldFacts DEF IsOf
<1>6. /\ \A d \in {c} : \A q \in Key \ {r} : ~IsOf(w, d, q)
      /\ \A q \in Key \ {r} : Keeps(w, v, q)
  BY <1>3 DEF IsOf, Keeps, y
<1>7. Good(v, {})
  BY <1>1, <1>3, <1>4, <1>5, <1>6, AbsentIsGood
<1>. QED
  BY <1>7 DEF v, y

LEMMA RecoverIsGood ==
  ASSUME NEW w, NEW c \in Client, NEW r \in Key,
         Good(w, {c}), IsOf(w, c, r), ~Contains(w.cache, r),
         RecoverFromStatusError(w, c)
  PROVE  \E z : Good(z, {}) /\ Becomes(z)
<1>1. w.clients[c].request = r
  BY DEF IsOf
<1>2. PICK n : Becomes(IF AllPrepared(w, r, n) THEN DiscardClient(PrepareWaiting(w, r, n), c)
                       ELSE [PrepareWaiting(w, r, n) EXCEPT !.stranded = @ \cup {r}])
  BY <1>1 DEF RecoverFromStatusError
<1>. DEFINE v == PrepareWaiting(w, r, n)
<1>3. Good(v, {c}) /\ IsOf(v, c, r) /\ v.cache = w.cache
  BY PrepareIsGood
<1>. HIDE DEF v
<1>4. Good(DiscardClient(v, c), {}) /\ Good([v EXCEPT !.stranded = @ \cup {r}], {})
  BY <1>3, DiscardIsGood, StrandIsGood
<1>. QED
  BY <1>2, <1>4 DEF v

----------------------------------------------------------------------------
(* acceptClient and readRequestFromClient.                                 *)

(* A client who has not made a request yet comes or goes. *)
LEMMA UnlistedIsGood ==
  ASSUME NEW w, Good(w, {}), NEW c \in Client, NEW k \in {NewClient, NoClient},
         w.clients[c] # NoClient => w.clients[c].state = "waiting_for_request"
  PROVE  Good([w EXCEPT !.clients[c] = k], {})
<1>. DEFINE y == [w.clients EXCEPT ![c] = k]
            v == [w EXCEPT !.clients = y]
<1>1. /\ w \in World /\ w.clients \in [Client -> ClientRecord \cup {NoClient}]
      /\ w.map \in [Key -> Seq(Client)] /\ w.cache \in CacheValue
      /\ w.stranded \in SUBSET Key
      /\ w.clients[c] # NoClient => w.clients[c].request = NoRequest
  BY WorldFacts DEF ClientOk
<1>2. /\ k \in ClientRecord \cup {NoClient}
      /\ k # NoClient => k.request = NoRequest /\ ClientOk(k)
  <2>1. NewClient.request = NoRequest
    BY DEF NewClient
  <2>. QED
    BY <2>1, NewClientFacts
<1>3. /\ y \in [Client -> ClientRecord \cup {NoClient}] /\ y[c] = k
      /\ \A d \in Client \ {c} : y[d] = w.clients[d]
  BY <1>1, <1>2
<1>. HIDE DEF y
<1>4. v = [clients |-> y, map |-> w.map, cache |-> w.cache, stranded |-> w.stranded]
  BY <1>1, Replaced
<1>. HIDE DEF v
<1>5. /\ v \in World /\ v.clients = y /\ v.map = w.map /\ v.cache = w.cache
      /\ v.stranded = w.stranded
  BY <1>1, <1>3, <1>4 DEF World
<1>6. CacheOk(v)
  BY <1>5 DEF Good, CacheOk
<1>. DEFINE R == {}
<1>7. \A d \in Client : v.clients[d] = w.clients[d] \/ Concerns(w, v, d, R \cup {NoRequest})
  BY <1>1, <1>2, <1>3, <1>5 DEF Concerns
<1>8. /\ R \in SUBSET Key
      /\ \A q \in Key \ R : Keeps(w, v, q)
      /\ \A q \in R : RequestOk(v, q, {})
  BY <1>5 DEF Keeps
<1>. HIDE DEF R
<1>9. Good(v, {})
  BY <1>5, <1>6, <1>7, <1>8, StepIsGood
<1>. QED
  BY <1>9 DEF v, y

(* A client joins the list of the request that he makes. *)
LEMMA JoinIsGood ==
  ASSUME NEW w, Good(w, {}), NEW c \in Client, w.clients[c] = NewClient,
         NEW r \in Key, NEW k \in ClientRecord, k.request = r, ClientOk(k),
         ~k.should_write_to_cache,
         NEW d \in CacheValue, \A x \in Nat : Sound(w.cache, x) => Sound(d, x),
         \A q \in Key \ {r} : d.entry[q] = w.cache.entry[q],
         ~Contains(d, r) => ~Contains(w.cache, r) /\ ~k.should_read_from_cache,
         Contains(d, r) =>
           /\ Contains(w.cache, r)
           /\ d.entry[r].in_use = w.cache.entry[r].in_use + 1
           /\ d.entry[r].buffer = w.cache.entry[r].buffer
           /\ d.entry[r].completed = w.cache.entry[r].completed
           /\ k.state = "got_response" /\ k.should_read_from_cache
  PROVE  Good([clients |-> [w.clients EXCEPT ![c] = k],
               map |-> [w.map EXCEPT ![r] = Append(@, c)],
               cache |-> d, stranded |-> w.stranded], {})
<1>. DEFINE l == Append(w.map[r], c)
            v == [clients |-> [w.clients EXCEPT ![c] = k],
                  map |-> [w.map EXCEPT ![r] = l],
                  cache |-> d, stranded |-> w.stranded]
<1>1. /\ w.clients \in [Client -> ClientRecord \cup {NoClient}]
      /\ w.map \in [Key -> Seq(Client)] /\ w.stranded \in SUBSET Key
      /\ w.map[r] \in Seq(Client) /\ OnceEach(w.map[r])
      /\ \A h \in Client : h \in Elements(w.map[r]) <=> IsOf(w, h, r)
      /\ RequestOk(w, r, {})
  BY WorldFacts
<1>2. w.clients[c].request = NoRequest /\ c \notin Elements(w.map[r])
  BY <1>1, ServerAssumption DEF NewClient, IsOf
<1>3. /\ l \in Seq(Client) /\ OnceEach(l) /\ Elements(l) = Elements(w.map[r]) \cup {c}
      /\ Len(l) = Len(w.map[r]) + 1
  BY <1>1, <1>2, AppendFacts
<1>. HIDE DEF l
<1>4. /\ v \in World /\ v.clients[c] = k /\ v.map[r] = l /\ v.cache = d
      /\ v.stranded = w.stranded
      /\ \A h \in Client \ {c} : v.clients[h] = w.clients[h]
      /\ \A q \in Key \ {r} : v.map[q] = w.map[q]
  BY <1>1, <1>3 DEF World
<1>. HIDE DEF v
<1>5. k # NoClient
  BY MarkerAssumption
<1>6. \A h \in Client : IsOf(v, h, r) <=> IsOf(w, h, r) \/ h = c
  BY <1>4, <1>5 DEF IsOf
<1>7. ListOk(v, r)
  BY <1>1, <1>3, <1>4, <1>6 DEF ListOk
<1>8. ASSUME Contains(v.cache, r) PROVE EntryOk(v, r)
  <2>1. EntryOk(w, r) /\ k.state = "got_response" /\ k.should_read_from_cache
    BY <1>1, <1>4, <1>8 DEF RequestOk
  <2>2. \A h \in Client : Fetches(v, h, r) => Fetches(w, h, r) /\ h # c
    BY <1>4, <1>6, <2>1 DEF Fetches
  <2>3. /\ v.cache.entry[r].in_use = Len(v.map[r])
        /\ v.cache.entry[r].buffer = w.cache.entry[r].buffer
        /\ v.cache.entry[r].completed = w.cache.entry[r].completed
    BY <1>3, <1>4, <1>8, <2>1 DEF EntryOk
  <2>4. \A h \in Client : IsOf(v, h, r) =>
          /\ v.clients[h].state \in {"got_response", "waiting_response"}
          /\ v.clients[h].should_read_from_cache
    BY <1>4, <1>6, <2>1 DEF EntryOk
  <2>5. \A h \in Client : Fetches(v, h, r) => WriterOk(v.clients[h], v.cache.entry[r])
    BY <1>4, <2>1, <2>2, <2>3 DEF EntryOk, WriterOk
  <2>. QED
    BY <2>1, <2>2, <2>3, <2>4, <2>5 DEF EntryOk
<1>9. ASSUME r \notin v.stranded PROVE CleanOk(v, r, {})
  BY <1>1, <1>4, <1>6, <1>9 DEF RequestOk, CleanOk
<1>10. RequestOk(v, r, {})
  BY <1>7, <1>8, <1>9 DEF RequestOk
<1>11. CacheOk(v)
  BY <1>4 DEF Good, CacheOk
<1>. DEFINE R    == {r}
            None == {}
<1>12. \A h \in Client : v.clients[h] = w.clients[h] \/ Concerns(w, v, h, R \cup {NoRequest})
  BY <1>2, <1>4 DEF Concerns
<1>13. /\ R \in SUBSET Key /\ v \in World /\ Good(w, None)
       /\ \A q \in R : RequestOk(v, q, None)
       /\ \A q \in Key \ R : Keeps(w, v, q)
       /\ \A h \in None : \A q \in Key \ R : ~IsOf(w, h, q)
  BY <1>4, <1>10 DEF Keeps
<1>. HIDE DEF R, None
<1>14. Good(v, None)
  BY <1>11, <1>12, <1>13, StepIsGood
<1>. QED
  BY <1>14 DEF v, l, None

LEMMA Added ==
  ASSUME NEW y, NEW m, NEW d, NEW s, NEW c, NEW r, y[c].request = r
  PROVE  AddToRequestClients([clients |-> y, map |-> m, cache |-> d, stranded |-> s], c)
           = [clients |-> y, map |-> [m EXCEPT ![r] = Append(@, c)], cache |-> d,
              stranded |-> s]
<1>. DEFINE a == [m EXCEPT ![r] = Append(@, c)]
            v == [clients |-> y, map |-> m, cache |-> d, stranded |-> s]
<1>1. AddToRequestClients(v, c) = [v EXCEPT !.map = a]
  BY DEF AddToRequestClients
<1>2. [v EXCEPT !.map = a] = [clients |-> y, map |-> a, cache |-> d, stranded |-> s]
  <2>. HIDE DEF a
  <2>. QED
    BY Rebuilt
<1>. HIDE DEF v
<1>. QED
  BY <1>1, <1>2 DEF v

LEMMA AcceptIsGood ==
  ASSUME Good(Now, {}), NEW c \in Client, AcceptClient(c)
  PROVE  \E z : Good(z, {}) /\ Becomes(z)
<1>1. Now.clients[c] = NoClient /\ Becomes([Now EXCEPT !.clients[c] = NewClient])
  BY DEF AcceptClient, Live
<1>. QED
  BY <1>1, UnlistedIsGood

LEMMA ReadRequestFailsIsGood ==
  ASSUME Good(Now, {}), NEW c \in Client, ReadRequestFails(c)
  PROVE  \E z : Good(z, {}) /\ Becomes(z)
<1>1. /\ Now.clients[c] # NoClient /\ Now.clients[c].state = "waiting_for_request"
      /\ Becomes(DiscardClient(Now, c))
  BY DEF ReadRequestFails, In, Live, Now
<1>2. Now.clients[c].request = NoRequest
  BY <1>1, WorldFacts DEF ClientOk
<1>3. Becomes([Now EXCEPT !.clients[c] = NoClient])
  BY <1>1, <1>2 DEF DiscardClient
<1>. QED
  BY <1>1, <1>3, UnlistedIsGood

(* The client and the cache once a request was read: the client reads from *)
(* the entry, or there is none and he waits, or asks the origin himself    *)
(* because nobody else did.                                                *)
Joins(c, r, k, d) ==
  /\ k \in ClientRecord /\ k.request = r /\ ClientOk(k)
  /\ ~k.should_write_to_cache /\ ~k.should_write_to_all
  /\ k.sent = <<>> /\ k.chunks = <<>>
  /\ d \in CacheValue
  /\ \A x \in Nat : Sound(cache, x) => Sound(d, x)
  /\ \A q \in Key \ {r} : d.entry[q] = cache.entry[q]
  /\ \/ /\ Contains(cache, r) /\ Contains(d, r)
        /\ d.entry[r].in_use = cache.entry[r].in_use + 1
        /\ d.entry[r].buffer = cache.entry[r].buffer
        /\ d.entry[r].completed = cache.entry[r].completed
        /\ k.state = "got_response" /\ k.should_read_from_cache /\ k.conn = NoConn
     \/ /\ ~Contains(cache, r) /\ d = cache /\ ~k.should_read_from_cache
        /\ \/ k.state = "waiting_for_response_for_another_client"
           \/ /\ k.state = "sending_request" /\ k.conn = NewConnection
              /\ request_clients_map[r] = <<>>
  /\ Becomes([clients |-> [clients EXCEPT ![c] = k],
              map |-> [request_clients_map EXCEPT ![r] = Append(@, c)],
              cache |-> d, stranded |-> stranded])

LEMMA ReadRequestFacts ==
  ASSUME Good(Now, {}), NEW c \in Client, NEW r \in Key, ReadRequest(c, r)
  PROVE  /\ clients[c] = NewClient
         /\ \/ \E k, d : Joins(c, r, k, d)
            \/ "connect" \in Faults /\ Becomes([Now EXCEPT !.clients[c] = NoClient])
<1>. DEFINE k0 == [NewClient EXCEPT !.request = r]
            y0 == [clients EXCEPT ![c] = k0]
            w  == [clients |-> y0, map |-> request_clients_map, cache |-> cache,
                   stranded |-> stranded]
            Joined(k, d) == [clients |-> [clients EXCEPT ![c] = k],
                             map |-> [request_clients_map EXCEPT ![r] = Append(@, c)],
                             cache |-> d, stranded |-> stranded]
<1>1. /\ clients \in [Client -> ClientRecord \cup {NoClient}]
      /\ request_clients_map \in [Key -> Seq(Client)] /\ cache \in CacheValue
      /\ clients[c] = NewClient /\ r # NoRequest
      /\ OnceEach(request_clients_map[r])
  <2>1. clients[c] # NoClient /\ clients[c].state = "waiting_for_request"
    BY DEF ReadRequest, In, Live, Now
  <2>. QED
    BY <2>1, WorldFacts, ServerAssumption DEF ClientOk, Now
<1>2. [Now EXCEPT !.clients[c].request = r] = w
  <2>1. [Now EXCEPT !.clients[c].request = r] = [Now EXCEPT !.clients = y0]
    BY <1>1 DEF Now
  <2>. HIDE DEF y0
  <2>2. [Now EXCEPT !.clients = y0] = w
    BY Rebuilt DEF Now
  <2>. QED
    BY <2>1, <2>2
<1>3. k0 \in ClientRecord /\ k0.request = r /\ k0.conn = NoConn
      /\ ~k0.should_write_to_cache /\ ~k0.should_read_from_cache
      /\ ~k0.should_write_to_all /\ k0.sent = <<>> /\ k0.chunks = <<>>
  BY NewClientFacts DEF NewClient, ClientRecord
<1>. DEFINE k1 == GetResponseFromCache(k0)
            k2 == [k0 EXCEPT !.state = "waiting_for_response_for_another_client"]
            k3 == PrepareForSendingRequest(k0)
<1>4. /\ k1 \in ClientRecord /\ k1.request = r /\ ~k1.should_write_to_cache
      /\ k1.state = "got_response" /\ k1.should_read_from_cache /\ k1.conn = NoConn
      /\ k3 \in ClientRecord /\ k3.request = r /\ ~k3.should_write_to_cache
      /\ k3.state = "sending_request" /\ ~k3.should_read_from_cache
      /\ k3.conn = NewConnection
  <2>. HIDE DEF k0
  <2>. QED
    BY <1>3, UpdateFacts
<1>5. /\ k2 \in ClientRecord /\ k2.request = r /\ ~k2.should_write_to_cache
      /\ k2.state = "waiting_for_response_for_another_client"
      /\ ~k2.should_read_from_cache /\ k2.conn = NoConn
  BY <1>3 DEF ClientRecord, State
<1>14. \A k \in {k1, k2, k3} :
         ~k.should_write_to_all /\ k.sent = <<>> /\ k.chunks = <<>>
  BY <1>3 DEF ClientRecord, GetResponseFromCache, PrepareForSendingRequest
<1>. HIDE DEF k0, k1, k2, k3
<1>6. ClientOk(k1) /\ ClientOk(k2) /\ ClientOk(k3)
  BY <1>1, <1>4, <1>5, NewClientFacts DEF ClientOk, Fetching
<1>7. w.clients[c] = k0 /\ w.map = request_clients_map /\ w.cache = cache
      /\ w.stranded = stranded
  BY <1>1
<1>. HIDE DEF w
<1>8. \/ /\ Contains(cache, r)
         /\ Becomes(AddToRequestClients([w EXCEPT !.clients[c] = k1,
                                                  !.cache = UseEntry(@, r)], c))
      \/ /\ ~Contains(cache, r)
         /\ Becomes(AddToRequestClients([w EXCEPT !.clients[c] = k2], c))
      \/ /\ ~Contains(cache, r) /\ request_clients_map[r] = <<>>
         /\ Becomes(AddToRequestClients([w EXCEPT !.clients[c] = k3], c))
      \/ /\ ~Contains(cache, r) /\ request_clients_map[r] = <<>>
         /\ "connect" \in Faults /\ Becomes(DiscardClient(w, c))
  BY <1>2, <1>7 DEF ReadRequest, HasClientsWithRequest, k1, k2, k3
<1>9. \A k, d : k.request = r =>
        AddToRequestClients([clients |-> [clients EXCEPT ![c] = k],
                             map |-> request_clients_map, cache |-> d,
                             stranded |-> stranded], c) = Joined(k, d)
  <2>1. ASSUME NEW k, NEW d, k.request = r
        PROVE  AddToRequestClients([clients |-> [clients EXCEPT ![c] = k],
                                    map |-> request_clients_map, cache |-> d,
                                    stranded |-> stranded], c) = Joined(k, d)
    <3>. DEFINE y == [clients EXCEPT ![c] = k]
    <3>1. y[c].request = r
      BY <1>1, <2>1
    <3>. HIDE DEF y
    <3>2. AddToRequestClients([clients |-> y, map |-> request_clients_map, cache |-> d,
                               stranded |-> stranded], c)
            = [clients |-> y, map |-> [request_clients_map EXCEPT ![r] = Append(@, c)],
               cache |-> d, stranded |-> stranded]
      BY <3>1, Added
    <3>. QED
      BY <3>2 DEF y
  <2>. QED
    BY <2>1
<1>10. ASSUME NEW k
       PROVE  [w EXCEPT !.clients[c] = k] =
                [clients |-> [clients EXCEPT ![c] = k], map |-> request_clients_map,
                 cache |-> cache, stranded |-> stranded]
  <2>. DEFINE y == [clients EXCEPT ![c] = k]
  <2>1. [w EXCEPT !.clients[c] = k] = [w EXCEPT !.clients = y]
    BY <1>1 DEF w
  <2>. HIDE DEF y
  <2>2. [w EXCEPT !.clients = y] =
          [clients |-> y, map |-> request_clients_map, cache |-> cache,
           stranded |-> stranded]
    BY Rebuilt DEF w
  <2>. QED
    BY <2>1, <2>2 DEF y
<1>. HIDE DEF Joined
<1>11. CASE /\ Contains(cache, r)
            /\ Becomes(AddToRequestClients([w EXCEPT !.clients[c] = k1,
                                                     !.cache = UseEntry(@, r)], c))
  <2>. DEFINE d == UseEntry(cache, r)
  <2>1. [w EXCEPT !.clients[c] = k1, !.cache = d] =
          [clients |-> [clients EXCEPT ![c] = k1], map |-> request_clients_map,
           cache |-> d, stranded |-> stranded]
    <3>. DEFINE y == [clients EXCEPT ![c] = k1]
                v == [clients |-> y, map |-> request_clients_map, cache |-> cache,
                      stranded |-> stranded]
    <3>. HIDE DEF d
    <3>1. [w EXCEPT !.clients[c] = k1] = v
      BY <1>10
    <3>2. [w EXCEPT !.clients[c] = k1, !.cache = d] = [v EXCEPT !.cache = d]
      BY <3>1
    <3>. HIDE DEF y
    <3>3. [v EXCEPT !.cache = d] =
            [clients |-> y, map |-> request_clients_map, cache |-> d,
             stranded |-> stranded]
      BY Rebuilt
    <3>. QED
      BY <3>2, <3>3 DEF y
  <2>2. Becomes(Joined(k1, d))
    BY <1>4, <1>7, <1>9, <1>11, <2>1
  <2>3. PICK x0 \in Nat : Sound(cache, x0)
    BY DEF Good, CacheOk, Now
  <2>4. ASSUME NEW x \in Nat, Sound(cache, x)
        PROVE  Sound(d, x) /\ d.entry = [cache.entry EXCEPT ![r].in_use = @ + 1]
    BY <1>11, <2>4, UseSound
  <2>. HIDE DEF d
  <2>5. d \in CacheValue /\ d.entry = [cache.entry EXCEPT ![r].in_use = @ + 1]
    BY <2>3, <2>4 DEF Sound, WellFormed
  <2>6. cache.entry \in [Key -> Entry \cup {NoEntry}] /\ cache.entry[r] \in Entry
    BY <1>1, <1>11 DEF CacheValue, Contains
  <2>. DEFINE e == [cache.entry[r] EXCEPT !.in_use = @ + 1]
  <2>7. /\ d.entry[r] = e /\ \A q \in Key \ {r} : d.entry[q] = cache.entry[q]
        /\ e.in_use = cache.entry[r].in_use + 1 /\ e.buffer = cache.entry[r].buffer
        /\ e.completed = cache.entry[r].completed /\ e \in Entry
    BY <2>5, <2>6 DEF Entry
  <2>8. Contains(d, r)
    BY <2>7, CacheAssumption DEF Contains
  <2>. HIDE DEF e
  <2>9. Joins(c, r, k1, d)
    BY <1>4, <1>14, <1>6, <1>11, <2>2, <2>4, <2>5, <2>7, <2>8 DEF Joins, Joined
  <2>. QED
    BY <1>1, <2>9
<1>12. ASSUME ~Contains(cache, r), NEW k \in {k2, k3},
              k = k3 => request_clients_map[r] = <<>>,
              Becomes(AddToRequestClients([w EXCEPT !.clients[c] = k], c))
       PROVE  Joins(c, r, k, cache)
  <2>1. /\ k \in ClientRecord /\ k.request = r /\ ~k.should_write_to_cache
        /\ ~k.should_read_from_cache /\ ClientOk(k)
    BY <1>4, <1>5, <1>6
  <2>2. Becomes(Joined(k, cache))
    BY <1>9, <1>10, <1>12, <2>1
  <2>3. \/ k.state = "waiting_for_response_for_another_client"
        \/ /\ k.state = "sending_request" /\ k.conn = NewConnection
           /\ request_clients_map[r] = <<>>
    BY <1>4, <1>5, <1>12
  <2>. QED
    BY <1>1, <1>12, <1>14, <2>1, <2>2, <2>3 DEF Joins, Joined
<1>13. CASE /\ ~Contains(cache, r) /\ request_clients_map[r] = <<>>
            /\ "connect" \in Faults /\ Becomes(DiscardClient(w, c))
  <2>. DEFINE u == [w EXCEPT !.map[r] = Without(@, c)]
  <2>1. Without(request_clients_map[r], c) = request_clients_map[r]
    BY <1>13 DEF Without
  <2>2. u = w
    <3>1. [request_clients_map EXCEPT ![r] = Without(@, c)] = request_clients_map
      BY <1>1, <2>1
    <3>. QED
      BY <3>1, <1>7 DEF w
  <2>3. RemoveFromRequestClients(w, c) = w
    BY ONLY <1>1, <1>3, <1>7, <2>2 DEF RemoveFromRequestClients
  <2>4. HandOver(w, c) = w
    <3>1. w.clients[c].state = "waiting_for_request"
      BY <1>7 DEF k0, NewClient
    <3>. QED
      BY <3>1 DEF HandOver
  <2>5. DisuseEntry(cache, r) = cache
    BY <1>13 DEF DisuseEntry, DisuseTimes
  <2>6. DiscardClient(w, c) = [w EXCEPT !.cache = DisuseEntry(@, r), !.clients[c] = NoClient]
    BY <1>1, <1>3, <1>7, <2>3, <2>4 DEF DiscardClient
  <2>7. DiscardClient(w, c) = [Now EXCEPT !.clients[c] = NoClient]
    <3>. DEFINE y == [clients EXCEPT ![c] = NoClient]
                v == [clients |-> y, map |-> request_clients_map, cache |-> cache,
                      stranded |-> stranded]
    <3>1. [w EXCEPT !.cache = DisuseEntry(@, r), !.clients[c] = NoClient]
            = [w EXCEPT !.cache = cache, !.clients[c] = NoClient]
      BY <1>7, <2>5
    <3>2. [w EXCEPT !.cache = cache] = w
      BY Rebuilt, SMTT(30) DEF w
    <3>3. [w EXCEPT !.cache = cache, !.clients[c] = NoClient]
            = [w EXCEPT !.clients[c] = NoClient]
      BY <3>2
    <3>4. [w EXCEPT !.clients[c] = NoClient] = v
      BY <1>10
    <3>5. [Now EXCEPT !.clients[c] = NoClient] = [Now EXCEPT !.clients = y]
      BY <1>1 DEF Now
    <3>. HIDE DEF y
    <3>6. [Now EXCEPT !.clients = y] = v
      BY Rebuilt DEF Now
    <3>. QED
      BY <2>6, <3>1, <3>3, <3>4, <3>5, <3>6
  <2>. QED
    BY <1>1, <1>13, <2>7
<1>. QED
  <2>1. k2 # k3
    BY <1>4, <1>5
  <2>. QED
    BY <1>1, <1>8, <1>11, <1>12, <1>13, <2>1

LEMMA ReadRequestIsGood ==
  ASSUME Good(Now, {}), NEW c \in Client, NEW r \in Key, ReadRequest(c, r)
  PROVE  \E z : Good(z, {}) /\ Becomes(z)
<1>1. /\ clients[c] = NewClient
      /\ Now.clients = clients /\ Now.map = request_clients_map /\ Now.cache = cache
      /\ Now.stranded = stranded
  BY ReadRequestFacts DEF Now
<1>2. ASSUME NEW k, NEW d, Joins(c, r, k, d)
      PROVE  \E z : Good(z, {}) /\ Becomes(z)
  <2>. DEFINE v == [clients |-> [clients EXCEPT ![c] = k],
                    map |-> [request_clients_map EXCEPT ![r] = Append(@, c)],
                    cache |-> d, stranded |-> stranded]
  <2>1. Becomes(v)
    BY <1>2 DEF Joins
  <2>2. Good(v, {})
    BY <1>1, <1>2, JoinIsGood DEF Joins
  <2>. QED
    BY <2>1, <2>2
<1>3. CASE Becomes([Now EXCEPT !.clients[c] = NoClient])
  <2>1. /\ NoClient \in {NewClient, NoClient}
        /\ Now.clients[c] # NoClient => Now.clients[c].state = "waiting_for_request"
    BY <1>1 DEF NewClient
  <2>. QED
    BY <1>3, <2>1, UnlistedIsGood
<1>. QED
  BY <1>2, <1>3, ReadRequestFacts

----------------------------------------------------------------------------
(* A client of a request that has no entry.                                *)

(* Who is neither reading from the cache nor writing to it has no entry to *)
(* his request.                                                            *)
LEMMA NoEntryYet ==
  ASSUME NEW w, NEW S, Good(w, S), NEW c \in Client, NEW r \in Key, IsOf(w, c, r),
         w.clients[c].state \notin {"got_response", "waiting_response"}
  PROVE  ~Contains(w.cache, r)
BY DEF Good, RequestOk, EntryOk

LEMMA ChangedOne ==
  ASSUME NEW w, NEW S, Good(w, S), NEW c \in Client, NEW k
  PROVE  /\ [w EXCEPT !.clients[c] = k] =
              [clients |-> [w.clients EXCEPT ![c] = k], map |-> w.map,
               cache |-> w.cache, stranded |-> w.stranded]
         /\ k \in ClientRecord => [w EXCEPT !.clients[c] = k] \in World
<1>. DEFINE y == [w.clients EXCEPT ![c] = k]
            v == [w EXCEPT !.clients[c] = k]
<1>1. /\ w \in World /\ w.map \in [Key -> Seq(Client)] /\ w.cache \in CacheValue
      /\ w.stranded \in SUBSET Key
      /\ w.clients \in [Client -> ClientRecord \cup {NoClient}]
  BY WorldFacts
<1>2. v = [w EXCEPT !.clients = y]
  OBVIOUS
<1>3. k \in ClientRecord => y \in [Client -> ClientRecord \cup {NoClient}]
  BY <1>1
<1>. HIDE DEF y, v
<1>4. v = [clients |-> y, map |-> w.map, cache |-> w.cache, stranded |-> w.stranded]
  BY <1>1, <1>2, Replaced
<1>5. k \in ClientRecord => v \in World
  BY <1>1, <1>3, <1>4 DEF World
<1>. QED
  BY <1>4, <1>5 DEF v, y

LEMMA ChangeOneAbsent ==
  ASSUME NEW w, NEW c \in Client, NEW r \in Key,
         NEW S \in SUBSET {c}, NEW T \in SUBSET {c}, Good(w, S),
         IsOf(w, c, r), ~Contains(w.cache, r),
         NEW k \in ClientRecord, k.request = r, ClientOk(k),
         \/ c \in T
         \/ /\ c \notin S
            /\ k.should_read_from_cache => w.clients[c].should_read_from_cache
            /\ k.should_write_to_cache => w.clients[c].should_write_to_cache
  PROVE  LET v == [w EXCEPT !.clients[c] = k]
         IN  /\ Good(v, T) /\ IsOf(v, c, r)
             /\ v.clients[c] = k /\ v.cache = w.cache /\ v.map = w.map
             /\ v.stranded = w.stranded
<1>. DEFINE v == [w EXCEPT !.clients[c] = k]
<1>1. /\ w \in World /\ w.map \in [Key -> Seq(Client)] /\ w.cache \in CacheValue
      /\ w.stranded \in SUBSET Key
      /\ w.clients \in [Client -> ClientRecord \cup {NoClient}]
  BY WorldFacts
<1>2. v = [clients |-> [w.clients EXCEPT ![c] = k], map |-> w.map,
           cache |-> w.cache, stranded |-> w.stranded] /\ v \in World
  BY ChangedOne
<1>. HIDE DEF v
<1>3. /\ v.clients[c] = k /\ v.map = w.map /\ v.cache = w.cache
      /\ v.stranded = w.stranded /\ \A d \in Client \ {c} : v.clients[d] = w.clients[d]
  BY <1>1, <1>2
<1>4. IsOf(v, c, r) /\ CacheOk(v)
  BY <1>3, MarkerAssumption DEF IsOf, Good, CacheOk
<1>5. \A d \in Client :
        \/ v.clients[d] = w.clients[d] /\ (d \in S => d \in T)
        \/ /\ IsOf(w, d, r) /\ IsOf(v, d, r) /\ ClientOk(v.clients[d])
           /\ \/ d \in T \/ r \in v.stranded
              \/ /\ d \notin S
                 /\ v.clients[d].should_read_from_cache =>
                      w.clients[d].should_read_from_cache
                 /\ v.clients[d].should_write_to_cache =>
                      w.clients[d].should_write_to_cache
  BY <1>3, <1>4
<1>6. /\ \A d \in S : \A q \in Key \ {r} : ~IsOf(w, d, q)
      /\ \A q \in Key \ {r} : Keeps(w, v, q)
  BY <1>3 DEF IsOf, Keeps
<1>7. Good(v, T)
  <2>1. /\ v \in World /\ CacheOk(v) /\ v.cache.entry[r] = w.cache.entry[r]
        /\ v.map[r] = w.map[r] /\ (r \in w.stranded => r \in v.stranded)
    BY <1>2, <1>3, <1>4
  <2>. QED
    BY <1>5, <1>6, <2>1, AbsentIsGood
<1>. QED
  BY <1>3, <1>4, <1>7 DEF v

(* Clients that have made a request and are in the state of a handler. *)
LEMMA RequestOf ==
  ASSUME NEW S, NEW T, NEW c \in Client, Good(Now, T), In(c, S),
         "waiting_for_request" \notin S
  PROVE  /\ clients[c] # NoClient /\ clients[c] \in ClientRecord
         /\ clients[c].request \in Key /\ IsOf(Now, c, clients[c].request)
         /\ ClientOk(clients[c]) /\ clients[c].state \in S
         /\ Now.clients = clients /\ Now.cache = cache /\ Now.stranded = stranded
         /\ Now.map = request_clients_map
<1>1. /\ Now.clients = clients /\ Now.cache = cache /\ Now.stranded = stranded
      /\ Now.map = request_clients_map
  BY DEF Now
<1>2. clients[c] # NoClient /\ clients[c].state \in S
  BY <1>1 DEF In, Live
<1>3. clients[c] \in ClientRecord /\ ClientOk(clients[c])
  BY <1>1, <1>2, WorldFacts
<1>4. clients[c].request \in Key
  BY <1>2, <1>3 DEF ClientOk, ClientRecord
<1>. QED
  BY <1>1, <1>2, <1>3, <1>4 DEF IsOf

LEMMA SendRequestIsGood ==
  ASSUME Good(Now, {}), NEW c \in Client, SendRequest(c)
  PROVE  \E z : Good(z, {}) /\ Becomes(z)
<1>. DEFINE r == clients[c].request
            k == [clients[c] EXCEPT !.state = "waiting_response_status_code"]
<1>1. /\ In(c, {"sending_request"})
      /\ Becomes([Now EXCEPT !.clients[c].state = "waiting_response_status_code"])
  BY DEF SendRequest
<1>2. /\ clients[c] \in ClientRecord /\ r \in Key /\ IsOf(Now, c, r)
      /\ ClientOk(clients[c]) /\ clients[c].state = "sending_request"
      /\ Now.clients = clients
  BY <1>1, RequestOf
<1>3. ~Contains(Now.cache, r)
  BY <1>2, NoEntryYet
<1>4. /\ k \in ClientRecord /\ k.request = r /\ ClientOk(k)
      /\ k.should_read_from_cache = clients[c].should_read_from_cache
      /\ k.should_write_to_cache = clients[c].should_write_to_cache
  BY <1>2 DEF ClientRecord, State, ClientOk, Fetching
<1>5. Becomes([Now EXCEPT !.clients[c] = k])
  BY <1>1, <1>2
<1>. HIDE DEF k, r
<1>. DEFINE None == {}
<1>6. None \in SUBSET {c} /\ Good(Now, None) /\ c \notin None
  OBVIOUS
<1>. HIDE DEF None
<1>7. Good([Now EXCEPT !.clients[c] = k], None)
  BY <1>2, <1>3, <1>4, <1>6, ChangeOneAbsent
<1>. QED
  BY <1>5, <1>7 DEF None

----------------------------------------------------------------------------
(* writeResponseChunkToCache.                                              *)

(* What becomes of the entry that is written, and of the others. *)
LEMMA GrownEntry ==
  ASSUME NEW c, NEW V, NEW r \in Key \ V, NEW chunk \in Seq(Block), c.entry[r] \in Entry
  PROVE  LET e == Grown(c, V, r, chunk)[r]
         IN  /\ e \in Entry
             /\ e.in_use = c.entry[r].in_use /\ e.completed = c.entry[r].completed
             /\ e.buffer = c.entry[r].buffer \o chunk
<1>1. Left(c, V)[r] = c.entry[r] /\ DOMAIN Left(c, V) = Key
  BY DEF Left
<1>. DEFINE b == c.entry[r].buffer \o chunk
            e == [c.entry[r] EXCEPT !.buffer = b]
<1>2. b \in Seq(Block)
  BY DEF Entry
<1>3. Grown(c, V, r, chunk) = [Left(c, V) EXCEPT ![r] = e]
  BY <1>1 DEF Grown
<1>. HIDE DEF b
<1>4. /\ e \in Entry /\ e.in_use = c.entry[r].in_use
      /\ e.completed = c.entry[r].completed /\ e.buffer = b
  BY <1>2 DEF Entry
<1>. HIDE DEF e
<1>5. Grown(c, V, r, chunk)[r] = e
  BY <1>1, <1>3
<1>. QED
  BY <1>4, <1>5 DEF b

LEMMA OthersSurviveWrite ==
  ASSUME NEW c, NEW V \in SUBSET Unused(c), NEW r \in Key \ V, NEW chunk,
         c.entry[r] \in Entry
  PROVE  /\ \A q \in Key : \/ Left(c, V)[q] = c.entry[q]
                           \/ Left(c, V)[q] = NoEntry /\ c.entry[q].in_use = 0
         /\ \A q \in Key \ {r} :
              \/ Grown(c, V, r, chunk)[q] = c.entry[q]
              \/ Grown(c, V, r, chunk)[q] = NoEntry /\ c.entry[q].in_use = 0
         /\ Left(c, V)[r] = c.entry[r]
<1>1. \A q \in V : c.entry[q].in_use = 0
  BY ONLY DEF Unused
<1>. QED
  BY <1>1, GrownFacts

LEMMA WriteInUse ==
  ASSUME NEW c, NEW x0 \in Nat, Sound(c, x0), NEW r \in Present(c),
         c.entry[r].in_use > 0, NEW chunk \in Seq(Block)
  PROVE  LET w == Write(c, r, chunk)
         IN  /\ w \in CacheValue /\ Contains(w, r)
             /\ \A x \in Nat : Sound(c, x) => Sound(w, x)
             /\ \A q \in Key \ {r} : \/ w.entry[q] = c.entry[q]
                                     \/ w.entry[q] = NoEntry /\ c.entry[q].in_use = 0
             /\ \/ /\ WriteOutcome(c, r, chunk) = "AllInUse"
                   /\ w.entry[r] = c.entry[r]
                \/ /\ WriteOutcome(c, r, chunk) = "Written"
                   /\ w.entry[r].in_use = c.entry[r].in_use
                   /\ w.entry[r].completed = c.entry[r].completed
                   /\ w.entry[r].buffer = c.entry[r].buffer \o chunk
<1>. DEFINE w == Write(c, r, chunk)
            V == Victims(c, Len(chunk))
<1>1. /\ r \in Key /\ c.entry[r] \in Entry /\ c \in CacheValue
      /\ c.entry[r].in_use \in Int
  BY DEF Sound, WellFormed, Present, Contains, CacheValue, Entry
<1>2. ASSUME NEW x \in Nat, Sound(c, x)
      PROVE  /\ Sound(w, x) /\ V \subseteq Unused(c)
             /\ \/ /\ WriteOutcome(c, r, chunk) = "AllInUse" /\ w.entry = Left(c, V)
                \/ /\ WriteOutcome(c, r, chunk) = "Written"
                   /\ w.entry = Grown(c, V, r, chunk)
  BY <1>2, WriteSound
<1>3. /\ Sound(w, x0) /\ V \subseteq Unused(c)
      /\ \/ /\ WriteOutcome(c, r, chunk) = "AllInUse" /\ w.entry = Left(c, V)
         \/ /\ WriteOutcome(c, r, chunk) = "Written"
            /\ w.entry = Grown(c, V, r, chunk)
  BY <1>2
<1>4. w \in CacheValue
  BY <1>3 DEF Sound, WellFormed
<1>5. r \in Key \ V
  BY <1>1, <1>3 DEF Unused
<1>. HIDE DEF w, V
<1>6. /\ \A q \in Key : \/ Left(c, V)[q] = c.entry[q]
                        \/ Left(c, V)[q] = NoEntry /\ c.entry[q].in_use = 0
      /\ \A q \in Key \ {r} :
           \/ Grown(c, V, r, chunk)[q] = c.entry[q]
           \/ Grown(c, V, r, chunk)[q] = NoEntry /\ c.entry[q].in_use = 0
      /\ Left(c, V)[r] = c.entry[r]
  <2>1. c.entry[r] \in Entry /\ V \in SUBSET Unused(c) /\ r \in Key \ V
    BY <1>1, <1>3, <1>5
  <2>. QED
    BY <2>1, OthersSurviveWrite
<1>7. /\ Grown(c, V, r, chunk)[r] \in Entry
      /\ Grown(c, V, r, chunk)[r].in_use = c.entry[r].in_use
      /\ Grown(c, V, r, chunk)[r].completed = c.entry[r].completed
      /\ Grown(c, V, r, chunk)[r].buffer = c.entry[r].buffer \o chunk
  <2>1. c.entry[r] \in Entry
    BY <1>1
  <2>. QED
    BY <1>5, <2>1, GrownEntry
<1>8. Contains(w, r)
  BY <1>1, <1>3, <1>6, <1>7, CacheAssumption DEF Contains
<1>9. \A q \in Key \ {r} : \/ w.entry[q] = c.entry[q]
                           \/ w.entry[q] = NoEntry /\ c.entry[q].in_use = 0
  BY <1>3, <1>6
<1>10. \A x \in Nat : Sound(c, x) => Sound(w, x)
  BY <1>2
<1>11. \/ /\ WriteOutcome(c, r, chunk) = "AllInUse"
          /\ w.entry[r] = c.entry[r]
       \/ /\ WriteOutcome(c, r, chunk) = "Written"
          /\ w.entry[r].in_use = c.entry[r].in_use
          /\ w.entry[r].completed = c.entry[r].completed
          /\ w.entry[r].buffer = c.entry[r].buffer \o chunk
  BY <1>3, <1>6, <1>7
<1>. QED
  BY <1>4, <1>8, <1>9, <1>10, <1>11 DEF w

(* A client who got the rest of the entry in his own buffer. *)
OutOfCache(k, l) ==
  /\ k \in ClientRecord /\ l \in ClientRecord
  /\ l.request = k.request /\ l.conn = k.conn
  /\ l.state = "getting_response_from_another_client"
  /\ ~l.should_read_from_cache
  /\ l.should_write_to_cache = k.should_write_to_cache

LEMMA RestIsChunks ==
  ASSUME NEW buffer \in Seq(Block), NEW n \in Nat
  PROVE  Rest(buffer, n) \in Seq(Seq(Block))
<1>1. CASE n < Len(buffer)
  <2>1. SubSeq(buffer, n + 1, Len(buffer)) \in Seq(Block)
    <3>1. /\ n + 1 \in Int /\ Len(buffer) \in Int
          /\ \A j \in (n + 1)..Len(buffer) : buffer[j] \in Block
      OBVIOUS
    <3>. QED
      BY <3>1, SubSeqProperties
  <2>. QED
    BY <1>1, <2>1 DEF Rest
<1>2. CASE ~(n < Len(buffer))
  BY <1>2 DEF Rest
<1>. QED
  BY <1>1, <1>2

LEMMA FallbackFacts ==
  ASSUME NEW w \in World, NEW c \in Client, NEW r \in Key, IsOf(w, c, r),
         NEW chunk \in Seq(Block),
         w.map[r] \in Seq(Client),
         \A d \in Client : d \in Elements(w.map[r]) <=> IsOf(w, d, r),
         Contains(w.cache, r) => w.cache.entry[r].in_use \in Nat
  PROVE  LET L == Len(w.map[r])
             n == FallbackTurns(w, r)
             z == Fallback(w, c, chunk)
         IN  /\ n \in 0..L /\ (FallbackThrows(w, r) <=> n < L)
             /\ z = [clients |-> z.clients, map |-> z.map, cache |-> z.cache,
                     stranded |-> z.stranded]
             /\ z.clients \in [Client -> ClientRecord \cup {NoClient}]
             /\ z.map = w.map /\ z.stranded = w.stranded
             /\ z.cache = IF n = 0 THEN w.cache ELSE DisuseTimes(w.cache, r, n)
             /\ \A d \in Client : ~IsOf(w, d, r) => z.clients[d] = w.clients[d]
             /\ n < L => \A d \in Client : IsOf(w, d, r) =>
                           \/ z.clients[d] = w.clients[d]
                           \/ OutOfCache(w.clients[d], z.clients[d])
             /\ n = L =>
                  /\ \A d \in Client \ {c} : IsOf(w, d, r) =>
                       OutOfCache(w.clients[d], z.clients[d])
                  /\ z.clients[c] \in ClientRecord
                  /\ z.clients[c].request = r
                  /\ z.clients[c].conn = w.clients[c].conn
                  /\ z.clients[c].state = "waiting_response"
                  /\ ~z.clients[c].should_read_from_cache
                  /\ ~z.clients[c].should_write_to_cache
<1>. DEFINE L  == Len(w.map[r])
            n  == FallbackTurns(w, r)
            z  == Fallback(w, c, chunk)
            S1 == FirstListed(w, r, Least(n + 1, L))
            S2 == FirstListed(w, r, n)
            buffer == w.cache.entry[r].buffer
            y1 == [d \in Client |-> IF d \in S1 THEN LeaveCache(w.clients[d])
                                    ELSE w.clients[d]]
            More(cl) == cl.chunks \o Rest(buffer, Len(cl.sent)) \o <<chunk>>
            y2 == [d \in Client |-> IF d \in S2
                                    THEN [y1[d] EXCEPT !.chunks = More(y1[d])]
                                    ELSE y1[d]]
            d2 == IF n = 0 THEN w.cache ELSE DisuseTimes(w.cache, r, n)
            v  == [clients |-> y2, map |-> w.map, cache |-> d2,
                   stranded |-> w.stranded]
<1>1. /\ w = [clients |-> w.clients, map |-> w.map, cache |-> w.cache,
              stranded |-> w.stranded]
      /\ w.clients \in [Client -> ClientRecord \cup {NoClient}]
      /\ w.cache \in CacheValue
      /\ w.clients[c] # NoClient /\ w.clients[c].request = r
  BY DEF World, IsOf
<1>2. L \in Nat /\ \A i \in 1..L : w.map[r][i] \in Client /\ IsOf(w, w.map[r][i], r)
  BY DEF Elements
<1>3. n \in 0..L /\ (FallbackThrows(w, r) <=> n < L) /\ (n > 0 => Contains(w.cache, r))
  <2>. HIDE DEF L
  <2>1. \/ n = 0
        \/ Contains(w.cache, r) /\ n = L
        \/ Contains(w.cache, r) /\ n = Least(L, w.cache.entry[r].in_use)
    BY DEF FallbackTurns, L
  <2>2. n \in 0..L /\ (n > 0 => Contains(w.cache, r))
    BY <1>2, <2>1 DEF Least
  <2>. QED
    BY <2>2 DEF FallbackThrows, L
<1>. HIDE DEF n, L
<1>4. /\ \A d \in S1 : d \in Client /\ IsOf(w, d, r)
      /\ \A d \in S2 : d \in S1
      /\ n = L => S1 = Elements(w.map[r])
  <2>1. Least(n + 1, L) \in 0..L /\ n <= Least(n + 1, L) /\ (n = L => Least(n + 1, L) = L)
    BY <1>2, <1>3 DEF Least
  <2>2. /\ 1..Least(n + 1, L) \subseteq 1..L /\ 1..n \subseteq 1..Least(n + 1, L)
        /\ n = L => 1..Least(n + 1, L) = 1..L
    BY <1>2, <1>3, <2>1
  <2>3. DOMAIN w.map[r] = 1..L
    BY DEF L
  <2>. QED
    BY <1>2, <2>2, <2>3 DEF FirstListed, Elements
<1>5. v = LET entered == ForEach(w, S1, LeaveCache)
              served  == ForEach(entered, S2, LAMBDA cl : [cl EXCEPT !.chunks =
                                  @ \o Rest(buffer, Len(cl.sent)) \o <<chunk>>])
          IN  IF n = 0 THEN served
              ELSE [served EXCEPT !.cache = DisuseTimes(@, r, n)]
  <2>. DEFINE e == [clients |-> y1, map |-> w.map, cache |-> w.cache,
                    stranded |-> w.stranded]
              s == [clients |-> y2, map |-> w.map, cache |-> w.cache,
                    stranded |-> w.stranded]
  <2>1. ForEach(w, S1, LeaveCache) = [w EXCEPT !.clients = y1]
    BY DEF ForEach
  <2>. HIDE DEF S1, S2, y1
  <2>2. [w EXCEPT !.clients = y1] = e
    BY Replaced
  <2>3. e.clients = y1 /\ e.cache = w.cache
    OBVIOUS
  <2>. HIDE DEF e
  <2>4. ForEach(e, S2, LAMBDA cl : [cl EXCEPT !.chunks =
                           @ \o Rest(buffer, Len(cl.sent)) \o <<chunk>>])
          = [e EXCEPT !.clients = y2]
    BY <2>3 DEF ForEach
  <2>. HIDE DEF y2
  <2>5. [e EXCEPT !.clients = y2] = s
    BY Rebuilt DEF e
  <2>6. [s EXCEPT !.cache = DisuseTimes(@, r, n)]
          = [clients |-> y2, map |-> w.map, cache |-> DisuseTimes(w.cache, r, n),
             stranded |-> w.stranded]
    <3>. DEFINE dd == DisuseTimes(w.cache, r, n)
    <3>1. [s EXCEPT !.cache = DisuseTimes(@, r, n)] = [s EXCEPT !.cache = dd]
      OBVIOUS
    <3>. HIDE DEF dd
    <3>2. [s EXCEPT !.cache = dd] = [clients |-> y2, map |-> w.map, cache |-> dd,
             stranded |-> w.stranded]
      BY ONLY Rebuilt
    <3>. QED
      BY <3>1, <3>2 DEF dd
  <2>7. v = IF n = 0 THEN s ELSE [s EXCEPT !.cache = DisuseTimes(@, r, n)]
    BY <2>6
  <2>. HIDE DEF v, s, y2
  <2>. QED
    BY <2>1, <2>2, <2>4, <2>5, <2>7, ZenonT(60)
<1>6. z = IF FallbackThrows(w, r) THEN v
          ELSE [v EXCEPT !.clients[c].should_write_to_cache = FALSE,
                         !.clients[c].should_write_to_all = TRUE,
                         !.clients[c].state = "waiting_response"]
  <2>. HIDE DEF v
  <2>. QED
    BY <1>1, <1>5 DEF Fallback, n, L
<1>7. \A d \in Client : d \notin S1 => y2[d] = w.clients[d]
  BY <1>4
<1>8. ASSUME NEW d \in S1 PROVE OutOfCache(w.clients[d], y2[d]) /\ w.clients[d].request = r
  <2>. DEFINE cl == w.clients[d]
              k  == LeaveCache(cl)
  <2>1. d \in Client /\ cl \in ClientRecord /\ cl.request = r
    BY <1>1, <1>4 DEF IsOf
  <2>. HIDE DEF cl
  <2>2. k \in ClientRecord /\ OutOfCache(cl, k)
    <3>1. <<>> \in Seq(Seq(Block))
      OBVIOUS
    <3>. QED
      BY <2>1, <3>1, LeaveCacheFacts DEF OutOfCache
  <2>3. y1[d] = k
    BY <1>8, <2>1 DEF cl
  <2>4. CASE d \notin S2
    BY <2>1, <2>2, <2>3, <2>4 DEF cl
  <2>5. CASE d \in S2
    <3>1. n > 0
      BY <1>2, <1>3, <2>5 DEF FirstListed
    <3>2. buffer \in Seq(Block)
      BY <1>1, <1>3, <3>1 DEF CacheValue, Contains, Entry
    <3>3. Len(k.sent) \in Nat /\ k.chunks \in Seq(Seq(Block))
      BY <2>2 DEF ClientRecord
    <3>. HIDE DEF buffer, k
    <3>4. More(k) \in Seq(Seq(Block))
      <4>1. Rest(buffer, Len(k.sent)) \in Seq(Seq(Block)) /\ <<chunk>> \in Seq(Seq(Block))
        <5>. DEFINE m == Len(k.sent)
        <5>1. m \in Nat
          BY <3>3
        <5>. HIDE DEF m
        <5>2. Rest(buffer, m) \in Seq(Seq(Block))
          BY <3>2, <5>1, RestIsChunks
        <5>3. <<chunk>> \in Seq(Seq(Block))
          OBVIOUS
        <5>. QED
          BY <5>2, <5>3 DEF m
      <4>. QED
        BY <3>3, <4>1
    <3>5. y2[d] = [k EXCEPT !.chunks = More(k)]
      BY <2>1, <2>3, <2>5
    <3>. HIDE DEF More, y2
    <3>6. OutOfCache(cl, [k EXCEPT !.chunks = More(k)])
      <4>. DEFINE more == More(k)
      <4>. HIDE DEF more
      <4>1. more \in Seq(Seq(Block))
        BY <3>4 DEF more
      <4>2. OutOfCache(cl, [LeaveCache(cl) EXCEPT !.chunks = more])
        BY <2>1, <4>1, LeaveCacheFacts DEF OutOfCache
      <4>. QED
        BY <4>2 DEF more, k
    <3>. QED
      BY <2>1, <3>5, <3>6 DEF cl
  <2>. QED
    BY <2>4, <2>5
<1>9. y2 \in [Client -> ClientRecord \cup {NoClient}]
  <2>1. \A d \in Client : y2[d] \in ClientRecord \cup {NoClient}
    BY ONLY <1>1, <1>7, <1>8 DEF OutOfCache
  <2>2. DOMAIN y2 = Client /\ y2 = [d \in Client |-> y2[d]]
    OBVIOUS
  <2>. HIDE DEF y2
  <2>. QED
    BY <2>1, <2>2
<1>10. /\ \A d \in Client : ~IsOf(w, d, r) => y2[d] = w.clients[d]
       /\ \A d \in Client : IsOf(w, d, r) =>
            y2[d] = w.clients[d] \/ OutOfCache(w.clients[d], y2[d])
       /\ n = L => \A d \in Client : IsOf(w, d, r) => OutOfCache(w.clients[d], y2[d])
  BY <1>4, <1>7, <1>8
<1>. HIDE DEF y2, d2, S1, S2
<1>11. CASE n < L
  <2>1. z = v
    BY <1>3, <1>6, <1>11
  <2>2. /\ z = [clients |-> z.clients, map |-> z.map, cache |-> z.cache,
                stranded |-> z.stranded]
        /\ z.clients = y2 /\ z.map = w.map /\ z.stranded = w.stranded /\ z.cache = d2
    BY <2>1
  <2>3. n # L
    BY <1>2, <1>3, <1>11
  <2>. QED
    BY <1>3, <1>9, <1>10, <1>11, <2>2, <2>3 DEF n, L, z, d2
<1>12. CASE n = L
  <2>. DEFINE k == [y2[c] EXCEPT !.should_write_to_cache = FALSE,
                                 !.should_write_to_all = TRUE,
                                 !.state = "waiting_response"]
              y3 == [y2 EXCEPT ![c] = k]
  <2>1. OutOfCache(w.clients[c], y2[c])
    BY <1>10, <1>12
  <2>2. /\ k \in ClientRecord /\ k.request = r /\ k.conn = w.clients[c].conn
        /\ k.state = "waiting_response"
        /\ ~k.should_read_from_cache /\ ~k.should_write_to_cache
    BY <1>1, <2>1 DEF OutOfCache, ClientRecord, State
  <2>3. ~FallbackThrows(w, r)
    BY <1>2, <1>3, <1>12
  <2>4. z = [v EXCEPT !.clients[c].should_write_to_cache = FALSE,
                      !.clients[c].should_write_to_all = TRUE,
                      !.clients[c].state = "waiting_response"]
    BY <1>6, <2>3
  <2>5. z = [v EXCEPT !.clients = y3]
    <3>1. v.clients = y2 /\ c \in DOMAIN y2 /\ DOMAIN y2 = Client
      BY <1>9
    <3>. HIDE DEF v
    <3>2. [v EXCEPT !.clients[c].should_write_to_cache = FALSE,
                    !.clients[c].should_write_to_all = TRUE,
                    !.clients[c].state = "waiting_response"] = [v EXCEPT !.clients = y3]
      BY <3>1
    <3>. QED
      BY <2>4, <3>2
  <2>6. /\ y3 \in [Client -> ClientRecord \cup {NoClient}] /\ y3[c] = k
        /\ \A d \in Client \ {c} : y3[d] = y2[d]
    <3>. HIDE DEF k
    <3>. QED
      BY <1>9, <2>2
  <2>. HIDE DEF y3, k
  <2>7. z = [clients |-> y3, map |-> w.map, cache |-> d2, stranded |-> w.stranded]
    BY <2>5, Rebuilt
  <2>. HIDE DEF z, v
  <2>8. /\ z = [clients |-> z.clients, map |-> z.map, cache |-> z.cache,
                stranded |-> z.stranded]
        /\ z.clients = y3 /\ z.map = w.map /\ z.stranded = w.stranded /\ z.cache = d2
    BY <2>7
  <2>9. ~(n < L)
    BY <1>2, <1>3, <1>12
  <2>10. \A d \in Client : ~IsOf(w, d, r) => z.clients[d] = w.clients[d]
    BY <1>10, <2>6, <2>8
  <2>11. \A d \in Client \ {c} : IsOf(w, d, r) => OutOfCache(w.clients[d], z.clients[d])
    BY <1>10, <1>12, <2>6, <2>8
  <2>. QED
    BY <1>3, <2>2, <2>6, <2>8, <2>9, <2>10, <2>11 DEF n, L, z, d2
<1>. QED
  <2>1. n < L \/ n = L
    BY <1>2, <1>3
  <2>. QED
    BY <1>11, <1>12, <2>1 DEF n, L, z

----------------------------------------------------------------------------
(* What is read from an origin.                                            *)

LEMMA ContinuesIsPart ==
  ASSUME NEW conn \in Connection, NEW buffer \in Seq(Block),
         ConnOk(conn), Continues(conn, buffer)
  PROVE  PartOfOne(buffer)
<1>. DEFINE a == conn.answer
            m == Len(buffer)
            n == conn.pos - m
<1>1. /\ a \in {"ok", "error"} /\ DOMAIN Body = {"ok", "error"}
      /\ m \in Nat /\ conn.pos \in Nat /\ m <= conn.pos /\ Len(Body[a]) \in Nat
      /\ conn.pos <= Len(Body[a])
      /\ buffer = SubSeq(Body[a], conn.pos - m + 1, conn.pos)
  BY ServerAssumption DEF Connection, ConnOk, Continues
<1>. HIDE DEF m, a
<1>2. n \in 0..(Len(Body[a]) - m) /\ n + m = conn.pos
  <2>. DEFINE p == conn.pos
              N == Len(Body[a])
  <2>1. m \in Nat /\ p \in Nat /\ N \in Nat /\ m <= p /\ p <= N
    BY <1>1
  <2>. HIDE DEF p, N
  <2>2. p - m \in 0..(N - m) /\ (p - m) + m = p
    BY <2>1
  <2>. QED
    BY <2>2 DEF p, N
<1>3. buffer = SubSeq(Body[a], n + 1, n + m)
  BY <1>1, <1>2
<1>. HIDE DEF n
<1>. QED
  BY <1>1, <1>2, <1>3 DEF PartOfOne, m

LEMMA ContinuesFurther ==
  ASSUME NEW conn \in Connection, NEW next \in Connection, NEW buffer \in Seq(Block),
         NEW len \in Nat, Continues(conn, buffer), next.answer = conn.answer,
         next.pos = conn.pos + len, ConnOk(next)
  PROVE  Continues(next, buffer \o SubSeq(Body[conn.answer], conn.pos + 1, next.pos))
<1>. DEFINE a == conn.answer
            s == Body[a]
            p == conn.pos
            m == Len(buffer)
            chunk == SubSeq(s, p + 1, next.pos)
<1>1. /\ a \in {"ok", "error"} /\ s \in Seq(Block) /\ a # "unknown"
      /\ m \in Nat /\ p \in Nat /\ m <= p /\ next.pos = p + len
      /\ Len(s) \in Nat /\ p + len <= Len(s)
      /\ buffer = SubSeq(s, p - m + 1, p)
  BY ServerAssumption DEF Connection, ConnOk, Continues
<1>2. chunk \in Seq(Block) /\ Len(chunk) = len
  <2>. HIDE DEF s, p
  <2>1. /\ p + 1 \in Int /\ p + len \in Int
        /\ \A j \in (p + 1)..(p + len) : s[j] \in Block
    BY <1>1
  <2>2. /\ SubSeq(s, p + 1, p + len) \in Seq(Block)
        /\ Len(SubSeq(s, p + 1, p + len)) =
             IF p + 1 <= p + len THEN (p + len) - (p + 1) + 1 ELSE 0
    BY <2>1, SubSeqProperties
  <2>3. (IF p + 1 <= p + len THEN (p + len) - (p + 1) + 1 ELSE 0) = len
    BY <1>1
  <2>. QED
    BY <1>1, <2>2, <2>3
<1>3. Len(buffer \o chunk) = m + len
  BY <1>2
<1>4. buffer \o chunk = SubSeq(s, p - m + 1, p + len)
  <2>. HIDE DEF s, p, m
  <2>1. /\ p - m + 1 \in 1..(Len(s) + 1) /\ p \in (p - m + 1 - 1)..Len(s)
        /\ p + len \in p..Len(s)
    BY <1>1
  <2>2. SubSeq(s, p - m + 1, p) \o SubSeq(s, p + 1, p + len)
          = SubSeq(s, p - m + 1, p + len)
    BY <1>1, <2>1, ConcatAdjacentSubSeq
  <2>. QED
    BY <1>1, <2>2
<1>5. /\ m + len <= next.pos /\ next.pos - (m + len) + 1 = p - m + 1
      /\ next.answer # "unknown" /\ next.answer = a
  <2>. HIDE DEF m, p
  <2>. QED
    BY <1>1
<1>. HIDE DEF m, chunk
<1>. QED
  BY <1>1, <1>3, <1>4, <1>5 DEF Continues, chunk

(* A chunk, and the client once it was read. *)
HasRead(cl, rd) ==
  [cl EXCEPT !.conn = [answer |-> rd.answer, pos |-> @.pos + rd.len, alive |-> TRUE]]

LEMMA ReadingFacts ==
  ASSUME NEW cl \in ClientRecord, ClientOk(cl), cl.state \in Fetching,
         NEW rd \in Reading(cl)
  PROVE  LET k     == HasRead(cl, rd)
             chunk == ChunkRead(cl, rd)
         IN  /\ k \in ClientRecord /\ ClientOk(k)
             /\ k.request = cl.request /\ k.state = cl.state
             /\ k.should_read_from_cache = cl.should_read_from_cache
             /\ k.should_write_to_cache = cl.should_write_to_cache
             /\ k.conn \in Connection /\ ConnOk(k.conn)
             /\ chunk \in Seq(Block)
             /\ Continues(k.conn, chunk)
             /\ \A buffer \in Seq(Block) :
                  Continues(cl.conn, buffer) => Continues(k.conn, buffer \o chunk)
<1>. DEFINE k     == HasRead(cl, rd)
            chunk == ChunkRead(cl, rd)
            conn  == cl.conn
            next  == [answer |-> rd.answer, pos |-> conn.pos + rd.len, alive |-> TRUE]
            s     == Body[rd.answer]
<1>1. conn \in Connection /\ conn # NoConn
  BY DEF ClientOk, ClientRecord
<1>2. /\ rd.answer \in {"ok", "error"} /\ rd.len \in Nat /\ conn.pos \in Nat
      /\ conn.pos + rd.len <= Len(s) /\ s \in Seq(Block) /\ Len(s) \in Nat
      /\ conn.answer # "unknown" => rd.answer = conn.answer
  BY <1>1, ServerAssumption DEF Reading, Connection
<1>3. next \in Connection /\ ConnOk(next) /\ next # NoConn
  <2>1. conn.pos + rd.len \in Nat
    BY <1>2
  <2>2. next \in Connection
    BY <1>2, <2>1 DEF Connection
  <2>3. ConnOk(next)
    BY <1>2 DEF ConnOk
  <2>. QED
    BY <2>2, <2>3, MarkerAssumption
<1>4. /\ next.answer = rd.answer /\ next.pos = conn.pos + rd.len
  OBVIOUS
<1>. HIDE DEF next
<1>5. /\ k \in ClientRecord /\ k.request = cl.request /\ k.state = cl.state
      /\ k.should_read_from_cache = cl.should_read_from_cache
      /\ k.should_write_to_cache = cl.should_write_to_cache
      /\ k.conn = next
  <2>1. k = [cl EXCEPT !.conn = next]
    BY DEF HasRead, next
  <2>. HIDE DEF k
  <2>. QED
    BY <1>3, <2>1 DEF ClientRecord
<1>. HIDE DEF k
<1>6. ClientOk(k)
  BY <1>3, <1>5 DEF ClientOk, Fetching
<1>. HIDE DEF s
<1>7. /\ chunk \in Seq(Block) /\ Len(chunk) = rd.len
      /\ chunk = SubSeq(s, conn.pos + 1, conn.pos + rd.len)
  <2>. DEFINE p == conn.pos
              n == rd.len
  <2>1. chunk = SubSeq(s, p + 1, p + n) /\ p \in Nat /\ n \in Nat /\ p + n <= Len(s)
    BY <1>2 DEF ChunkRead, s
  <2>. HIDE DEF p, n, chunk
  <2>2. /\ p + 1 \in Int /\ p + n \in Int
        /\ \A j \in (p + 1)..(p + n) : s[j] \in Block
    BY <1>2, <2>1
  <2>3. /\ SubSeq(s, p + 1, p + n) \in Seq(Block)
        /\ Len(SubSeq(s, p + 1, p + n)) =
             IF p + 1 <= p + n THEN (p + n) - (p + 1) + 1 ELSE 0
    BY <2>2, SubSeqProperties
  <2>4. (IF p + 1 <= p + n THEN (p + n) - (p + 1) + 1 ELSE 0) = n
    BY <2>1
  <2>. QED
    BY <2>1, <2>3, <2>4 DEF p, n
<1>. HIDE DEF chunk
<1>8. Continues(next, chunk)
  <2>1. /\ rd.len <= next.pos /\ next.pos - rd.len + 1 = conn.pos + 1
        /\ next.answer # "unknown" /\ next.answer = rd.answer
    BY <1>2, <1>4
  <2>. QED
    BY <1>4, <1>7, <2>1 DEF Continues, s
<1>9. ASSUME NEW buffer \in Seq(Block), Continues(conn, buffer)
      PROVE  Continues(next, buffer \o chunk)
  <2>1. rd.answer = conn.answer
    BY <1>2, <1>9 DEF Continues
  <2>2. Continues(next, buffer \o SubSeq(Body[conn.answer], conn.pos + 1, next.pos))
    BY <1>1, <1>2, <1>3, <1>4, <1>9, <2>1, ContinuesFurther
  <2>. QED
    BY <1>4, <1>7, <2>1, <2>2 DEF s
<1>. QED
  BY <1>3, <1>5, <1>6, <1>7, <1>8, <1>9 DEF k, chunk

----------------------------------------------------------------------------
(* readResponseStatusCodeFromServer.                                       *)

LEMMA StatusIsErrorIsGood ==
  ASSUME NEW w, NEW c \in Client, NEW r \in Key, Good(w, {}), IsOf(w, c, r),
         w.clients[c].state = "waiting_response_status_code",
         NEW chunk \in Seq(Block), StatusIsError(w, c, chunk)
  PROVE  \E z : Good(z, {}) /\ Becomes(z)
<1>. DEFINE k  == [w.clients[c] EXCEPT !.chunks = Append(@, chunk)]
            v  == BufferChunk(w, {c}, chunk)
            k2 == [k EXCEPT !.state = "waiting_response"]
<1>1. /\ w.clients[c] \in ClientRecord /\ ClientOk(w.clients[c]) /\ w.clients[c].request = r
      /\ w.clients \in [Client -> ClientRecord \cup {NoClient}] /\ w \in World
      /\ ~Contains(w.cache, r)
  BY WorldFacts, NoEntryYet DEF IsOf
<1>2. /\ k \in ClientRecord /\ k.request = r /\ k.state = "waiting_response_status_code"
      /\ k.should_read_from_cache = w.clients[c].should_read_from_cache
      /\ k.should_write_to_cache = w.clients[c].should_write_to_cache
      /\ k.conn = w.clients[c].conn
  <2>. DEFINE more == Append(w.clients[c].chunks, chunk)
  <2>1. more \in Seq(Seq(Block))
    BY <1>1 DEF ClientRecord
  <2>2. k = [w.clients[c] EXCEPT !.chunks = more]
    OBVIOUS
  <2>. HIDE DEF more, k
  <2>. QED
    BY <1>1, <2>1, <2>2 DEF ClientRecord
<1>3. v = [w EXCEPT !.clients[c] = k]
  <2>. DEFINE y == [d \in Client |-> IF d \in {c} THEN [w.clients[d] EXCEPT
                                       !.chunks = Append(@, chunk)] ELSE w.clients[d]]
  <2>1. v = [w EXCEPT !.clients = y]
    BY DEF BufferChunk, ForEach
  <2>2. y = [w.clients EXCEPT ![c] = k]
    <3>1. y[c] = k /\ \A d \in Client \ {c} : y[d] = w.clients[d]
      OBVIOUS
    <3>2. DOMAIN y = Client /\ y = [d \in Client |-> y[d]]
      OBVIOUS
    <3>. HIDE DEF y, k
    <3>. QED
      BY <1>1, <3>1, <3>2
  <2>. HIDE DEF y, k, v
  <2>. QED
    BY <2>1, <2>2
<1>. HIDE DEF k
<1>4. ClientOk(k)
  BY <1>1, <1>2 DEF ClientOk, Fetching
<1>5. /\ k2 \in ClientRecord /\ k2.request = r /\ ClientOk(k2)
      /\ k2.should_read_from_cache = k.should_read_from_cache
      /\ k2.should_write_to_cache = k.should_write_to_cache
  <2>1. /\ k2 \in ClientRecord /\ k2.request = r /\ k2.state = "waiting_response"
        /\ k2.conn = k.conn
        /\ k2.should_read_from_cache = k.should_read_from_cache
        /\ k2.should_write_to_cache = k.should_write_to_cache
    BY <1>2 DEF ClientRecord, State
  <2>. HIDE DEF k2
  <2>2. k.conn # NoConn /\ ConnOk(k.conn) /\ r # NoRequest
    BY <1>1, <1>2, ServerAssumption DEF ClientOk, Fetching
  <2>. QED
    BY <2>1, <2>2 DEF ClientOk
<1>. DEFINE None == {}
<1>6. None \in SUBSET {c} /\ Good(w, None) /\ c \notin None /\ None \subseteq {c}
  OBVIOUS
<1>. HIDE DEF None, k2
<1>7. Good(v, None) /\ IsOf(v, c, r) /\ v.clients[c] = k /\ v.cache = w.cache
  <2>. HIDE DEF v
  <2>. QED
    BY <1>1, <1>2, <1>3, <1>4, <1>6, ChangeOneAbsent
<1>8. PICK n : LET u == PrepareWaiting(v, r, n)
               IN  IF AllPrepared(v, r, n)
                   THEN Becomes([u EXCEPT !.clients[c].state = "waiting_response"])
                   ELSE RecoverFromStatusError(u, c)
  BY <1>1 DEF StatusIsError
<1>. DEFINE u == PrepareWaiting(v, r, n)
<1>. HIDE DEF v
<1>9. /\ Good(u, None) /\ IsOf(u, c, r) /\ u.clients[c] = k /\ u.cache = w.cache
  <2>1. ~Contains(v.cache, r)
    BY <1>1, <1>7
  <2>2. k.state # "waiting_for_response_for_another_client"
    BY <1>2
  <2>. QED
    BY <1>6, <1>7, <2>1, <2>2, PrepareIsGood
<1>. HIDE DEF u
<1>10. Good([u EXCEPT !.clients[c] = k2], None) /\ Good(u, {c})
  <2>1. ~Contains(u.cache, r)
    BY <1>1, <1>9
  <2>2. Good(u, {c})
    BY <1>6, <1>9, GoodWeakens
  <2>. QED
    BY <1>5, <1>6, <1>9, <2>1, <2>2, ChangeOneAbsent
<1>11. [u EXCEPT !.clients[c].state = "waiting_response"] = [u EXCEPT !.clients[c] = k2]
  BY <1>9 DEF k2
<1>12. CASE RecoverFromStatusError(u, c)
  BY <1>1, <1>9, <1>10, <1>12, RecoverIsGood
<1>. QED
  BY <1>8, <1>10, <1>11, <1>12 DEF u, None

LEMMA UsedTimes ==
  ASSUME NEW k, NEW x0 \in Nat, Sound(k, x0), NEW r \in Present(k), NEW n \in Nat
  PROVE  LET d == UseTimes(k, r, n)
         IN  /\ d \in CacheValue
             /\ \A x \in Nat : Sound(k, x) => Sound(d, x)
             /\ \A q \in Key \ {r} : d.entry[q] = k.entry[q]
             /\ Contains(d, r)
             /\ d.entry[r].in_use = k.entry[r].in_use + n
             /\ d.entry[r].buffer = k.entry[r].buffer
             /\ d.entry[r].completed = k.entry[r].completed
<1>. DEFINE d == UseTimes(k, r, n)
            e == [k.entry[r] EXCEPT !.in_use = @ + n]
            t == UseEntry(k, r)
<1>1. /\ r \in Key /\ k.entry[r] \in Entry /\ k \in CacheValue /\ Contains(k, r)
      /\ k.entry[r].in_use \in Nat
      /\ k.entry \in [Key -> Entry \cup {NoEntry}]
  BY DEF Sound, WellFormed, Present, Contains, CacheValue
<1>2. CASE n = 0
  <2>1. d = k
    BY <1>2 DEF UseTimes
  <2>. QED
    BY <1>1, <1>2, <2>1
<1>3. CASE n # 0
  <2>1. d = TouchAndSet(k, r, e)
    <3>1. Touch(k, r).entry = k.entry
      BY TouchOrder DEF Sound
    <3>2. t = TouchAndSet(k, r, [k.entry[r] EXCEPT !.in_use = @ + 1])
      BY <1>1, <3>1 DEF UseEntry, TouchAndSet
    <3>3. d = [t EXCEPT !.entry[r].in_use = @ + n - 1]
      BY <1>3 DEF UseTimes
    <3>. DEFINE T  == Touch(k, r)
                e1 == [k.entry[r] EXCEPT !.in_use = @ + 1]
                f1 == [k.entry EXCEPT ![r] = e1]
                f  == [k.entry EXCEPT ![r] = e]
    <3>4. T \in CacheValue
      BY TouchOrder DEF Sound
    <3>5. e = [e1 EXCEPT !.in_use = @ + n - 1]
      <4>. DEFINE u == k.entry[r].in_use
      <4>1. /\ u + 1 + n - 1 = u + n
            /\ e1 = [k.entry[r] EXCEPT !.in_use = u + 1]
            /\ e = [k.entry[r] EXCEPT !.in_use = u + n]
        BY <1>1
      <4>2. e1 \in Entry /\ e1.in_use = u + 1
        BY <1>1 DEF Entry
      <4>3. [e1 EXCEPT !.in_use = @ + n - 1] = [e1 EXCEPT !.in_use = u + n]
        BY <4>1, <4>2
      <4>. HIDE DEF e, e1, u
      <4>4. [e1 EXCEPT !.in_use = u + n] = [k.entry[r] EXCEPT !.in_use = u + n]
        BY <1>1, <4>1 DEF Entry
      <4>. QED
        BY <4>1, <4>3, <4>4
    <3>. HIDE DEF e, e1
    <3>6. f = [f1 EXCEPT ![r].in_use = @ + n - 1]
      BY <1>1, <3>5
    <3>. HIDE DEF f, f1, T, t, d
    <3>7. t = [T EXCEPT !.entry = f1]
      BY <3>1, <3>2 DEF TouchAndSet, T, f1, e1
    <3>8. t.entry = f1
      BY <3>4, <3>7 DEF CacheValue
    <3>9. d = [t EXCEPT !.entry = f]
      BY <3>3, <3>6, <3>8
    <3>10. d = [T EXCEPT !.entry = f]
      BY <3>4, <3>7, <3>9 DEF CacheValue
    <3>. QED
      BY <3>1, <3>10 DEF TouchAndSet, T, f
  <2>2. /\ e \in Entry /\ e.in_use = k.entry[r].in_use + n /\ e.in_use \in Nat
        /\ e.buffer = k.entry[r].buffer /\ e.completed = k.entry[r].completed
    BY <1>1 DEF Entry
  <2>. HIDE DEF e, d
  <2>3. \A x \in Nat : Sound(k, x) => Sound(d, x) /\ d.entry = [k.entry EXCEPT ![r] = e]
    BY <2>1, <2>2, TouchAndSetSound
  <2>4. Sound(d, x0) /\ d.entry = [k.entry EXCEPT ![r] = e]
    BY <2>3
  <2>5. d \in CacheValue
    BY <2>4 DEF Sound, WellFormed
  <2>6. d.entry[r] = e /\ \A q \in Key \ {r} : d.entry[q] = k.entry[q]
    BY <1>1, <2>4
  <2>7. Contains(d, r)
    BY <2>2, <2>6, CacheAssumption DEF Contains
  <2>. QED
    BY <2>2, <2>3, <2>5, <2>6, <2>7 DEF d
<1>. QED
  BY <1>2, <1>3

(* All clients of the request but c are told to read from the cache, and   *)
(* c goes on reading the response.                                         *)
ReadsOn(cl) == [cl EXCEPT !.state = "waiting_response"]

Shared(v, c) ==
  [SetOthersToGetResponseFromCache(v, c) EXCEPT !.clients[c].state = "waiting_response"]

LEMMA SharedFacts ==
  ASSUME NEW v \in World, NEW c \in Client, NEW r \in Key, IsOf(v, c, r),
         OnceEach(v.map[r]),
         \A d \in Client : d \in Elements(v.map[r]) <=> IsOf(v, d, r)
  PROVE  LET z == Shared(v, c)
             n == Len(v.map[r]) - 1
             k == ReadsOn(v.clients[c])
         IN  /\ n \in Nat
             /\ z = [clients |-> z.clients, map |-> v.map,
                     cache |-> UseTimes(v.cache, r, n), stranded |-> v.stranded]
             /\ z.clients \in [Client -> ClientRecord \cup {NoClient}]
             /\ z.clients[c] = k
             /\ \A d \in Client \ {c} :
                  z.clients[d] = IF IsOf(v, d, r) THEN GetResponseFromCache(v.clients[d])
                                 ELSE v.clients[d]
<1>. DEFINE z == Shared(v, c)
            n == Len(v.map[r]) - 1
            k == ReadsOn(v.clients[c])
            others == Listed(v, r) \ {c}
            y == [d \in Client |-> IF d \in others THEN GetResponseFromCache(v.clients[d])
                                   ELSE v.clients[d]]
            m == UseTimes(v.cache, r, n)
            s == SetOthersToGetResponseFromCache(v, c)
            y2 == [y EXCEPT ![c] = k]
<1>1. /\ v.clients \in [Client -> ClientRecord \cup {NoClient}]
      /\ v.map[r] \in Seq(Client) /\ v.clients[c].request = r
      /\ v.clients[c] \in ClientRecord
  BY DEF World, IsOf
<1>2. /\ others = Elements(v.map[r]) \ {c} /\ c \in Elements(v.map[r])
      /\ \A d \in Client \ {c} : d \in others <=> IsOf(v, d, r)
  BY DEF Listed, Elements
<1>3. n = Cardinality(others) /\ n \in Nat
  <2>1. /\ IsFiniteSet(Elements(v.map[r]))
        /\ Cardinality(Elements(v.map[r])) = Len(v.map[r])
    BY <1>1, OnceEachCounts
  <2>2. /\ IsFiniteSet(Elements(v.map[r]) \ {c})
        /\ Cardinality(Elements(v.map[r]) \ {c}) = Cardinality(Elements(v.map[r])) - 1
    BY <1>2, <2>1, FS_RemoveElement
  <2>. QED
    BY <1>2, <2>1, <2>2, FS_CardinalityType
<1>. HIDE DEF others, n, k
<1>4. s = [clients |-> y, map |-> v.map, cache |-> m, stranded |-> v.stranded]
  <2>. DEFINE f == [clients |-> y, map |-> v.map, cache |-> v.cache,
                    stranded |-> v.stranded]
  <2>1. s = [ForEach(v, others, GetResponseFromCache)
               EXCEPT !.cache = UseTimes(@, r, n)]
    BY <1>1, <1>3 DEF SetOthersToGetResponseFromCache, others
  <2>2. ForEach(v, others, GetResponseFromCache) = [v EXCEPT !.clients = y]
    BY DEF ForEach
  <2>. HIDE DEF y, m, s
  <2>3. [v EXCEPT !.clients = y] = f
    BY Replaced
  <2>4. s = [f EXCEPT !.cache = m]
    BY <2>1, <2>2, <2>3 DEF m
  <2>5. [f EXCEPT !.cache = m] = [clients |-> y, map |-> v.map, cache |-> m,
                                  stranded |-> v.stranded]
    BY Rebuilt
  <2>. QED
    BY <2>4, <2>5
<1>5. ASSUME NEW d \in Client
      PROVE  /\ y[d] \in ClientRecord \cup {NoClient}
             /\ d # c => y[d] = IF IsOf(v, d, r) THEN GetResponseFromCache(v.clients[d])
                                ELSE v.clients[d]
             /\ d = c => y[d] = v.clients[c]
  <2>1. IsOf(v, d, r) => GetResponseFromCache(v.clients[d]) \in ClientRecord
    <3>1. v.clients[d] \in ClientRecord \cup {NoClient}
      BY <1>1
    <3>. QED
      BY <3>1, UpdateFacts DEF IsOf
  <2>. QED
    BY <1>1, <1>2, <2>1 DEF others
<1>6. y \in [Client -> ClientRecord \cup {NoClient}]
  <2>1. DOMAIN y = Client /\ y = [d \in Client |-> y[d]]
    OBVIOUS
  <2>. HIDE DEF y
  <2>. QED
    BY <1>5, <2>1
<1>7. k \in ClientRecord
  BY <1>1 DEF k, ReadsOn, ClientRecord, State
<1>. HIDE DEF y, m, s
<1>8. /\ y2 \in [Client -> ClientRecord \cup {NoClient}] /\ y2[c] = k
      /\ \A d \in Client \ {c} : y2[d] = y[d]
  BY <1>6, <1>7
<1>9. z = [s EXCEPT !.clients = y2]
  <2>1. s.clients = y /\ y[c] = v.clients[c]
    BY <1>4, <1>5
  <2>2. [s EXCEPT !.clients[c].state = "waiting_response"] = [s EXCEPT !.clients = y2]
    BY <2>1 DEF k, ReadsOn
  <2>. QED
    BY <2>2 DEF s, Shared
<1>. HIDE DEF y2, z
<1>10. z = [clients |-> y2, map |-> v.map, cache |-> m, stranded |-> v.stranded]
  BY <1>4, <1>9, Rebuilt
<1>11. z.clients = y2
  BY <1>10
<1>. QED
  BY <1>3, <1>5, <1>8, <1>10, <1>11 DEF z, n, k, m

(* A client who left the cache is sound by himself. *)
LEMMA OutOfCacheOk ==
  ASSUME NEW k, NEW l, OutOfCache(k, l), k.request # NoRequest,
         k.conn # NoConn => ConnOk(k.conn)
  PROVE  ClientOk(l)
BY DEF OutOfCache, ClientOk, Fetching

(* The first chunk of a response is written: the entry is shared. *)
LEMMA FirstChunkIsGood ==
  ASSUME NEW w, NEW c \in Client, NEW r \in Key, Good(w, {}), IsOf(w, c, r),
         w.clients[c].state = "waiting_response_status_code",
         NEW chunk \in Seq(Block), Continues(w.clients[c].conn, chunk),
         NEW k, k = [w.clients[c] EXCEPT !.should_write_to_cache = TRUE,
                                         !.should_read_from_cache = TRUE],
         NEW e \in CacheValue, \A x \in Nat : Sound(w.cache, x) => Sound(e, x),
         Contains(e, r), e.entry[r].in_use = 1, ~e.entry[r].completed,
         e.entry[r].buffer = chunk,
         \A q \in Key \ {r} : \/ e.entry[q] = w.cache.entry[q]
                              \/ e.entry[q] = NoEntry /\ w.cache.entry[q].in_use = 0,
         NEW v, v = [clients |-> [w.clients EXCEPT ![c] = k], map |-> w.map,
                     cache |-> e, stranded |-> w.stranded]
  PROVE  Good(Shared(v, c), {})
<1>. DEFINE z  == Shared(v, c)
            n  == Len(w.map[r]) - 1
            k2 == ReadsOn(k)
            cl == w.clients[c]
<1>1. /\ w.clients \in [Client -> ClientRecord \cup {NoClient}]
      /\ w.map \in [Key -> Seq(Client)] /\ w.stranded \in SUBSET Key
      /\ w.map[r] \in Seq(Client) /\ OnceEach(w.map[r])
      /\ \A d \in Client : d \in Elements(w.map[r]) <=> IsOf(w, d, r)
      /\ RequestOk(w, r, {})
      /\ \A d \in Client : w.clients[d] # NoClient =>
           w.clients[d] \in ClientRecord /\ ClientOk(w.clients[d])
  BY WorldFacts
<1>2. /\ cl \in ClientRecord /\ cl.request = r /\ cl # NoClient /\ r # NoRequest
      /\ cl.conn \in Connection /\ cl.conn # NoConn /\ ConnOk(cl.conn)
      /\ ~Contains(w.cache, r)
  <2>1. cl \in ClientRecord /\ cl.request = r /\ ClientOk(cl) /\ cl # NoClient
    BY <1>1 DEF IsOf
  <2>2. cl.conn # NoConn /\ ConnOk(cl.conn)
    BY <2>1 DEF ClientOk, Fetching
  <2>3. ~Contains(w.cache, r)
    BY NoEntryYet
  <2>. QED
    BY <2>1, <2>2, <2>3, ServerAssumption DEF ClientRecord
<1>3. /\ k \in ClientRecord /\ k.request = r /\ k.conn = cl.conn
      /\ k2 \in ClientRecord /\ k2.request = r /\ k2.conn = cl.conn
      /\ k2.state = "waiting_response" /\ k2.should_write_to_cache
      /\ k2.should_read_from_cache
  BY <1>2 DEF ReadsOn, ClientRecord, State
<1>. HIDE DEF k2
<1>4. /\ v \in World /\ v.map = w.map /\ v.cache = e /\ v.stranded = w.stranded
      /\ v.clients[c] = k
      /\ \A d \in Client \ {c} : v.clients[d] = w.clients[d]
  BY <1>1, <1>3 DEF World
<1>5. IsOf(v, c, r) /\ \A d \in Client : IsOf(v, d, r) <=> IsOf(w, d, r)
  BY <1>3, <1>4, MarkerAssumption DEF IsOf
<1>6. /\ n \in Nat
      /\ z = [clients |-> z.clients, map |-> w.map, cache |-> UseTimes(e, r, n),
              stranded |-> w.stranded]
      /\ z.clients \in [Client -> ClientRecord \cup {NoClient}]
      /\ z.clients[c] = k2
      /\ \A d \in Client \ {c} :
           z.clients[d] = IF IsOf(v, d, r) THEN GetResponseFromCache(v.clients[d])
                          ELSE v.clients[d]
  <2>1. OnceEach(v.map[r]) /\ \A d \in Client : d \in Elements(v.map[r]) <=> IsOf(v, d, r)
    BY <1>1, <1>4, <1>5
  <2>2. v \in World /\ IsOf(v, c, r)
    BY <1>4, <1>5
  <2>3. /\ Len(v.map[r]) - 1 \in Nat
        /\ z = [clients |-> z.clients, map |-> v.map,
                cache |-> UseTimes(v.cache, r, Len(v.map[r]) - 1),
                stranded |-> v.stranded]
        /\ z.clients \in [Client -> ClientRecord \cup {NoClient}]
        /\ z.clients[c] = ReadsOn(v.clients[c])
        /\ \A d \in Client \ {c} :
             z.clients[d] = IF IsOf(v, d, r) THEN GetResponseFromCache(v.clients[d])
                            ELSE v.clients[d]
    BY ONLY <2>1, <2>2, SharedFacts
  <2>. HIDE DEF z
  <2>. QED
    BY <1>4, <2>3 DEF k2
<1>7. PICK x0 \in Nat : Sound(w.cache, x0) /\ (w.stranded = {} => x0 = 0)
  BY DEF Good, CacheOk
<1>8. LET d == UseTimes(e, r, n)
      IN  /\ d \in CacheValue
          /\ \A x \in Nat : Sound(e, x) => Sound(d, x)
          /\ \A q \in Key \ {r} : d.entry[q] = e.entry[q]
          /\ Contains(d, r)
          /\ d.entry[r].in_use = e.entry[r].in_use + n
          /\ d.entry[r].buffer = e.entry[r].buffer
          /\ d.entry[r].completed = e.entry[r].completed
  <2>1. Sound(e, x0) /\ r \in Present(e)
    BY <1>7 DEF Present
  <2>. HIDE DEF n
  <2>. QED
    BY <1>6, <1>7, <2>1, UsedTimes
<1>. HIDE DEF z
<1>9. /\ z \in World /\ z.map = w.map /\ z.cache = UseTimes(e, r, n)
      /\ z.stranded = w.stranded
  <2>1. z.map = w.map /\ z.cache = UseTimes(e, r, n) /\ z.stranded = w.stranded
    BY <1>6
  <2>. QED
    BY <1>1, <1>6, <1>8, <2>1 DEF World
<1>10. /\ Contains(z.cache, r) /\ ~z.cache.entry[r].completed
       /\ z.cache.entry[r].buffer = chunk
       /\ z.cache.entry[r].in_use = Len(z.map[r])
       /\ \A q \in Key \ {r} : \/ z.cache.entry[q] = w.cache.entry[q]
                               \/ /\ z.cache.entry[q] = NoEntry
                                  /\ w.cache.entry[q].in_use = 0
  <2>. DEFINE L == Len(w.map[r])
  <2>1. L \in Nat /\ n = L - 1
    BY <1>1
  <2>. HIDE DEF L, n
  <2>2. 1 + n = L
    BY <2>1
  <2>. QED
    BY <1>8, <1>9, <2>2 DEF L
<1>. HIDE DEF n
<1>11. ASSUME NEW d \in Client \ {c}, IsOf(w, d, r)
       PROVE  /\ z.clients[d] \in ClientRecord /\ z.clients[d].request = r
              /\ z.clients[d].state = "got_response"
              /\ z.clients[d].should_read_from_cache
              /\ z.clients[d].should_write_to_cache = w.clients[d].should_write_to_cache
              /\ ClientOk(z.clients[d])
  <2>1. /\ w.clients[d] \in ClientRecord /\ w.clients[d].request = r
        /\ z.clients[d] = GetResponseFromCache(w.clients[d]) /\ ClientOk(w.clients[d])
    BY <1>1, <1>4, <1>5, <1>6, <1>11 DEF IsOf
  <2>. DEFINE l == GetResponseFromCache(w.clients[d])
  <2>2. /\ l \in ClientRecord /\ l.request = r /\ l.conn = w.clients[d].conn
        /\ l.state = "got_response" /\ l.should_read_from_cache
        /\ l.should_write_to_cache = w.clients[d].should_write_to_cache
    BY <2>1, UpdateFacts
  <2>. HIDE DEF l
  <2>3. ClientOk(l)
    BY <1>2, <2>1, <2>2 DEF ClientOk, Fetching
  <2>. QED
    BY <2>1, <2>2, <2>3 DEF l
<1>12. \A d \in Client \ {c} : ~IsOf(w, d, r) => z.clients[d] = w.clients[d]
  BY <1>4, <1>5, <1>6
<1>13. \A d \in Client : IsOf(z, d, r) <=> IsOf(w, d, r)
  <2>1. IsOf(z, c, r) /\ IsOf(w, c, r)
    BY <1>3, <1>6, MarkerAssumption DEF IsOf
  <2>2. ASSUME NEW d \in Client \ {c} PROVE IsOf(z, d, r) <=> IsOf(w, d, r)
    <3>1. CASE IsOf(w, d, r)
      BY <1>11, <3>1, MarkerAssumption DEF IsOf
    <3>2. CASE ~IsOf(w, d, r)
      BY <1>12, <3>2 DEF IsOf
    <3>. QED
      BY <3>1, <3>2
  <2>. QED
    BY <2>1, <2>2
<1>14. ListOk(z, r)
  BY <1>1, <1>9, <1>13 DEF ListOk
<1>15. EntryOk(z, r)
  <2>1. PartOfOne(chunk)
    BY <1>2, ContinuesIsPart
  <2>2. \A d \in Client : Fetches(z, d, r) <=> d = c
    BY <1>3, <1>6, <1>11, <1>13 DEF Fetches
  <2>3. WriterOk(z.clients[c], z.cache.entry[r])
    BY <1>3, <1>6, <1>10 DEF WriterOk
  <2>4. \A d \in Client : IsOf(z, d, r) =>
          /\ z.clients[d].state \in {"got_response", "waiting_response"}
          /\ z.clients[d].should_read_from_cache
    BY <1>3, <1>6, <1>11, <1>13
  <2>. QED
    BY <1>10, <2>1, <2>2, <2>3, <2>4 DEF EntryOk
<1>16. ASSUME r \notin z.stranded PROVE CleanOk(z, r, {})
  <2>1. CleanOk(w, r, {})
    BY <1>1, <1>9, <1>16 DEF RequestOk
  <2>2. \A d \in Client \ {c} : IsOf(w, d, r) => ~w.clients[d].should_write_to_cache
    BY <1>2, <2>1 DEF CleanOk
  <2>. QED
    BY <1>3, <1>6, <1>10, <1>11, <1>13, <2>2 DEF CleanOk
<1>. DEFINE R    == {r}
            None == {}
<1>17. /\ R \in SUBSET Key /\ Good(w, None)
       /\ \A q \in R : RequestOk(z, q, None)
       /\ \A q \in Key \ R : Keeps(w, z, q)
       /\ \A d \in None : \A q \in Key \ R : ~IsOf(w, d, q)
  BY <1>9, <1>10, <1>14, <1>15, <1>16 DEF Keeps, RequestOk
<1>18. \A d \in Client : z.clients[d] = w.clients[d] \/ Concerns(w, z, d, R \cup {NoRequest})
  <2>1. Concerns(w, z, c, R \cup {NoRequest})
    <3>1. ClientOk(k2)
      BY <1>2, <1>3 DEF ClientOk
    <3>. QED
      BY <1>2, <1>3, <1>6, <3>1 DEF Concerns
  <2>2. ASSUME NEW d \in Client \ {c}, IsOf(w, d, r)
        PROVE  Concerns(w, z, d, R \cup {NoRequest})
    BY <1>11, <2>2 DEF Concerns, IsOf
  <2>. QED
    BY <1>12, <2>1, <2>2
<1>19. CacheOk(z)
  <2>1. Sound(e, x0)
    BY <1>7
  <2>2. Sound(z.cache, x0)
    BY <1>7, <1>8, <1>9, <2>1
  <2>. QED
    BY <1>7, <1>9, <2>2 DEF CacheOk
<1>. HIDE DEF R, None
<1>20. Good(z, None)
  BY <1>9, <1>17, <1>18, <1>19, StepIsGood
<1>. QED
  BY <1>20 DEF z, None

(* The last users of an incomplete entry leave: it is dropped. *)
LEMMA LastDisuse ==
  ASSUME NEW k, NEW x \in Nat, Sound(k, x), NEW r \in Present(k),
         NEW n \in 1..k.entry[r].in_use, n = k.entry[r].in_use,
         ~k.entry[r].completed
  PROVE  /\ Sound(DisuseTimes(k, r, n), x)
         /\ DisuseTimes(k, r, n).entry =
              [j \in Key |-> IF j \in {r} THEN NoEntry ELSE k.entry[j]]
BY DisuseTimesSound

LEMMA WriteCases ==
  ASSUME NEW v, NEW c, NEW r, v.clients[c].request = r, NEW chunk,
         NEW u, u = [v EXCEPT !.cache = Write(v.cache, r, chunk)]
  PROVE  LET t == WriteToCache(v, c, chunk)
         IN  /\ WriteOutcome(v.cache, r, chunk) = "AllInUse" =>
                  t.world = Fallback(u, c, chunk) /\ t.threw = FallbackThrows(u, r)
             /\ WriteOutcome(v.cache, r, chunk) = "KeyNotFound" => t.world = u /\ t.threw
             /\ WriteOutcome(v.cache, r, chunk) = "Written" => t.world = u /\ ~t.threw
BY DEF WriteToCache

(* A write that the cache had no room for: the cache of v is what it left  *)
(* of that of w, and an entry that is in use is going to be given up by    *)
(* all its users.                                                          *)
NoRoom(w, v, c, r) ==
  LET e == v.cache
      k == v.clients[c]
  IN  /\ v \in World /\ v.map = w.map /\ v.stranded = w.stranded
      /\ k \in ClientRecord /\ k.request = r /\ ClientOk(k) /\ k.conn # NoConn
      /\ \A d \in Client \ {c} : v.clients[d] = w.clients[d]
      /\ \A x \in Nat : Sound(w.cache, x) => Sound(e, x)
      /\ \A q \in Key \ {r} : \/ e.entry[q] = w.cache.entry[q]
                              \/ e.entry[q] = NoEntry /\ w.cache.entry[q].in_use = 0
      /\ Contains(e, r) => /\ e.entry[r].in_use \in 1..Len(w.map[r])
                           /\ ~e.entry[r].completed
      /\ r \notin w.stranded =>
           \A d \in Client \ {c} : IsOf(w, d, r) =>
             /\ ~w.clients[d].should_write_to_cache
             /\ \/ Contains(e, r) /\ e.entry[r].in_use = Len(w.map[r])
                \/ ~w.clients[d].should_read_from_cache

(* The cache has no room: the entry is gone, and nobody has a flag left    *)
(* but, if the loop ended half way, the client who reads the response.     *)
LEMMA FallbackIsGood ==
  ASSUME NEW w, NEW v, NEW c \in Client, NEW r \in Key, Good(w, {}), IsOf(w, c, r),
         NoRoom(w, v, c, r), NEW chunk \in Seq(Block)
  PROVE  LET z == Fallback(v, c, chunk)
             L == Len(w.map[r])
         IN  /\ Good(z, {c}) /\ IsOf(z, c, r) /\ ~Contains(z.cache, r)
             /\ z.map = w.map
             /\ FallbackThrows(v, r) <=>
                  ~(Contains(v.cache, r) /\ v.cache.entry[r].in_use = L)
             /\ ~FallbackThrows(v, r) =>
                  Good(z, {}) /\ z.clients[c].state = "waiting_response"
<1>. DEFINE z == Fallback(v, c, chunk)
            L == Len(w.map[r])
            n == FallbackTurns(v, r)
            e == v.cache
            k == v.clients[c]
<1>0. /\ v \in World /\ v.map = w.map /\ v.stranded = w.stranded /\ e \in CacheValue
      /\ k \in ClientRecord /\ k.request = r /\ ClientOk(k) /\ k.conn # NoConn
      /\ \A d \in Client \ {c} : v.clients[d] = w.clients[d]
      /\ \A x \in Nat : Sound(w.cache, x) => Sound(e, x)
      /\ \A q \in Key \ {r} : \/ e.entry[q] = w.cache.entry[q]
                              \/ e.entry[q] = NoEntry /\ w.cache.entry[q].in_use = 0
      /\ Contains(e, r) => /\ e.entry[r].in_use \in 1..L
                           /\ ~e.entry[r].completed
      /\ r \notin w.stranded =>
           \A d \in Client \ {c} : IsOf(w, d, r) =>
             /\ ~w.clients[d].should_write_to_cache
             /\ \/ Contains(e, r) /\ e.entry[r].in_use = L
                \/ ~w.clients[d].should_read_from_cache
  BY DEF NoRoom, World
<1>1. /\ w.clients \in [Client -> ClientRecord \cup {NoClient}]
      /\ w.map \in [Key -> Seq(Client)] /\ w.stranded \in SUBSET Key
      /\ w.map[r] \in Seq(Client) /\ OnceEach(w.map[r])
      /\ \A d \in Client : d \in Elements(w.map[r]) <=> IsOf(w, d, r)
      /\ RequestOk(w, r, {})
      /\ \A d \in Client : w.clients[d] # NoClient =>
           w.clients[d] \in ClientRecord /\ ClientOk(w.clients[d])
  BY WorldFacts
<1>2. IsOf(v, c, r) /\ \A d \in Client : IsOf(v, d, r) <=> IsOf(w, d, r)
  BY <1>0, MarkerAssumption DEF IsOf
<1>3. L \in Nat /\ L > 0
  <2>1. c \in Elements(w.map[r])
    BY <1>1
  <2>. QED
    BY <1>1, <2>1 DEF Elements
<1>4. /\ n \in 0..L /\ (FallbackThrows(v, r) <=> n < L)
      /\ z = [clients |-> z.clients, map |-> z.map, cache |-> z.cache,
              stranded |-> z.stranded]
      /\ z.clients \in [Client -> ClientRecord \cup {NoClient}]
      /\ z.map = v.map /\ z.stranded = v.stranded
      /\ z.cache = IF n = 0 THEN v.cache ELSE DisuseTimes(v.cache, r, n)
      /\ \A d \in Client : ~IsOf(v, d, r) => z.clients[d] = v.clients[d]
      /\ n < L => \A d \in Client : IsOf(v, d, r) =>
                    \/ z.clients[d] = v.clients[d]
                    \/ OutOfCache(v.clients[d], z.clients[d])
      /\ n = L => /\ \A d \in Client \ {c} : IsOf(v, d, r) =>
                       OutOfCache(v.clients[d], z.clients[d])
                  /\ z.clients[c] \in ClientRecord
                  /\ z.clients[c].request = r
                  /\ z.clients[c].conn = v.clients[c].conn
                  /\ z.clients[c].state = "waiting_response"
                  /\ ~z.clients[c].should_read_from_cache
                  /\ ~z.clients[c].should_write_to_cache
  <2>1. /\ v.map[r] \in Seq(Client)
        /\ \A d \in Client : d \in Elements(v.map[r]) <=> IsOf(v, d, r)
        /\ Contains(v.cache, r) => v.cache.entry[r].in_use \in Nat
    BY <1>0, <1>1, <1>2 DEF CacheValue, Contains
  <2>2. L = Len(v.map[r])
    BY <1>0
  <2>. HIDE DEF L
  <2>. QED
    BY <1>0, <1>2, <2>1, <2>2, FallbackFacts
<1>5. n = IF Contains(e, r) THEN e.entry[r].in_use ELSE 0
  <2>1. FallbackTurns(v, r) = IF ~Contains(e, r) THEN 0 ELSE Least(L, e.entry[r].in_use)
    BY <1>0 DEF FallbackTurns
  <2>2. Contains(e, r) => Least(L, e.entry[r].in_use) = e.entry[r].in_use
    <3>. HIDE DEF L
    <3>1. Contains(e, r) => e.entry[r].in_use \in 1..L
      BY <1>0
    <3>. QED
      BY <1>3, <3>1 DEF Least
  <2>. QED
    BY <2>1, <2>2
<1>. HIDE DEF z
<1>6. PICK x0 \in Nat : Sound(w.cache, x0) /\ (w.stranded = {} => x0 = 0)
  BY DEF Good, CacheOk
<1>7. /\ z.cache \in CacheValue /\ Sound(z.cache, x0) /\ ~Contains(z.cache, r)
      /\ \A q \in Key \ {r} : z.cache.entry[q] = e.entry[q]
  <2>0. Sound(e, x0)
    BY <1>0, <1>6
  <2>1. CASE ~Contains(e, r)
    BY <1>0, <1>4, <1>5, <2>0, <2>1
  <2>2. CASE Contains(e, r)
    <3>1. /\ n = e.entry[r].in_use /\ n # 0 /\ r \in Present(e)
          /\ n \in 1..e.entry[r].in_use /\ ~e.entry[r].completed
      BY <1>0, <1>5, <2>2 DEF Present
    <3>. HIDE DEF n
    <3>2. /\ Sound(DisuseTimes(e, r, n), x0)
          /\ DisuseTimes(e, r, n).entry =
               [j \in Key |-> IF j \in {r} THEN NoEntry ELSE e.entry[j]]
      BY <2>0, <3>1, LastDisuse
    <3>3. /\ Sound(z.cache, x0)
          /\ z.cache.entry = [j \in Key |-> IF j \in {r} THEN NoEntry ELSE e.entry[j]]
      BY <1>4, <3>1, <3>2
    <3>. QED
      BY <3>3 DEF Sound, WellFormed, Contains
  <2>. QED
    BY <2>1, <2>2
<1>8. z \in World
  BY <1>0, <1>1, <1>4, <1>7 DEF World
<1>9. /\ L = n <=> Contains(e, r) /\ e.entry[r].in_use = L
      /\ n < L \/ n = L
      /\ n < L => n # L
  BY <1>3, <1>4, <1>5
<1>10. ASSUME NEW d \in Client \ {c}, IsOf(w, d, r)
       PROVE  /\ z.clients[d] # NoClient /\ z.clients[d].request = r
              /\ ClientOk(z.clients[d])
              /\ z.clients[d].should_write_to_cache = w.clients[d].should_write_to_cache
              /\ z.clients[d].should_read_from_cache =>
                   n # L /\ w.clients[d].should_read_from_cache
  <2>1. /\ w.clients[d] # NoClient /\ w.clients[d].request = r /\ ClientOk(w.clients[d])
        /\ r # NoRequest
    BY <1>1, <1>10, ServerAssumption DEF IsOf
  <2>2. \/ n # L /\ z.clients[d] = w.clients[d]
        \/ OutOfCache(w.clients[d], z.clients[d])
    BY <1>0, <1>2, <1>4, <1>9, <1>10
  <2>3. CASE z.clients[d] = w.clients[d] /\ n # L
    BY <2>1, <2>3
  <2>4. CASE OutOfCache(w.clients[d], z.clients[d])
    <3>1. ClientOk(z.clients[d])
      BY <2>1, <2>4, OutOfCacheOk DEF ClientOk
    <3>. QED
      BY <2>1, <2>4, <3>1, MarkerAssumption DEF OutOfCache
  <2>. QED
    BY <2>2, <2>3, <2>4
<1>11. /\ z.clients[c] # NoClient /\ z.clients[c].request = r
       /\ ClientOk(z.clients[c])
       /\ n = L => /\ ~z.clients[c].should_read_from_cache
                   /\ ~z.clients[c].should_write_to_cache
  <2>1. r # NoRequest /\ (k.conn # NoConn => ConnOk(k.conn))
    BY <1>0, ServerAssumption DEF ClientOk
  <2>2. CASE n = L
    BY <1>0, <1>4, <2>1, <2>2, MarkerAssumption DEF ClientOk
  <2>3. CASE n < L
    <3>1. z.clients[c] = k \/ OutOfCache(k, z.clients[c])
      BY <1>2, <1>4, <2>3
    <3>2. n # L
      BY <1>9, <2>3
    <3>3. OutOfCache(k, z.clients[c]) => ClientOk(z.clients[c])
      BY <1>0, <2>1, OutOfCacheOk
    <3>. QED
      BY <1>0, <3>1, <3>2, <3>3, MarkerAssumption DEF OutOfCache
  <2>. QED
    BY <1>9, <2>2, <2>3
<1>. HIDE DEF L, n, e, k
<1>12. /\ IsOf(z, c, r) /\ \A d \in Client : IsOf(z, d, r) <=> IsOf(w, d, r)
       /\ \A d \in Client : ~IsOf(w, d, r) => z.clients[d] = w.clients[d]
  <2>1. \A d \in Client : ~IsOf(w, d, r) => z.clients[d] = w.clients[d]
    BY <1>0, <1>2, <1>4
  <2>. QED
    BY <1>10, <1>11, <2>1 DEF IsOf
<1>13. ListOk(z, r)
  BY <1>0, <1>1, <1>4, <1>12 DEF ListOk
<1>14. ASSUME NEW S, r \notin z.stranded, c \in S \/ n = L
       PROVE  CleanOk(z, r, S)
  <2>1. \A d \in Client \ {c} : IsOf(w, d, r) =>
          ~z.clients[d].should_read_from_cache /\ ~z.clients[d].should_write_to_cache
    BY <1>0, <1>4, <1>9, <1>10, <1>14
  <2>. QED
    BY <1>7, <1>11, <1>12, <1>14, <2>1 DEF CleanOk
<1>15. CacheOk(z)
  BY <1>0, <1>4, <1>6, <1>7 DEF CacheOk
<1>. DEFINE R    == {r}
            None == {}
<1>16. /\ R \in SUBSET Key /\ Good(w, None)
       /\ \A q \in Key \ R : Keeps(w, z, q)
       /\ \A d \in None : \A q \in Key \ R : ~IsOf(w, d, q)
  BY <1>0, <1>4, <1>7 DEF Keeps
<1>17. \A d \in Client : z.clients[d] = w.clients[d] \/ Concerns(w, z, d, R \cup {NoRequest})
  BY <1>10, <1>11, <1>12 DEF Concerns, IsOf
<1>18. ASSUME NEW S, c \in S \/ n = L
       PROVE  Good(z, S)
  <2>1. \A q \in R : RequestOk(z, q, S)
    BY <1>7, <1>13, <1>14, <1>18 DEF RequestOk
  <2>. HIDE DEF R, None
  <2>. QED
    BY <1>8, <1>15, <1>16, <1>17, <2>1, StepIsGood
<1>19. Good(z, {c}) /\ (n = L => Good(z, {}))
  BY <1>18
<1>20. n = L => z.clients[c].state = "waiting_response"
  BY <1>4 DEF L, n
<1>21. FallbackThrows(v, r) <=> n # L
  BY <1>4, <1>9 DEF L, n
<1>. QED
  BY <1>0, <1>4, <1>7, <1>9, <1>12, <1>19, <1>20, <1>21 DEF z, L, e

(* Nobody is told anything by a client who is alone. *)
LEMMA SharedAlone ==
  ASSUME NEW z, NEW S, NEW c \in Client, NEW r \in Key, Good(z, S), IsOf(z, c, r),
         Len(z.map[r]) = 1, z.clients[c].state = "waiting_response"
  PROVE  Shared(z, c) = z
<1>. DEFINE s == Shared(z, c)
<1>1. /\ z \in World /\ OnceEach(z.map[r]) /\ z.map[r] \in Seq(Client)
      /\ z.clients \in [Client -> ClientRecord \cup {NoClient}]
      /\ \A d \in Client : d \in Elements(z.map[r]) <=> IsOf(z, d, r)
      /\ z = [clients |-> z.clients, map |-> z.map, cache |-> z.cache,
              stranded |-> z.stranded]
  BY WorldFacts
<1>2. \A d \in Client \ {c} : ~IsOf(z, d, r)
  BY <1>1, AloneInList
<1>3. /\ s = [clients |-> s.clients, map |-> z.map,
              cache |-> UseTimes(z.cache, r, Len(z.map[r]) - 1), stranded |-> z.stranded]
      /\ s.clients \in [Client -> ClientRecord \cup {NoClient}]
      /\ s.clients[c] = ReadsOn(z.clients[c])
      /\ \A d \in Client \ {c} :
           s.clients[d] = IF IsOf(z, d, r) THEN GetResponseFromCache(z.clients[d])
                          ELSE z.clients[d]
  BY <1>1, SharedFacts
<1>. HIDE DEF s
<1>4. UseTimes(z.cache, r, Len(z.map[r]) - 1) = z.cache
  <2>1. Len(z.map[r]) - 1 = 0
    OBVIOUS
  <2>. QED
    BY <2>1 DEF UseTimes
<1>5. ReadsOn(z.clients[c]) = z.clients[c]
  <2>1. z.clients[c] \in ClientRecord
    BY <1>1 DEF IsOf
  <2>. QED
    BY <2>1 DEF ReadsOn, ClientRecord
<1>6. \A d \in Client : s.clients[d] = z.clients[d]
  BY <1>2, <1>3, <1>5
<1>7. s.clients = z.clients
  BY <1>1, <1>3, <1>6
<1>8. s = z
  BY <1>1, <1>3, <1>4, <1>7
<1>. QED
  BY <1>8 DEF s

LEMMA StatusIsOkIsGood ==
  ASSUME NEW w, NEW c \in Client, NEW r \in Key, Good(w, {}), IsOf(w, c, r),
         w.clients[c].state = "waiting_response_status_code",
         NEW chunk \in Seq(Block), Continues(w.clients[c].conn, chunk),
         StatusIsOk(w, c, chunk)
  PROVE  \E z : Good(z, {}) /\ Becomes(z)
<1>. DEFINE cl == w.clients[c]
            k == [cl EXCEPT !.should_write_to_cache = TRUE,
                            !.should_read_from_cache = TRUE]
            y == [w.clients EXCEPT ![c] = k]
            d == UseEntry(w.cache, r)
            u == [clients |-> y, map |-> w.map, cache |-> d, stranded |-> w.stranded]
            e == Write(d, r, chunk)
            v == [clients |-> y, map |-> w.map, cache |-> e, stranded |-> w.stranded]
            t == WriteToCache(u, c, chunk)
            L == Len(w.map[r])
<1>1. /\ w.clients \in [Client -> ClientRecord \cup {NoClient}] /\ w \in World
      /\ w.map \in [Key -> Seq(Client)] /\ w.stranded \in SUBSET Key
      /\ w.map[r] \in Seq(Client) /\ w.cache \in CacheValue
      /\ \A h \in Client : h \in Elements(w.map[r]) <=> IsOf(w, h, r)
      /\ RequestOk(w, r, {})
      /\ cl \in ClientRecord /\ ClientOk(cl) /\ cl.request = r
  BY WorldFacts DEF IsOf
<1>2. L \in Nat /\ 1 \in 1..L /\ c \in Elements(w.map[r])
  <2>1. c \in Elements(w.map[r])
    BY <1>1
  <2>. QED
    BY <1>1, <2>1 DEF Elements
<1>3. ~Contains(w.cache, r) /\ cl.conn # NoConn /\ ConnOk(cl.conn) /\ r # NoRequest
  <2>1. ~Contains(w.cache, r)
    BY NoEntryYet
  <2>. QED
    BY <1>1, <2>1, ServerAssumption DEF ClientOk, Fetching
<1>4. /\ k \in ClientRecord /\ k.request = r /\ k.conn = cl.conn /\ k.state = cl.state
  BY <1>1 DEF ClientRecord
<1>5. y \in [Client -> ClientRecord \cup {NoClient}] /\ y[c] = k
      /\ \A h \in Client \ {c} : y[h] = w.clients[h]
  <2>. HIDE DEF k
  <2>. QED
    BY <1>1, <1>4
<1>6. [w EXCEPT !.clients[c].should_write_to_cache = TRUE,
                !.clients[c].should_read_from_cache = TRUE,
                !.cache = UseEntry(@, w.clients[c].request)] = u
  <2>. DEFINE g == [clients |-> y, map |-> w.map, cache |-> w.cache,
                    stranded |-> w.stranded]
  <2>1. [w EXCEPT !.clients[c].should_write_to_cache = TRUE,
                  !.clients[c].should_read_from_cache = TRUE] = [w EXCEPT !.clients = y]
    BY <1>1 DEF World
  <2>. HIDE DEF y, d
  <2>2. [w EXCEPT !.clients = y] = g
    BY <1>1, Replaced
  <2>3. [g EXCEPT !.cache = d] = u
    BY Rebuilt
  <2>4. [g EXCEPT !.cache = UseEntry(@, r)] = [g EXCEPT !.cache = d]
    BY DEF d
  <2>. HIDE DEF g, u
  <2>. QED
    BY <1>1, <2>1, <2>2, <2>3, <2>4
<1>7. PICK x0 \in Nat : Sound(w.cache, x0)
  BY DEF Good, CacheOk
<1>8. ASSUME NEW x \in Nat, Sound(w.cache, x)
      PROVE  /\ Sound(d, x)
             /\ d.entry = [w.cache.entry EXCEPT ![r] =
                             [buffer |-> <<>>, completed |-> FALSE, in_use |-> 1]]
  BY <1>3, <1>8, UseSound
<1>9. /\ Sound(d, x0) /\ r \in Present(d) /\ d.entry[r].in_use = 1
      /\ d.entry[r].in_use > 0
      /\ ~d.entry[r].completed /\ d.entry[r].buffer = <<>>
      /\ \A q \in Key \ {r} : d.entry[q] = w.cache.entry[q]
      /\ \A x \in Nat : Sound(w.cache, x) => Sound(d, x)
  <2>. DEFINE first == [buffer |-> <<>>, completed |-> FALSE, in_use |-> 1]
  <2>1. /\ Sound(d, x0) /\ d.entry = [w.cache.entry EXCEPT ![r] = first]
        /\ \A x \in Nat : Sound(w.cache, x) => Sound(d, x)
    BY <1>7, <1>8
  <2>2. w.cache.entry \in [Key -> Entry \cup {NoEntry}]
    BY <1>1 DEF CacheValue
  <2>3. /\ first.in_use = 1 /\ ~first.completed /\ first.buffer = <<>>
        /\ first \in Entry
    BY DEF Entry
  <2>. HIDE DEF first, d
  <2>4. d.entry[r] = first /\ \A q \in Key \ {r} : d.entry[q] = w.cache.entry[q]
    BY <2>1, <2>2
  <2>. QED
    BY <2>1, <2>3, <2>4, CacheAssumption DEF Present, Contains
<1>. HIDE DEF d
<1>10. /\ e \in CacheValue /\ Contains(e, r)
       /\ \A x \in Nat : Sound(d, x) => Sound(e, x)
       /\ \A q \in Key \ {r} : \/ e.entry[q] = d.entry[q]
                               \/ e.entry[q] = NoEntry /\ d.entry[q].in_use = 0
       /\ \/ /\ WriteOutcome(d, r, chunk) = "AllInUse"
             /\ e.entry[r] = d.entry[r]
          \/ /\ WriteOutcome(d, r, chunk) = "Written"
             /\ e.entry[r].in_use = d.entry[r].in_use
             /\ e.entry[r].completed = d.entry[r].completed
             /\ e.entry[r].buffer = d.entry[r].buffer \o chunk
  BY <1>9, WriteInUse
<1>. HIDE DEF e
<1>11. /\ \A x \in Nat : Sound(w.cache, x) => Sound(e, x)
       /\ \A q \in Key \ {r} : \/ e.entry[q] = w.cache.entry[q]
                               \/ e.entry[q] = NoEntry /\ w.cache.entry[q].in_use = 0
       /\ e.entry[r].in_use = 1 /\ ~e.entry[r].completed
  BY <1>9, <1>10
<1>12. v = [u EXCEPT !.cache = Write(u.cache, r, chunk)] /\ u.cache = d
       /\ u.clients[c].request = r
  <2>1. u.cache = d /\ u.clients[c] = k
    BY <1>5
  <2>. HIDE DEF y, k
  <2>2. [u EXCEPT !.cache = e] = v
    BY Rebuilt
  <2>. HIDE DEF u, v
  <2>. QED
    BY <1>4, <2>1, <2>2 DEF e
<1>. HIDE DEF u
<1>13. /\ WriteOutcome(d, r, chunk) = "AllInUse" =>
            t.world = Fallback(v, c, chunk) /\ t.threw = FallbackThrows(v, r)
       /\ WriteOutcome(d, r, chunk) = "Written" => t.world = v /\ ~t.threw
  <2>. HIDE DEF u, v
  <2>1. /\ WriteOutcome(u.cache, r, chunk) = "AllInUse" =>
             t.world = Fallback(v, c, chunk) /\ t.threw = FallbackThrows(v, r)
        /\ WriteOutcome(u.cache, r, chunk) = "Written" => t.world = v /\ ~t.threw
    BY <1>12, WriteCases
  <2>. HIDE DEF t
  <2>. QED
    BY <1>12, <2>1
<1>14. IF t.threw THEN RecoverFromStatusError(t.world, c)
       ELSE Becomes(Shared(t.world, c))
  BY <1>6 DEF StatusIsOk, Shared
<1>. HIDE DEF t
<1>15. CASE WriteOutcome(d, r, chunk) = "Written"
  <2>1. e.entry[r].buffer = chunk
    BY <1>9, <1>10, <1>15
  <2>2. Good(Shared(v, c), {})
    BY <1>10, <1>11, <2>1, FirstChunkIsGood
  <2>. QED
    BY <1>13, <1>14, <1>15, <2>2
<1>16. CASE WriteOutcome(d, r, chunk) = "AllInUse"
  <2>. DEFINE z == Fallback(v, c, chunk)
  <2>1. /\ v \in World /\ v.map = w.map /\ v.cache = e /\ v.stranded = w.stranded
        /\ v.clients[c] = k /\ \A h \in Client \ {c} : v.clients[h] = w.clients[h]
    <3>. HIDE DEF y
    <3>. QED
      BY <1>1, <1>5, <1>10 DEF World
  <2>2. ClientOk(k) /\ k.conn # NoConn
    BY <1>3, <1>4 DEF ClientOk
  <2>3. r \notin w.stranded =>
           \A h \in Client \ {c} : IsOf(w, h, r) =>
             /\ ~w.clients[h].should_write_to_cache
             /\ ~w.clients[h].should_read_from_cache
    BY <1>1, <1>3 DEF RequestOk, CleanOk
  <2>. HIDE DEF v, k
  <2>8. NoRoom(w, v, c, r)
    BY <1>2, <1>4, <1>11, <2>1, <2>2, <2>3 DEF NoRoom
  <2>. HIDE DEF L
  <2>4. /\ Good(z, {c}) /\ IsOf(z, c, r) /\ ~Contains(z.cache, r) /\ z.map = w.map
        /\ FallbackThrows(v, r) <=> ~(Contains(e, r) /\ e.entry[r].in_use = L)
        /\ ~FallbackThrows(v, r) =>
             Good(z, {}) /\ z.clients[c].state = "waiting_response"
    <3>. HIDE DEF z
    <3>1. /\ Good(Fallback(v, c, chunk), {c}) /\ IsOf(Fallback(v, c, chunk), c, r)
          /\ ~Contains(Fallback(v, c, chunk).cache, r)
          /\ Fallback(v, c, chunk).map = w.map
          /\ FallbackThrows(v, r) <=>
               ~(Contains(v.cache, r) /\ v.cache.entry[r].in_use = Len(w.map[r]))
          /\ ~FallbackThrows(v, r) =>
               /\ Good(Fallback(v, c, chunk), {})
               /\ Fallback(v, c, chunk).clients[c].state = "waiting_response"
      BY <2>8, FallbackIsGood
    <3>. QED
      BY <2>1, <3>1 DEF L, z
  <2>5. t.world = z /\ t.threw = FallbackThrows(v, r)
    BY <1>13, <1>16
  <2>. HIDE DEF z
  <2>6. CASE FallbackThrows(v, r)
    BY <1>14, <2>4, <2>5, <2>6, RecoverIsGood
  <2>7. CASE ~FallbackThrows(v, r)
    <3>1. L = 1 /\ Good(z, {}) /\ z.clients[c].state = "waiting_response"
      BY <1>10, <1>11, <2>4, <2>7
    <3>2. Shared(z, c) = z
      BY <3>1, <2>4, SharedAlone DEF L
    <3>. QED
      BY <1>14, <2>5, <2>7, <3>1, <3>2
  <2>. QED
    BY ONLY <2>6, <2>7
<1>. QED
  BY <1>10, <1>15, <1>16

(* A client whose origin reset the connection. *)
HasFailed(cl) == [cl EXCEPT !.conn = [@ EXCEPT !.alive = FALSE]]

LEMMA HasFailedFacts ==
  ASSUME NEW cl \in ClientRecord, ClientOk(cl), cl.state \in Fetching
  PROVE  LET k == HasFailed(cl)
         IN  /\ k \in ClientRecord /\ ClientOk(k) /\ Alike(cl, k)
             /\ k.request = cl.request /\ k.state = cl.state
             /\ k.should_read_from_cache = cl.should_read_from_cache
             /\ k.should_write_to_cache = cl.should_write_to_cache
<1>. DEFINE k    == HasFailed(cl)
            conn == [cl.conn EXCEPT !.alive = FALSE]
<1>1. cl.conn \in Connection /\ cl.conn # NoConn /\ ConnOk(cl.conn)
  BY DEF ClientOk, ClientRecord
<1>2. /\ conn \in Connection /\ conn # NoConn
      /\ conn.answer = cl.conn.answer /\ conn.pos = cl.conn.pos
  BY <1>1, MarkerAssumption DEF Connection
<1>3. ConnOk(conn)
  <2>. HIDE DEF conn
  <2>. QED
    BY <1>1, <1>2 DEF ConnOk
<1>. HIDE DEF conn
<1>4. /\ k \in ClientRecord /\ k.conn = conn
      /\ k.request = cl.request /\ k.state = cl.state
      /\ k.should_read_from_cache = cl.should_read_from_cache
      /\ k.should_write_to_cache = cl.should_write_to_cache
  <2>1. k = [cl EXCEPT !.conn = conn]
    BY DEF HasFailed, conn
  <2>. HIDE DEF k
  <2>. QED
    BY <1>2, <2>1 DEF ClientRecord
<1>. HIDE DEF k
<1>5. cl.state # "waiting_for_request"
  BY DEF Fetching
<1>6. ClientOk(k) /\ Alike(cl, k)
  BY <1>1, <1>2, <1>3, <1>4, <1>5, MarkerAssumption DEF ClientOk, Alike, Fetching
<1>. QED
  BY <1>4, <1>6 DEF k

LEMMA ReadStatusFailsIsGood ==
  ASSUME Good(Now, {}), NEW c \in Client, ReadStatusFails(c)
  PROVE  \E z : Good(z, {}) /\ Becomes(z)
<1>. DEFINE r == clients[c].request
            k == HasFailed(clients[c])
            w == [Now EXCEPT !.clients[c] = k]
<1>1. /\ In(c, {"waiting_response_status_code"})
      /\ RecoverFromStatusError([Now EXCEPT !.clients[c].conn.alive = FALSE], c)
  BY DEF ReadStatusFails
<1>2. /\ clients[c] \in ClientRecord /\ r \in Key /\ IsOf(Now, c, r)
      /\ ClientOk(clients[c]) /\ clients[c].state = "waiting_response_status_code"
      /\ Now.clients = clients
  BY <1>1, RequestOf
<1>3. ~Contains(Now.cache, r)
  BY <1>2, NoEntryYet
<1>4. /\ k \in ClientRecord /\ k.request = r /\ ClientOk(k)
  BY <1>2, HasFailedFacts DEF Fetching
<1>5. RecoverFromStatusError(w, c)
  <2>1. w = [Now EXCEPT !.clients[c].conn.alive = FALSE]
    BY <1>2 DEF HasFailed
  <2>. HIDE DEF w
  <2>. QED
    BY <1>1, <2>1
<1>. DEFINE S == {c}
            None == {}
<1>6. None \in SUBSET {c} /\ S \in SUBSET {c} /\ c \in S /\ Good(Now, None)
  OBVIOUS
<1>. HIDE DEF k, r, S, None
<1>7. Good(w, S) /\ IsOf(w, c, r) /\ w.cache = Now.cache
  BY <1>2, <1>3, <1>4, <1>6, ChangeOneAbsent
<1>. HIDE DEF w
<1>. QED
  BY <1>2, <1>3, <1>5, <1>7, RecoverIsGood DEF S

LEMMA EndIsGood ==
  LET z == [clients |-> [c \in Client |-> NoClient], map |-> [r \in Key |-> <<>>],
            cache |-> EmptyCache, stranded |-> {}]
  IN  Good(z, {})
<1>. DEFINE z == [clients |-> [c \in Client |-> NoClient], map |-> [r \in Key |-> <<>>],
                  cache |-> EmptyCache, stranded |-> {}]
<1>1. EmptyCache \in CacheValue /\ CacheOk(z) /\ \A r \in Key : ~Contains(z.cache, r)
  BY EmptyCacheSound DEF Sound, WellFormed, CacheOk, Present
<1>. HIDE DEF EmptyCache
<1>2. z \in World
  BY <1>1 DEF World
<1>3. \A c \in Client : \A r \in Key : ~IsOf(z, c, r)
  BY DEF IsOf
<1>4. \A r \in Key : RequestOk(z, r, {})
  <2>. SUFFICES ASSUME NEW r \in Key PROVE RequestOk(z, r, {})
    OBVIOUS
  <2>1. z.map[r] = <<>>
    OBVIOUS
  <2>. HIDE DEF z
  <2>2. DOMAIN z.map[r] = {}
    BY <2>1
  <2>3. ListOk(z, r)
    BY <1>3, <2>2 DEF ListOk, OnceEach, Elements
  <2>. QED
    BY <1>1, <1>3, <2>3 DEF RequestOk, CleanOk
<1>. QED
  BY <1>1, <1>2, <1>4 DEF Good

LEMMA ReadStatusIsGood ==
  ASSUME Good(Now, {}), NEW c \in Client, ReadStatus(c)
  PROVE  ProcessEnds \/ \E z : Good(z, {}) /\ Becomes(z)
<1>. DEFINE cl == clients[c]
            r  == cl.request
<1>1. In(c, {"waiting_response_status_code"})
  BY DEF ReadStatus
<1>2. /\ cl \in ClientRecord /\ r \in Key /\ IsOf(Now, c, r)
      /\ ClientOk(cl) /\ cl.state = "waiting_response_status_code"
      /\ Now.clients = clients
  BY <1>1, RequestOf
<1>3. ~Contains(Now.cache, r)
  BY <1>2, NoEntryYet
<1>4. ASSUME NEW rd \in Reading(cl),
             LET w     == AfterReading(Now, c, rd)
                 chunk == ChunkRead(cl, rd)
             IN  StatusIsOk(w, c, chunk) \/ StatusIsError(w, c, chunk)
      PROVE  \E z : Good(z, {}) /\ Becomes(z)
  <2>. DEFINE w     == AfterReading(Now, c, rd)
              chunk == ChunkRead(cl, rd)
              k     == HasRead(cl, rd)
              None  == {}
  <2>1. cl.state \in Fetching
    BY <1>2 DEF Fetching
  <2>2. /\ k \in ClientRecord /\ ClientOk(k) /\ k.request = r /\ k.state = cl.state
        /\ k.should_read_from_cache = cl.should_read_from_cache
        /\ k.should_write_to_cache = cl.should_write_to_cache
        /\ chunk \in Seq(Block) /\ Continues(k.conn, chunk)
    BY <1>2, <2>1, ReadingFacts
  <2>3. w = [Now EXCEPT !.clients[c] = k]
    BY <1>2 DEF AfterReading, HasRead
  <2>4. None \in SUBSET {c} /\ Good(Now, None) /\ c \notin None
    OBVIOUS
  <2>5. StatusIsOk(w, c, chunk) \/ StatusIsError(w, c, chunk)
    BY <1>4
  <2>. HIDE DEF w, chunk, k, None, r
  <2>6. /\ k.should_read_from_cache => Now.clients[c].should_read_from_cache
        /\ k.should_write_to_cache => Now.clients[c].should_write_to_cache
    BY <1>2, <2>2
  <2>. HIDE DEF cl
  <2>7. Good(w, None) /\ IsOf(w, c, r) /\ w.clients[c] = k
    <3>1. r \in Key /\ IsOf(Now, c, r)
      BY <1>2
    <3>2. k \in ClientRecord /\ k.request = r /\ ClientOk(k)
      BY <2>2
    <3>. QED
      BY <1>3, <2>3, <2>4, <2>6, <3>1, <3>2, ChangeOneAbsent
  <2>8. Good(w, {}) /\ w.clients[c].state = "waiting_response_status_code"
    BY <1>2, <2>2, <2>7 DEF None
  <2>9. CASE StatusIsOk(w, c, chunk)
    BY <1>2, <2>2, <2>7, <2>8, <2>9, StatusIsOkIsGood
  <2>10. CASE StatusIsError(w, c, chunk)
    BY <1>2, <2>2, <2>7, <2>8, <2>10, StatusIsErrorIsGood
  <2>. QED
    BY <2>5, <2>9, <2>10
<1>5. ASSUME RecoverFromStatusError(Now, c)
      PROVE  \E z : Good(z, {}) /\ Becomes(z)
  <2>1. Good(Now, {c})
    BY GoodWeakens
  <2>. QED
    BY <1>2, <1>3, <1>5, <2>1, RecoverIsGood
<1>6. \/ \E rd \in Reading(cl) :
           LET w     == AfterReading(Now, c, rd)
               chunk == ChunkRead(cl, rd)
           IN  StatusIsOk(w, c, chunk) \/ StatusIsError(w, c, chunk)
      \/ RecoverFromStatusError(Now, c)
      \/ ProcessEnds
  BY DEF ReadStatus, StatusIsGarbled
<1>. QED
  BY <1>4, <1>5, <1>6

----------------------------------------------------------------------------
(* The rest of a response.                                                 *)

LEMMA BufferIsGood ==
  ASSUME NEW w, Good(w, {}), NEW r \in Key, NEW chunk \in Seq(Block),
         NEW S \in SUBSET Client, \A d \in S : IsOf(w, d, r)
  PROVE  Good(BufferChunk(w, S, chunk), {})
<1>. DEFINE v    == BufferChunk(w, S, chunk)
            F(k) == [k EXCEPT !.chunks = Append(@, chunk)]
            y    == [d \in Client |-> IF d \in S THEN F(w.clients[d]) ELSE w.clients[d]]
<1>1. /\ w \in World /\ w.map \in [Key -> Seq(Client)] /\ w.cache \in CacheValue
      /\ w.stranded \in SUBSET Key
      /\ w.clients \in [Client -> ClientRecord \cup {NoClient}]
      /\ \A d \in Client : w.clients[d] # NoClient =>
           w.clients[d] \in ClientRecord /\ ClientOk(w.clients[d])
  BY WorldFacts
<1>2. v = [w EXCEPT !.clients = y]
  BY DEF BufferChunk, ForEach
<1>3. ASSUME NEW d \in S
      PROVE  F(w.clients[d]) \in ClientRecord /\ Alike(w.clients[d], F(w.clients[d]))
  <2>. DEFINE k    == w.clients[d]
              more == Append(k.chunks, chunk)
              l    == [k EXCEPT !.chunks = more]
  <2>1. k \in ClientRecord /\ ClientOk(k) /\ k.request = r /\ k # NoClient
    BY <1>1, <1>3 DEF IsOf
  <2>2. more \in Seq(Seq(Block)) /\ F(k) = l
    BY <2>1 DEF ClientRecord
  <2>. HIDE DEF k, more, F
  <2>3. /\ l \in ClientRecord /\ l.request = k.request /\ l.state = k.state
        /\ l.should_read_from_cache = k.should_read_from_cache
        /\ l.should_write_to_cache = k.should_write_to_cache
        /\ l.conn = k.conn
    BY <2>1, <2>2 DEF ClientRecord
  <2>. HIDE DEF l
  <2>4. k.state # "waiting_for_request" /\ l # NoClient
    BY <2>1, <2>3, ServerAssumption, MarkerAssumption DEF ClientOk
  <2>5. F(k) \in ClientRecord /\ Alike(k, F(k))
    BY <2>1, <2>2, <2>3, <2>4 DEF Alike
  <2>. QED
    BY <2>5 DEF k
<1>. HIDE DEF F
<1>4. /\ y \in [Client -> ClientRecord \cup {NoClient}]
      /\ \A d \in Client : Alike(w.clients[d], y[d])
  BY <1>1, <1>3 DEF Alike
<1>. HIDE DEF y, v
<1>5. v = [clients |-> y, map |-> w.map, cache |-> w.cache, stranded |-> w.stranded]
  BY <1>1, <1>2, Replaced
<1>6. v \in World /\ CacheOk(v)
  BY <1>1, <1>4, <1>5 DEF World, Good, CacheOk
<1>7. /\ \A d \in Client : Alike(w.clients[d], v.clients[d])
      /\ v.map = w.map /\ v.stranded = w.stranded /\ v.cache.entry = w.cache.entry
  BY <1>4, <1>5
<1>. HIDE DEF v
<1>8. Good(v, {})
  BY <1>6, <1>7, AlikeIsGood
<1>. QED
  BY <1>8 DEF v

(* The client who reads the response has read a chunk, and v is the world  *)
(* with the cache as Write leaves it.                                      *)
LEMMA WrittenIsGood ==
  ASSUME NEW w, NEW c \in Client, NEW r \in Key, Good(w, {}), IsOf(w, c, r),
         w.clients[c].state = "waiting_response", Contains(w.cache, r),
         NEW rd \in Reading(w.clients[c]),
         NEW chunk, chunk = ChunkRead(w.clients[c], rd),
         NEW k, k = HasRead(w.clients[c], rd),
         NEW d, d = Write(w.cache, r, chunk),
         NEW v, v = [clients |-> [w.clients EXCEPT ![c] = k], map |-> w.map,
                     cache |-> d, stranded |-> w.stranded]
  PROVE  \/ WriteOutcome(w.cache, r, chunk) = "Written" /\ Good(v, {})
         \/ /\ WriteOutcome(w.cache, r, chunk) = "AllInUse"
            /\ NoRoom(w, v, c, r)
            /\ Contains(d, r) /\ d.entry[r].in_use = Len(w.map[r])
<1>. DEFINE e0 == w.cache.entry[r]
            L  == Len(w.map[r])
            cl == w.clients[c]
<1>1. /\ w \in World /\ w.map \in [Key -> Seq(Client)] /\ w.cache \in CacheValue
      /\ w.stranded \in SUBSET Key
      /\ w.clients \in [Client -> ClientRecord \cup {NoClient}]
      /\ \A h \in Client : h \in Elements(w.map[r]) <=> IsOf(w, h, r)
      /\ w.map[r] \in Seq(Client)
  BY WorldFacts
<1>2. cl \in ClientRecord /\ ClientOk(cl) /\ cl.state \in Fetching /\ cl.request = r
  BY WorldFacts DEF Fetching, IsOf
<1>3. ListOk(w, r) /\ EntryOk(w, r) /\ (r \notin w.stranded => CleanOk(w, r, {}))
  BY DEF Good, RequestOk
<1>4. WriterOk(cl, e0) /\ e0.in_use = L
  BY <1>3 DEF EntryOk, Fetches
<1>5. L \in Nat /\ L > 0
  <2>1. c \in Elements(w.map[r])
    BY <1>1
  <2>. QED
    BY <1>1, <2>1 DEF Elements
<1>. HIDE DEF L
<1>6. /\ k \in ClientRecord /\ ClientOk(k) /\ k.request = r /\ k.state = cl.state
      /\ k.should_read_from_cache = cl.should_read_from_cache
      /\ k.should_write_to_cache = cl.should_write_to_cache
      /\ k.conn \in Connection /\ ConnOk(k.conn)
      /\ chunk \in Seq(Block)
      /\ \A buffer \in Seq(Block) :
           Continues(cl.conn, buffer) => Continues(k.conn, buffer \o chunk)
  BY <1>2, ReadingFacts
<1>7. PICK x0 \in Nat : Sound(w.cache, x0) /\ (w.stranded = {} => x0 = 0)
  BY DEF Good, CacheOk
<1>8. r \in Present(w.cache) /\ e0 \in Entry
  BY <1>1 DEF Present, Contains, CacheValue
<1>9. /\ d \in CacheValue /\ Contains(d, r)
      /\ \A x \in Nat : Sound(w.cache, x) => Sound(d, x)
      /\ \A q \in Key \ {r} : \/ d.entry[q] = w.cache.entry[q]
                              \/ d.entry[q] = NoEntry /\ w.cache.entry[q].in_use = 0
      /\ \/ /\ WriteOutcome(w.cache, r, chunk) = "AllInUse"
            /\ d.entry[r] = e0
         \/ /\ WriteOutcome(w.cache, r, chunk) = "Written"
            /\ d.entry[r].in_use = e0.in_use
            /\ d.entry[r].completed = e0.completed
            /\ d.entry[r].buffer = e0.buffer \o chunk
  <2>1. w.cache.entry[r].in_use > 0
    BY <1>4, <1>5
  <2>. DEFINE D == w.cache
              W == Write(D, r, chunk)
  <2>2. chunk \in Seq(Block) /\ Sound(D, x0) /\ r \in Present(D) /\ D.entry[r].in_use > 0
    BY <1>6, <1>7, <1>8, <2>1
  <2>. HIDE DEF D, e0
  <2>3. /\ W \in CacheValue /\ Contains(W, r)
        /\ \A x \in Nat : Sound(D, x) => Sound(W, x)
        /\ \A q \in Key \ {r} : \/ W.entry[q] = D.entry[q]
                                \/ W.entry[q] = NoEntry /\ D.entry[q].in_use = 0
        /\ \/ /\ WriteOutcome(D, r, chunk) = "AllInUse"
              /\ W.entry[r] = D.entry[r]
           \/ /\ WriteOutcome(D, r, chunk) = "Written"
              /\ W.entry[r].in_use = D.entry[r].in_use
              /\ W.entry[r].completed = D.entry[r].completed
              /\ W.entry[r].buffer = D.entry[r].buffer \o chunk
    BY <2>2, WriteInUse
  <2>. QED
    BY <2>3 DEF D, e0
<1>. DEFINE y == [w.clients EXCEPT ![c] = k]
<1>10. /\ y \in [Client -> ClientRecord \cup {NoClient}] /\ y[c] = k
       /\ \A h \in Client \ {c} : y[h] = w.clients[h]
  BY <1>1, <1>6
<1>11. v = [clients |-> y, map |-> w.map, cache |-> d, stranded |-> w.stranded]
  OBVIOUS
<1>. HIDE DEF y
<1>12. /\ v \in World /\ v.clients[c] = k /\ v.map = w.map /\ v.cache = d
       /\ v.stranded = w.stranded
       /\ \A h \in Client \ {c} : v.clients[h] = w.clients[h]
  <2>1. d \in CacheValue
    BY <1>9
  <2>2. /\ v.clients = y /\ v.map = w.map /\ v.cache = d /\ v.stranded = w.stranded
    BY <1>11
  <2>3. v \in World
    BY <1>1, <1>10, <1>11, <2>1 DEF World
  <2>. QED
    BY <1>10, <2>2, <2>3
<1>13. CASE WriteOutcome(w.cache, r, chunk) = "AllInUse"
  <2>1. d.entry[r] = e0
    BY <1>9, <1>13
  <2>2. /\ Contains(d, r) /\ d.entry[r].in_use = L /\ ~d.entry[r].completed
        /\ d.entry[r].in_use \in 1..L
    BY <1>4, <1>5, <1>9, <2>1 DEF WriterOk
  <2>3. ASSUME r \notin w.stranded, NEW h \in Client \ {c}, IsOf(w, h, r)
        PROVE  ~w.clients[h].should_write_to_cache
    <3>1. CleanOk(w, r, {}) /\ ~w.cache.entry[r].completed
      BY <1>3, <1>4, <2>3 DEF WriterOk
    <3>2. w.clients[h].should_write_to_cache => Fetches(w, h, r)
      BY <2>3, <3>1 DEF CleanOk, Fetches
    <3>3. Fetches(w, c, r)
      BY DEF Fetches
    <3>. QED
      BY <1>3, <2>3, <3>2, <3>3 DEF EntryOk
  <2>4. k.conn # NoConn
    BY ONLY <1>2, <1>6 DEF ClientOk
  <2>. HIDE DEF e0
  <2>5. NoRoom(w, v, c, r)
    BY <1>6, <1>9, <1>12, <2>2, <2>3, <2>4 DEF NoRoom, L
  <2>. QED
    BY <1>13, <2>2, <2>5 DEF L
<1>14. CASE WriteOutcome(w.cache, r, chunk) = "Written"
  <2>1. /\ d.entry[r].in_use = L /\ ~d.entry[r].completed
        /\ Continues(k.conn, d.entry[r].buffer) /\ d.entry[r].buffer \in Seq(Block)
    <3>1. e0.buffer \in Seq(Block) /\ Continues(cl.conn, e0.buffer) /\ ~e0.completed
      BY <1>4, <1>8 DEF WriterOk, Entry
    <3>2. e0.buffer \o chunk \in Seq(Block)
      BY <1>6, <3>1
    <3>. HIDE DEF e0, cl
    <3>3. Continues(k.conn, e0.buffer \o chunk)
      BY <1>6, <3>1
    <3>. QED
      BY <1>4, <1>9, <1>14, <3>1, <3>2, <3>3
  <2>. HIDE DEF e0
  <2>2. PartOfOne(d.entry[r].buffer)
    BY <1>6, <2>1, ContinuesIsPart
  <2>3. /\ \A h \in Client : IsOf(v, h, r) <=> IsOf(w, h, r)
        /\ \A h \in Client : Fetches(v, h, r) <=> Fetches(w, h, r)
    BY <1>2, <1>6, <1>12, MarkerAssumption DEF IsOf, Fetches
  <2>4. /\ \A h \in Client :
             /\ v.clients[h].state = w.clients[h].state
             /\ v.clients[h].should_read_from_cache = w.clients[h].should_read_from_cache
             /\ v.clients[h].should_write_to_cache = w.clients[h].should_write_to_cache
    BY ONLY <1>6, <1>12
  <2>. HIDE DEF cl
  <2>5. EntryOk(v, r)
    <3>1. \A h \in Client : Fetches(v, h, r) => h = c /\ WriterOk(v.clients[h], d.entry[r])
      <4>1. Fetches(w, c, r) /\ \A h \in Client : Fetches(w, h, r) => h = c
        BY <1>3 DEF EntryOk, Fetches
      <4>2. WriterOk(k, d.entry[r])
        BY <1>4, <1>6, <2>1 DEF WriterOk, cl
      <4>. QED
        BY <1>12, <2>3, <4>1, <4>2
    <3>2. \A h \in Client : IsOf(v, h, r) =>
            /\ v.clients[h].state \in {"got_response", "waiting_response"}
            /\ v.clients[h].should_read_from_cache
      BY <1>3, <2>3, <2>4 DEF EntryOk
    <3>. QED
      BY <1>12, <2>1, <2>2, <3>1, <3>2 DEF EntryOk, L
  <2>6. ListOk(v, r)
    BY <1>3, <1>12, <2>3 DEF ListOk
  <2>7. r \notin v.stranded => CleanOk(v, r, {})
    <3>1. Contains(w.cache, r) /\ Contains(v.cache, r) /\ ~w.cache.entry[r].completed
      BY <1>4, <1>9, <1>12 DEF WriterOk, e0
    <3>2. v.stranded = w.stranded
      BY ONLY <1>12
    <3>. HIDE DEF Contains
    <3>. QED
      BY ONLY <1>3, <2>3, <2>4, <3>1, <3>2 DEF CleanOk
  <2>8. CacheOk(v)
    BY <1>7, <1>9, <1>12 DEF CacheOk
  <2>. DEFINE R == {r}
              None == {}
  <2>9. /\ R \in SUBSET Key /\ \A q \in R : RequestOk(v, q, None)
        /\ Good(w, None) /\ \A h \in None : \A q \in Key \ R : ~IsOf(w, h, q)
    BY <2>5, <2>6, <2>7 DEF RequestOk
  <2>10. \A q \in Key \ R : Keeps(w, v, q)
    BY <1>9, <1>12 DEF Keeps
  <2>11. \A h \in Client : v.clients[h] = w.clients[h]
                             \/ Concerns(w, v, h, R \cup {NoRequest})
    BY <1>2, <1>6, <1>12 DEF Concerns, cl
  <2>. HIDE DEF R, None
  <2>12. Good(v, None)
    BY <1>12, <2>8, <2>9, <2>10, <2>11, StepIsGood
  <2>. QED
    BY <1>14, <2>12 DEF None
<1>. QED
  BY <1>9, <1>13, <1>14

(* ... and who reads on after a recovery that was cut short has no entry   *)
(* to write to: the bytes of his chunk are counted and held nowhere.       *)
LEMMA WrittenToNoneIsGood ==
  ASSUME NEW w, NEW c \in Client, NEW r \in Key, Good(w, {}), IsOf(w, c, r),
         w.clients[c].state = "waiting_response", ~Contains(w.cache, r),
         r \in w.stranded,
         NEW rd \in Reading(w.clients[c]),
         NEW chunk, chunk = ChunkRead(w.clients[c], rd),
         NEW k, k = HasRead(w.clients[c], rd),
         NEW d, d = Write(w.cache, r, chunk),
         NEW v, v = [clients |-> [w.clients EXCEPT ![c] = k], map |-> w.map,
                     cache |-> d, stranded |-> w.stranded]
  PROVE  /\ ~Contains(d, r)
         /\ \/ WriteOutcome(w.cache, r, chunk) = "KeyNotFound" /\ Good(v, {})
            \/ WriteOutcome(w.cache, r, chunk) = "AllInUse" /\ NoRoom(w, v, c, r)
<1>. DEFINE cl == w.clients[c]
            D  == w.cache
            n  == Len(chunk)
            V  == Victims(D, n)
<1>1. /\ w \in World /\ w.map \in [Key -> Seq(Client)] /\ D \in CacheValue
      /\ w.stranded \in SUBSET Key
      /\ w.clients \in [Client -> ClientRecord \cup {NoClient}]
  BY WorldFacts
<1>2. cl \in ClientRecord /\ ClientOk(cl) /\ cl.state \in Fetching /\ cl.request = r
  BY WorldFacts DEF Fetching, IsOf
<1>3. /\ k \in ClientRecord /\ ClientOk(k) /\ k.request = r /\ k.state = cl.state
      /\ chunk \in Seq(Block)
  BY <1>2, ReadingFacts
<1>4. PICK x0 \in Nat : Sound(D, x0)
  BY DEF Good, CacheOk
<1>5. D.entry[r] = NoEntry /\ r \in Key \ Present(D)
  BY DEF Present, Contains
<1>. HIDE DEF D
<1>6. /\ V \subseteq Unused(D) /\ d.entry = Left(D, V)
      /\ \A x \in Nat : Sound(D, x) =>
           \/ WriteOutcome(D, r, chunk) = "AllInUse" /\ Sound(d, x)
           \/ WriteOutcome(D, r, chunk) = "KeyNotFound" /\ Sound(d, x + n)
  <2>1. ASSUME NEW x \in Nat, Sound(D, x)
        PROVE  /\ V \subseteq Unused(D) /\ Write(D, r, chunk).entry = Left(D, V)
               /\ \/ WriteOutcome(D, r, chunk) = "AllInUse" /\ Sound(Write(D, r, chunk), x)
                  \/ /\ WriteOutcome(D, r, chunk) = "KeyNotFound"
                     /\ Sound(Write(D, r, chunk), x + n)
    <3>1. chunk \in Seq(Block) /\ Sound(D, x) /\ r \in Key \ Present(D)
      BY <1>3, <1>5, <2>1
    <3>. QED
      BY <3>1, WriteAbsentSound
  <2>2. d = Write(D, r, chunk)
    BY DEF D
  <2>. HIDE DEF V, n
  <2>. QED
    BY <1>4, <2>1, <2>2
<1>7. n \in Nat
  BY <1>3
<1>8. \A q \in Key : \/ d.entry[q] = D.entry[q]
                     \/ d.entry[q] = NoEntry /\ D.entry[q].in_use = 0
  BY <1>6 DEF Left, Unused
<1>9. d.entry[r] = NoEntry /\ ~Contains(d, r)
  <2>1. d.entry[r] = NoEntry
    BY <1>5, <1>8
  <2>. QED
    BY <2>1 DEF Contains
<1>. HIDE DEF n, V
<1>10. d \in CacheValue
  BY <1>4, <1>6, <1>7 DEF Sound, WellFormed
<1>. DEFINE y == [w.clients EXCEPT ![c] = k]
<1>11. /\ y \in [Client -> ClientRecord \cup {NoClient}] /\ y[c] = k
       /\ \A h \in Client \ {c} : y[h] = w.clients[h]
  BY <1>1, <1>3
<1>12. v = [clients |-> y, map |-> w.map, cache |-> d, stranded |-> w.stranded]
  OBVIOUS
<1>. HIDE DEF y
<1>13. /\ v.clients = y /\ v.map = w.map /\ v.cache = d /\ v.stranded = w.stranded
  BY <1>12
<1>14. v \in World
  BY <1>1, <1>10, <1>11, <1>12 DEF World
<1>15. CASE WriteOutcome(D, r, chunk) = "AllInUse"
  <2>1. \A x \in Nat : Sound(D, x) => Sound(d, x)
    BY <1>6, <1>15
  <2>2. k.conn # NoConn
    BY <1>2, <1>3 DEF ClientOk
  <2>3. NoRoom(w, v, c, r)
    BY <1>3, <1>8, <1>9, <1>11, <1>13, <1>14, <2>1, <2>2 DEF NoRoom, D
  <2>. QED
    BY <1>9, <1>15, <2>3 DEF D
<1>16. CASE WriteOutcome(D, r, chunk) = "KeyNotFound"
  <2>. DEFINE None == {}
              Nobody == {}
  <2>1. CacheOk(v)
    <3>1. x0 + n \in Nat /\ Sound(d, x0 + n)
      BY <1>4, <1>6, <1>7, <1>16
    <3>. QED
      BY <1>13, <3>1 DEF CacheOk
  <2>2. Good(w, None) /\ \A h \in None : \A q \in Key \ {r} : ~IsOf(w, h, q)
    OBVIOUS
  <2>3. /\ ~Contains(w.cache, r) /\ v.cache.entry[r] = w.cache.entry[r]
        /\ \A q \in Key \ {r} : Keeps(w, v, q)
        /\ v.map[r] = w.map[r] /\ (r \in w.stranded => r \in v.stranded)
    BY <1>5, <1>8, <1>9, <1>13 DEF Keeps, D
  <2>4. \A h \in Client :
          \/ v.clients[h] = w.clients[h] /\ (h \in None => h \in Nobody)
          \/ /\ IsOf(w, h, r) /\ IsOf(v, h, r) /\ ClientOk(v.clients[h])
             /\ \/ h \in Nobody \/ r \in v.stranded
                \/ /\ h \notin None
                   /\ v.clients[h].should_read_from_cache =>
                        w.clients[h].should_read_from_cache
                   /\ v.clients[h].should_write_to_cache =>
                        w.clients[h].should_write_to_cache
    <3>1. IsOf(v, c, r)
      BY <1>3, <1>11, <1>13, MarkerAssumption DEF IsOf
    <3>. QED
      BY <1>3, <1>11, <1>13, <3>1
  <2>. HIDE DEF None, Nobody
  <2>5. Good(v, Nobody)
    <3>. DEFINE z == v
    <3>1. /\ z \in World /\ CacheOk(z) /\ Good(w, None)
          /\ \A h \in None : \A q \in Key \ {r} : ~IsOf(w, h, q)
          /\ ~Contains(w.cache, r) /\ z.cache.entry[r] = w.cache.entry[r]
          /\ \A q \in Key \ {r} : Keeps(w, z, q)
          /\ z.map[r] = w.map[r] /\ (r \in w.stranded => r \in z.stranded)
          /\ \A h \in Client :
               \/ z.clients[h] = w.clients[h] /\ (h \in None => h \in Nobody)
               \/ /\ IsOf(w, h, r) /\ IsOf(z, h, r) /\ ClientOk(z.clients[h])
                  /\ \/ h \in Nobody \/ r \in z.stranded
                     \/ /\ h \notin None
                        /\ z.clients[h].should_read_from_cache =>
                             w.clients[h].should_read_from_cache
                        /\ z.clients[h].should_write_to_cache =>
                             w.clients[h].should_write_to_cache
      BY <1>14, <2>1, <2>2, <2>3, <2>4
    <3>. HIDE DEF z
    <3>2. Good(z, Nobody)
      BY <3>1, AbsentIsGood
    <3>. QED
      BY <3>2 DEF z
  <2>. QED
    BY <1>9, <1>16, <2>5 DEF Nobody, D
<1>. QED
  BY <1>4, <1>6, <1>15, <1>16

LEMMA ReadResponseIsGood ==
  ASSUME Good(Now, {}), NEW c \in Client, ReadResponse(c)
  PROVE  \E z : Good(z, {}) /\ Becomes(z)
<1>. DEFINE cl == clients[c]
            r  == cl.request
<1>1. In(c, {"waiting_response"})
  BY DEF ReadResponse
<1>2. /\ cl \in ClientRecord /\ r \in Key /\ IsOf(Now, c, r)
      /\ ClientOk(cl) /\ cl.state = "waiting_response"
      /\ Now.clients = clients
  BY <1>1, RequestOf
<1>3. cl.state \in Fetching
  BY <1>2 DEF Fetching
<1>4. PICK rd \in Reading(cl) :
        LET w       == AfterReading(Now, c, rd)
            chunk   == ChunkRead(cl, rd)
            written == WriteToCache(w, c, chunk)
        IN  \/ /\ cl.should_write_to_cache
               /\ Becomes(IF written.threw THEN DiscardClient(written.world, c)
                          ELSE written.world)
            \/ /\ ~cl.should_write_to_cache
               /\ Becomes(BufferChunk(w,
                            IF cl.should_write_to_all
                            THEN Listed(Now, cl.request) ELSE {c}, chunk))
  BY DEF ReadResponse
<1>. DEFINE chunk == ChunkRead(cl, rd)
            k     == HasRead(cl, rd)
            w     == AfterReading(Now, c, rd)
<1>5. /\ k \in ClientRecord /\ ClientOk(k) /\ k.request = r
      /\ k.should_read_from_cache = cl.should_read_from_cache
      /\ k.should_write_to_cache = cl.should_write_to_cache
      /\ chunk \in Seq(Block)
  BY <1>2, <1>3, ReadingFacts
<1>6. w = [Now EXCEPT !.clients[c] = k]
  BY <1>2 DEF AfterReading, HasRead
<1>7. w = [clients |-> [Now.clients EXCEPT ![c] = k], map |-> Now.map,
           cache |-> Now.cache, stranded |-> Now.stranded]
  <2>. HIDE DEF w, k
  <2>. QED
    BY <1>6, ChangedOne
<1>8. CASE /\ ~cl.should_write_to_cache
           /\ Becomes(BufferChunk(w, IF cl.should_write_to_all
                                     THEN Listed(Now, cl.request) ELSE {c}, chunk))
  <2>. DEFINE S == IF cl.should_write_to_all THEN Listed(Now, cl.request) ELSE {c}
              None == {}
  <2>1. ~Contains(Now.cache, r)
    <3>1. Fetches(Now, c, r) /\ ~Now.clients[c].should_write_to_cache
      BY <1>2, <1>8 DEF Fetches
    <3>. HIDE DEF r, cl
    <3>. QED
      BY <1>2, <3>1 DEF Good, RequestOk, EntryOk, WriterOk
  <2>2. None \in SUBSET {c} /\ Good(Now, None) /\ c \notin None
    OBVIOUS
  <2>3. /\ k.should_read_from_cache => Now.clients[c].should_read_from_cache
        /\ k.should_write_to_cache => Now.clients[c].should_write_to_cache
    BY <1>2, <1>5
  <2>4. r \in Key /\ IsOf(Now, c, r) /\ k \in ClientRecord /\ k.request = r /\ ClientOk(k)
    BY <1>2, <1>5
  <2>5. \A d \in Listed(Now, r) : d \in Client /\ IsOf(Now, d, r)
    <3>1. /\ \A d \in Client : d \in Elements(Now.map[r]) <=> IsOf(Now, d, r)
          /\ Now.map[r] \in Seq(Client)
      BY <1>2, WorldFacts
    <3>. QED
      BY <3>1 DEF Listed, Elements
  <2>6. S \in SUBSET Client /\ \A d \in S : d = c \/ IsOf(Now, d, r)
    BY <2>5
  <2>. HIDE DEF k, w, None, S, r, cl, chunk
  <2>7. Good(w, None) /\ IsOf(w, c, r)
    BY <1>6, <2>1, <2>2, <2>3, <2>4, ChangeOneAbsent
  <2>8. \A d \in Client \ {c} : w.clients[d] = Now.clients[d]
    BY <1>7
  <2>9. \A d \in S : IsOf(w, d, r)
    BY <2>6, <2>7, <2>8 DEF IsOf
  <2>10. Good(BufferChunk(w, S, chunk), {})
    <3>1. Good(w, {})
      BY <2>7 DEF None
    <3>. QED
      BY <1>2, <1>5, <2>6, <2>9, <3>1, BufferIsGood
  <2>. QED
    BY <1>8, <2>10 DEF S
<1>9. CASE /\ cl.should_write_to_cache
           /\ LET written == WriteToCache(w, c, chunk)
              IN  Becomes(IF written.threw THEN DiscardClient(written.world, c)
                          ELSE written.world)
  <2>. DEFINE d == Write(Now.cache, r, chunk)
              y == [Now.clients EXCEPT ![c] = k]
              v == [clients |-> y, map |-> Now.map, cache |-> d,
                    stranded |-> Now.stranded]
              t == WriteToCache(w, c, chunk)
              z == Fallback(v, c, chunk)
  <2>1. Becomes(IF t.threw THEN DiscardClient(t.world, c) ELSE t.world)
    BY <1>9
  <2>2. /\ w.clients = y /\ w.cache = Now.cache
        /\ v = [w EXCEPT !.cache = Write(w.cache, r, chunk)]
    <3>. HIDE DEF w, y, k, chunk, r
    <3>1. [[clients |-> y, map |-> Now.map, cache |-> Now.cache,
            stranded |-> Now.stranded] EXCEPT !.cache = d] = v
      BY Rebuilt
    <3>2. w = [clients |-> y, map |-> Now.map, cache |-> Now.cache,
               stranded |-> Now.stranded]
      BY <1>7 DEF y
    <3>. QED
      BY <3>1, <3>2
  <2>3. y[c] = k
    BY <1>2, WorldFacts
  <2>4. /\ WriteOutcome(Now.cache, r, chunk) = "AllInUse" =>
             t.world = z /\ t.threw = FallbackThrows(v, r)
        /\ WriteOutcome(Now.cache, r, chunk) = "KeyNotFound" => t.world = v /\ t.threw
        /\ WriteOutcome(Now.cache, r, chunk) = "Written" => t.world = v /\ ~t.threw
    <3>1. w.clients[c].request = r
      BY <1>5, <2>2, <2>3
    <3>. HIDE DEF w, chunk, r, v, y, k, d
    <3>2. LET a == WriteToCache(w, c, chunk)
          IN  /\ WriteOutcome(w.cache, r, chunk) = "AllInUse" =>
                   a.world = Fallback(v, c, chunk) /\ a.threw = FallbackThrows(v, r)
              /\ WriteOutcome(w.cache, r, chunk) = "KeyNotFound" =>
                   a.world = v /\ a.threw
              /\ WriteOutcome(w.cache, r, chunk) = "Written" =>
                   a.world = v /\ ~a.threw
      BY <2>2, <3>1, WriteCases
    <3>. QED
      BY <2>2, <3>2
  <2>5. Now.clients[c].state = "waiting_response" /\ rd \in Reading(Now.clients[c])
        /\ chunk = ChunkRead(Now.clients[c], rd) /\ k = HasRead(Now.clients[c], rd)
    BY <1>2
  <2>6. v = [clients |-> [Now.clients EXCEPT ![c] = k], map |-> Now.map,
             cache |-> d, stranded |-> Now.stranded]
    OBVIOUS
  <2>. HIDE DEF w, t, y, k, chunk, r
  <2>7. IsOf(v, c, r)
    BY <1>5, <2>3, MarkerAssumption DEF IsOf
  <2>. HIDE DEF v, d, z
  <2>8. NoRoom(Now, v, c, r) =>
          /\ Good(z, {c}) /\ IsOf(z, c, r)
          /\ FallbackThrows(v, r) <=>
               ~(Contains(v.cache, r) /\ v.cache.entry[r].in_use = Len(Now.map[r]))
          /\ ~FallbackThrows(v, r) => Good(z, {})
    <3>. SUFFICES ASSUME NoRoom(Now, v, c, r)
                  PROVE  /\ Good(z, {c}) /\ IsOf(z, c, r)
                         /\ FallbackThrows(v, r) <=>
                              ~(Contains(v.cache, r)
                                  /\ v.cache.entry[r].in_use = Len(Now.map[r]))
                         /\ ~FallbackThrows(v, r) => Good(z, {})
      OBVIOUS
    <3>1. r \in Key /\ IsOf(Now, c, r) /\ chunk \in Seq(Block)
      BY <1>2, <1>5
    <3>2. /\ Good(Fallback(v, c, chunk), {c}) /\ IsOf(Fallback(v, c, chunk), c, r)
          /\ FallbackThrows(v, r) <=>
               ~(Contains(v.cache, r) /\ v.cache.entry[r].in_use = Len(Now.map[r]))
          /\ ~FallbackThrows(v, r) => Good(Fallback(v, c, chunk), {})
      BY <3>1, FallbackIsGood
    <3>. QED
      BY <3>2 DEF z
  <2>9. v.cache = d
    BY <2>6
  <2>10. CASE Contains(Now.cache, r)
    <3>1. \/ WriteOutcome(Now.cache, r, chunk) = "Written" /\ Good(v, {})
          \/ /\ WriteOutcome(Now.cache, r, chunk) = "AllInUse"
             /\ NoRoom(Now, v, c, r)
             /\ Contains(d, r) /\ d.entry[r].in_use = Len(Now.map[r])
      <4>. HIDE DEF cl
      <4>1. r \in Key /\ IsOf(Now, c, r) /\ d = Write(Now.cache, r, chunk)
        BY <1>2 DEF d
      <4>. QED
        BY <2>5, <2>6, <2>10, <4>1, WrittenIsGood
    <3>2. ~t.threw /\ Good(t.world, {})
      BY <2>4, <2>8, <2>9, <3>1
    <3>. QED
      BY <2>1, <3>2
  <2>11. CASE ~Contains(Now.cache, r)
    <3>1. r \in Now.stranded
      <4>1. IsOf(Now, c, r) /\ Now.clients[c].should_write_to_cache /\ r \in Key
        BY <1>2, <1>9
      <4>. QED
        BY <2>11, <4>1 DEF Good, RequestOk, CleanOk
    <3>2. /\ ~Contains(d, r)
          /\ \/ WriteOutcome(Now.cache, r, chunk) = "KeyNotFound" /\ Good(v, {})
             \/ WriteOutcome(Now.cache, r, chunk) = "AllInUse" /\ NoRoom(Now, v, c, r)
      <4>. HIDE DEF cl
      <4>1. r \in Key /\ IsOf(Now, c, r) /\ d = Write(Now.cache, r, chunk)
        BY <1>2 DEF d
      <4>. QED
        BY <2>5, <2>6, <2>11, <3>1, <4>1, WrittenToNoneIsGood
    <3>3. t.threw /\ Good(t.world, {c}) /\ IsOf(t.world, c, r)
      <4>1. Good(v, {}) => Good(v, {c})
        BY GoodWeakens
      <4>. QED
        BY <2>4, <2>7, <2>8, <2>9, <3>2, <4>1
    <3>4. Good(DiscardClient(t.world, c), {})
      BY <1>2, <3>3, DiscardIsGood
    <3>. QED
      BY <2>1, <3>3, <3>4
  <2>. QED
    BY <2>10, <2>11
<1>. QED
  BY <1>4, <1>8, <1>9

LEMMA GotResponseFacts ==
  ASSUME NEW cl \in ClientRecord, ClientOk(cl), cl.request \in Key
  PROVE  LET k == GotResponse(cl)
         IN  /\ k \in ClientRecord /\ ClientOk(k) /\ k.request = cl.request
             /\ k.conn = cl.conn /\ k.state = "got_response"
             /\ k.should_read_from_cache = cl.should_read_from_cache
             /\ k.should_write_to_cache = cl.should_write_to_cache
<1>. DEFINE k == GotResponse(cl)
<1>1. /\ k \in ClientRecord /\ k.request = cl.request
      /\ k.conn = cl.conn /\ k.state = "got_response"
      /\ k.should_read_from_cache = cl.should_read_from_cache
      /\ k.should_write_to_cache = cl.should_write_to_cache
  BY UpdateFacts
<1>. HIDE DEF k
<1>2. ClientOk(k)
  BY <1>1, ServerAssumption DEF ClientOk, Fetching
<1>. QED
  BY <1>1, <1>2 DEF k

(* The end of the response, while the clients S of it are told so. *)
LEMMA ToldIsGood ==
  ASSUME NEW w, Good(w, {}), NEW r \in Key, ~Contains(w.cache, r),
         NEW S \in SUBSET Client, \A d \in S : IsOf(w, d, r)
  PROVE  Good(ForEach(w, S, GotResponse), {})
<1>. DEFINE v == ForEach(w, S, GotResponse)
            y == [d \in Client |-> IF d \in S THEN GotResponse(w.clients[d])
                                   ELSE w.clients[d]]
            None == {}
            Nobody == {}
<1>1. /\ w \in World /\ w.map \in [Key -> Seq(Client)] /\ w.cache \in CacheValue
      /\ w.stranded \in SUBSET Key
      /\ w.clients \in [Client -> ClientRecord \cup {NoClient}]
      /\ \A d \in Client : w.clients[d] # NoClient =>
           w.clients[d] \in ClientRecord /\ ClientOk(w.clients[d])
  BY WorldFacts
<1>2. v = [w EXCEPT !.clients = y]
  BY DEF ForEach
<1>3. ASSUME NEW d \in S
      PROVE  LET k == GotResponse(w.clients[d])
             IN  /\ k \in ClientRecord /\ ClientOk(k) /\ k.request = r
                 /\ k.should_read_from_cache = w.clients[d].should_read_from_cache
                 /\ k.should_write_to_cache = w.clients[d].should_write_to_cache
  <2>1. /\ w.clients[d] \in ClientRecord /\ ClientOk(w.clients[d])
        /\ w.clients[d].request = r
    BY <1>1, <1>3 DEF IsOf
  <2>. QED
    BY <2>1, GotResponseFacts
<1>4. y \in [Client -> ClientRecord \cup {NoClient}]
  BY <1>1, <1>3
<1>5. \A d \in Client :
        \/ y[d] = w.clients[d] /\ d \notin S
        \/ /\ d \in S /\ y[d] \in ClientRecord /\ ClientOk(y[d]) /\ y[d].request = r
           /\ y[d].should_read_from_cache = w.clients[d].should_read_from_cache
           /\ y[d].should_write_to_cache = w.clients[d].should_write_to_cache
  BY <1>3
<1>. HIDE DEF y, v
<1>6. v = [clients |-> y, map |-> w.map, cache |-> w.cache, stranded |-> w.stranded]
  BY <1>1, <1>2, Replaced
<1>7. v \in World
  BY <1>1, <1>4, <1>6 DEF World
<1>8. /\ v.clients = y /\ v.map = w.map /\ v.cache = w.cache /\ v.stranded = w.stranded
  BY <1>6
<1>9. /\ CacheOk(v) /\ Good(w, None) /\ \A d \in None : \A q \in Key \ {r} : ~IsOf(w, d, q)
      /\ v.cache.entry[r] = w.cache.entry[r] /\ v.map[r] = w.map[r]
      /\ r \in w.stranded => r \in v.stranded
      /\ \A q \in Key \ {r} : Keeps(w, v, q)
  BY <1>8 DEF Keeps, CacheOk, Good
<1>10. \A d \in Client :
         \/ v.clients[d] = w.clients[d] /\ (d \in None => d \in Nobody)
         \/ /\ IsOf(w, d, r) /\ IsOf(v, d, r) /\ ClientOk(v.clients[d])
            /\ \/ d \in Nobody \/ r \in v.stranded
               \/ /\ d \notin None
                  /\ v.clients[d].should_read_from_cache =>
                       w.clients[d].should_read_from_cache
                  /\ v.clients[d].should_write_to_cache =>
                       w.clients[d].should_write_to_cache
  BY <1>5, <1>8, MarkerAssumption DEF IsOf
<1>. HIDE DEF None, Nobody
<1>11. Good(v, Nobody)
  BY <1>7, <1>9, <1>10, AbsentIsGood
<1>. QED
  BY <1>11 DEF v, Nobody

(* The end of a response that is in the cache. *)
LEMMA CompletedIsGood ==
  ASSUME NEW w, Good(w, {}), NEW c \in Client, NEW r \in Key, IsOf(w, c, r),
         w.clients[c].state = "waiting_response", Contains(w.cache, r),
         NEW k, k = GotResponse(w.clients[c])
  PROVE  Good([clients |-> [w.clients EXCEPT ![c] = k], map |-> w.map,
               cache |-> CompleteEntry(w.cache, r), stranded |-> w.stranded], {})
<1>. DEFINE y == [w.clients EXCEPT ![c] = k]
            d == CompleteEntry(w.cache, r)
            v == [clients |-> y, map |-> w.map, cache |-> d, stranded |-> w.stranded]
            R == {r}
            None == {}
<1>1. /\ w \in World /\ w.map \in [Key -> Seq(Client)] /\ w.cache \in CacheValue
      /\ w.stranded \in SUBSET Key
      /\ w.clients \in [Client -> ClientRecord \cup {NoClient}]
      /\ w.clients[c] \in ClientRecord /\ ClientOk(w.clients[c])
      /\ w.clients[c].request = r
  BY WorldFacts DEF IsOf
<1>2. /\ k \in ClientRecord /\ ClientOk(k) /\ k.request = r /\ k.state = "got_response"
      /\ k.should_read_from_cache = w.clients[c].should_read_from_cache
      /\ k.should_write_to_cache = w.clients[c].should_write_to_cache
  BY <1>1, GotResponseFacts
<1>3. r \in Present(w.cache)
  BY DEF Present
<1>4. /\ \A x \in Nat : Sound(w.cache, x) => Sound(d, x)
      /\ \E x \in Nat : Sound(w.cache, x)
      /\ d.entry = [w.cache.entry EXCEPT ![r].completed = TRUE]
  <2>1. \E x \in Nat : Sound(w.cache, x)
    BY DEF Good, CacheOk
  <2>. QED
    BY <1>3, <2>1, CompleteSound
<1>5. /\ w.cache.entry[r] \in Entry /\ r \in DOMAIN w.cache.entry
      /\ w.cache.entry \in [Key -> Entry \cup {NoEntry}]
  BY <1>1 DEF CacheValue, Contains
<1>. HIDE DEF d
<1>6. d \in CacheValue
  BY <1>4 DEF Sound, WellFormed
<1>7. /\ d.entry[r] \in Entry /\ d.entry[r].completed
      /\ d.entry[r].in_use = w.cache.entry[r].in_use
      /\ d.entry[r].buffer = w.cache.entry[r].buffer
      /\ \A q \in Key \ {r} : d.entry[q] = w.cache.entry[q]
  <2>. DEFINE e == w.cache.entry
  <2>1. d.entry = [e EXCEPT ![r].completed = TRUE] /\ e[r] \in Entry
        /\ e \in [Key -> Entry \cup {NoEntry}]
    BY <1>4, <1>5
  <2>. HIDE DEF e
  <2>2. /\ d.entry[r] = [e[r] EXCEPT !.completed = TRUE]
        /\ \A q \in Key \ {r} : d.entry[q] = e[q]
    BY <2>1
  <2>3. /\ [e[r] EXCEPT !.completed = TRUE] \in Entry
        /\ [e[r] EXCEPT !.completed = TRUE].completed
        /\ [e[r] EXCEPT !.completed = TRUE].in_use = e[r].in_use
        /\ [e[r] EXCEPT !.completed = TRUE].buffer = e[r].buffer
    BY <2>1 DEF Entry
  <2>. QED
    BY <2>2, <2>3 DEF e
<1>8. /\ y \in [Client -> ClientRecord \cup {NoClient}] /\ y[c] = k
      /\ \A h \in Client \ {c} : y[h] = w.clients[h]
  BY <1>1, <1>2
<1>. HIDE DEF y
<1>9. /\ v.clients = y /\ v.map = w.map /\ v.cache = d /\ v.stranded = w.stranded
  OBVIOUS
<1>10. v \in World
  BY <1>1, <1>6, <1>8 DEF World
<1>. HIDE DEF v
<1>11. CacheOk(v)
  BY <1>4, <1>9 DEF Good, CacheOk
<1>12. \A h \in Client : IsOf(v, h, r) <=> IsOf(w, h, r)
  BY <1>1, <1>2, <1>8, <1>9, MarkerAssumption DEF IsOf
<1>13. ListOk(w, r) /\ EntryOk(w, r)
  BY DEF Good, RequestOk
<1>14. ListOk(v, r)
  BY <1>9, <1>12, <1>13 DEF ListOk
<1>15. \A h \in Client : ~Fetches(v, h, r)
  <2>1. ~Fetches(v, c, r)
    BY <1>2, <1>8, <1>9 DEF Fetches
  <2>2. ASSUME NEW h \in Client \ {c}, Fetches(v, h, r) PROVE FALSE
    <3>1. Fetches(w, h, r) /\ Fetches(w, c, r)
      BY <1>8, <1>9, <2>2 DEF Fetches, IsOf
    <3>. QED
      BY <1>13, <3>1 DEF EntryOk
  <2>. QED
    BY <2>1, <2>2
<1>16. EntryOk(v, r)
  <2>1. \A h \in Client : IsOf(v, h, r) =>
          /\ v.clients[h].state \in {"got_response", "waiting_response"}
          /\ v.clients[h].should_read_from_cache
    BY <1>2, <1>8, <1>9, <1>12, <1>13 DEF EntryOk
  <2>. QED
    BY <1>7, <1>9, <1>13, <1>15, <2>1 DEF EntryOk
<1>17. Contains(v.cache, r) /\ CleanOk(v, r, None)
  <2>1. Contains(v.cache, r)
    BY <1>7, <1>9, CacheAssumption DEF Contains
  <2>. QED
    BY <1>7, <1>9, <2>1 DEF CleanOk
<1>18. /\ R \in SUBSET Key /\ \A q \in R : RequestOk(v, q, None)
       /\ Good(w, None) /\ \A h \in None : \A q \in Key \ R : ~IsOf(w, h, q)
  BY <1>14, <1>16, <1>17 DEF RequestOk
<1>19. \A q \in Key \ R : Keeps(w, v, q)
  BY <1>7, <1>9 DEF Keeps
<1>20. \A h \in Client : v.clients[h] = w.clients[h]
                           \/ Concerns(w, v, h, R \cup {NoRequest})
  BY <1>1, <1>2, <1>8, <1>9 DEF Concerns
<1>. HIDE DEF R, None
<1>21. Good(v, None)
  BY <1>10, <1>11, <1>18, <1>19, <1>20, StepIsGood
<1>. QED
  BY <1>21 DEF v, y, d, None

LEMMA ReadResponseEndIsGood ==
  ASSUME Good(Now, {}), NEW c \in Client, ReadResponseEnd(c)
  PROVE  \E z : Good(z, {}) /\ Becomes(z)
<1>. DEFINE cl == clients[c]
            r  == cl.request
            k  == GotResponse(cl)
            w  == ForEach(Now, {c}, GotResponse)
<1>1. In(c, {"waiting_response"})
  BY DEF ReadResponseEnd
<1>2. /\ cl \in ClientRecord /\ r \in Key /\ IsOf(Now, c, r)
      /\ ClientOk(cl) /\ cl.state = "waiting_response"
      /\ Now.clients = clients /\ Now.cache = cache /\ Now.map = request_clients_map
  BY <1>1, RequestOf
<1>3. \/ /\ cl.should_write_to_cache
         /\ Becomes(IF Contains(cache, r)
                    THEN [w EXCEPT !.cache = CompleteEntry(@, r)] ELSE w)
      \/ /\ ~cl.should_write_to_cache
         /\ Becomes(IF cl.should_write_to_all
                    THEN ForEach(w, Listed(w, r), GotResponse) ELSE w)
  BY DEF ReadResponseEnd
<1>4. w = [clients |-> [Now.clients EXCEPT ![c] = k], map |-> Now.map,
           cache |-> Now.cache, stranded |-> Now.stranded]
  <2>. DEFINE y == [d \in Client |-> IF d \in {c} THEN GotResponse(Now.clients[d])
                                     ELSE Now.clients[d]]
  <2>1. w = [Now EXCEPT !.clients = y]
    BY DEF ForEach
  <2>2. y = [Now.clients EXCEPT ![c] = k]
    <3>1. y[c] = k /\ \A d \in Client \ {c} : y[d] = Now.clients[d]
      BY <1>2
    <3>2. DOMAIN y = Client /\ y = [d \in Client |-> y[d]]
      OBVIOUS
    <3>3. Now.clients \in [Client -> ClientRecord \cup {NoClient}]
      BY WorldFacts
    <3>. HIDE DEF y, k
    <3>. QED
      BY <3>1, <3>2, <3>3
  <2>3. Now \in World
    BY WorldFacts
  <2>. HIDE DEF y, w, k
  <2>. QED
    BY <2>1, <2>2, <2>3, Replaced
<1>5. CASE Contains(cache, r) /\ cl.should_write_to_cache
  <2>1. [w EXCEPT !.cache = CompleteEntry(@, r)] =
          [clients |-> [Now.clients EXCEPT ![c] = k], map |-> Now.map,
           cache |-> CompleteEntry(Now.cache, r), stranded |-> Now.stranded]
    <3>. DEFINE y == [Now.clients EXCEPT ![c] = k]
                d == CompleteEntry(Now.cache, r)
    <3>1. w = [clients |-> y, map |-> Now.map, cache |-> Now.cache,
               stranded |-> Now.stranded]
      BY <1>4
    <3>. HIDE DEF y, w, r
    <3>2. [w EXCEPT !.cache = CompleteEntry(@, r)] = [w EXCEPT !.cache = d]
      BY <3>1
    <3>. HIDE DEF d
    <3>3. [w EXCEPT !.cache = d] = [clients |-> y, map |-> Now.map, cache |-> d,
                                    stranded |-> Now.stranded]
      BY <3>1, Rebuilt
    <3>. QED
      BY <3>2, <3>3 DEF y, d
  <2>2. /\ r \in Key /\ IsOf(Now, c, r) /\ Now.clients[c].state = "waiting_response"
        /\ Contains(Now.cache, r) /\ k = GotResponse(Now.clients[c])
    BY <1>2, <1>5
  <2>3. Becomes([w EXCEPT !.cache = CompleteEntry(@, r)])
    BY <1>3, <1>5
  <2>. HIDE DEF w, r, k, cl
  <2>4. Good([clients |-> [Now.clients EXCEPT ![c] = k], map |-> Now.map,
              cache |-> CompleteEntry(Now.cache, r), stranded |-> Now.stranded], {})
    BY <2>2, CompletedIsGood
  <2>. QED
    BY <2>1, <2>3, <2>4
<1>6. CASE ~(Contains(cache, r) /\ cl.should_write_to_cache)
  <2>1. ~Contains(Now.cache, r)
    <3>1. Fetches(Now, c, r) /\ (Contains(Now.cache, r) =>
                                   ~Now.clients[c].should_write_to_cache)
      BY <1>2, <1>6 DEF Fetches
    <3>. HIDE DEF r, cl
    <3>. QED
      BY <1>2, <3>1 DEF Good, RequestOk, EntryOk, WriterOk
  <2>. DEFINE S == Listed(w, r)
              C == {c}
  <2>2. C \in SUBSET Client /\ \A d \in C : IsOf(Now, d, r)
    BY <1>2
  <2>. HIDE DEF C
  <2>3. Good(ForEach(Now, C, GotResponse), {})
    BY <1>2, <2>1, <2>2, ToldIsGood
  <2>4. Good(w, {}) /\ w.cache = Now.cache
    BY <1>4, <2>3 DEF C
  <2>. HIDE DEF w, r, cl
  <2>5. S \in SUBSET Client /\ \A d \in S : IsOf(w, d, r)
    <3>1. /\ \A d \in Client : d \in Elements(w.map[r]) <=> IsOf(w, d, r)
          /\ w.map[r] \in Seq(Client)
      BY <1>2, <2>4, WorldFacts
    <3>. QED
      BY <3>1 DEF Listed, Elements
  <2>. HIDE DEF S
  <2>6. Good(ForEach(w, S, GotResponse), {})
    BY <1>2, <2>1, <2>4, <2>5, ToldIsGood
  <2>7. Becomes(w) \/ Becomes(ForEach(w, S, GotResponse))
    BY <1>2, <1>3, <2>1 DEF S
  <2>. QED
    BY <2>4, <2>6, <2>7
<1>. QED
  BY <1>5, <1>6

----------------------------------------------------------------------------
(* Deliveries, and clients and origins that fail.                          *)

(* A client gets data, or his connection is reset; the entry of a request  *)
(* may become the most recently used one.                                  *)
LEMMA DeliveredIsGood ==
  ASSUME NEW w, Good(w, {}), NEW c \in Client, NEW k \in ClientRecord,
         Alike(w.clients[c], k), NEW r \in Key,
         NEW d, \/ d = w.cache
                \/ Contains(w.cache, r) /\ d = Touch(w.cache, r)
  PROVE  LET v == [clients |-> [w.clients EXCEPT ![c] = k], map |-> w.map,
                   cache |-> d, stranded |-> w.stranded]
         IN  Good(v, {}) /\ v.clients[c] = k
<1>. DEFINE y == [w.clients EXCEPT ![c] = k]
            v == [clients |-> y, map |-> w.map, cache |-> d, stranded |-> w.stranded]
            None == {}
<1>1. /\ w \in World /\ w.map \in [Key -> Seq(Client)] /\ w.cache \in CacheValue
      /\ w.stranded \in SUBSET Key
      /\ w.clients \in [Client -> ClientRecord \cup {NoClient}]
  BY WorldFacts
<1>2. PICK x \in Nat : Sound(w.cache, x) /\ (w.stranded = {} => x = 0)
  BY DEF Good, CacheOk
<1>3. Sound(d, x) /\ d.entry = w.cache.entry
  <2>1. CASE Contains(w.cache, r) /\ d = Touch(w.cache, r)
    <3>1. r \in Present(w.cache)
      BY <2>1 DEF Present
    <3>. QED
      BY <1>2, <2>1, <3>1, TouchSound
  <2>. QED
    BY <1>2, <2>1
<1>4. d \in CacheValue
  BY <1>3 DEF Sound, WellFormed
<1>5. /\ y \in [Client -> ClientRecord \cup {NoClient}] /\ y[c] = k
      /\ \A h \in Client : Alike(w.clients[h], y[h])
  <2>1. y \in [Client -> ClientRecord \cup {NoClient}]
    BY <1>1
  <2>2. y[c] = k /\ \A h \in Client \ {c} : y[h] = w.clients[h]
    BY <1>1
  <2>. HIDE DEF y
  <2>. QED
    BY <2>1, <2>2 DEF Alike
<1>. HIDE DEF y
<1>6. /\ v.clients = y /\ v.map = w.map /\ v.cache = d /\ v.stranded = w.stranded
  OBVIOUS
<1>7. v \in World
  BY <1>1, <1>4, <1>5 DEF World
<1>. HIDE DEF v, None
<1>8. CacheOk(v) /\ v.cache.entry = w.cache.entry
  BY <1>2, <1>3, <1>6 DEF CacheOk
<1>9. \A h \in Client : Alike(w.clients[h], v.clients[h])
  BY <1>5, <1>6
<1>10. Good(w, None)
  BY DEF None
<1>11. Good(v, None)
  BY <1>6, <1>7, <1>8, <1>9, <1>10, AlikeIsGood
<1>. QED
  BY <1>5, <1>6, <1>11 DEF None, v, y

LEMMA DiscardNow ==
  ASSUME Good(Now, {}), NEW c \in Client, NEW r \in Key, IsOf(Now, c, r)
  PROVE  Good(DiscardClient(Now, c), {})
<1>1. Good(Now, {c})
  BY GoodWeakens
<1>. QED
  BY <1>1, DiscardIsGood

LEMMA FailuresAreGood ==
  ASSUME Good(Now, {}), NEW c \in Client,
         ClientFails(c) \/ OriginHangsUp(c) \/ SendUncachedDone(c)
  PROVE  \E z : Good(z, {}) /\ Becomes(z)
<1>. DEFINE S == {"sending_request", "waiting_response_status_code", "waiting_response",
                  "getting_response_from_another_client", "got_response"}
<1>1. In(c, S) /\ Becomes(DiscardClient(Now, c))
  BY DEF ClientFails, OriginHangsUp, SendUncachedDone, Sending, In
<1>2. "waiting_for_request" \notin S
  OBVIOUS
<1>. HIDE DEF S
<1>3. clients[c].request \in Key /\ IsOf(Now, c, clients[c].request)
  BY <1>1, <1>2, RequestOf
<1>4. Good(DiscardClient(Now, c), {})
  BY <1>3, DiscardNow
<1>. QED
  BY <1>1, <1>4

LEMMA ReadResponseFailsIsGood ==
  ASSUME Good(Now, {}), NEW c \in Client, ReadResponseFails(c)
  PROVE  \E z : Good(z, {}) /\ Becomes(z)
<1>. DEFINE cl == clients[c]
            r  == cl.request
            k  == HasFailed(cl)
            w  == [Now EXCEPT !.clients[c] = k]
            d  == Now.cache
<1>1. /\ In(c, {"waiting_response"})
      /\ Becomes(DiscardClient([Now EXCEPT !.clients[c].conn.alive = FALSE], c))
  BY DEF ReadResponseFails
<1>2. /\ cl \in ClientRecord /\ r \in Key /\ IsOf(Now, c, r)
      /\ ClientOk(cl) /\ cl.state = "waiting_response" /\ Now.clients = clients
  BY <1>1, RequestOf
<1>3. k \in ClientRecord /\ Alike(cl, k) /\ k.request = r
  BY <1>2, HasFailedFacts DEF Fetching
<1>4. w = [Now EXCEPT !.clients[c].conn.alive = FALSE]
  BY <1>2 DEF HasFailed
<1>5. w = [clients |-> [Now.clients EXCEPT ![c] = k], map |-> Now.map,
           cache |-> d, stranded |-> Now.stranded]
  <2>. HIDE DEF w, k
  <2>. QED
    BY ChangedOne DEF w
<1>6. Alike(Now.clients[c], k)
  BY <1>2, <1>3
<1>. HIDE DEF w, k, r, cl
<1>7. Good(w, {}) /\ w.clients[c] = k
  <2>1. d = Now.cache
    OBVIOUS
  <2>. HIDE DEF d
  <2>. QED
    BY <1>2, <1>3, <1>5, <1>6, <2>1, DeliveredIsGood
<1>8. IsOf(w, c, r) /\ Good(w, {c})
  BY <1>3, <1>7, MarkerAssumption, GoodWeakens DEF IsOf
<1>9. Good(DiscardClient(w, c), {})
  BY <1>2, <1>8, DiscardIsGood
<1>. QED
  BY <1>1, <1>4, <1>9

LEMMA SendingFacts ==
  ASSUME Good(Now, {}), NEW c \in Client, Sending(c)
  PROVE  /\ clients[c] \in ClientRecord /\ clients[c].request \in Key
         /\ IsOf(Now, c, clients[c].request) /\ ClientOk(clients[c])
         /\ clients[c].state # "waiting_for_request" /\ clients[c] # NoClient
         /\ Now.clients = clients /\ Now.cache = cache
<1>. DEFINE S == {"waiting_response", "getting_response_from_another_client",
                  "got_response"}
<1>1. In(c, S) /\ "waiting_for_request" \notin S
  BY DEF Sending
<1>. HIDE DEF S
<1>. QED
  BY <1>1, RequestOf

(* What the client was sent, and what is left for him, changes nothing.    *)
LEMMA SentAlike ==
  ASSUME NEW cl \in ClientRecord, cl.state # "waiting_for_request", cl # NoClient,
         NEW more \in Seq(Block), NEW left \in Seq(Seq(Block))
  PROVE  /\ LET k == [cl EXCEPT !.sent = more]
            IN  k \in ClientRecord /\ Alike(cl, k)
         /\ LET k == [cl EXCEPT !.sent = more, !.chunks = left]
            IN  k \in ClientRecord /\ Alike(cl, k)
<1>. DEFINE k == [cl EXCEPT !.sent = more]
            l == [cl EXCEPT !.sent = more, !.chunks = left]
<1>1. /\ k \in ClientRecord /\ k.request = cl.request /\ k.state = cl.state
      /\ k.should_read_from_cache = cl.should_read_from_cache
      /\ k.should_write_to_cache = cl.should_write_to_cache /\ k.conn = cl.conn
  BY DEF ClientRecord
<1>2. /\ l \in ClientRecord /\ l.request = cl.request /\ l.state = cl.state
      /\ l.should_read_from_cache = cl.should_read_from_cache
      /\ l.should_write_to_cache = cl.should_write_to_cache /\ l.conn = cl.conn
  BY DEF ClientRecord
<1>. HIDE DEF k, l
<1>3. Alike(cl, k) /\ Alike(cl, l)
  BY <1>1, <1>2, MarkerAssumption DEF Alike
<1>. QED
  BY <1>1, <1>2, <1>3 DEF k, l

LEMMA PartIsBlocks ==
  ASSUME NEW s \in Seq(Block), NEW m \in Nat, NEW n \in Nat, m + n <= Len(s)
  PROVE  SubSeq(s, m + 1, m + n) \in Seq(Block)
<1>1. /\ m + 1 \in Int /\ m + n \in Int
      /\ \A j \in (m + 1)..(m + n) : s[j] \in Block
  OBVIOUS
<1>. QED
  BY <1>1, SubSeqProperties

LEMMA SendCachedIsGood ==
  ASSUME Good(Now, {}), NEW c \in Client,
         SendCached(c) \/ SendCachedNothingNew(c) \/ SendCachedDone(c)
  PROVE  \E z : Good(z, {}) /\ Becomes(z)
<1>. DEFINE cl == clients[c]
            r  == cl.request
            d  == Touch(Now.cache, r)
            At(k) == [clients |-> [Now.clients EXCEPT ![c] = k], map |-> Now.map,
                      cache |-> d, stranded |-> Now.stranded]
<1>1. Sending(c) /\ Contains(cache, r)
  BY DEF SendCached, SendCachedNothingNew, SendCachedDone
<1>2. /\ cl \in ClientRecord /\ r \in Key /\ IsOf(Now, c, r) /\ ClientOk(cl)
      /\ cl.state # "waiting_for_request" /\ cl # NoClient
      /\ Now.clients = clients /\ Now.cache = cache
  BY <1>1, SendingFacts
<1>3. \A k \in ClientRecord : Alike(cl, k) => Good(At(k), {})
  <2>1. Contains(Now.cache, r) /\ d = Touch(Now.cache, r) /\ Now.clients[c] = cl
    BY <1>1, <1>2
  <2>. HIDE DEF d, r, cl
  <2>2. ASSUME NEW k \in ClientRecord, Alike(Now.clients[c], k) PROVE Good(At(k), {})
    BY <1>2, <2>1, <2>2, DeliveredIsGood
  <2>. QED
    BY <2>1, <2>2
<1>4. Good(At(cl), {}) /\ [Now EXCEPT !.cache = Touch(@, r)] = At(cl)
  <2>1. Good(At(cl), {})
    BY <1>2, <1>3 DEF Alike
  <2>2. [Now EXCEPT !.cache = Touch(@, r)] = [Now EXCEPT !.cache = d]
    OBVIOUS
  <2>3. Now \in World /\ Now.clients \in [Client -> ClientRecord \cup {NoClient}]
    BY WorldFacts
  <2>4. [Now.clients EXCEPT ![c] = cl] = Now.clients
    BY <1>2, <2>3
  <2>. HIDE DEF d
  <2>5. [Now EXCEPT !.cache = d] = At(cl)
    <3>. HIDE DEF r, cl
    <3>1. [Now EXCEPT !.cache = d] =
            [clients |-> Now.clients, map |-> Now.map, cache |-> d,
             stranded |-> Now.stranded]
      BY <2>3, Replaced
    <3>. QED
      BY <2>4, <3>1
  <2>. QED
    BY <2>1, <2>2, <2>5
<1>5. CASE SendCachedNothingNew(c)
  <2>1. Becomes([Now EXCEPT !.cache = Touch(@, r)])
    BY <1>5 DEF SendCachedNothingNew
  <2>. QED
    BY <1>4, <2>1
<1>6. CASE SendCachedDone(c)
  <2>. DEFINE w == [Now EXCEPT !.cache = Touch(@, r)]
  <2>1. Becomes(DiscardClient(w, c))
    BY <1>6 DEF SendCachedDone
  <2>2. Good(w, {}) /\ w.clients = Now.clients
    BY <1>4
  <2>. HIDE DEF w
  <2>3. Good(w, {c}) /\ IsOf(w, c, r)
    BY <1>2, <2>2, GoodWeakens DEF IsOf
  <2>4. Good(DiscardClient(w, c), {})
    BY <1>2, <2>3, DiscardIsGood
  <2>. QED
    BY <2>1, <2>4
<1>7. CASE SendCached(c)
  <2>. DEFINE sent   == Len(cl.sent)
              buffer == cache.entry[r].buffer
  <2>1. PICK n \in 1..Least(MaxChunk, Size(cache, r) - sent) :
          Becomes([Now EXCEPT
             !.clients[c].sent = @ \o SubSeq(buffer, sent + 1, sent + n),
             !.cache = Touch(@, r)]) /\ sent < Size(cache, r)
    BY <1>7 DEF SendCached
  <2>. DEFINE more == cl.sent \o SubSeq(buffer, sent + 1, sent + n)
              k    == [cl EXCEPT !.sent = more]
              y    == [Now.clients EXCEPT ![c] = k]
  <2>2. more \in Seq(Block)
    <3>1. buffer \in Seq(Block) /\ cl.sent \in Seq(Block) /\ Size(cache, r) = Len(buffer)
      <4>1. cache \in CacheValue
        BY <1>2, WorldFacts
      <4>2. cache.entry[r] \in Entry
        BY <1>1, <1>2, <4>1 DEF CacheValue, Contains
      <4>. QED
        BY <1>2, <4>2 DEF Entry, ClientRecord, Size
    <3>2. sent \in Nat /\ n \in Nat /\ sent + n <= Len(buffer)
      <4>. DEFINE L == Len(buffer)
      <4>1. L \in Nat /\ sent \in Nat /\ n \in 1..Least(MaxChunk, L - sent)
            /\ MaxChunk \in Nat /\ sent < L
        <5>1. L \in Nat /\ sent \in Nat
          <6>. DEFINE already == cl.sent
          <6>1. buffer \in Seq(Block) /\ already \in Seq(Block)
            BY <3>1
          <6>. HIDE DEF buffer, already
          <6>2. Len(buffer) \in Nat /\ Len(already) \in Nat
            BY <6>1
          <6>. QED
            BY <6>2 DEF already
        <5>3. MaxChunk \in Nat
          BY ServerAssumption
        <5>2. Size(cache, r) = L
          BY <3>1
        <5>. HIDE DEF L, sent
        <5>. QED
          BY <2>1, <5>1, <5>2, <5>3
      <4>. HIDE DEF L, sent
      <4>. QED
        BY <4>1 DEF Least, L
    <3>. HIDE DEF buffer, sent
    <3>3. SubSeq(buffer, sent + 1, sent + n) \in Seq(Block)
      BY <3>1, <3>2, PartIsBlocks
    <3>. QED
      BY <3>1, <3>3
  <2>3. [Now EXCEPT !.clients[c].sent = @ \o SubSeq(buffer, sent + 1, sent + n),
                    !.cache = Touch(@, r)] = [Now EXCEPT !.clients = y, !.cache = d]
    BY <1>2
  <2>. HIDE DEF more
  <2>4. k \in ClientRecord /\ Alike(cl, k)
    <3>1. cl.chunks \in Seq(Seq(Block))
      BY <1>2 DEF ClientRecord
    <3>. HIDE DEF cl
    <3>. QED
      BY <1>2, <2>2, <3>1, SentAlike
  <2>. HIDE DEF k
  <2>5. Good(At(k), {})
    BY <1>3, <2>4
  <2>6. [Now EXCEPT !.clients = y, !.cache = d] = At(k)
    <3>1. Now \in World
      BY WorldFacts
    <3>. HIDE DEF d, cl, r, y
    <3>2. [Now EXCEPT !.clients = y] = [clients |-> y, map |-> Now.map,
             cache |-> Now.cache, stranded |-> Now.stranded]
      BY <3>1, Replaced
    <3>3. [[Now EXCEPT !.clients = y] EXCEPT !.cache = d] =
            [clients |-> y, map |-> Now.map, cache |-> d, stranded |-> Now.stranded]
      <4>. DEFINE w == [Now EXCEPT !.clients = y]
                  m == Now.map
                  s == Now.stranded
      <4>1. w = [clients |-> y, map |-> m, cache |-> Now.cache, stranded |-> s]
        BY <3>2
      <4>. HIDE DEF w, m, s
      <4>2. [w EXCEPT !.cache = d] = [clients |-> y, map |-> m, cache |-> d,
                                      stranded |-> s]
        BY <4>1, Rebuilt
      <4>. QED
        BY <4>2 DEF w, m, s
    <3>4. [Now EXCEPT !.clients = y, !.cache = d] =
            [[Now EXCEPT !.clients = y] EXCEPT !.cache = d]
      OBVIOUS
    <3>. QED
      BY <3>3, <3>4 DEF y
  <2>. QED
    BY ONLY <2>1, <2>3, <2>5, <2>6
<1>. QED
  BY <1>5, <1>6, <1>7

LEMMA SendUncachedIsGood ==
  ASSUME Good(Now, {}), NEW c \in Client, SendUncached(c)
  PROVE  \E z : Good(z, {}) /\ Becomes(z)
<1>. DEFINE cl    == clients[c]
            r     == cl.request
            chunk == Head(cl.chunks)
            rest  == Tail(cl.chunks)
<1>1. Sending(c) /\ cl.chunks # <<>>
  BY DEF SendUncached
<1>2. /\ cl \in ClientRecord /\ r \in Key
      /\ cl.state # "waiting_for_request" /\ cl # NoClient
      /\ Now.clients = clients
  BY <1>1, SendingFacts
<1>3. PICK n \in 1..Len(chunk) :
        Becomes([Now EXCEPT !.clients[c].sent   = @ \o SubSeq(chunk, 1, n),
                            !.clients[c].chunks = Rest(chunk, n) \o rest])
  BY DEF SendUncached
<1>. DEFINE more == cl.sent \o SubSeq(chunk, 1, n)
            left == Rest(chunk, n) \o rest
            k    == [cl EXCEPT !.sent = more, !.chunks = left]
            d    == Now.cache
<1>4. cl.chunks \in Seq(Seq(Block)) /\ cl.sent \in Seq(Block)
  BY <1>2 DEF ClientRecord
<1>5. chunk \in Seq(Block) /\ rest \in Seq(Seq(Block))
  <2>. DEFINE s == cl.chunks
  <2>1. s \in Seq(Seq(Block)) /\ s # <<>>
    BY <1>1, <1>4
  <2>. HIDE DEF s
  <2>2. Head(s) \in Seq(Block) /\ Tail(s) \in Seq(Seq(Block))
    BY <2>1
  <2>. QED
    BY <2>2 DEF s
<1>. HIDE DEF chunk, rest
<1>6. more \in Seq(Block) /\ left \in Seq(Seq(Block))
  <2>1. n \in Nat /\ n <= Len(chunk) /\ 0 + n = n /\ 0 + 1 = 1
    BY <1>5
  <2>2. SubSeq(chunk, 0 + 1, 0 + n) \in Seq(Block)
    BY <1>5, <2>1, PartIsBlocks
  <2>3. SubSeq(chunk, 1, n) \in Seq(Block)
    BY <2>1, <2>2
  <2>4. Rest(chunk, n) \in Seq(Seq(Block))
    BY <1>5, <2>1, RestIsChunks
  <2>. QED
    BY <1>4, <1>5, <2>3, <2>4
<1>7. [Now EXCEPT !.clients[c].sent   = @ \o SubSeq(chunk, 1, n),
                  !.clients[c].chunks = Rest(chunk, n) \o rest]
        = [Now EXCEPT !.clients[c] = k]
  BY <1>2
<1>. HIDE DEF more, left
<1>8. k \in ClientRecord /\ Alike(cl, k)
  <2>. HIDE DEF cl
  <2>. QED
    BY <1>2, <1>6, SentAlike
<1>. HIDE DEF k
<1>9. [Now EXCEPT !.clients[c] = k] =
        [clients |-> [Now.clients EXCEPT ![c] = k], map |-> Now.map,
         cache |-> d, stranded |-> Now.stranded]
  BY ChangedOne
<1>10. Good([Now EXCEPT !.clients[c] = k], {})
  <2>1. d = Now.cache /\ r \in Key /\ Alike(Now.clients[c], k) /\ k \in ClientRecord
    BY <1>2, <1>8
  <2>. HIDE DEF d, r, cl
  <2>2. Good([clients |-> [Now.clients EXCEPT ![c] = k], map |-> Now.map,
              cache |-> d, stranded |-> Now.stranded], {})
    BY <2>1, DeliveredIsGood
  <2>. QED
    BY <1>9, <2>2
<1>. QED
  BY <1>3, <1>7, <1>10

-----------------------------------------------------------------------------
(* The invariant of the whole server.                                      *)

IInv == Good(Now, {}) /\ exited \in BOOLEAN

(* The world of the next state. *)
Then == [clients |-> clients', map |-> request_clients_map', cache |-> cache',
         stranded |-> stranded']

LEMMA PrimedInvariant == Good(Then, {}) /\ exited' \in BOOLEAN => IInv'
<1>1. Now' = Then
  BY DEF Now, Then
<1>. QED
  BY <1>1 DEF IInv, Good, World, CacheOk, Sound, WellFormed, Ordered, CacheValue,
       Present, Contains, Space, Slots, Size, ClientOk, ConnOk, RequestOk, ListOk,
       OnceEach, Elements, EntryOk, PartOfOne, IsOf, Fetches, WriterOk, Continues,
       CleanOk, Now, Then

LEMMA BecomesGood ==
  ASSUME NEW z, Good(z, {}), Becomes(z), exited \in BOOLEAN
  PROVE  IInv'
<1>1. z = [clients |-> z.clients, map |-> z.map, cache |-> z.cache,
           stranded |-> z.stranded]
  BY WorldFacts
<1>2. z = Then /\ exited' \in BOOLEAN
  BY <1>1 DEF Becomes, Then
<1>. QED
  BY <1>2, PrimedInvariant

LEMMA EndInvariant == ProcessEnds => IInv'
<1>. SUFFICES ASSUME ProcessEnds PROVE IInv'
  OBVIOUS
<1>1. Then = [clients |-> [c \in Client |-> NoClient], map |-> [r \in Key |-> <<>>],
              cache |-> EmptyCache, stranded |-> {}] /\ exited' \in BOOLEAN
  BY DEF ProcessEnds, Then
<1>. HIDE DEF EmptyCache
<1>2. Good(Then, {})
  BY <1>1, EndIsGood
<1>. QED
  BY <1>1, <1>2, PrimedInvariant

LEMMA InitInvariant == Init => IInv
<1>. SUFFICES ASSUME Init PROVE IInv
  OBVIOUS
<1>1. Now = [clients |-> [c \in Client |-> NoClient], map |-> [r \in Key |-> <<>>],
             cache |-> EmptyCache, stranded |-> {}] /\ exited \in BOOLEAN
  BY DEF Init, Now
<1>2. Good(Now, {})
  BY <1>1, EndIsGood
<1>. QED
  BY <1>1, <1>2 DEF IInv

LEMMA StepInvariant == IInv /\ [Next]_vars => IInv'
<1>. SUFFICES ASSUME IInv, [Next]_vars PROVE IInv'
  OBVIOUS
<1>0. Good(Now, {}) /\ exited \in BOOLEAN
  BY DEF IInv
<1>1. CASE UNCHANGED vars
  <2>1. Then = Now /\ exited' = exited
    BY <1>1 DEF vars, Now, Then
  <2>. QED
    BY <1>0, <2>1, PrimedInvariant
<1>2. CASE Stop
  BY <1>2, EndInvariant DEF Stop
<1>3. ASSUME NEW c \in Client, AcceptClient(c) PROVE IInv'
  BY <1>0, <1>3, AcceptIsGood, BecomesGood
<1>4. ASSUME NEW c \in Client, ReadRequestFails(c) PROVE IInv'
  BY <1>0, <1>4, ReadRequestFailsIsGood, BecomesGood
<1>5. ASSUME NEW c \in Client, NEW r \in Key, ReadRequest(c, r) PROVE IInv'
  BY <1>0, <1>5, ReadRequestIsGood, BecomesGood
<1>6. ASSUME NEW c \in Client, SendRequest(c) PROVE IInv'
  BY <1>0, <1>6, SendRequestIsGood, BecomesGood
<1>7. ASSUME NEW c \in Client, ReadStatus(c) PROVE IInv'
  BY <1>0, <1>7, ReadStatusIsGood, BecomesGood, EndInvariant
<1>8. ASSUME NEW c \in Client, ReadStatusFails(c) PROVE IInv'
  BY <1>0, <1>8, ReadStatusFailsIsGood, BecomesGood
<1>9. ASSUME NEW c \in Client, ReadResponse(c) PROVE IInv'
  BY <1>0, <1>9, ReadResponseIsGood, BecomesGood
<1>10. ASSUME NEW c \in Client, ReadResponseEnd(c) PROVE IInv'
  BY <1>0, <1>10, ReadResponseEndIsGood, BecomesGood
<1>11. ASSUME NEW c \in Client, ReadResponseFails(c) PROVE IInv'
  BY <1>0, <1>11, ReadResponseFailsIsGood, BecomesGood
<1>12. ASSUME NEW c \in Client,
              SendCached(c) \/ SendCachedNothingNew(c) \/ SendCachedDone(c)
       PROVE  IInv'
  BY <1>0, <1>12, SendCachedIsGood, BecomesGood
<1>13. ASSUME NEW c \in Client, SendUncached(c) PROVE IInv'
  BY <1>0, <1>13, SendUncachedIsGood, BecomesGood
<1>14. ASSUME NEW c \in Client,
              ClientFails(c) \/ OriginHangsUp(c) \/ SendUncachedDone(c)
       PROVE  IInv'
  BY <1>0, <1>14, FailuresAreGood, BecomesGood
<1>. QED
  BY <1>1, <1>2, <1>3, <1>4, <1>5, <1>6, <1>7, <1>8, <1>9, <1>10, <1>11, <1>12,
     <1>13, <1>14 DEF Next, SendResponse

----------------------------------------------------------------------------
(* What the invariant says in the terms of Server.                         *)

LEMMA Terms ==
  ASSUME IInv
  PROVE  /\ \A c \in Client : c \in Live(Now) <=> clients[c] # NoClient
         /\ \A c \in Client : \A r \in Key : Holds(c, r) <=> IsOf(Now, c, r)
         /\ \A r \in Key : Listed(Now, r) = Elements(request_clients_map[r])
         /\ \A r \in Present(cache) : r \in Key /\ Contains(cache, r)
         /\ \A r \in Key : RequestOk(Now, r, {})
         /\ \A c \in Live(Now) : clients[c] \in ClientRecord /\ ClientOk(clients[c])
         /\ Now.clients = clients /\ Now.map = request_clients_map
         /\ Now.cache = cache /\ Now.stranded = stranded /\ Now \in World
         /\ CacheOk(Now)
<1>1. /\ Now.clients = clients /\ Now.map = request_clients_map
      /\ Now.cache = cache /\ Now.stranded = stranded
  BY DEF Now
<1>2. Good(Now, {})
  BY DEF IInv
<1>3. \A c \in Client : c \in Live(Now) <=> clients[c] # NoClient
  BY <1>1 DEF Live
<1>4. \A c \in Client : \A r \in Key : Holds(c, r) <=> IsOf(Now, c, r)
  BY <1>1, <1>3 DEF Holds, IsOf
<1>5. \A r \in Key : Listed(Now, r) = Elements(request_clients_map[r])
  BY <1>1 DEF Listed, Elements
<1>6. \A r \in Present(cache) : r \in Key /\ Contains(cache, r)
  BY DEF Present
<1>7. \A c \in Live(Now) : clients[c] \in ClientRecord /\ ClientOk(clients[c])
  <2>1. \A c \in Live(Now) : c \in Client
    BY DEF Live
  <2>. QED
    BY <1>1, <1>2, <1>3, <2>1, WorldFacts
<1>8. /\ \A r \in Key : RequestOk(Now, r, {})
      /\ Now \in World /\ CacheOk(Now)
  BY <1>2 DEF Good
<1>. QED
  BY <1>1, <1>3, <1>4, <1>5, <1>6, <1>7, <1>8

----------------------------------------------------------------------------
(* Each property follows from the invariant, and so holds of Spec.  The    *)
(* proofs about the event loop cite the lemmas.                            *)

LEMMA TypeOKFollows == IInv => TypeOK
<1>. SUFFICES ASSUME IInv PROVE TypeOK
  OBVIOUS
<1>1. /\ clients \in [Client -> ClientRecord \cup {NoClient}]
      /\ request_clients_map \in [Key -> Seq(Client)]
      /\ cache \in CacheValue /\ stranded \subseteq Key
  BY Terms DEF World
<1>2. \A c \in Live(Now) :
        /\ clients[c].state \in Fetching => clients[c].conn # NoConn
        /\ clients[c].state = "waiting_for_response_for_another_client" =>
             clients[c].conn = NoConn
  BY Terms DEF ClientOk
<1>. QED
  BY <1>1, <1>2 DEF TypeOK, IInv, Fetching

(* Every Client object is what the code takes it for: who is polled for an *)
(* origin has a connection to one, and who waits for another client's      *)
(* response has none.                                                      *)
THEOREM TypesAreCorrect == Spec => []TypeOK
BY TypeOKFollows, InitInvariant, StepInvariant, PTL DEF Spec

LEMMA ListsAreExactFollows == IInv => ListsAreExact
<1>. SUFFICES ASSUME IInv, NEW r \in Key
              PROVE  /\ \A c \in Client : c \in Listed(Now, r) <=> Holds(c, r)
                     /\ Len(request_clients_map[r]) = Cardinality(Listed(Now, r))
  BY DEF ListsAreExact
<1>1. ListOk(Now, r)
  BY Terms DEF RequestOk
<1>2. request_clients_map[r] \in Seq(Client) /\ OnceEach(request_clients_map[r])
  BY <1>1, Terms DEF World, ListOk
<1>3. /\ Cardinality(Elements(request_clients_map[r])) = Len(request_clients_map[r])
  BY <1>2, OnceEachCounts
<1>. QED
  BY <1>1, <1>3, Terms DEF ListOk

(* No reference in request_clients_map dangles, and no client is in it     *)
(* twice, under another request or not at all.                             *)
THEOREM ListsStayExact == Spec => []ListsAreExact
BY ListsAreExactFollows, InitInvariant, StepInvariant, PTL DEF Spec

LEMMA UseCountIsExactFollows == IInv => UseCountIsExact
<1>. SUFFICES ASSUME IInv, NEW r \in Present(cache)
              PROVE  cache.entry[r].in_use = Len(request_clients_map[r])
  BY DEF UseCountIsExact
<1>1. EntryOk(Now, r)
  BY Terms DEF RequestOk
<1>. QED
  BY <1>1, Terms DEF EntryOk

(* The use count of an entry is the number of clients that hold it, so no  *)
(* entry is evicted under a reader and none is pinned for ever.            *)
THEOREM UseCountStaysExact == Spec => []UseCountIsExact
BY UseCountIsExactFollows, InitInvariant, StepInvariant, PTL DEF Spec

LEMMA ReadersHaveAnEntryFollows == IInv => ReadersHaveAnEntry
<1>. SUFFICES ASSUME IInv, NEW c \in Live(Now), clients[c].request \notin stranded,
                     \/ clients[c].should_read_from_cache /\ Sending(c)
                     \/ clients[c].should_write_to_cache /\ In(c, {"waiting_response"})
              PROVE  Contains(cache, clients[c].request)
  BY DEF ReadersHaveAnEntry
<1>. DEFINE r == clients[c].request
<1>1. /\ c \in Client /\ clients[c] # NoClient /\ clients[c] \in ClientRecord
      /\ ClientOk(clients[c])
  BY Terms DEF Live
<1>2. clients[c].state # "waiting_for_request"
  BY DEF Sending, In
<1>3. r \in Key
  BY <1>1, <1>2 DEF ClientOk, ClientRecord
<1>4. IsOf(Now, c, r) /\ CleanOk(Now, r, {})
  BY <1>1, <1>3, Terms DEF IsOf, RequestOk
<1>. QED
  BY <1>1, <1>4, Terms DEF CleanOk

(* The lookups of sendCachedResponseToClient, writeResponseChunkToCache    *)
(* and the end of a response find the entry they need, save for clients    *)
(* whose recovery was cut short.                                           *)
THEOREM ReadersFindTheEntry == Spec => []ReadersHaveAnEntry
BY ReadersHaveAnEntryFollows, InitInvariant, StepInvariant, PTL DEF Spec

LEMMA CacheIsSoundFollows == IInv => CacheIsSound
<1>. SUFFICES ASSUME IInv PROVE CacheIsSound
  OBVIOUS
<1>1. PICK x \in Nat : Sound(cache, x) /\ (stranded = {} => x = 0)
  BY Terms DEF CacheOk
<1>2. /\ WellFormed(cache) /\ Space(cache, Present(cache)) \in Nat
      /\ cache.size = Space(cache, Present(cache)) + x /\ cache.size <= MaxSize
  <2>1. IsFiniteSet(Slots(cache, Present(cache)))
    BY <1>1 DEF Sound
  <2>. QED
    BY <1>1, <2>1, FS_CardinalityType DEF Sound, Space
<1>. DEFINE n == Space(cache, Present(cache))
<1>3. n <= cache.size /\ (x = 0 => cache.size = n)
  <2>1. n \in Nat /\ cache.size = n + x
    BY <1>2
  <2>. HIDE DEF n
  <2>. QED
    BY <2>1
<1>. QED
  BY <1>1, <1>2, <1>3 DEF CacheIsSound

(* The bytes of all entries are counted and fit, however many entries a    *)
(* handler writes, evicts and drops in one step.                           *)
THEOREM CacheStaysSound == Spec => []CacheIsSound
BY CacheIsSoundFollows, InitInvariant, StepInvariant, PTL DEF Spec

LEMMA WriterContinuesEntryFollows == IInv => WriterContinuesEntry
<1>. SUFFICES ASSUME IInv, NEW r \in Present(cache), NEW c \in Writers(r)
              PROVE  /\ Writers(r) = {c}
                     /\ ~cache.entry[r].completed
                     /\ LET conn == clients[c].conn
                            n    == conn.pos - Size(cache, r)
                        IN  cache.entry[r].buffer =
                              SubSeq(Body[conn.answer], n + 1, conn.pos)
  BY DEF WriterContinuesEntry
<1>1. r \in Key /\ EntryOk(Now, r)
  BY Terms DEF RequestOk
<1>2. \A d \in Writers(r) : d \in Client /\ Fetches(Now, d, r)
  BY <1>1, Terms DEF Writers, In, Fetches
<1>3. Writers(r) = {c} /\ WriterOk(clients[c], cache.entry[r])
  BY <1>1, <1>2, Terms DEF EntryOk
<1>. QED
  BY <1>3 DEF WriterOk, Continues, Size

(* One client at most writes an entry, and it goes on where the entry      *)
(* ends, after any number of hand-overs, fall-backs and repeated fetches.  *)
THEOREM WriterContinues == Spec => []WriterContinuesEntry
BY WriterContinuesEntryFollows, InitInvariant, StepInvariant, PTL DEF Spec

LEMMA CacheHoldsOneResponseFollows == IInv => CacheHoldsOneResponse
<1>. SUFFICES ASSUME IInv, NEW r \in Present(cache)
              PROVE  \E a \in DOMAIN Body :
                       \E n \in 0..(Len(Body[a]) - Size(cache, r)) :
                         cache.entry[r].buffer = SubSeq(Body[a], n + 1, n + Size(cache, r))
  BY DEF CacheHoldsOneResponse
<1>1. PartOfOne(cache.entry[r].buffer)
  BY Terms DEF RequestOk, EntryOk
<1>. QED
  BY <1>1 DEF PartOfOne, Size

(* The cache never mixes two answers, nor the pieces of one out of order.  *)
THEOREM CacheNeverMixesResponses == Spec => []CacheHoldsOneResponse
BY CacheHoldsOneResponseFollows, InitInvariant, StepInvariant, PTL DEF Spec

=============================================================================
