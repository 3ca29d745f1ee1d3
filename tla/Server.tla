------------------------------- MODULE Server -------------------------------
(***************************************************************************)
(* The proxy server of src/server.cpp with the clients of                  *)
(* src/clients_list.cpp and the cache.  One thread takes events from       *)
(* poll() and runs one handler at a time to its end, so a handler is one   *)
(* action; what interleaves is the order in which sockets become ready.    *)
(*                                                                         *)
(* A handler calls others that change the same state, so each function of  *)
(* the code is an operator from one world to the next, where a world is    *)
(* the record of everything a handler can reach (Now is the present one),  *)
(* and an action makes the last world of its chain the next state.         *)
(*                                                                         *)
(* A client is one live Client object; its name is free for a new object   *)
(* once it is discarded.  The bytes it was sent are remembered, sent_bytes *)
(* being how many they are.  An origin answers a request with a sequence   *)
(* of blocks and then closes the connection.                               *)
(***************************************************************************)
EXTENDS Cache

CONSTANTS
  Client,    \* names of Client objects
  Answers,   \* what the origin of a request may answer with
  Body,      \* the blocks of the "ok" and of the "error" answer
  MaxChunk,  \* MAX_CHUNK_SIZE, in blocks
  Faults,    \* what may fail: a "client", an "origin", a "connect" to one or the
             \* "listening" socket; and "signal", whether there may be one
  NoRequest, NoClient, NoConn

ASSUME ServerAssumption ==
  /\ Answers \in [Key -> SUBSET {"ok", "error", "garbled"}]
  /\ Body \in [{"ok", "error"} -> Seq(Block) \ {<<>>}]
  /\ MaxChunk \in Nat \ {0}
  /\ Faults \subseteq {"client", "origin", "connect", "listening", "signal"}
  /\ NoRequest \notin Key

VARIABLES
  clients,              \* the live Client objects
  request_clients_map,  \* the clients of each request, in order of arrival
  cache,
  exited,               \* the process has ended
  stranded              \* history: see RecoverFromStatusError

vars == <<clients, request_clients_map, cache, exited, stranded>>

State == {"waiting_for_request", "waiting_for_response_for_another_client",
          "sending_request", "waiting_response_status_code",
          "waiting_response", "got_response",
          "getting_response_from_another_client"}

(* A connection to an origin: what it answers (unknown before the first    *)
(* read), how much of that was read, and whether a reset was read from it. *)
Connection == [answer : {"unknown", "ok", "error"}, pos : Nat, alive : BOOLEAN]

ClientRecord ==
  [request : Key \cup {NoRequest}, state : State, conn : Connection \cup {NoConn},
   sent : Seq(Block), chunks : Seq(Seq(Block)),
   should_write_to_cache : BOOLEAN, should_read_from_cache : BOOLEAN,
   should_write_to_all : BOOLEAN]

NewClient ==
  [request |-> NoRequest, state |-> "waiting_for_request", conn |-> NoConn,
   sent |-> <<>>, chunks |-> <<>>, should_write_to_cache |-> FALSE,
   should_read_from_cache |-> FALSE, should_write_to_all |-> FALSE]

NewConnection == [answer |-> "unknown", pos |-> 0, alive |-> TRUE]

(* The markers are neither clients nor connections. *)
ASSUME MarkerAssumption == NoClient \notin ClientRecord /\ NoConn \notin Connection

Now == [clients |-> clients, map |-> request_clients_map, cache |-> cache,
        stranded |-> stranded]

Becomes(w) == /\ clients' = w.clients
              /\ request_clients_map' = w.map
              /\ cache' = w.cache
              /\ stranded' = w.stranded
              /\ UNCHANGED exited

(* The clients in the list of a request, and the first n of them. *)
Listed(w, r)         == {w.map[r][i] : i \in DOMAIN w.map[r]}
FirstListed(w, r, n) == {w.map[r][i] : i \in 1..n}

Least(a, b) == IF a <= b THEN a ELSE b

(* The world once F was done to every client of S. *)
ForEach(w, S, F(_)) ==
  [w EXCEPT !.clients = [d \in Client |->
              IF d \in S THEN F(w.clients[d]) ELSE w.clients[d]]]

----------------------------------------------------------------------------
(* Client::isReadingFromCache and Client::obtainServerConnection *)
IsReadingFromCache(cl) ==
  /\ cl.state = "got_response"
  /\ cl.should_read_from_cache
  /\ cl.conn = NoConn

(* Faulty variant: the heir connects again instead of taking over. *)
ConnectAgain(cl, other) ==
  [cl EXCEPT !.conn = NewConnection, !.state = "waiting_response",
             !.should_write_to_cache = TRUE]

ObtainServerConnection(cl, other) ==
  [cl EXCEPT !.conn = other.conn, !.state = "waiting_response",
             !.should_write_to_cache = TRUE]

(* Faulty variant: the erasure does not look at whom it removes. *)
WithoutFirst(s, c) == IF s = <<>> THEN s ELSE Tail(s)

(* The list without a client, who is in it once at most. *)
Without(s, c) ==
  IF \E i \in DOMAIN s : s[i] = c
  THEN LET i == CHOOSE i \in DOMAIN s : s[i] = c
       IN  SubSeq(s, 1, i - 1) \o SubSeq(s, i + 1, Len(s))
  ELSE s

(* removeFromRequestClients and addToRequestClients.  The key "" of a      *)
(* client without a request maps to nobody.                                *)
RemoveFromRequestClients(w, c) ==
  LET r == w.clients[c].request
  IN  IF r = NoRequest THEN w ELSE [w EXCEPT !.map[r] = Without(@, c)]

AddToRequestClients(w, c) ==
  [w EXCEPT !.map[w.clients[c].request] = Append(@, c)]

HasClientsWithRequest(w, r) == w.map[r] # <<>>

(* Faulty variant: whoever leaves hands over, in whatever state he is. *)
HandOverAlways(w, c) ==
  LET cl      == w.clients[c]
      list    == w.map[cl.request]
      readers == {i \in DOMAIN list : IsReadingFromCache(w.clients[list[i]])}
      heir    == list[CHOOSE i \in readers : \A j \in readers : i <= j]
  IN  IF readers = {} THEN w
      ELSE [w EXCEPT !.clients[heir] = ObtainServerConnection(@, cl)]

(* Faulty variant: a client that leaves takes the connection with him. *)
HandOverToNobody(w, c) == w

(* The first client of the list that is reading from the cache takes the   *)
(* connection of one that leaves in the middle of a response.              *)
HandOver(w, c) ==
  LET cl      == w.clients[c]
      list    == w.map[cl.request]
      readers == {i \in DOMAIN list : IsReadingFromCache(w.clients[list[i]])}
      heir    == list[CHOOSE i \in readers : \A j \in readers : i <= j]
  IN  IF cl.state # "waiting_response" \/ readers = {} THEN w
      ELSE [w EXCEPT !.clients[heir] = ObtainServerConnection(@, cl)]

DiscardClient(w, c) ==
  LET r == w.clients[c].request
      v == HandOver(RemoveFromRequestClients(w, c), c)
  IN  IF r = NoRequest THEN [w EXCEPT !.clients[c] = NoClient]
      ELSE [v EXCEPT !.cache = DisuseEntry(@, r), !.clients[c] = NoClient]

(* writeResponseChunkToClientBuffer of a set of clients *)
BufferChunk(w, S, chunk) ==
  ForEach(w, S, LAMBDA cl : [cl EXCEPT !.chunks = Append(@, chunk)])

----------------------------------------------------------------------------
(* A chunk that the cache has no room for: every client of the request     *)
(* gets the rest of the entry and the chunk in his own buffer, and from    *)
(* then on the one who reads the response passes it on to all.  Each gives *)
(* up the entry in turn; if that drops it before the last one's turn, the  *)
(* next getEntry throws and the loop ends half way.                        *)
FallbackTurns(w, r) ==
  IF ~Contains(w.cache, r) THEN 0
  ELSE IF w.cache.entry[r].completed THEN Len(w.map[r])
  ELSE Least(Len(w.map[r]), w.cache.entry[r].in_use)

FallbackThrows(w, r) == FallbackTurns(w, r) < Len(w.map[r])

Rest(buffer, n) == IF n < Len(buffer) THEN <<SubSeq(buffer, n + 1, Len(buffer))>>
                   ELSE <<>>

(* Faulty variant: the client goes on reading from the cache. *)
LeaveCacheNot(cl) == [cl EXCEPT !.state = "getting_response_from_another_client"]

LeaveCache(cl) == [cl EXCEPT !.should_read_from_cache = FALSE,
                             !.state = "getting_response_from_another_client"]

Fallback(w, c, chunk) ==
  LET r       == w.clients[c].request
      turns   == FallbackTurns(w, r)
      buffer  == w.cache.entry[r].buffer
      entered == ForEach(w, FirstListed(w, r, Least(turns + 1, Len(w.map[r]))),
                         LeaveCache)
      served  == ForEach(entered, FirstListed(w, r, turns),
                   LAMBDA cl : [cl EXCEPT !.chunks =
                                  @ \o Rest(buffer, Len(cl.sent)) \o <<chunk>>])
      v == IF turns = 0 THEN served
           ELSE [served EXCEPT !.cache = DisuseTimes(@, r, turns)]
  IN  IF FallbackThrows(w, r) THEN v
      ELSE [v EXCEPT !.clients[c].should_write_to_cache = FALSE,
                     !.clients[c].should_write_to_all = TRUE,
                     !.clients[c].state = "waiting_response"]

(* writeResponseChunkToCache: the world it leaves, and whether it throws. *)
WriteToCache(w, c, chunk) ==
  LET r == w.clients[c].request
      v == [w EXCEPT !.cache = Write(@, r, chunk)]
  IN  CASE WriteOutcome(w.cache, r, chunk) = "AllInUse" ->
             [world |-> Fallback(v, c, chunk), threw |-> FallbackThrows(v, r)]
        [] WriteOutcome(w.cache, r, chunk) = "KeyNotFound" ->
             [world |-> v, threw |-> TRUE]
        [] WriteOutcome(w.cache, r, chunk) = "Written" ->
             [world |-> v, threw |-> FALSE]

(* setClientToGetResponseFromCache of every client of the request but c *)
GetResponseFromCache(cl) ==
  [cl EXCEPT !.state = "got_response", !.should_read_from_cache = TRUE]

(* Faulty variant: the entry is used once for all of them. *)
UseOnce(k, r, n) == IF n = 0 THEN k ELSE UseEntry(k, r)

UseTimes(k, r, n) ==
  IF n = 0 THEN k ELSE [UseEntry(k, r) EXCEPT !.entry[r].in_use = @ + n - 1]

SetOthersToGetResponseFromCache(w, c) ==
  LET r      == w.clients[c].request
      others == Listed(w, r) \ {c}
  IN  [ForEach(w, others, GetResponseFromCache)
         EXCEPT !.cache = UseTimes(@, r, Cardinality(others))]

(* prepareAllWaitingClientsForSending: the clients that wait, in the order *)
(* of the list, and the world once n of them have been connected.  If a    *)
(* connection fails, the exception leaves the rest of them waiting.        *)
WaitingAt(w, r) ==
  {i \in DOMAIN w.map[r] :
     w.clients[w.map[r][i]].state = "waiting_for_response_for_another_client"}

(* Faulty variant: the state changes before there is a connection. *)
PrepareUnconnected(cl) == [cl EXCEPT !.state = "sending_request"]

PrepareForSendingRequest(cl) ==
  [cl EXCEPT !.conn = NewConnection, !.state = "sending_request"]

PrepareWaiting(w, r, n) ==
  LET woken == {w.map[r][i] : i \in {j \in WaitingAt(w, r) :
                                Cardinality({h \in WaitingAt(w, r) : h <= j}) <= n}}
  IN  ForEach(w, woken, PrepareForSendingRequest)

(* How many may get connected: all, or fewer if a connection may fail. *)
Prepared(w, r) ==
  LET n == Cardinality(WaitingAt(w, r))
  IN  IF "connect" \in Faults THEN 0..n ELSE {n}

AllPrepared(w, r, n) == n = Cardinality(WaitingAt(w, r))

----------------------------------------------------------------------------
(* The handlers.                                                           *)

Init ==
  /\ clients = [c \in Client |-> NoClient]
  /\ request_clients_map = [r \in Key |-> <<>>]
  /\ cache = EmptyCache
  /\ exited = FALSE
  /\ stranded = {}

Live(w) == {c \in Client : w.clients[c] # NoClient}

In(c, S) == ~exited /\ c \in Live(Now) /\ clients[c].state \in S

AcceptClient(c) ==
  /\ ~exited /\ c \notin Live(Now)
  /\ Becomes([Now EXCEPT !.clients[c] = NewClient])

(* readRequestFromClient of a request that parses *)
ReadRequest(c, r) ==
  /\ In(c, {"waiting_for_request"})
  /\ LET w == [Now EXCEPT !.clients[c].request = r]
     IN  \/ /\ Contains(cache, r)
            /\ Becomes(AddToRequestClients(
                 [w EXCEPT !.clients[c] = GetResponseFromCache(@),
                           !.cache = UseEntry(@, r)], c))
         \/ /\ ~Contains(cache, r) /\ HasClientsWithRequest(w, r)
            /\ Becomes(AddToRequestClients(
                 [w EXCEPT !.clients[c].state =
                             "waiting_for_response_for_another_client"], c))
         \/ /\ ~Contains(cache, r) /\ ~HasClientsWithRequest(w, r)
            /\ \/ Becomes(AddToRequestClients(
                    [w EXCEPT !.clients[c] = PrepareForSendingRequest(@)], c))
               \/ "connect" \in Faults /\ Becomes(DiscardClient(w, c))

(* ... and of one that does not, or whose client hangs up before it. *)
ReadRequestFails(c) ==
  /\ "client" \in Faults /\ In(c, {"waiting_for_request"})
  /\ Becomes(DiscardClient(Now, c))

SendRequest(c) ==
  /\ In(c, {"sending_request"})
  /\ Becomes([Now EXCEPT !.clients[c].state = "waiting_response_status_code"])

(* The catch block of readResponseStatusCodeFromServer.  An exception from *)
(* within it leaves the client where it is, with whatever the handler had  *)
(* set of him; stranded remembers the requests to which that happened.     *)
RecoverFromStatusError(w, c) ==
  LET r == w.clients[c].request
  IN  \E n \in Prepared(w, r) :
        LET v == PrepareWaiting(w, r, n)
        IN  Becomes(IF AllPrepared(w, r, n) THEN DiscardClient(v, c)
                    ELSE [v EXCEPT !.stranded = @ \cup {r}])

(* readResponseStatusCodeFromServer when the chunk says 200 *)
StatusIsOk(w, c, chunk) ==
  LET used    == [w EXCEPT !.clients[c].should_write_to_cache = TRUE,
                           !.clients[c].should_read_from_cache = TRUE,
                           !.cache = UseEntry(@, w.clients[c].request)]
      written == WriteToCache(used, c, chunk)
  IN  IF written.threw THEN RecoverFromStatusError(written.world, c)
      ELSE Becomes([SetOthersToGetResponseFromCache(written.world, c)
                      EXCEPT !.clients[c].state = "waiting_response"])

(* ... and when it says anything else *)
StatusIsError(w, c, chunk) ==
  LET r == w.clients[c].request
      v == BufferChunk(w, {c}, chunk)
  IN  \E n \in Prepared(v, r) :
        LET u == PrepareWaiting(v, r, n)
        IN  IF AllPrepared(v, r, n)
            THEN Becomes([u EXCEPT !.clients[c].state = "waiting_response"])
            ELSE RecoverFromStatusError(u, c)

(* The process ends: nothing of it is left. *)
ProcessEnds ==
  /\ exited' = TRUE
  /\ clients' = [c \in Client |-> NoClient]
  /\ request_clients_map' = [r \in Key |-> <<>>]
  /\ cache' = EmptyCache
  /\ stranded' = {}

(* stoi throws what only main() catches. *)
StatusIsGarbled == ProcessEnds

(* A signal asks for the end, which comes once the loop has seen it, and an *)
(* error on the listening socket throws what only main() catches.          *)
Stop == {"signal", "listening"} \cap Faults # {} /\ ~exited /\ ProcessEnds

(* What the server reads next from the connection of a client: a chunk of  *)
(* an answer that the origin settles on with the first one.                *)
Reading(cl) ==
  {rd \in [answer : {"ok", "error"}, len : 1..MaxChunk] :
     /\ cl.conn.alive
     /\ IF cl.conn.answer = "unknown" THEN rd.answer \in Answers[cl.request]
        ELSE rd.answer = cl.conn.answer
     /\ cl.conn.pos + rd.len <= Len(Body[rd.answer])}

ChunkRead(cl, rd) ==
  SubSeq(Body[rd.answer], cl.conn.pos + 1, cl.conn.pos + rd.len)

AfterReading(w, c, rd) ==
  [w EXCEPT !.clients[c].conn = [answer |-> rd.answer, pos |-> @.pos + rd.len,
                                 alive |-> TRUE]]

(* Faulty variant: any read may be taken for the last one. *)
AtEndEarly(cl) == ~cl.conn.alive \/ cl.conn.answer # "unknown"

AtEnd(cl) ==
  \/ ~cl.conn.alive
  \/ cl.conn.answer # "unknown" /\ cl.conn.pos = Len(Body[cl.conn.answer])

(* What the status code of a chunk reads as: the answer says it at its     *)
(* beginning, and any other part of it may look like one or like none.     *)
StatusOf(cl, rd) ==
  IF cl.conn.pos = 0 THEN {rd.answer} ELSE {"ok", "error", "garbled"}

ReadStatus(c) ==
  /\ In(c, {"waiting_response_status_code"})
  /\ \/ \E rd \in Reading(clients[c]) :
          LET w     == AfterReading(Now, c, rd)
              chunk == ChunkRead(clients[c], rd)
          IN  \/ "ok" \in StatusOf(clients[c], rd) /\ StatusIsOk(w, c, chunk)
              \/ "error" \in StatusOf(clients[c], rd) /\ StatusIsError(w, c, chunk)
              \/ "garbled" \in StatusOf(clients[c], rd) /\ StatusIsGarbled
     \/ /\ clients[c].conn = NewConnection
        /\ "garbled" \in Answers[clients[c].request]
        /\ StatusIsGarbled
     \/ AtEnd(clients[c]) /\ RecoverFromStatusError(Now, c)

(* A read that fails, here or in readResponseFromServer, finds a reset.     *)
(* An origin that closes without an answer makes the first read fail, too. *)
ReadStatusFails(c) ==
  /\ "origin" \in Faults /\ In(c, {"waiting_response_status_code"})
  /\ RecoverFromStatusError([Now EXCEPT !.clients[c].conn.alive = FALSE], c)

ReadResponse(c) ==
  /\ In(c, {"waiting_response"})
  /\ \E rd \in Reading(clients[c]) :
       LET w       == AfterReading(Now, c, rd)
           chunk   == ChunkRead(clients[c], rd)
           written == WriteToCache(w, c, chunk)
       IN  \/ /\ clients[c].should_write_to_cache
              /\ Becomes(IF written.threw THEN DiscardClient(written.world, c)
                         ELSE written.world)
           \/ /\ ~clients[c].should_write_to_cache
              /\ Becomes(BufferChunk(w,
                           IF clients[c].should_write_to_all
                           THEN Listed(Now, clients[c].request) ELSE {c}, chunk))

(* The origin closed the connection: the response is complete.  The entry  *)
(* is looked up inside a catch block, and an exception from there ends the *)
(* handler.                                                                *)
GotResponse(cl) == [cl EXCEPT !.state = "got_response"]

ReadResponseEnd(c) ==
  /\ In(c, {"waiting_response"})
  /\ AtEnd(clients[c])
  /\ LET r == clients[c].request
         w == ForEach(Now, {c}, GotResponse)
     IN  \/ /\ clients[c].should_write_to_cache
            /\ Becomes(IF Contains(cache, r)
                       THEN [w EXCEPT !.cache = CompleteEntry(@, r)] ELSE w)
         \/ /\ ~clients[c].should_write_to_cache
            /\ Becomes(IF clients[c].should_write_to_all
                       THEN ForEach(w, Listed(w, r), GotResponse) ELSE w)

ReadResponseFails(c) ==
  /\ "origin" \in Faults /\ In(c, {"waiting_response"})
  /\ Becomes(DiscardClient([Now EXCEPT !.clients[c].conn.alive = FALSE], c))

----------------------------------------------------------------------------
(* sendResponseToClient: a client that can take data is offered some.      *)
Sending(c) ==
  In(c, {"waiting_response", "getting_response_from_another_client",
         "got_response"})

(* sendCachedResponseToClient finds new data and sends part of it.  Every  *)
(* visit makes the entry the most recently used.                           *)
SendCached(c) ==
  /\ Sending(c) /\ clients[c].should_read_from_cache
  /\ LET r    == clients[c].request
         sent == Len(clients[c].sent)
     IN  /\ Contains(cache, r) /\ sent < Size(cache, r)
         /\ \E n \in 1..Least(MaxChunk, Size(cache, r) - sent) :
              Becomes([Now EXCEPT
                 !.clients[c].sent =
                   @ \o SubSeq(cache.entry[r].buffer, sent + 1, sent + n),
                 !.cache = Touch(@, r)])

SendCachedNothingNew(c) ==
  /\ Sending(c) /\ clients[c].should_read_from_cache
  /\ LET r == clients[c].request
     IN  /\ Contains(cache, r) /\ ~cache.entry[r].completed
         /\ Len(clients[c].sent) >= Size(cache, r)
         /\ Becomes([Now EXCEPT !.cache = Touch(@, r)])

SendCachedDone(c) ==
  /\ Sending(c) /\ clients[c].should_read_from_cache
  /\ LET r == clients[c].request
     IN  /\ Contains(cache, r) /\ cache.entry[r].completed
         /\ Len(clients[c].sent) >= Size(cache, r)
         /\ Becomes(DiscardClient([Now EXCEPT !.cache = Touch(@, r)], c))

(* Faulty variant: what the socket did not take goes to the end. *)
SendUncachedRequeues(c) ==
  /\ Sending(c) /\ ~clients[c].should_read_from_cache
  /\ clients[c].chunks # <<>>
  /\ LET chunk == Head(clients[c].chunks)
         rest  == Tail(clients[c].chunks)
     IN  \E n \in 1..Len(chunk) :
           Becomes([Now EXCEPT
              !.clients[c].sent   = @ \o SubSeq(chunk, 1, n),
              !.clients[c].chunks = rest \o Rest(chunk, n)])

(* sendUncachedResponseToClient: the front chunk goes out, and what the    *)
(* socket did not take of it goes back to the front.                       *)
SendUncached(c) ==
  /\ Sending(c) /\ ~clients[c].should_read_from_cache
  /\ clients[c].chunks # <<>>
  /\ LET chunk == Head(clients[c].chunks)
         rest  == Tail(clients[c].chunks)
     IN  \E n \in 1..Len(chunk) :
           Becomes([Now EXCEPT
              !.clients[c].sent   = @ \o SubSeq(chunk, 1, n),
              !.clients[c].chunks = Rest(chunk, n) \o rest])

(* Faulty variant: an empty buffer is taken for the end of the response. *)
SendUncachedDoneEarly(c) ==
  /\ Sending(c) /\ ~clients[c].should_read_from_cache
  /\ clients[c].chunks = <<>>
  /\ Becomes(DiscardClient(Now, c))

SendUncachedDone(c) ==
  /\ Sending(c) /\ ~clients[c].should_read_from_cache
  /\ clients[c].chunks = <<>> /\ clients[c].state = "got_response"
  /\ Becomes(DiscardClient(Now, c))

(* A send that fails, or an error or a hangup that poll() reports on one   *)
(* of the sockets it watches in the client's state.                        *)
ClientFails(c) ==
  /\ "client" \in Faults /\ Sending(c)
  /\ Becomes(DiscardClient(Now, c))

OriginHangsUp(c) ==
  /\ "origin" \in Faults
  /\ In(c, {"sending_request", "waiting_response_status_code", "waiting_response"})
  /\ Becomes(DiscardClient(Now, c))

SendResponse(c) ==
  \/ SendCached(c) \/ SendCachedNothingNew(c) \/ SendCachedDone(c)
  \/ SendUncached(c) \/ SendUncachedDone(c)

Next ==
  \/ \E c \in Client :
       \/ AcceptClient(c) \/ ReadRequestFails(c) \/ \E r \in Key : ReadRequest(c, r)
       \/ SendRequest(c)
       \/ ReadStatus(c) \/ ReadStatusFails(c)
       \/ ReadResponse(c) \/ ReadResponseEnd(c) \/ ReadResponseFails(c)
       \/ SendResponse(c)
       \/ ClientFails(c) \/ OriginHangsUp(c)
  \/ Stop

Spec == Init /\ [][Next]_vars

(* poll() is level-triggered and every ready socket of a batch is handled, *)
(* so what stays possible is done: an origin that is connected takes the   *)
(* request and answers it, and a client that has data to get takes it.     *)
(* Nobody has to connect or to send a request.                             *)
ServeOrigin(c) ==
  SendRequest(c) \/ ReadStatus(c) \/ ReadResponse(c) \/ ReadResponseEnd(c)

ServeClient(c) ==
  SendCached(c) \/ SendCachedDone(c) \/ SendUncached(c) \/ SendUncachedDone(c)

Fairness ==
  \A c \in Client : WF_vars(ServeOrigin(c)) /\ WF_vars(ServeClient(c))

FairSpec == Spec /\ Fairness

(***************************************************************************)
(* Properties.                                                             *)
(***************************************************************************)

Holds(c, r) == c \in Live(Now) /\ clients[c].request = r

IsPrefixOf(s, t) == Len(s) <= Len(t) /\ s = SubSeq(t, 1, Len(s))

(* A client that the server polls an origin for has a connection to one    *)
(* (the assertions of ClientsList::getPollfds), and one that waits for     *)
(* another client's response has none.                                     *)
TypeOK ==
  /\ clients \in [Client -> ClientRecord \cup {NoClient}]
  /\ request_clients_map \in [Key -> Seq(Client)]
  /\ cache \in CacheValue
  /\ exited \in BOOLEAN
  /\ stranded \subseteq Key
  /\ \A c \in Live(Now) :
       /\ clients[c].state \in {"sending_request", "waiting_response_status_code",
                                "waiting_response"} => clients[c].conn # NoConn
       /\ clients[c].state = "waiting_for_response_for_another_client" =>
            clients[c].conn = NoConn

(* request_clients_map holds references to Client objects that it does not *)
(* own: it lists each live client once, under the request he made, and     *)
(* nobody else.  So no reference dangles and no loop over a list misses or *)
(* repeats a client.                                                       *)
ListsAreExact ==
  \A r \in Key :
    /\ \A c \in Client : c \in Listed(Now, r) <=> Holds(c, r)
    /\ Len(request_clients_map[r]) = Cardinality(Listed(Now, r))

(* The use count of an entry is the number of clients with its request:    *)
(* whichever way they came to the entry, got it taken away or left.        *)
UseCountIsExact ==
  \A r \in Present(cache) :
    cache.entry[r].in_use = Len(request_clients_map[r])

(* Who is to be served from the cache finds an entry there: the branch for *)
(* a missing key ("no cache yet") is never taken, nor is the one where the *)
(* end of a response finds nothing to complete.  Only a client whose       *)
(* recovery was cut short may be left with flags and without an entry.     *)
ReadersHaveAnEntry ==
  \A c \in {d \in Live(Now) : clients[d].request \notin stranded} :
    \/ clients[c].should_read_from_cache /\ Sending(c)
    \/ clients[c].should_write_to_cache /\ In(c, {"waiting_response"})
    => Contains(cache, clients[c].request)

(* One client at most writes a response into the cache, across any number  *)
(* of hand-overs and repeated fetches, and what is there is what it and    *)
(* those before it read: the part of one answer that ends where the writer *)
(* stands.  It starts at the beginning unless a client read on after its   *)
(* recovery from an error had failed.                                      *)
Writers(r) ==
  {c \in Client : /\ Holds(c, r) /\ In(c, {"waiting_response"})
                  /\ clients[c].should_write_to_cache}

WriterContinuesEntry ==
  \A r \in Present(cache) : \A c \in Writers(r) :
    /\ Writers(r) = {c}
    /\ ~cache.entry[r].completed
    /\ LET conn == clients[c].conn
           n    == conn.pos - Size(cache, r)
       IN  cache.entry[r].buffer = SubSeq(Body[conn.answer], n + 1, conn.pos)

(* The bytes of all entries are counted and fit, with handlers that write, *)
(* fall back and drop several entries in one step; and no byte is counted  *)
(* that is not held, unless a client whose recovery was cut short has      *)
(* written to an entry that was gone.                                      *)
CacheIsSound ==
  /\ WellFormed(cache)
  /\ Space(cache, Present(cache)) <= cache.size /\ cache.size <= MaxSize
  /\ stranded = {} => cache.size = Space(cache, Present(cache))

(* The cache holds what an origin sent, in order: a contiguous part of one *)
(* answer, never parts of two.                                             *)
CacheHoldsOneResponse ==
  \A r \in Present(cache) :
    \E a \in DOMAIN Body : \E n \in 0..(Len(Body[a]) - Size(cache, r)) :
      cache.entry[r].buffer = SubSeq(Body[a], n + 1, n + Size(cache, r))

(* What is marked complete is the whole response of the origin. *)
CompletedIsWhole ==
  \A r \in Present(cache) : cache.entry[r].completed =>
    \E a \in DOMAIN Body : cache.entry[r].buffer = Body[a]

(* A response that is still being fetched has somebody who fetches it.     *)
IncompleteHasWriter ==
  \A r \in Present(cache) : ~cache.entry[r].completed => Writers(r) # {}

(* A client gets one response to his own request, in order and without     *)
(* gaps ...                                                                *)
ResponsesTo(c) == {Body[a] : a \in Answers[clients[c].request] \cap DOMAIN Body}

DeliveredInOrder ==
  \A c \in Live(Now) :
    clients[c].sent # <<>> =>
      \E b \in ResponsesTo(c) : IsPrefixOf(clients[c].sent, b)

(* ... and the server is only done with it when it got all of it.          *)
DoneMeansWhole ==
  [][\A c \in Client :
       SendCachedDone(c) \/ SendUncachedDone(c) =>
         clients[c].sent \in ResponsesTo(c)]_vars

(* Who made a request that its origin has an answer 200 to is done with    *)
(* sooner or later, whether he fetches the response himself, waits for     *)
(* another client's, or takes over half way.                               *)
RequestIsAnswered ==
  \A c \in Client, r \in {q \in Key : Answers[q] = {"ok"}} :
    Holds(c, r) ~> ~Holds(c, r)

(* Who was told to wait for another client's response ("wait for his       *)
(* response" in readRequestFromClient) waits no longer some time: he is    *)
(* offered the response or sent to the origin himself.                     *)
Waits(c) ==
  c \in Live(Now) /\ clients[c].state = "waiting_for_response_for_another_client"

WaiterIsWoken == \A c \in Client : Waits(c) ~> ~Waits(c)

============================================================================
