------------------------------ MODULE EventLoop ------------------------------
(***************************************************************************)
(* The loop of Server::start: poll(), then a handler for every descriptor  *)
(* that poll() reported, in the order in which they were polled, and again *)
(* until a signal has cleared is_running_.                                 *)
(*                                                                         *)
(* A batch is made from the states the clients had when they were polled;  *)
(* the handlers run one after the other, each in the state that those      *)
(* before it left.  A handler is told its descriptor and what poll() saw   *)
(* there; it looks up the client and goes by the state he is in by then.   *)
(*                                                                         *)
(* clients_ is indexed by the descriptor of the client's socket, so here   *)
(* the name of a client is that descriptor, and Client the indices of      *)
(* clients_ that can occur: standard input, output and error and the       *)
(* listening socket have the first four.                                   *)
(***************************************************************************)
EXTENDS Server

CONSTANTS
  MaxLive  \* bound: nobody connects while so many clients are there

ListeningSocket == 3

ASSUME EventLoopAssumption ==
  /\ Client \subseteq Nat \ 0..ListeningSocket
  /\ IsFiniteSet(Client)
  /\ MaxLive \in Nat

VARIABLES
  server_fd,  \* the descriptor of each client's server connection, or NoFd
  polling,    \* whether the loop is at poll(), else it is at its batch
  batch,      \* the events of the batch that are yet to be handled
  is_running,
  asked       \* bound: the request that everybody makes

loopVars == <<vars, server_fd, polling, batch, is_running, asked>>

NoFd == 0

(* The descriptors that can be open with every client connected, and the   *)
(* n-th of them that is not.  The kernel gives out the lowest.             *)
Descriptor == (ListeningSocket + 1)..(ListeningSocket + 2 * Cardinality(Client))

Open == Live(Now) \cup {server_fd[c] : c \in Live(Now)}

FreeFd(n) ==
  CHOOSE f \in Descriptor \ Open :
    Cardinality({g \in Descriptor \ Open : g <= f}) = n

LoopInit ==
  /\ Init
  /\ server_fd = [c \in Client |-> NoFd]
  /\ polling = TRUE
  /\ batch = {}
  /\ is_running = TRUE
  /\ asked \in Key

----------------------------------------------------------------------------
(* What is polled.                                                         *)

(* Faulty variant: who fetches a response is only polled for sending it. *)
PolledInOneDirection(c) ==
  CASE clients[c].state = "waiting_for_request" ->
         {[of |-> c, fd |-> c, events |-> "in"]}
    [] clients[c].state = "waiting_for_response_for_another_client" -> {}
    [] clients[c].state = "sending_request" ->
         {[of |-> c, fd |-> server_fd[c], events |-> "out"]}
    [] clients[c].state = "waiting_response_status_code" ->
         {[of |-> c, fd |-> server_fd[c], events |-> "in"]}
    [] clients[c].state \in {"waiting_response", "got_response",
                            "getting_response_from_another_client"} ->
         {[of |-> c, fd |-> c, events |-> "out"]}

(* ClientsList::getPollfds, for one client *)
PolledFor(c) ==
  CASE clients[c].state = "waiting_for_request" ->
         {[of |-> c, fd |-> c, events |-> "in"]}
    [] clients[c].state = "waiting_for_response_for_another_client" -> {}
    [] clients[c].state = "sending_request" ->
         {[of |-> c, fd |-> server_fd[c], events |-> "out"]}
    [] clients[c].state = "waiting_response_status_code" ->
         {[of |-> c, fd |-> server_fd[c], events |-> "in"]}
    [] clients[c].state = "waiting_response" ->
         {[of |-> c, fd |-> server_fd[c], events |-> "in"],
          [of |-> c, fd |-> c, events |-> "out"]}
    [] clients[c].state \in {"got_response", "getting_response_from_another_client"} ->
         {[of |-> c, fd |-> c, events |-> "out"]}

ListeningPollfd == [of |-> ListeningSocket, fd |-> ListeningSocket, events |-> "in"]

(* Server::getPollfds *)
Pollfds ==
  UNION {PolledFor(c) : c \in Live(Now)}
    \cup {p \in {ListeningPollfd} : Cardinality(Live(Now)) < MaxLive}

(* What poll() may see on a descriptor: what it was asked for, on a        *)
(* connection that fails an error or a hangup, and on the listening socket *)
(* an error.                                                               *)
Troubles(p) ==
  {s \in {"error", "hangup"} :
     \/ "client" \in Faults /\ p.fd = p.of /\ p # ListeningPollfd
     \/ "origin" \in Faults /\ p.fd # p.of
     \/ "listening" \in Faults /\ p = ListeningPollfd /\ s = "error"}

Seen(p) ==
  {[of |-> p.of, fd |-> p.fd, revents |-> s] : s \in {p.events} \cup Troubles(p)}

(* Faulty variant: each client before his server connection. *)
ClientFirst(e, f) ==
  IF e.of = f.of THEN e.fd = e.of
  ELSE e.of # ListeningSocket /\ (f.of = ListeningSocket \/ e.of < f.of)

(* The order of the batch is the order of the poll: by client, each        *)
(* client's server connection before the client, the listening socket at   *)
(* the end.                                                                *)
Before(e, f) ==
  IF e.of = f.of THEN e.fd # e.of
  ELSE e.of # ListeningSocket /\ (f.of = ListeningSocket \/ e.of < f.of)

NextEvent ==
  CHOOSE e \in batch : \A f \in batch \ {e} : Before(e, f)

----------------------------------------------------------------------------
(* The loop.                                                               *)

(* poll() reports some of the descriptors ... *)
Poll ==
  /\ ~exited /\ polling
  /\ batch' \in SUBSET UNION {Seen(p) : p \in Pollfds} \ {{}}
  /\ \A e, f \in batch' : e.fd = f.fd => e = f
  /\ polling' = FALSE
  /\ UNCHANGED <<vars, server_fd, is_running, asked>>

(* Faulty variant: without a time-out. *)
PollForEver == FALSE

(* ... or none of them for so long that it gives up. *)
PollTimesOut ==
  /\ ~exited /\ polling
  /\ polling' = FALSE
  /\ UNCHANGED <<vars, server_fd, batch, is_running, asked>>

Ends == ProcessEnds /\ server_fd' = [c \in Client |-> NoFd]

(* The end of a batch: the loop goes on or start() returns, and main() ends.*)
EndOfBatch ==
  /\ ~exited /\ ~polling /\ batch = {}
  /\ IF is_running THEN UNCHANGED <<vars, server_fd>> ELSE Ends
  /\ polling' = TRUE
  /\ UNCHANGED <<batch, is_running, asked>>

(* Server::stop.  A signal that interrupts poll() makes it fail, which ends *)
(* the process at once; any other only clears the flag.                    *)
Signal ==
  /\ "signal" \in Faults /\ ~exited /\ is_running
  /\ is_running' = FALSE
  /\ UNCHANGED <<vars, server_fd>> \/ (polling /\ Ends)
  /\ UNCHANGED <<polling, batch, asked>>

----------------------------------------------------------------------------
(* The handlers, with the descriptors they open, pass on and close.        *)

(* The connections made in a handler's step: a client that is to read from *)
(* one has it from the client c whose handler it is, any other a new one.  *)
Connected == {d \in Client : /\ clients'[d] # NoClient
                             /\ clients'[d].conn # NoConn
                             /\ server_fd[d] = NoFd}

PlaceInList(d) ==
  LET list == request_clients_map'[clients'[d].request]
  IN  CHOOSE i \in DOMAIN list : list[i] = d

Descriptors(c) ==
  server_fd' =
    [d \in Client |->
       IF clients'[d] = NoClient \/ clients'[d].conn = NoConn THEN NoFd
       ELSE IF d \notin Connected THEN server_fd[d]
       ELSE IF clients'[d].state = "waiting_response" THEN server_fd[c]
       ELSE FreeFd(Cardinality({e \in Connected : PlaceInList(e) <= PlaceInList(d)}))]

(* A client who may write finds nothing to send him. *)
NothingToSend(c) ==
  IF clients[c].should_read_from_cache
  THEN ~Contains(cache, clients[c].request)
  ELSE clients[c].chunks = <<>> /\ clients[c].state # "got_response"

(* Server::handleClientSocketEvents *)
HandleClientSocketEvents(c, revents) ==
  LET state == clients[c].state
      sends == state \in {"waiting_response", "got_response",
                          "getting_response_from_another_client"}
  IN  \/ /\ \/ revents = "error"
            \/ revents = "hangup" /\ (state = "sending_request" \/ sends)
         /\ Becomes(DiscardClient(Now, c))
      \/ /\ revents # "error" /\ state = "waiting_for_request"
         /\ ReadRequestFails(c) \/ ReadRequest(c, asked)
      \/ /\ revents \notin {"error", "hangup"}
         /\ SendRequest(c)
      \/ /\ revents # "error"
         /\ ReadStatus(c) \/ ReadStatusFails(c)
      \/ /\ revents = "in"
         /\ ReadResponse(c) \/ ReadResponseEnd(c) \/ ReadResponseFails(c)
      \/ /\ revents = "out" /\ sends
         /\ SendResponse(c) \/ (NothingToSend(c) /\ UNCHANGED vars)
      \/ /\ revents = "out" /\ ClientFails(c)
      \/ /\ \/ revents # "error" /\ state = "waiting_for_response_for_another_client"
            \/ revents = "in" /\ sends /\ state # "waiting_response"
         /\ UNCHANGED vars

(* ClientsList::getClient.  There is no client behind a descriptor that    *)
(* nobody has, and what it returns then is not an object.                  *)
OwnersOf(fd) == {c \in Live(Now) : fd \in {c, server_fd[c]}}

HandleClient ==
  /\ ~exited /\ ~polling /\ batch # {} /\ NextEvent.fd # ListeningSocket
  /\ IF OwnersOf(NextEvent.fd) = {}
     THEN Ends
     ELSE \E c \in OwnersOf(NextEvent.fd) :
            HandleClientSocketEvents(c, NextEvent.revents) /\ Descriptors(c)
  /\ batch' = batch \ {NextEvent}
  /\ UNCHANGED <<polling, is_running, asked>>

(* Server::handleServerSocketEvents and ClientsList::acceptClient.  An     *)
(* error throws what only main() catches.  To store a client beyond the    *)
(* end of clients_ is undefined; it is taken to end the process.           *)
HandleServerSocket ==
  /\ ~exited /\ ~polling /\ batch # {} /\ NextEvent.fd = ListeningSocket
  /\ \/ NextEvent.revents = "error" /\ Ends
     \/ /\ NextEvent.revents = "in"
        /\ IF FreeFd(1) \in Client THEN AcceptClient(FreeFd(1)) /\ UNCHANGED server_fd
           ELSE Ends
  /\ batch' = batch \ {NextEvent}
  /\ UNCHANGED <<polling, is_running, asked>>

LoopNext ==
  \/ Poll \/ PollTimesOut \/ EndOfBatch \/ Signal
  \/ HandleClient \/ HandleServerSocket

LoopSpec == LoopInit /\ [][LoopNext]_loopVars

(* The process runs, and its poll() does not last for ever.  A descriptor  *)
(* that is polled again and again for a response or for room for one is    *)
(* reported ready some time: origins answer and clients take data.         *)
Reports(c, fd) ==
  /\ clients[c] # NoClient /\ clients[c].state # "waiting_for_request"
  /\ \E p \in PolledFor(c) : /\ p.fd = fd
                             /\ Poll
                             /\ [of |-> c, fd |-> fd, revents |-> p.events] \in batch'

LoopFairness ==
  /\ WF_loopVars(HandleClient \/ HandleServerSocket)
  /\ WF_loopVars(EndOfBatch)
  /\ WF_loopVars(PollTimesOut)
  /\ \A c \in Client : /\ SF_loopVars(Reports(c, c))
                       /\ SF_loopVars(Reports(c, server_fd[c]))

FairLoopSpec == LoopSpec /\ LoopFairness

(***************************************************************************)
(* Properties.                                                             *)
(***************************************************************************)

Event == [of : Client \cup {ListeningSocket}, fd : Descriptor \cup {ListeningSocket},
          revents : {"in", "out", "error", "hangup"}]

(* Every client that is to have a server connection has its descriptor,    *)
(* which is what the assertions of ClientsList::getPollfds say, and no two *)
(* owners have one descriptor: getClient finds the client that an event is *)
(* for whichever hand-overs there were.                                    *)
LoopTypeOK ==
  /\ batch \subseteq Event
  /\ polling => batch = {}
  /\ \A c \in Client :
       server_fd[c] \in (IF clients[c] # NoClient /\ clients[c].conn # NoConn
                         THEN Descriptor \ Live(Now) ELSE {NoFd})
  /\ \A c \in Live(Now) :
       /\ clients[c].state \in {"sending_request", "waiting_response_status_code",
                                "waiting_response"} => server_fd[c] # NoFd
       /\ \A d \in Live(Now) \ {c} : server_fd[c] = server_fd[d] => server_fd[c] = NoFd

(* A handler trusts that the client still is in a state that polls for the *)
(* event: it sends, receives and looks up without asking again.  (The      *)
(* table of states in clients_list.h and "not reachable, because client in *)
(* this state does not set events flags" in server.cpp.)  So whatever the  *)
(* handlers before it did, each event of a batch is one that its client,   *)
(* as he is by then, would be polled for.                                  *)
EventsAreCurrent ==
  \A e \in batch : e.of # ListeningSocket =>
    /\ e.of \in Live(Now)
    /\ \E p \in PolledFor(e.of) : p.fd = e.fd /\ e.revents \in {p.events, "error", "hangup"}

(* The loop runs the server's handlers and nothing else, and runs them as  *)
(* fairly as the server alone was assumed to: what a client or an origin   *)
(* is ready for is not put off for ever by the batches, by their order or  *)
(* by what the loop polls.                                                 *)
LoopImplementsServer == FairSpec

(* A signal ends the process, also one that comes just before poll() goes  *)
(* to sleep.                                                               *)
StopIsHeard == ~is_running ~> exited
============================================================================
