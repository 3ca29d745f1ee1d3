--------------------------- MODULE EventLoopProofs ---------------------------
(***************************************************************************)
(* The server's invariant under the event loop.  A batch is made from the  *)
(* states of the clients when they were polled, so a handler may run for a *)
(* client that is not in that state any more, and an error is handled in   *)
(* whatever state he is in by then: the loop has steps that the server by  *)
(* itself does not have.  They keep the invariant, too, and the one of the *)
(* deliveries.                                                             *)
(***************************************************************************)
EXTENDS EventLoop, ServerDelivery

(* DiscardClient of a client in any state. *)
LEMMA DiscardInvariant ==
  ASSUME IInv, NEW c \in Live(Now), Becomes(DiscardClient(Now, c))
  PROVE  IInv'
<1>1. Good(Now, {}) /\ exited \in BOOLEAN /\ c \in Client /\ Now.clients[c] # NoClient
  BY DEF IInv, Live
<1>2. Now.clients[c] \in ClientRecord /\ ClientOk(Now.clients[c])
  BY <1>1, WorldFacts
<1>. DEFINE r == Now.clients[c].request
<1>3. CASE r = NoRequest
  <2>1. DiscardClient(Now, c) = [Now EXCEPT !.clients[c] = NoClient]
    BY <1>3 DEF DiscardClient
  <2>2. Now.clients[c].state = "waiting_for_request"
    BY <1>2, <1>3 DEF ClientOk
  <2>3. Good([Now EXCEPT !.clients[c] = NoClient], {})
    BY <1>1, <2>2, UnlistedIsGood
  <2>. QED
    BY <1>1, <2>1, <2>3, BecomesGood
<1>4. CASE r # NoRequest
  <2>1. r \in Key /\ IsOf(Now, c, r)
    BY <1>1, <1>2, <1>4 DEF ClientRecord, IsOf
  <2>2. Good(DiscardClient(Now, c), {})
    BY <1>1, <2>1, DiscardNow
  <2>. QED
    BY <1>1, <2>2, BecomesGood
<1>. QED
  BY <1>3, <1>4

(* What the loop itself keeps: every event is handled before poll() is     *)
(* called again.                                                           *)
BatchIsDone == polling => batch = {}

LoopInv == IInv /\ asked \in Key /\ BatchIsDone

(* Server::handleClientSocketEvents, for a client in any state and for any *)
(* event, also one that he is not polled for any more.                     *)
LEMMA HandlerInvariant ==
  ASSUME IInv, asked \in Key, NEW c \in Live(Now), NEW revents,
         HandleClientSocketEvents(c, revents)
  PROVE  IInv'
<1>1. c \in Client
  BY DEF Live
<1>2. CASE Becomes(DiscardClient(Now, c))
  BY <1>2, DiscardInvariant
<1>3. CASE UNCHANGED vars
  BY <1>3, StepInvariant
<1>4. ASSUME Next PROVE IInv'
  BY <1>4, StepInvariant
<1>5. CASE ReadRequestFails(c) \/ ReadRequest(c, asked)
  BY <1>1, <1>4, <1>5 DEF Next
<1>6. CASE SendRequest(c) \/ ReadStatus(c) \/ ReadStatusFails(c)
  BY <1>1, <1>4, <1>6 DEF Next
<1>7. CASE ReadResponse(c) \/ ReadResponseEnd(c) \/ ReadResponseFails(c)
  BY <1>1, <1>4, <1>7 DEF Next
<1>8. CASE SendResponse(c) \/ ClientFails(c)
  BY <1>1, <1>4, <1>8 DEF Next
<1>. QED
  BY <1>2, <1>3, <1>5, <1>6, <1>7, <1>8, Zenon DEF HandleClientSocketEvents

LEMMA LoopInitInvariant == LoopInit => LoopInv
BY InitInvariant DEF LoopInit, LoopInv, BatchIsDone

LEMMA LoopStepInvariant == LoopInv /\ [LoopNext]_loopVars => LoopInv'
<1>. SUFFICES ASSUME LoopInv, [LoopNext]_loopVars PROVE LoopInv'
  OBVIOUS
<1>. USE DEF LoopInv, BatchIsDone
<1>1. CASE UNCHANGED loopVars
  BY <1>1, StepInvariant DEF loopVars
<1>2. CASE Poll \/ PollTimesOut
  BY <1>2, StepInvariant DEF Poll, PollTimesOut
<1>3. CASE EndOfBatch \/ Signal
  BY <1>3, StepInvariant, EndInvariant DEF EndOfBatch, Signal, Ends
<1>4. CASE HandleClient
  <2>1. IInv'
    <3>1. CASE Ends
      BY <3>1, EndInvariant DEF Ends
    <3>2. ASSUME NEW c \in OwnersOf(NextEvent.fd),
                 HandleClientSocketEvents(c, NextEvent.revents)
          PROVE  IInv'
      <4>1. c \in Live(Now)
        BY DEF OwnersOf
      <4>. QED
        BY <3>2, <4>1, HandlerInvariant
    <3>. QED
      BY <1>4, <3>1, <3>2 DEF HandleClient
  <2>. QED
    BY <1>4, <2>1 DEF HandleClient
<1>5. CASE HandleServerSocket
  <2>1. IInv'
    <3>1. CASE Ends
      BY <3>1, EndInvariant DEF Ends
    <3>2. CASE FreeFd(1) \in Client /\ AcceptClient(FreeFd(1))
      BY <3>2, StepInvariant DEF Next
    <3>. QED
      BY <1>5, <3>1, <3>2 DEF HandleServerSocket
  <2>. QED
    BY <1>5, <2>1 DEF HandleServerSocket
<1>. QED
  BY <1>1, <1>2, <1>3, <1>4, <1>5 DEF LoopNext

(* The loop hands a handler events that another handler of the same batch  *)
(* has overtaken, errors in any state, and descriptors that changed hands; *)
(* no order of them makes a list or a use count wrong ...                  *)
THEOREM LoopKeepsLists == LoopSpec => [](ListsAreExact /\ UseCountIsExact)
BY LoopInitInvariant, LoopStepInvariant, ListsAreExactFollows, UseCountIsExactFollows, PTL
   DEF LoopSpec, LoopInv

(* ... nor do they leave a reader without his entry, an entry with two     *)
(* writers or with parts of two answers, or the count of bytes too low.    *)
THEOREM LoopKeepsCache ==
  LoopSpec => [](/\ ReadersHaveAnEntry /\ CacheIsSound
                 /\ WriterContinuesEntry /\ CacheHoldsOneResponse)
BY LoopInitInvariant, LoopStepInvariant, ReadersHaveAnEntryFollows, CacheIsSoundFollows,
   WriterContinuesEntryFollows, CacheHoldsOneResponseFollows, PTL DEF LoopSpec, LoopInv

----------------------------------------------------------------------------
(* The deliveries under the event loop.                                    *)

(* A step that leads to a good world in which the deliveries are on course. *)
LEMMA BecomesOnCourse ==
  ASSUME DInv, ~exited, NEW z, Good(z, {}), Delivers(z), Becomes(z)
  PROVE  DInv'
<1>1. IInv' /\ Then = z /\ exited' = exited
  <2>1. IInv'
    BY BecomesGood DEF DInv, IInv
  <2>2. Then = z
    BY BecomesThen
  <2>. QED
    BY <2>1, <2>2 DEF Becomes
<1>2. Delivers(Now)'
  BY <1>1, DeliversNext
<1>. QED
  BY <1>1, <1>2 DEF DInv

LEMMA DiscardOnCourse ==
  ASSUME DInv, ~exited, NEW c \in Live(Now), Becomes(DiscardClient(Now, c))
  PROVE  DInv'
<1>1. Good(Now, {}) /\ Delivers(Now) /\ c \in Client /\ Now.clients[c] # NoClient
  BY DEF DInv, IInv, Live
<1>2. Now.clients[c] \in ClientRecord /\ ClientOk(Now.clients[c])
  BY <1>1, WorldFacts
<1>. DEFINE r == Now.clients[c].request
            v == [Now EXCEPT !.clients[c] = NoClient]
<1>3. CASE r = NoRequest
  <2>1. DiscardClient(Now, c) = v
    BY <1>3 DEF DiscardClient
  <2>2. Now.clients[c].state = "waiting_for_request"
    BY <1>2, <1>3 DEF ClientOk
  <2>3. Good(v, {})
    BY <1>1, <2>2, UnlistedIsGood
  <2>4. Delivers(v)
    BY <1>1, <2>2, UnlistedDelivers
  <2>. QED
    BY <2>1, <2>3, <2>4, BecomesOnCourse
<1>4. CASE r # NoRequest
  <2>1. r \in Key /\ IsOf(Now, c, r)
    BY <1>1, <1>2, <1>4 DEF ClientRecord, IsOf
  <2>2. Good(DiscardClient(Now, c), {}) /\ Delivers(DiscardClient(Now, c))
    BY <1>1, <2>1, DiscardNow, DiscardDelivers
  <2>. QED
    BY <2>2, BecomesOnCourse
<1>. QED
  BY <1>3, <1>4

LEMMA EndOnCourse == ProcessEnds => DInv'
<1>. SUFFICES ASSUME ProcessEnds PROVE DInv'
  OBVIOUS
<1>1. IInv' /\ Delivers(Then) /\ (Live(Now) = {})'
  BY EndInvariant, EndDelivers, EndsOnce
<1>. QED
  BY <1>1, DeliversNext DEF DInv

LEMMA HandlerOnCourse ==
  ASSUME Undisturbed, DInv, ~exited, asked \in Key, NEW c \in Live(Now), NEW revents,
         HandleClientSocketEvents(c, revents)
  PROVE  DInv'
<1>1. c \in Client
  BY DEF Live
<1>2. CASE Becomes(DiscardClient(Now, c))
  BY <1>2, DiscardOnCourse
<1>3. CASE UNCHANGED vars
  BY <1>3, StepDelivers
<1>4. ASSUME Next PROVE DInv'
  BY <1>4, StepDelivers
<1>5. CASE ReadRequestFails(c) \/ ReadRequest(c, asked)
  BY <1>1, <1>4, <1>5 DEF Next
<1>6. CASE SendRequest(c) \/ ReadStatus(c) \/ ReadStatusFails(c)
  BY <1>1, <1>4, <1>6 DEF Next
<1>7. CASE ReadResponse(c) \/ ReadResponseEnd(c) \/ ReadResponseFails(c)
  BY <1>1, <1>4, <1>7 DEF Next
<1>8. CASE SendResponse(c) \/ ClientFails(c)
  BY <1>1, <1>4, <1>8 DEF Next
<1>. QED
  BY <1>2, <1>3, <1>5, <1>6, <1>7, <1>8, Zenon DEF HandleClientSocketEvents

LoopDInv == DInv /\ asked \in Key /\ BatchIsDone

LEMMA LoopInitDelivers == LoopInit => LoopDInv
BY InitDelivers DEF LoopInit, LoopDInv, BatchIsDone

LEMMA LoopStepDelivers ==
  ASSUME Undisturbed
  PROVE  LoopDInv /\ [LoopNext]_loopVars => LoopDInv'
<1>. SUFFICES ASSUME LoopDInv, [LoopNext]_loopVars PROVE LoopDInv'
  OBVIOUS
<1>. USE DEF LoopDInv, BatchIsDone
<1>1. CASE UNCHANGED loopVars
  BY <1>1, StepDelivers DEF loopVars
<1>2. CASE Poll \/ PollTimesOut
  BY <1>2, StepDelivers DEF Poll, PollTimesOut
<1>3. CASE EndOfBatch \/ Signal
  BY <1>3, StepDelivers, EndOnCourse DEF EndOfBatch, Signal, Ends
<1>4. CASE HandleClient
  <2>1. DInv'
    <3>1. CASE Ends
      BY <3>1, EndOnCourse DEF Ends
    <3>2. ASSUME NEW c \in OwnersOf(NextEvent.fd),
                 HandleClientSocketEvents(c, NextEvent.revents)
          PROVE  DInv'
      <4>1. c \in Live(Now) /\ ~exited
        BY <1>4 DEF OwnersOf, HandleClient
      <4>. QED
        BY <3>2, <4>1, HandlerOnCourse
    <3>. QED
      BY <1>4, <3>1, <3>2 DEF HandleClient
  <2>. QED
    BY <1>4, <2>1 DEF HandleClient
<1>5. CASE HandleServerSocket
  <2>1. DInv'
    <3>1. CASE Ends
      BY <3>1, EndOnCourse DEF Ends
    <3>2. CASE FreeFd(1) \in Client /\ AcceptClient(FreeFd(1))
      BY <3>2, StepDelivers DEF Next
    <3>. QED
      BY <1>5, <3>1, <3>2 DEF HandleServerSocket
  <2>. QED
    BY <1>5, <2>1 DEF HandleServerSocket
<1>. QED
  BY <1>1, <1>2, <1>3, <1>4, <1>5 DEF LoopNext

(* Errors and hangups handled in whatever state the client is in by then,  *)
(* and handlers that others of the batch have overtaken, take no delivery  *)
(* off its course: an entry still is whole or is being fetched, and every  *)
(* client still has a beginning of the answer to his request.              *)
THEOREM LoopKeepsDeliveries ==
  ASSUME Undisturbed
  PROVE  LoopSpec => [](CompletedIsWhole /\ IncompleteHasWriter /\ DeliveredInOrder)
BY LoopInitDelivers, LoopStepDelivers, CompletedIsWholeFollows, IncompleteHasWriterFollows,
   DeliveredInOrderFollows, PTL DEF LoopSpec, LoopDInv

(* Nor is the server done with a client before he got all of it.           *)
THEOREM LoopDoneMeansWhole ==
  ASSUME Undisturbed
  PROVE  LoopSpec => DoneMeansWhole
<1>1. DInv =>
        [\A c \in Client : SendCachedDone(c) \/ SendUncachedDone(c) =>
           clients[c].sent \in ResponsesTo(c)]_vars
  BY DoneIsWhole
<1>. QED
  BY <1>1, LoopInitDelivers, LoopStepDelivers, PTL DEF LoopSpec, LoopDInv, DoneMeansWhole

=============================================================================
