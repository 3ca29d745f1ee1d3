# A TLA+ model of spx

spx is a caching HTTP/1.x forward proxy in C++: one thread, one `poll()` loop, one in-memory
cache. This directory holds TLA+ models of its parts, TLC configurations that check them on small
instances, and TLAPS proofs about the cache, the server, its event loop and the parsers for instances
of every size.

## The system

| Part | State | Operations | What makes it correct |
|---|---|---|---|
| Response cache (`cache/`) | `list_` in order of last use, `hash_table_` into it, `current_size_`; per entry the bytes, `completed`, `in_use` | `write` (with `freeSpace`, `removeLeastRecentlyUsed`, `append`), `read`/`getEntry`, `useEntry`, `disuseEntry`, `drop`, `Entry::complete` | the count is the bytes held; entries in use stay; eviction in order of last use; an unfinished entry never outlives its last user; list and table agree |
| Server (`server.*`) | `request_clients_map`, the cache, the clients | one handler per socket event and client state | lists, use counts and cache agree; one writer per response; whoever waits is waiting for somebody; bytes arrive whole and in order |
| Clients (`clients_list.*`) | per client: request, state, two connections, `sent_bytes`, `chunks`, three flags | `getPollfds` by state, `sendToClientFromChunks`, `obtainServerConnection` | poll sets match the state; a partly sent chunk is not lost |
| Sockets (`net/`) | a descriptor | connect, send, recv, accept; errors become exceptions | one owner per open descriptor |
| Request and URL parsing (`http/`) | parser state | a byte at a time; `HttpRequest::parse`, `toString` | what is read is what the input says; it ends where the reader stops; what is forwarded asks for what was received; no assertion fails |
| Event loop, signals, start-up | the batch of ready descriptors, `is_running_` | `poll`, dispatch, `stop` | an event meets its client in a state it fits; nobody is passed over for ever; a signal ends the loop |
| Test server, scripts | - | - | not part of the proxy |

A client's request becomes a string that is also the cache key. The first client with a key (the
leader) connects to the origin. The others *wait*. When the status line says 200 the leader
writes into the cache and all others are set to read from there; otherwise each waiting client
gets a connection of its own. If a write does not fit because every entry is in use, the leader
*falls back*: each client of the request gets the rest of the entry and all further chunks in his
own buffer. If the leader leaves half way, a client that reads from the cache takes over his
connection (*hand-over*).

What is hard here is not parallelism, for a handler runs to its end. It is that each handler
changes several clients, the lists and the cache at once, may stop half way with an exception that
another function catches, and meets the clients of a request in any order and phase. `PROJECT.json`
lists these hazards at their lines.

## Modules

    PinnedStore          what a cache promises           (abstract)
        ^ implemented by (proved and checked)
    CacheUsers --------> Cache       operators on a cache value
        ^ implemented by (checked)     ^ used by
    LruCache                         Server            every handler, in any order
    containers and loops               ^ implemented by (checked, with its fairness)
                                     EventLoop         poll(), batches, descriptors, signals

    RequestParser  the request and its key          UrlParser  parse_

    Proofs:  CacheLemmas <- CacheProofs              RequestProofs
                 ^                                   UrlProofs
             ServerLemmas <- ServerProofs <- ServerDelivery <- EventLoopProofs

**Cache** has every operation of `Cache` as an operator from a cache value to the next one, so that
a handler can chain several calls in one step. `list_` is the set of pairs `<<k, l>>` such that k
stands before l; what the eviction loop drops is the set `Victims`: an unused entry goes iff the
unused entries before it do not free enough. A byte is a `Block`; the 16 MB are `MaxSize` blocks.

**CacheUsers** is one cache and the calls made on it, with the protocol the server keeps: an entry
is written, looked at and given up only by one who uses it. `MaxUsers` and `MaxChunk` are bounds.

**PinnedStore** is the promise without list, counter or policy: pinned entries stay and keep their
data, an append may cost any unpinned entries, and is refused only if giving up all of them would
not make room.

**LruCache** has `list_` as a sequence, `hash_table_` as the set of its keys, the scan for a victim
and the loop of `freeSpace` as they are in the code. `removeLeastRecentlyUsed` passes `drop` a
reference to the key inside the node that `drop` frees, and `drop` looks at it again afterwards.
What it reads is undefined; the constant `FreedKey` says which readings are considered: `"intact"`
(the erasure finds the key) or `"overwritten"` (it does not). `Cache`, and therefore `CacheUsers`,
`Server` and all proofs, have the eviction the code intends, which is the `"intact"` one. The run
`lru_freed_key` shows what the other one does.

**Server** is the proxy. A *world* is the record of all that a handler can reach: clients,
`request_clients_map`, cache (and `stranded`, below). Each function of `server.cpp` is an operator from one world to the
next (`DiscardClient`, `HandOver`, `Fallback`, `WriteToCache`, ...) and each handler an action that
takes the last world of its chain as the next state. Exceptions are control flow here: `FallbackThrows`,
the outcomes of `Write`, and how many waiting clients got connected before a connect failed
(`Prepared`) decide which catch block runs on what. `exited` is the exception of `std::stoi` that
only `main` catches.

| Code | Action or operator |
|---|---|
| `acceptClient` | `AcceptClient` |
| `readRequestFromClient` and its catch block | `ReadRequest`, `ReadRequestFails` |
| `sendRequestToServer` | `SendRequest`, `OriginHangsUp` |
| `readResponseStatusCodeFromServer` | `ReadStatus` (`StatusIsOk`, `StatusIsError`, `StatusIsGarbled`, `RecoverFromStatusError`), `ReadStatusFails` |
| `readResponseFromServer` | `ReadResponse`, `ReadResponseEnd`, `ReadResponseFails` |
| `sendResponseToClient`, cached and uncached | `SendCached`, `SendCachedNothingNew`, `SendCachedDone`, `SendUncached`, `SendUncachedDone` |
| failing sends, POLLERR, POLLHUP | `ClientFails`, `OriginHangsUp` |
| `discardClient` | `DiscardClient` in most of the above |

Choices worth knowing:

- A client's `sent` is the sequence of blocks he was sent; `sent_bytes` is its length.
- An origin answers with `Body["ok"]`, with `Body["error"]` or with something that has no status; it
  settles on one with the first read, a chunk is any 1..`MaxChunk` blocks, and it closes when all
  is sent. An origin that closes before it has answered behaves as one that resets then.
- A read error consumes the reset: a later read of the same socket (by an heir) finds its end.
- Handlers run one by one in any order, whenever the client's state polls for the event. That
  `poll()` and its batches give no other behaviours is what `EventLoop` shows.
- `Stop` is the process ended by a signal or by an error on the listening socket; `exited` also stands for the exception of `std::stoi`.
- `stranded` is a history variable: the requests for which a connect failed inside the catch block of
  `readResponseStatusCodeFromServer`. The exception leaves the handler, and the client keeps whatever flags
  had been set and the state he was in, perhaps without an entry to go with them. Nothing in the model reads it; three
  properties do. With four clients, a cache that is too small and two failing connects, TLC finds that their stronger
  forms fail: such a client parses more of the body as a status line, and may then write where there is
  no entry. `ReadersHaveAnEntry` is therefore about the other requests, `CacheIsSound` has the exact count only while
  nobody is stranded (and always that the count is not too low), and `WriterContinuesEntry` is about entries
  that exist.
- The "no cache yet" branch of `sendCachedResponseToClient` changes nothing and is a stutter;
  `ReadersHaveAnEntry` says it is never taken (but for the stranded).
- `Without` removes one occurrence where the code removes all; `ListsAreExact` says there is one.
- Keys of `request_clients_map` with an empty list and absent keys are the same to the code.

**EventLoop** extends `Server` by what calls the handlers. `poll()` is the action `Poll`: it takes
`Pollfds`, made from the clients' states as `getPollfds` does, and puts some of the descriptors, with what
was seen on each (the event asked for, an error, a hangup), into `batch`; or it times out. The batch is then
handled event by event in the order of the poll (`Before`): `HandleClient` looks the descriptor up
(`OwnersOf` is `getClient`) and runs `HandleClientSocketEvents`, which chooses among the actions
of `Server` by the state the client is in *by then*; `HandleServerSocket` accepts, or ends the process for an error on the listening socket. A client's name is the
index in `clients_`, which is his descriptor; `server_fd` has the descriptors of the server
connections. They are given out lowest first, passed on by a hand-over and free once their owner is discarded
(`Descriptors`). A signal clears `is_running`, which is looked at between batches, or makes a
sleeping `poll()` fail, and that ends the process. To reach past the end of `clients_`, and to
dereference an empty place in it, are undefined in the code and end the process here.

**RequestParser** is `HttpRequestParser::consume`, a function from a request in the making and a token to
the next one (`Step`, one operator per parser state), and `HttpRequest`: which headers are kept
(`Headers`) and the text that is forwarded and is the cache key (`toString`). A token is a character or a word
such as a header's name; `Offered` names what is read in each state, at least one token of each kind the
state tells apart. Folded header lines, the body by length or in chunks, extensions, trailers and the
exceptions of `reserve()` are in it.

**UrlParser** is `parse_`, one action per parser state, over a few characters of each class. What
`parse_` leaves when the input ends is `Finished`. The numeric value of the port is left out.

`MC*` modules give the constants their values. Operators marked *Faulty variant* are not used by the
models: each is what a slip in the code would make of its neighbour, and the property it is paired
with in `PROJECT.json` finds it.

## What is checked

| Run | Instance | Shows |
|---|---|---|
| `cache_users` | 4 keys, 4 blocks, chunks of 1-2, 2 users per entry | order, accounting, pinning, finality, eviction order, `IsAPinnedStore` |
| `lru_cache` | 3 keys, 3 blocks, chunks of 1-2, freed key intact | list and table agree; the containers implement `CacheUsers` |
| `lru_freed_key` | the same, freed key overwritten | **violated**: the evicted key stays in the table |
| `server_faults` | 3 clients, 2 requests, answers of 2 blocks, cache of 3, all answers, failing clients, origins and connects, a signal | types and the assertions of `getPollfds`, lists, use counts, readers' entries, cache accounting; one writer, who continues what is there; no mixed entry |
| `server_delivery` | 3 clients, one request answered 200 (3 blocks), one 404 (3 blocks), chunks of 1-2, room for all, clients may leave | completed means whole, an incomplete entry has a writer, delivery in order and whole |
| `event_loop` | descriptors 4-6, two clients at a time, one request per behaviour, answered 200 (2 blocks) or 404 (1), clients may leave, an error on the listening socket, signals; `FairLoopSpec` | every event of a batch fits its client; descriptors have one owner; the loop implements `Server` with its fairness; a signal ends it; every request that is answered 200 is done with |
| `event_stale` | the same with origin resets as the only fault | **violated**: an event for a client who is gone |
| `server_waiter` | 2 clients, answer 404, no faults; `FairSpec` | **violated**: a latecomer waits for ever |
| `server_full_cache` | 3 clients, 2 requests, cache of 3, answer 200, no faults | **violated**: truncated response after the fallback |
| `request_parser` | inputs of up to 28 tokens, URIs of up to 3 words, two headers, values of up to 2 words over several lines, bodies of up to 2 | the head is the input; parser and reader agree on the end; the body is as announced; the forwarded head is read as the one that came in, but for its query and the headers that go |
| `url_parser` | inputs of up to 10 characters of 8 kinds, parts of up to 3 | parts are the input, once it has got to the path; what is pending at the end is the port the input ends with; the final slash is optional |
| `url_port` | the same | **violated**: the assertion at the end of `parse_`, by a URL that ends in its port |

Why these bounds. In the cache, an eviction that has to take two entries, pass over one in use and
keep one needs four keys. In the server, a hand-over needs a leader and two readers, of whom one is chosen; a
fallback needs an entry of another request in use that fills the cache; both fit in three clients
and two requests. Two blocks are the least that have a middle; a cache of three makes eviction,
partial room and `AllInUse` all happen. Ten characters are enough for scheme, user, password, host, port and the slash after it.
`server_delivery` gives the cache room for everything and each request one kind of
answer. Without the first its properties are false, which is what `server_full_cache` shows; without
the second they are too: a client in the middle of a 404 is switched to the cached 200 of another
fetch, at the offset he had reached (a hazard at `server.cpp:378`). Three blocks in chunks of one or two make a chunk go out in part
while the next one is there already. In all instances the answers to different requests have one `Body` per kind: an entry that mixed
answers of the same kind to two requests would not be told from a right one.

In `event_loop` a hand-over, a client who comes when another has left, and a descriptor that is given
out again all happen with two clients at a time and three places. `MaxLive` and `asked` (everybody
makes the same request) are bounds of the instance. Failing connects are not among its faults: after
one in the status handler's catch block the client stays in his state at the end of his connection, is
reported by every `poll()` and handled to no effect, so that nothing is answered any more.
Origin resets are `event_stale`. Nobody falls back in `event_loop`, as its cache has room for the answer, for after a fall-back
the next client may wait for ever, as in `server_waiter`; nor is a client switched to the cache while he is polled for a connection of his own, which
takes answers of both kinds to one request. So `EventsAreCurrent` is not about these two. In `request_parser`, 28 tokens are two headers, or one header and a chunked
body with one chunk.
`CHECK_DEADLOCK FALSE` everywhere: the server may have exited, clients need not come, an
input ends, and a cache is idle when every bound is reached. Symmetry is used in safety runs only.

Fairness. `FairSpec` of `Server` is weak fairness, for each client, of the handlers that read from his
origin (`ServeOrigin`) and of those that send to him (`ServeClient`). It is not taken on trust:
`LoopImplementsServer` derives it from the fairness of the loop. `LoopFairness` has weak fairness of handling the
next event, of ending a batch and of the time-out, which is a thread that runs and a `poll()` with a
finite `TIMEOUT`; and strong fairness of a descriptor being reported ready that is polled again and again,
which is origins that answer and clients that take their data. `poll()` is level-triggered, so a
socket once ready is reported by the next `poll()` that asks for it; strong, because the loop is at `poll()`
only between batches. Nothing is assumed about clients that connect, send requests or leave.

## What is proved

Every theorem is for any values of the constants that satisfy the named assumptions (`CacheAssumption`,
`UsersAssumption`, `ServerAssumption`, `MarkerAssumption`, `EventLoopAssumption`, `RequestAssumption`): any sets of keys,
blocks and clients, any capacity, any answers, any subset of the faults. Only the theorems on deliveries have a
hypothesis of their own, `Undisturbed`, because what they say is false without it.

**Cache** (`CacheLemmas`, `CacheProofs`).

- `CacheTypeCorrect`, `CacheSizeIsExact`, `UnusedEntriesAreComplete`: the invariants of
  `cache_users`. The inductive invariant is their conjunction: the exact count needs finitely many entries and natural
  use counts, and the completeness of unused entries is what makes `Victims` safe to drop.
- `EntriesInUseSurvive`, `CompletedEntriesAreFinal`, `EvictionIsInOrder`: its action properties.
- `CacheIsAPinnedStore`: the refinement, step by step. Its core is `RefusedMeansNoneLeft`: when a write is
  refused, every unused entry has been evicted. That needs a least recently used survivor, which exists
  because the order is total and the set finite (`WFMin` of the library).

`CacheLemmas` has one lemma per operation (`UseSound`, `DisuseSound`, `CompleteSound`, `WriteSound`, ...) and the
arithmetic of `Space` they rest on (`SpaceSplits`). They are about cache values, `Sound(c, x)` being a
cache whose count is x more than it holds, and both `CacheProofs` (x = 0) and `ServerProofs` cite them.

**Server** (`ServerLemmas`, `ServerProofs`). All seven invariants of `server_faults`:
`TypesAreCorrect`, `ListsStayExact`, `UseCountStaysExact`, `ReadersFindTheEntry`, `CacheStaysSound`,
`WriterContinues`, `CacheNeverMixesResponses`. They are one argument, for none is inductive alone. Why a hand-over
leaves one writer: because all clients of an entry read it or write it (`EntryOk`). Why the use count is exact after
a fallback or a discard: because the list is. Why the list is: because nobody changes his request. Why a
second fetch never finds an entry of the first: because who still waits for a status has no entry beside
him. So the inductive invariant `Good` is a predicate of *worlds*:

| Part | Says |
|---|---|
| `World`, `CacheOk` | types; the cache is sound, and exactly counted while nobody is stranded |
| `ClientOk` | state, request and connection of one client fit; a connection's position lies within its answer |
| `ListOk` | a request's list has each of its clients once and nobody else |
| `EntryOk` | the clients of a request with an entry are its users, all read it, one at most fetches, and he stands where it ends; what is in it is part of one answer |
| `CleanOk` | no flag is left that the cache does not answer to, unless the request is stranded |

`Good(w, S)` excuses the clients of S from `CleanOk`, for the middle of a handler in which a flag is set and the entry is
not there yet, or not any more. The lemmas go up as the code calls: lists and caches; the operators from one world to the next
(`DiscardNow`, `FallbackFacts`, `PrepareIsGood`, `SharedFacts`, ...); then each handler (`ReadRequestIsGood`,
`RecoverIsGood`, ...): from a good world it reaches a good one. `StepIsGood` does once what all of them need:
a step about the requests of R leaves every other request alone, but for the eviction of an
entry that nobody uses. `StepInvariant` joins the handlers, and a lemma `...Follows` per property says that the invariant implies it.

**Deliveries** (`ServerDelivery`). The four properties of `server_delivery`: `CompletedStaysWhole`,
`IncompleteAlwaysHasWriter`, `DeliveriesAreInOrder`, `DoneAlwaysMeansWhole`, each `ASSUME Undisturbed`. That instance satisfies
`Undisturbed`, and so does the one of `event_loop`. It says four things, and each is needed:

| `Undisturbed` | Otherwise |
|---|---|
| no `"origin"` or `"connect"` faults (clients may fail, and the process may be stopped) | after a reset in the middle of a response the heir finds the end and marks complete what is not whole; after a connect that fails for a waiting client the leader takes more of the body for a status line, so that the entry starts late (TLC: `server_delivery` with either fault violates `CompletedIsWhole`) |
| no request has answers of both kinds | a client in the middle of a 404 is switched to the cached 200 of another fetch (`server.cpp:378`) |
| finitely many clients | the next line would say nothing |
| room for as many "ok" answers as there are clients to get them at once | a fallback truncates: `server_full_cache` |

The room is for what is in use *at one time*; the requests may be any number, so entries are evicted, come back and are shared
meanwhile. The invariant is `Good` and, for each request, `OnCourse`: with an entry `InEntry` (it begins the "ok" answer,
somebody fetches the rest, every client was sent its beginning, the fetcher's connection stands at its end),
without one `NoEntryOnly` (everybody waits, or asks, or gets an "error" answer: what he was sent and the chunks kept for
him, which `InPieces` joins by the offsets at which they begin, make up what his connection has passed; and
of a request answered "ok" one client at most has asked). That the last clause is kept is the reason why a
second fetch never starts beside an entry. That no write is refused is `RoomIsEnough`: every entry in use has a
client, they are of different requests, so there are no more of them than clients, each no longer than the answer. Both lift to a handler by `OneDelivers` (one request changes)
and `OthersOnCourse` (eviction of an entry that nobody uses keeps every other request on course). `DoneMeansWhole` is
an action property: `DoneIsWhole` shows that both ways to be done find the client at the end of the whole answer.

**EventLoop** (`EventLoopProofs`): `LoopKeepsLists`, `LoopKeepsCache`, `LoopKeepsDeliveries`, `LoopDoneMeansWhole`. The loop has steps that `Server` by itself
does not: an error is handled in whatever state the client is in by then (`DiscardInvariant`), a descriptor may belong to
nobody, a client may be made from any free number. The invariant of `Server` survives them, so those of its
properties hold under `LoopSpec` whatever the faults; they do not depend on `EventsAreCurrent`, which `event_stale` refutes. The deliveries stay on course, too, under the same hypothesis
`Undisturbed` (`LoopStepDelivers`), although an error may be handled for a client in any state.

**Request parser** (`RequestProofs`): `ReaderStopsWhereTheParserDoes`. The invariant relates the parser's state to the last
three tokens of the input, and says that only of a POST or a PUT it knows a body.

**URL parser** (`UrlProofs`): `SlashStaysOptional`, and `OnlyPortsArePending`: the assertion at the end of `parse_`
can only fail for an input that ends with a colon and digits, as `url_port` shows, or with these and one character that
is rejected, such as `http://h:80?` or `http://u:12@` (what follows is not read any more, and the assertion runs for
rejected inputs, too).
The invariant says which parts are empty still in which state (`Known`) and where in the input the pending digits are
(`Held`); a character has one of four effects on them, with a lemma each.

Model-checked only, and why:

- Liveness (`RequestIsAnswered`, `StopIsHeard`, the fairness in `LoopImplementsServer`): outside the prover's logic here. Its
  safety part is true only of instances without stale events.
- `LruCache`: its loop is a recursive operator. `HeadIsTheInput`, `BodyAsDeclared`, `ForwardedHeadIsRead`,
  `PartsAreTheInput`: they are about folds over a whole input (`SelectSeq`, `FoldLeft`), which need induction over data.
- `LoopTypeOK` (who owns which descriptor) and `EventsAreCurrent`: they need, handler by handler, which connections are opened,
  passed on and closed, and that the n-th lowest free descriptor exists; not proved yet.

## What is not modelled

- A failing `accept()` (it changes nothing; the loop spins) and the set-up of the listening socket.
- The bytes of `readHttpRequest`: `Server` has requests that parse, and failures; `RequestParser` starts from what was read.
- `keepAlive` of a request, which nothing reads; a version number of more digits than an `int` has; URLs that
  are not absolute, on which `path()` fails its assertion (`IsValid`).
- What the answer depends on beyond the key. `toString` writes neither the query (`url.path()`, `http_request.cpp:52`) nor the body:
  the model does the same, and `ForwardedHeadIsRead` is about what is written. Requests that differ only in their query share
  an entry, and the origin is asked for the resource without it. Without a `Host` header the host is in nothing that is forwarded, either.
- Time: a handler that blocks (`recv` of a request, `connect`, `send`) is one step.
- Content lengths: the end of a response is the end of the connection, as for the code.
- `httpresponseparser.hpp` is never included. Start-up, logging, the test server and the scripts.

## Plan

1. *(done)* Cache, its users, its promise, its proofs; its containers; the server; the URL parser.
2. *(done)* `EventLoop`, with the refinement that grounds the server's fairness; `RequestParser`.
3. *(done)* Proofs about `Server`, all invariants of `server_faults`; that the loop keeps them; the two parsers.
4. *(done)* The delivery properties under the assumptions of `server_delivery`, for the server and for the loop.
5. The ownership of descriptors in `LoopTypeOK`; then `EventsAreCurrent` without `"origin"` faults.
