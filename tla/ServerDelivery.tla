--------------------------- MODULE ServerDelivery ---------------------------
(***************************************************************************)
(* What a client is sent, when only clients fail, no request has answers   *)
(* of both kinds and there is room for what is fetched at one time: every  *)
(* client is sent one answer, from its start and in order, and whoever is  *)
(* done was sent all of it.  Without those hypotheses it is not so; the    *)
(* runs that expect a violation show it.                                   *)
(***************************************************************************)
EXTENDS ServerProofs

----------------------------------------------------------------------------
(* Parts and prefixes of a sequence of blocks.                             *)

LEMMA PartFacts ==
  ASSUME NEW s \in Seq(Block), NEW n \in 0..Len(s), NEW m \in 0..n
  PROVE  /\ SubSeq(s, m + 1, n) \in Seq(Block)
         /\ Len(SubSeq(s, m + 1, n)) = n - m
         /\ \A i \in 1..(n - m) : SubSeq(s, m + 1, n)[i] = s[m + i]
<1>1. m \in Nat /\ n \in Nat /\ Len(s) \in Nat /\ m <= n /\ n <= Len(s)
  BY LenProperties
<1>2. \A i \in (m + 1)..n : s[i] \in Block
  BY <1>1, ElementOfSeq
<1>3. /\ SubSeq(s, m + 1, n) \in Seq(Block)
      /\ Len(SubSeq(s, m + 1, n)) = IF m + 1 <= n THEN n - (m + 1) + 1 ELSE 0
      /\ \A i \in 1..(n - (m + 1) + 1) : SubSeq(s, m + 1, n)[i] = s[(m + 1) + i - 1]
  BY <1>1, <1>2, SubSeqProperties
<1>4. /\ n - (m + 1) + 1 = n - m
      /\ (IF m + 1 <= n THEN n - (m + 1) + 1 ELSE 0) = n - m
      /\ \A i \in 1..(n - m) : (m + 1) + i - 1 = m + i
  BY <1>1
<1>. QED
  BY <1>3, <1>4

(* A part of a part. *)
LEMMA PartOfPart ==
  ASSUME NEW s \in Seq(Block), NEW n \in 0..Len(s), NEW m \in 0..n,
         NEW j \in 0..(n - m), NEW i \in 0..j
  PROVE  SubSeq(SubSeq(s, m + 1, n), i + 1, j) = SubSeq(s, (m + i) + 1, m + j)
<1>. DEFINE t == SubSeq(s, m + 1, n)
            u == SubSeq(t, i + 1, j)
            v == SubSeq(s, (m + i) + 1, m + j)
<1>1. /\ t \in Seq(Block) /\ Len(t) = n - m
      /\ \A h \in 1..(n - m) : t[h] = s[m + h]
  BY PartFacts
<1>2. /\ Len(s) \in Nat /\ n \in Nat /\ m \in Nat /\ i \in Nat /\ j \in Nat
      /\ m <= n /\ n <= Len(s) /\ j <= n - m /\ i <= j
  BY LenProperties
<1>3. /\ u \in Seq(Block) /\ Len(u) = j - i
      /\ \A h \in 1..(j - i) : u[h] = t[i + h]
  <2>. HIDE DEF t
  <2>1. j \in 0..Len(t)
    BY <1>1, <1>2
  <2>. QED
    BY <1>1, <2>1, PartFacts
<1>4. /\ v \in Seq(Block) /\ Len(v) = (m + j) - (m + i)
      /\ \A h \in 1..((m + j) - (m + i)) : v[h] = s[(m + i) + h]
  <2>1. m + j \in 0..Len(s) /\ m + i \in 0..(m + j)
    BY <1>2
  <2>. QED
    BY <2>1, PartFacts
<1>. HIDE DEF t, u, v
<1>5. (m + j) - (m + i) = j - i
  BY <1>2
<1>6. \A h \in 1..(j - i) : u[h] = v[h]
  <2>. SUFFICES ASSUME NEW h \in 1..(j - i) PROVE u[h] = v[h]
    OBVIOUS
  <2>1. i + h \in 1..(n - m) /\ m + (i + h) = (m + i) + h
    BY <1>2
  <2>. QED
    BY <1>1, <1>3, <1>4, <1>5, <2>1
<1>7. u = v
  BY <1>3, <1>4, <1>5, <1>6, SeqEqual
<1>. QED
  BY <1>7 DEF u, v, t

(* What a client has, with the blocks that come next. *)
LEMMA LongerPrefix ==
  ASSUME NEW s \in Seq(Block), NEW t \in Seq(Block), IsPrefixOf(s, t),
         NEW n \in 0..(Len(t) - Len(s))
  PROVE  /\ s \o SubSeq(t, Len(s) + 1, Len(s) + n) \in Seq(Block)
         /\ Len(s \o SubSeq(t, Len(s) + 1, Len(s) + n)) = Len(s) + n
         /\ IsPrefixOf(s \o SubSeq(t, Len(s) + 1, Len(s) + n), t)
<1>. DEFINE m == Len(s)
            more == SubSeq(t, m + 1, m + n)
<1>1. /\ m \in Nat /\ n \in Nat /\ Len(t) \in Nat /\ m <= Len(t)
      /\ m + n <= Len(t) /\ s = SubSeq(t, 1, m)
  BY LenProperties DEF IsPrefixOf
<1>2. more \in Seq(Block) /\ Len(more) = n
  <2>. HIDE DEF m
  <2>1. m + n \in 0..Len(t) /\ m \in 0..(m + n) /\ (m + n) - m = n
    BY <1>1
  <2>. QED
    BY <2>1, PartFacts
<1>3. s \o more = SubSeq(t, 1, m + n)
  <2>. HIDE DEF m
  <2>1. 1 \in 1..(Len(t) + 1) /\ m \in (1 - 1)..Len(t) /\ m + n \in m..Len(t)
    BY <1>1
  <2>2. SubSeq(t, 1, m) \o SubSeq(t, m + 1, m + n) = SubSeq(t, 1, m + n)
    BY <2>1, ConcatAdjacentSubSeq
  <2>. QED
    BY <1>1, <2>2
<1>. HIDE DEF more
<1>4. s \o more \in Seq(Block) /\ Len(s \o more) = m + n
  BY <1>2, ConcatProperties
<1>. HIDE DEF m
<1>. QED
  BY <1>1, <1>3, <1>4 DEF IsPrefixOf, more, m

LEMMA PrefixOfPrefix ==
  ASSUME NEW s \in Seq(Block), NEW t \in Seq(Block), NEW u \in Seq(Block),
         IsPrefixOf(s, t), IsPrefixOf(t, u)
  PROVE  IsPrefixOf(s, u)
<1>. DEFINE m == Len(s)
            n == Len(t)
<1>1. /\ m \in Nat /\ n \in Nat /\ Len(u) \in Nat /\ m <= n /\ n <= Len(u)
      /\ s = SubSeq(t, 1, m) /\ t = SubSeq(u, 1, n)
  BY LenProperties DEF IsPrefixOf
<1>. HIDE DEF m, n
<1>2. SubSeq(SubSeq(u, 0 + 1, n), 0 + 1, m) = SubSeq(u, (0 + 0) + 1, 0 + m)
  <2>1. n \in 0..Len(u) /\ 0 \in 0..n /\ m \in 0..(n - 0) /\ 0 \in 0..m
    BY <1>1
  <2>. QED
    BY <2>1, PartOfPart
<1>3. 0 + 1 = 1 /\ (0 + 0) + 1 = 1 /\ 0 + m = m
  BY <1>1
<1>4. s = SubSeq(u, 1, m)
  BY <1>1, <1>2, <1>3
<1>. QED
  BY <1>1, <1>4 DEF IsPrefixOf, m

LEMMA WholePrefix ==
  ASSUME NEW s \in Seq(Block), NEW t \in Seq(Block), IsPrefixOf(s, t)
  PROVE  /\ IsPrefixOf(<<>>, t)
         /\ IsPrefixOf(t, t)
         /\ Len(s) >= Len(t) => s = t
<1>1. Len(s) \in Nat /\ Len(t) \in Nat /\ Len(s) <= Len(t) /\ s = SubSeq(t, 1, Len(s))
  BY LenProperties DEF IsPrefixOf
<1>2. SubSeq(t, 1, Len(t)) = t
  BY SubSeqFull
<1>3. SubSeq(t, 1, 0) = <<>> /\ Len(<<>>) = 0
  BY SubSeqEmpty
<1>. QED
  BY <1>1, <1>2, <1>3 DEF IsPrefixOf

----------------------------------------------------------------------------
(* Deliveries: who is given what.                                          *)

(* Nothing fails between the server and an origin, no origin has two       *)
(* answers to a request, and the responses that all clients together can   *)
(* be getting fit into the cache.  The theorems below say what the server  *)
(* delivers then; the README names the runs with what happens otherwise.   *)
Found == {r \in Key : "ok" \in Answers[r]}

Undisturbed ==
  /\ {"origin", "connect"} \cap Faults = {}
  /\ \A r \in Key : ~({"ok", "error"} \subseteq Answers[r])
  /\ IsFiniteSet(Client)
  /\ \A S \in SUBSET Found :
       IsFiniteSet(S) /\ Cardinality(S) <= Cardinality(Client) =>
         Cardinality(S) * Len(Body["ok"]) <= MaxSize

(* The chunks that are kept for a client are the pieces of a body from one *)
(* place to another; the i-th one begins at at[i].                         *)
InPieces(chunks, body, from, to) ==
  \E at \in [1..(Len(chunks) + 1) -> 0..Len(body)] :
    /\ at[1] = from /\ at[Len(chunks) + 1] = to
    /\ \A i \in 1..Len(chunks) :
         at[i] <= at[i + 1] /\ chunks[i] = SubSeq(body, at[i] + 1, at[i + 1])

(* A client of a request that has an entry e was sent its beginning; the   *)
(* connection of the one who fetches it stands at its end, and until the   *)
(* entry is complete no other client has one.                              *)
TakesFrom(cl, e) ==
  /\ IsPrefixOf(cl.sent, e.buffer)
  /\ IF cl.state = "waiting_response"
     THEN cl.conn.answer = "ok" /\ cl.conn.alive /\ cl.conn.pos = Len(e.buffer)
     ELSE e.completed \/ cl.conn = NoConn

(* The entry is the beginning of the "ok" answer, the whole of it if it is *)
(* marked complete, and otherwise there is somebody who fetches the rest.  *)
InEntry(w, r) ==
  LET e == w.cache.entry[r]
  IN  /\ r \in Found
      /\ IsPrefixOf(e.buffer, Body["ok"])
      /\ e.completed => e.buffer = Body["ok"]
      /\ ~e.completed => \E c \in Client : Fetches(w, c, r)
      /\ \A c \in Client : IsOf(w, c, r) => TakesFrom(w.clients[c], e)

(* A client of a request without an entry waits for another one's answer,  *)
(* or asks for his own, or has got the part of an "error" answer that his  *)
(* connection has passed, in what he was sent and the chunks kept for him. *)
Idle(cl) == cl.state = "waiting_for_response_for_another_client"

Starts(cl) ==
  \/ Idle(cl)
  \/ /\ cl.state \in {"sending_request", "waiting_response_status_code"}
     /\ cl.conn = NewConnection

GetsError(cl, r) ==
  /\ cl.state \in {"waiting_response", "got_response"}
  /\ "error" \in Answers[r]
  /\ cl.conn # NoConn /\ cl.conn.answer = "error" /\ cl.conn.alive
  /\ cl.state = "got_response" => cl.conn.pos = Len(Body["error"])
  /\ IsPrefixOf(cl.sent, Body["error"])
  /\ InPieces(cl.chunks, Body["error"], Len(cl.sent), cl.conn.pos)

OnHisOwn(cl, r) ==
  /\ ~cl.should_write_to_all
  /\ \/ Starts(cl) /\ cl.sent = <<>> /\ cl.chunks = <<>>
     \/ GetsError(cl, r)

(* Where the answer is "ok", only one client has asked for it. *)
NoEntryOnly(w, r) ==
  /\ \A c \in Client : IsOf(w, c, r) => OnHisOwn(w.clients[c], r)
  /\ r \in Found =>
       \A c, d \in Client :
         /\ IsOf(w, c, r) /\ ~Idle(w.clients[c])
         /\ IsOf(w, d, r) /\ ~Idle(w.clients[d])
         => c = d

OnCourse(w, r) == IF Contains(w.cache, r) THEN InEntry(w, r) ELSE NoEntryOnly(w, r)

Delivers(w) == w.stranded = {} /\ \A r \in Key : OnCourse(w, r)

(* Nothing kept for a client, and one chunk more or a part of one less.    *)
LEMMA NoPieces ==
  ASSUME NEW body \in Seq(Block), NEW n \in 0..Len(body)
  PROVE  /\ InPieces(<<>>, body, n, n)
         /\ \A m : InPieces(<<>>, body, m, n) => m = n
<1>1. Len(<<>>) = 0 /\ 0 + 1 = 1
  OBVIOUS
<1>2. InPieces(<<>>, body, n, n)
  <2>. DEFINE at == [i \in 1..1 |-> n]
  <2>1. at \in [1..1 -> 0..Len(body)] /\ at[1] = n
    OBVIOUS
  <2>2. \A i \in 1..0 : FALSE
    OBVIOUS
  <2>. HIDE DEF at
  <2>. QED
    BY <1>1, <2>1, <2>2 DEF InPieces
<1>3. ASSUME NEW m, InPieces(<<>>, body, m, n) PROVE m = n
  BY <1>1, <1>3 DEF InPieces
<1>. QED
  BY <1>2, <1>3

LEMMA OneElement ==
  ASSUME NEW S, NEW x \in S
  PROVE  <<x>> \in Seq(S) /\ Len(<<x>>) = 1 /\ <<x>>[1] = x
OBVIOUS

LEMMA OnePieceMore ==
  ASSUME NEW chunks \in Seq(Seq(Block)), NEW body \in Seq(Block), NEW from,
         NEW to \in Nat, NEW len \in Nat, to + len <= Len(body),
         InPieces(chunks, body, from, to)
  PROVE  InPieces(Append(chunks, SubSeq(body, to + 1, to + len)), body, from, to + len)
<1>. DEFINE L == Len(chunks)
            piece == SubSeq(body, to + 1, to + len)
            more == Append(chunks, piece)
<1>1. L \in Nat /\ Len(body) \in Nat
  BY LenProperties
<1>2. PICK at \in [1..(L + 1) -> 0..Len(body)] :
        /\ at[1] = from /\ at[L + 1] = to
        /\ \A i \in 1..L : at[i] <= at[i + 1] /\ chunks[i] = SubSeq(body, at[i] + 1, at[i + 1])
  BY DEF InPieces
<1>. DEFINE new == [i \in 1..(L + 1 + 1) |-> IF i = L + 1 + 1 THEN to + len ELSE at[i]]
<1>3. piece \in Seq(Block)
  <2>1. to + len \in 0..Len(body) /\ to \in 0..(to + len)
    BY <1>1
  <2>. QED
    BY <2>1, PartFacts
<1>4. /\ Len(more) = L + 1 /\ more[L + 1] = piece
      /\ \A i \in 1..L : more[i] = chunks[i]
  <2>. HIDE DEF piece
  <2>. QED
    BY <1>1, <1>3
<1>. HIDE DEF L, piece, more
<1>5. /\ new \in [1..(L + 1 + 1) -> 0..Len(body)]
      /\ new[1] = from /\ new[L + 1 + 1] = to + len /\ new[L + 1] = to
      /\ \A i \in 1..L : new[i] = at[i] /\ new[i + 1] = at[i + 1]
  BY <1>1, <1>2
<1>. HIDE DEF new
<1>6. \A i \in 1..(L + 1) : /\ new[i] <= new[i + 1]
                            /\ more[i] = SubSeq(body, new[i] + 1, new[i + 1])
  <2>. SUFFICES ASSUME NEW i \in 1..(L + 1)
                PROVE  /\ new[i] <= new[i + 1]
                       /\ more[i] = SubSeq(body, new[i] + 1, new[i + 1])
    OBVIOUS
  <2>1. CASE i = L + 1
    <3>1. new[i] = to /\ new[i + 1] = to + len /\ to <= to + len
      BY <1>5, <2>1
    <3>2. more[i] = SubSeq(body, to + 1, to + len)
      BY <1>4, <2>1 DEF piece
    <3>. QED
      BY <3>1, <3>2
  <2>2. CASE i \in 1..L
    BY <1>2, <1>4, <1>5, <2>2
  <2>. QED
    BY <1>1, <2>1, <2>2
<1>7. InPieces(more, body, from, to + len)
  BY <1>4, <1>5, <1>6 DEF InPieces
<1>. QED
  BY <1>7 DEF more, piece

LEMMA FirstPiece ==
  ASSUME NEW chunks \in Seq(Seq(Block)), chunks # <<>>, NEW body \in Seq(Block),
         NEW from, NEW to, InPieces(chunks, body, from, to),
         NEW n \in 1..Len(Head(chunks))
  PROVE  /\ from \in Nat /\ from + n <= Len(body)
         /\ SubSeq(Head(chunks), 1, n) = SubSeq(body, from + 1, from + n)
         /\ InPieces(Rest(Head(chunks), n) \o Tail(chunks), body, from + n, to)
<1>. DEFINE L == Len(chunks)
            b == Len(body)
            head == Head(chunks)
            tail == Tail(chunks)
<1>1. /\ L \in Nat /\ b \in Nat /\ L >= 1 /\ head = chunks[1] /\ head \in Seq(Block)
      /\ tail \in Seq(Seq(Block)) /\ Len(tail) = L - 1
      /\ \A i \in 1..(L - 1) : tail[i] = chunks[i + 1]
  BY LenProperties, HeadTailProperties, EmptySeq
<1>2. PICK at \in [1..(L + 1) -> 0..b] :
        /\ at[1] = from /\ at[L + 1] = to
        /\ \A i \in 1..L : at[i] <= at[i + 1] /\ chunks[i] = SubSeq(body, at[i] + 1, at[i + 1])
  BY DEF InPieces
<1>. HIDE DEF L, head, tail
<1>. DEFINE m == at[2]
<1>3. /\ from \in 0..b /\ m \in 0..b /\ from <= m /\ head = SubSeq(body, from + 1, m)
  <2>1. 1 \in 1..L /\ 1 \in 1..(L + 1) /\ 2 \in 1..(L + 1) /\ 1 + 1 = 2
    BY <1>1
  <2>. QED
    BY <1>1, <1>2, <2>1
<1>4. Len(head) = m - from
  <2>. HIDE DEF m
  <2>. QED
    BY <1>3, PartFacts
<1>5. n \in 1..(m - from)
  BY <1>4 DEF head
<1>6. from \in Nat /\ from + n <= b /\ m \in Nat /\ from + n <= m
  <2>. HIDE DEF m
  <2>. QED
    BY <1>1, <1>3, <1>5
<1>7. SubSeq(head, 1, n) = SubSeq(body, from + 1, from + n)
  <2>. HIDE DEF m
  <2>1. m \in 0..Len(body) /\ from \in 0..m /\ n \in 0..(m - from) /\ 0 \in 0..n
    BY <1>3, <1>5
  <2>2. SubSeq(head, 0 + 1, n) = SubSeq(body, (from + 0) + 1, from + n)
    BY <1>3, <2>1, PartOfPart
  <2>3. 0 + 1 = 1 /\ from + 0 = from
    BY <1>6
  <2>. QED
    BY <2>2, <2>3
<1>8. InPieces(Rest(head, n) \o tail, body, from + n, to)
  <2>1. CASE n < Len(head)
    <3>. DEFINE front == SubSeq(head, n + 1, Len(head))
                left == <<front>> \o tail
                new == [i \in 1..(L + 1) |-> IF i = 1 THEN from + n ELSE at[i]]
    <3>1. Rest(head, n) = <<front>>
      BY <2>1 DEF Rest
    <3>2. front = SubSeq(body, (from + n) + 1, m) /\ front \in Seq(Block)
      <4>. HIDE DEF m
      <4>1. /\ m \in 0..Len(body) /\ from \in 0..m /\ m - from \in 0..(m - from)
            /\ n \in 0..(m - from) /\ from + (m - from) = m
        BY <1>3, <1>5
      <4>2. front = SubSeq(body, (from + n) + 1, from + (m - from))
        BY <1>3, <1>4, <4>1, PartOfPart
      <4>3. front \in Seq(Block)
        BY <1>1, <1>4, <1>5, <4>1, PartFacts
      <4>. QED
        BY <4>1, <4>2, <4>3
    <3>3. /\ Len(left) = L /\ left[1] = front
          /\ \A i \in 2..L : left[i] = chunks[i]
      <4>. HIDE DEF front
      <4>1. <<front>> \in Seq(Seq(Block)) /\ Len(<<front>>) = 1 /\ <<front>>[1] = front
        BY <3>2, OneElement
      <4>2. /\ Len(left) = 1 + (L - 1)
            /\ \A i \in 1..(1 + (L - 1)) : left[i] = IF i <= 1 THEN <<front>>[i] ELSE tail[i - 1]
        BY <1>1, <4>1, ConcatProperties
      <4>. HIDE DEF left
      <4>3. ASSUME NEW i \in 2..L PROVE left[i] = chunks[i]
        <5>1. i - 1 \in 1..(L - 1) /\ (i - 1) + 1 = i /\ ~(i <= 1) /\ i \in 1..(1 + (L - 1))
          BY <1>1
        <5>. QED
          BY <1>1, <4>2, <5>1
      <4>4. 1 + (L - 1) = L /\ 1 \in 1..(1 + (L - 1))
        BY <1>1
      <4>. QED
        BY <4>1, <4>2, <4>3, <4>4
    <3>4. /\ new \in [1..(L + 1) -> 0..b] /\ new[1] = from + n
          /\ \A i \in 2..(L + 1) : new[i] = at[i]
      <4>1. from + n \in 0..b /\ 1 \in 1..(L + 1)
        BY <1>1, <1>6
      <4>2. \A i \in 2..(L + 1) : i \in 1..(L + 1) /\ i # 1
        BY <1>1
      <4>. QED
        BY <1>2, <4>1, <4>2
    <3>. HIDE DEF front, left, new
    <3>5. new[2] = m /\ new[L + 1] = to
      <4>1. 2 \in 2..(L + 1) /\ L + 1 \in 2..(L + 1)
        BY <1>1
      <4>. QED
        BY <1>2, <3>4, <4>1
    <3>6. ASSUME NEW i \in 1..L
          PROVE  new[i] <= new[i + 1] /\ left[i] = SubSeq(body, new[i] + 1, new[i + 1])
      <4>1. CASE i = 1
        <5>1. new[i] = from + n /\ new[i + 1] = m /\ left[i] = front
          BY <3>3, <3>4, <3>5, <4>1
        <5>. QED
          BY <1>6, <3>2, <5>1
      <4>2. CASE i # 1
        <5>1. i \in 2..L /\ i \in 2..(L + 1) /\ i + 1 \in 2..(L + 1)
          BY <1>1, <4>2
        <5>. QED
          BY <1>2, <3>3, <3>4, <5>1
      <4>. QED
        BY <4>1, <4>2
    <3>7. InPieces(left, body, from + n, to)
      BY <3>3, <3>4, <3>5, <3>6 DEF InPieces
    <3>. QED
      BY <3>1, <3>7 DEF left
  <2>2. CASE ~(n < Len(head))
    <3>. DEFINE new == [i \in 1..L |-> at[i + 1]]
    <3>1. Rest(head, n) \o tail = tail
      BY <1>1, <2>2, ConcatEmptySeq DEF Rest
    <3>2. from + n = m
      <4>. HIDE DEF m
      <4>. QED
        BY <1>3, <1>4, <1>5, <2>2
    <3>3. (L - 1) + 1 = L /\ 1 \in 1..L /\ L \in 1..L
      BY <1>1
    <3>4. /\ new \in [1..L -> 0..b] /\ new[1] = from + n /\ new[L] = to
          /\ \A i \in 1..(L - 1) : new[i] = at[i + 1] /\ new[i + 1] = at[(i + 1) + 1]
      <4>1. \A i \in 1..L : i + 1 \in 1..(L + 1)
        BY <1>1
      <4>2. \A i \in 1..(L - 1) : i \in 1..L /\ i + 1 \in 1..L
        BY <1>1
      <4>3. 1 + 1 = 2
        OBVIOUS
      <4>. QED
        BY <1>2, <3>2, <3>3, <4>1, <4>2, <4>3
    <3>. HIDE DEF new
    <3>5. ASSUME NEW i \in 1..(L - 1)
          PROVE  new[i] <= new[i + 1] /\ tail[i] = SubSeq(body, new[i] + 1, new[i + 1])
      <4>1. i + 1 \in 1..L
        BY <1>1
      <4>. QED
        BY <1>1, <1>2, <3>4, <4>1
    <3>6. InPieces(tail, body, from + n, to)
      BY <1>1, <3>3, <3>4, <3>5 DEF InPieces
    <3>. QED
      BY <3>1, <3>6
  <2>. QED
    BY <2>1, <2>2
<1>. QED
  BY <1>6, <1>7, <1>8 DEF head, tail

----------------------------------------------------------------------------
(* There is room.                                                          *)

(* A write is not refused when the entries in use may all grow to a length *)
(* L and still fit.                                                        *)
LEMMA RoomIsEnough ==
  ASSUME NEW k, Sound(k, 0), NEW r \in Present(k), k.entry[r].in_use > 0,
         NEW chunk \in Seq(Block), NEW L \in Nat,
         NEW S, IsFiniteSet(S), r \in S, Cardinality(S) * L <= MaxSize,
         \A q \in Present(k) : k.entry[q].in_use = 0 \/ (q \in S /\ Size(k, q) <= L),
         Size(k, r) + Len(chunk) <= L
  PROVE  WriteOutcome(k, r, chunk) = "Written"
<1>. DEFINE n == Len(chunk)
            T == Present(k) \ Unused(k)
            d == [entry |-> [q \in Key |->
                    [buffer |-> IF q = r THEN k.entry[q].buffer \o chunk
                                ELSE k.entry[q].buffer]]]
<1>1. /\ r \in Key /\ n \in Nat /\ k.entry[r].buffer \in Seq(Block)
      /\ \A q \in Present(k) : Size(k, q) \in Nat
      /\ IsFiniteSet(Slots(k, Present(k)))
  <2>1. \A q \in Present(k) : q \in Key /\ k.entry[q] \in Entry
    BY DEF Sound, WellFormed, CacheValue, Present, Contains
  <2>2. \A q \in Present(k) : k.entry[q].buffer \in Seq(Block)
    BY <2>1 DEF Entry
  <2>. QED
    BY <2>1, <2>2, LenProperties DEF Sound, Size
<1>2. r \in T /\ T \subseteq S /\ T \subseteq Present(k) /\ T \subseteq Key
  BY DEF Unused, Present
<1>3. IsFiniteSet(Slots(k, T)) /\ Space(k, T) \in Nat
  BY <1>1, <1>2, SlotsOfSubset
<1>4. /\ Size(d, r) = Size(k, r) + n
      /\ \A q \in T \ {r} : Size(d, q) = Size(k, q)
  <2>1. Len(k.entry[r].buffer \o chunk) = Len(k.entry[r].buffer) + n
    BY <1>1, ConcatProperties
  <2>2. /\ d.entry[r].buffer = k.entry[r].buffer \o chunk
        /\ \A q \in T \ {r} : d.entry[q].buffer = k.entry[q].buffer
    BY <1>1, <1>2
  <2>. HIDE DEF d
  <2>. QED
    BY <2>1, <2>2 DEF Size
<1>. HIDE DEF d, T
<1>5. IsFiniteSet(Slots(d, T)) /\ Space(d, T) = Space(k, T) + n
  <2>. HIDE DEF n
  <2>. QED
    BY <1>1, <1>2, <1>3, <1>4, SpaceGrows
<1>6. Slots(d, T) \subseteq S \X (1..L)
  <2>. SUFFICES ASSUME NEW q \in T PROVE {q} \X (1..Size(d, q)) \subseteq S \X (1..L)
    BY DEF Slots
  <2>1. q \in S /\ Size(d, q) \in Nat /\ Size(d, q) <= L
    <3>1. CASE q = r
      BY <1>1, <1>2, <1>4, <3>1
    <3>2. CASE q # r
      BY <1>1, <1>2, <1>4, <3>2 DEF T, Unused
    <3>. QED
      BY <3>1, <3>2
  <2>. QED
    BY <2>1
<1>7. Space(d, T) <= Cardinality(S) * L
  <2>1. IsFiniteSet(1..L) /\ Cardinality(1..L) = L
    <3>1. Cardinality(1..L) = IF 1 > L THEN 0 ELSE L - 1 + 1
      BY FS_Interval
    <3>. QED
      BY <3>1, FS_Interval
  <2>2. /\ IsFiniteSet(S \X (1..L))
        /\ Cardinality(S \X (1..L)) = Cardinality(S) * Cardinality(1..L)
    BY <2>1, FS_Product
  <2>3. Cardinality(Slots(d, T)) <= Cardinality(S \X (1..L))
    BY <1>6, <2>2, FS_Subset
  <2>. QED
    BY <2>1, <2>2, <2>3 DEF Space
<1>8. CASE WriteOutcome(k, r, chunk) = "AllInUse"
  <2>1. Space(k, T) + 0 + n > MaxSize
    BY <1>8, WriteSound DEF T
  <2>. QED
    <3>. DEFINE a == Space(k, T)
                b == Cardinality(S) * L
    <3>1. a \in Nat /\ n \in Nat /\ MaxSize \in Nat /\ a + 0 + n > MaxSize
          /\ a + n <= b /\ b <= MaxSize
      BY <1>1, <1>3, <1>5, <1>7, <2>1, CacheAssumption
    <3>2. b \in Nat
      <4>1. Cardinality(S) \in Nat
        BY FS_CardinalityType
      <4>. QED
        BY <4>1
    <3>. HIDE DEF a, b, n
    <3>. QED
      BY <3>1, <3>2
<1>. QED
  BY <1>8, WriteSound

(* No more responses are being got than there are clients. *)
LEMMA RequestsOfClients ==
  ASSUME NEW w, Good(w, {}), IsFiniteSet(Client)
  PROVE  LET S == {q \in Found : \E c \in Client : IsOf(w, c, q)}
         IN  IsFiniteSet(S) /\ Cardinality(S) <= Cardinality(Client)
<1>. DEFINE S == {q \in Found : \E c \in Client : IsOf(w, c, q)}
            D == {c \in Client : w.clients[c] # NoClient /\ w.clients[c].request \in Found}
            f == [c \in D |-> w.clients[c].request]
<1>1. IsFiniteSet(D) /\ Cardinality(D) <= Cardinality(Client)
  BY FS_Subset
<1>2. f \in Surjection(D, S)
  BY DEF Surjection, IsOf
<1>3. IsFiniteSet(S) /\ Cardinality(S) <= Cardinality(D)
  <2>. HIDE DEF f, D, S
  <2>. QED
    BY <1>1, <1>2, FS_Surjection
<1>4. Cardinality(S) \in Nat /\ Cardinality(D) \in Nat /\ Cardinality(Client) \in Nat
  BY <1>1, <1>3, FS_CardinalityType
<1>. QED
  BY <1>1, <1>3, <1>4

LEMMA BodyFacts ==
  /\ DOMAIN Body = {"ok", "error"}
  /\ \A a \in {"ok", "error"} :
       /\ Body[a] \in Seq(Block) /\ Body[a] # <<>> /\ Len(Body[a]) \in Nat
       /\ Len(Body[a]) > 0
<1>1. /\ DOMAIN Body = {"ok", "error"}
      /\ \A a \in {"ok", "error"} : Body[a] \in Seq(Block) /\ Body[a] # <<>>
  BY ServerAssumption
<1>. QED
  BY <1>1, EmptySeq, LenProperties

(* An entry as the invariant has it. *)
LEMMA EntryIsTyped ==
  ASSUME NEW w, NEW T, Good(w, T), NEW r \in Key, Contains(w.cache, r)
  PROVE  LET e == w.cache.entry[r]
         IN  /\ r \in Present(w.cache) /\ e \in Entry /\ e.buffer \in Seq(Block)
             /\ Len(e.buffer) \in Nat
             /\ e.in_use = Len(w.map[r]) /\ e.in_use \in Nat
             /\ e.in_use = 0 => \A c \in Client : ~IsOf(w, c, r)
             /\ \A c \in Client : IsOf(w, c, r) => e.in_use > 0
<1>1. w.cache \in CacheValue /\ EntryOk(w, r) /\ w.map[r] \in Seq(Client) /\ ListOk(w, r)
  BY WorldFacts DEF Good, RequestOk
<1>2. w.cache.entry[r] \in Entry /\ r \in Present(w.cache)
  BY <1>1 DEF CacheValue, Contains, Present
<1>3. \A c \in Client : IsOf(w, c, r) => Len(w.map[r]) > 0
  BY <1>1, LenProperties DEF ListOk, Elements
<1>4. Len(w.map[r]) \in Nat /\ w.cache.entry[r].in_use = Len(w.map[r])
  BY <1>1, LenProperties DEF EntryOk
<1>. QED
  BY <1>2, <1>3, <1>4, LenProperties DEF Entry

LEMMA ThereIsRoom ==
  ASSUME Undisturbed, NEW w, Good(w, {}), Delivers(w), NEW c \in Client,
         NEW r \in Found, IsOf(w, c, r),
         NEW k, Sound(k, 0), Contains(k, r), k.entry[r].in_use > 0,
         \A q \in Key \ {r} : k.entry[q] = w.cache.entry[q],
         NEW chunk \in Seq(Block),
         Len(k.entry[r].buffer) + Len(chunk) <= Len(Body["ok"])
  PROVE  WriteOutcome(k, r, chunk) = "Written"
<1>. DEFINE S == {q \in Found : \E d \in Client : IsOf(w, d, q)}
            L == Len(Body["ok"])
<1>1. /\ IsFiniteSet(S) /\ r \in S /\ L \in Nat /\ r \in Key
      /\ Cardinality(S) * L <= MaxSize
  <2>1. IsFiniteSet(S) /\ Cardinality(S) <= Cardinality(Client)
    BY RequestsOfClients DEF Undisturbed
  <2>. QED
    BY <2>1, BodyFacts DEF Undisturbed, Found
<1>2. ASSUME NEW q \in Present(k)
      PROVE  k.entry[q].in_use = 0 \/ (q \in S /\ Size(k, q) <= L)
  <2>1. CASE q = r
    <3>1. k.entry[r] \in Entry
      BY <1>1 DEF Sound, WellFormed, CacheValue, Contains
    <3>2. Len(k.entry[r].buffer) \in Nat /\ Len(chunk) \in Nat
      BY <3>1, LenProperties DEF Entry
    <3>. QED
      BY <1>1, <2>1, <3>2 DEF Size
  <2>2. CASE q # r
    <3>1. q \in Key \ {r} /\ Contains(w.cache, q) /\ k.entry[q] = w.cache.entry[q]
      BY <2>2 DEF Present, Contains
    <3>2. InEntry(w, q)
      BY <3>1 DEF Delivers, OnCourse
    <3>3. CASE \E d \in Client : IsOf(w, d, q)
      <4>1. q \in Found /\ Len(w.cache.entry[q].buffer) <= L
        BY <3>2 DEF InEntry, IsPrefixOf
      <4>. QED
        BY <3>1, <3>3, <4>1 DEF Size
    <3>4. CASE ~\E d \in Client : IsOf(w, d, q)
      <4>1. /\ w.map[q] \in Seq(Client) /\ w.cache.entry[q].in_use = Len(w.map[q])
            /\ \A d \in Client : d \in Elements(w.map[q]) <=> IsOf(w, d, q)
        BY <3>1, EntryIsTyped, WorldFacts
      <4>2. w.map[q] = <<>>
        <5>1. SUFFICES ASSUME w.map[q] # <<>> PROVE FALSE
          OBVIOUS
        <5>2. Len(w.map[q]) \in Nat \ {0}
          BY <4>1, <5>1, EmptySeq
        <5>3. w.map[q][1] \in Client /\ 1 \in DOMAIN w.map[q]
          BY <4>1, <5>2, ElementOfSeq, LenProperties
        <5>. QED
          BY <3>4, <4>1, <5>3 DEF Elements
      <4>3. w.cache.entry[q].in_use = 0
        BY <4>1, <4>2, EmptySeq
      <4>. QED
        BY <3>1, <4>3
    <3>. QED
      BY <3>3, <3>4
  <2>. QED
    BY <2>1, <2>2
<1>. HIDE DEF S, L
<1>3. r \in Present(k) /\ Size(k, r) + Len(chunk) <= L
  BY <1>1 DEF Present, Size, L
<1>. QED
  BY <1>1, <1>2, <1>3, RoomIsEnough

----------------------------------------------------------------------------
(* A step that is about one request.                                       *)

LEMMA OthersOnCourse ==
  ASSUME NEW w, NEW v, Good(w, {}), Delivers(w), NEW R \in SUBSET Key,
         v.stranded = {},
         \A q \in Key \ R : Keeps(w, v, q),
         \A c \in Client : v.clients[c] = w.clients[c]
                             \/ Concerns(w, v, c, R \cup {NoRequest}),
         \A r \in R : OnCourse(v, r)
  PROVE  Delivers(v)
<1>. SUFFICES ASSUME NEW q \in Key \ R PROVE OnCourse(v, q)
  BY DEF Delivers
<1>1. OnCourse(w, q) /\ Keeps(w, v, q)
  BY DEF Delivers
<1>2. \A c \in Client : /\ IsOf(v, c, q) <=> IsOf(w, c, q)
                        /\ IsOf(w, c, q) => v.clients[c] = w.clients[c]
  <2>. SUFFICES ASSUME NEW c \in Client
                PROVE  /\ IsOf(v, c, q) <=> IsOf(w, c, q)
                       /\ IsOf(w, c, q) => v.clients[c] = w.clients[c]
    OBVIOUS
  <2>1. CASE v.clients[c] = w.clients[c]
    BY <2>1 DEF IsOf
  <2>2. CASE v.clients[c] # w.clients[c]
    <3>1. Concerns(w, v, c, R \cup {NoRequest}) /\ q \notin R \cup {NoRequest}
      BY <2>2, ServerAssumption
    <3>. QED
      BY <3>1 DEF Concerns, IsOf
  <2>. QED
    BY <2>1, <2>2
<1>3. CASE v.cache.entry[q] = w.cache.entry[q]
  <2>1. CASE Contains(w.cache, q)
    <3>1. InEntry(w, q) /\ Contains(v.cache, q)
      BY <1>1, <1>3, <2>1 DEF OnCourse, Contains
    <3>2. InEntry(v, q)
      BY <1>2, <1>3, <3>1 DEF InEntry, Fetches, IsOf
    <3>. QED
      BY <3>1, <3>2 DEF OnCourse
  <2>2. CASE ~Contains(w.cache, q)
    <3>1. NoEntryOnly(w, q) /\ ~Contains(v.cache, q)
      BY <1>1, <1>3, <2>2 DEF OnCourse, Contains
    <3>2. NoEntryOnly(v, q)
      BY <1>2, <3>1 DEF NoEntryOnly
    <3>. QED
      BY <3>1, <3>2 DEF OnCourse
  <2>. QED
    BY <2>1, <2>2
<1>4. CASE v.cache.entry[q] # w.cache.entry[q]
  <2>1. v.cache.entry[q] = NoEntry /\ w.cache.entry[q].in_use = 0
    BY <1>1, <1>4 DEF Keeps
  <2>2. Contains(w.cache, q) /\ ~Contains(v.cache, q)
    BY <1>4, <2>1 DEF Contains
  <2>3. \A c \in Client : ~IsOf(v, c, q)
    BY <1>2, <2>1, <2>2, EntryIsTyped
  <2>. QED
    BY <2>2, <2>3 DEF OnCourse, NoEntryOnly
<1>. QED
  BY <1>3, <1>4

----------------------------------------------------------------------------
(* Every handler keeps the deliveries on course.  v is the world of the    *)
(* next state, which is good.                                              *)

(* A client who has not made a request yet comes or goes. *)
LEMMA UnlistedDelivers ==
  ASSUME NEW w, Good(w, {}), Delivers(w), NEW c \in Client,
         NEW k \in {NewClient, NoClient},
         w.clients[c] # NoClient => w.clients[c].state = "waiting_for_request",
         NEW v, v = [w EXCEPT !.clients[c] = k]
  PROVE  Delivers(v)
<1>1. /\ w.clients \in [Client -> ClientRecord \cup {NoClient}]
      /\ w.clients[c] # NoClient => w.clients[c].request = NoRequest
  BY WorldFacts DEF ClientOk
<1>2. k # NoClient => k.request = NoRequest /\ ClientOk(k)
  <2>1. NewClient.request = NoRequest
    BY DEF NewClient
  <2>. QED
    BY <2>1, NewClientFacts
<1>3. v = [clients |-> [w.clients EXCEPT ![c] = k], map |-> w.map,
           cache |-> w.cache, stranded |-> w.stranded]
  BY ChangedOne
<1>4. /\ v.clients[c] = k /\ \A d \in Client \ {c} : v.clients[d] = w.clients[d]
      /\ v.map = w.map /\ v.cache = w.cache /\ v.stranded = w.stranded
  BY <1>1, <1>3
<1>. DEFINE R == {}
<1>5. \A d \in Client : v.clients[d] = w.clients[d] \/ Concerns(w, v, d, R \cup {NoRequest})
  BY <1>1, <1>2, <1>4 DEF Concerns
<1>6. /\ R \in SUBSET Key /\ \A q \in Key \ R : Keeps(w, v, q)
      /\ \A q \in R : OnCourse(v, q)
      /\ v.stranded = {}
  BY <1>4 DEF Keeps, Delivers
<1>. HIDE DEF R
<1>. QED
  BY <1>5, <1>6, OthersOnCourse

(* One client of the request r changes, and nobody else. *)
LEMMA OneDelivers ==
  ASSUME NEW w, Good(w, {}), Delivers(w), NEW c \in Client, NEW r \in Key,
         NEW v, Good(v, {}), v.stranded = {},
         \A q \in Key \ {r} : Keeps(w, v, q),
         \A d \in Client \ {c} : v.clients[d] = w.clients[d],
         w.clients[c] # NoClient => w.clients[c].request \in {r, NoRequest},
         v.clients[c] # NoClient => v.clients[c].request \in {r, NoRequest},
         OnCourse(v, r)
  PROVE  Delivers(v)
<1>. DEFINE R == {r}
<1>1. v.clients[c] # NoClient => ClientOk(v.clients[c])
  BY WorldFacts
<1>2. \A d \in Client : v.clients[d] = w.clients[d] \/ Concerns(w, v, d, R \cup {NoRequest})
  BY <1>1 DEF Concerns
<1>3. /\ R \in SUBSET Key /\ \A q \in Key \ R : Keeps(w, v, q)
      /\ \A q \in R : OnCourse(v, q)
  OBVIOUS
<1>. HIDE DEF R
<1>. QED
  BY <1>2, <1>3, OthersOnCourse

(* Nobody else has the request of a client who is alone in its list. *)
LEMMA NobodyListed ==
  ASSUME NEW w, NEW T, Good(w, T), NEW r \in Key, w.map[r] = <<>>
  PROVE  \A c \in Client : ~IsOf(w, c, r)
<1>1. \A c \in Client : c \in Elements(w.map[r]) <=> IsOf(w, c, r)
  BY WorldFacts
<1>2. Elements(<<>>) = {}
  BY DEF Elements
<1>. QED
  BY <1>1, <1>2

LEMMA JoinDelivers ==
  ASSUME Good(Now, {}), Delivers(Now), NEW v, Good(v, {}), NEW c \in Client,
         NEW r \in Key, clients[c] = NewClient, NEW k, NEW d, Joins(c, r, k, d),
         v = [clients |-> [clients EXCEPT ![c] = k],
              map |-> [request_clients_map EXCEPT ![r] = Append(@, c)],
              cache |-> d, stranded |-> stranded]
  PROVE  Delivers(v)
<1>1. /\ Now.clients = clients /\ Now.map = request_clients_map /\ Now.cache = cache
      /\ Now.stranded = stranded /\ stranded = {}
      /\ clients \in [Client -> ClientRecord \cup {NoClient}]
      /\ request_clients_map \in [Key -> Seq(Client)]
      /\ OnCourse(Now, r)
  BY WorldFacts DEF Now, Delivers
<1>2. /\ v.clients[c] = k /\ \A h \in Client \ {c} : v.clients[h] = clients[h]
      /\ v.cache = d /\ v.stranded = {}
      /\ \A q \in Key \ {r} : v.map[q] = request_clients_map[q]
  BY <1>1
<1>3. /\ k \in ClientRecord /\ k.request = r /\ k # NoClient /\ k.sent = <<>>
      /\ k.chunks = <<>> /\ ~k.should_write_to_all
      /\ \A q \in Key \ {r} : d.entry[q] = cache.entry[q]
      /\ clients[c].request = NoRequest /\ r # NoRequest /\ clients[c] # NoClient
  BY MarkerAssumption, NewClientFacts, ServerAssumption DEF Joins, NewClient
<1>4. /\ \A h \in Client : IsOf(v, h, r) <=> h = c \/ IsOf(Now, h, r)
      /\ \A h \in Client : IsOf(Now, h, r) => h # c /\ v.clients[h] = clients[h]
  BY <1>1, <1>2, <1>3 DEF IsOf
<1>5. OnCourse(v, r)
  <2>1. CASE /\ Contains(cache, r) /\ Contains(d, r)
             /\ d.entry[r].buffer = cache.entry[r].buffer
             /\ d.entry[r].completed = cache.entry[r].completed
             /\ k.state = "got_response" /\ k.conn = NoConn
    <3>1. InEntry(Now, r)
      BY <1>1, <2>1 DEF OnCourse
    <3>2. TakesFrom(k, d.entry[r])
      <4>1. IsPrefixOf(<<>>, d.entry[r].buffer)
        <5>1. cache.entry[r].buffer \in Seq(Block) /\ Body["ok"] \in Seq(Block)
          BY <1>1, <2>1, EntryIsTyped, BodyFacts
        <5>2. IsPrefixOf(<<>>, cache.entry[r].buffer)
          <6>1. <<>> \in Seq(Block) /\ Len(<<>>) = 0 /\ Len(cache.entry[r].buffer) \in Nat
            BY <5>1, LenProperties
          <6>2. SubSeq(cache.entry[r].buffer, 1, 0) = <<>>
            BY SubSeqEmpty
          <6>. QED
            BY <6>1, <6>2 DEF IsPrefixOf
        <5>. QED
          BY <2>1, <5>2
      <4>. QED
        BY <1>3, <2>1, <4>1 DEF TakesFrom
    <3>3. \A h \in Client : IsOf(Now, h, r) => TakesFrom(v.clients[h], d.entry[r])
      BY <1>1, <1>4, <2>1, <3>1 DEF InEntry, TakesFrom
    <3>4. \A h \in Client : IsOf(v, h, r) => TakesFrom(v.clients[h], d.entry[r])
      BY <1>2, <1>4, <3>2, <3>3
    <3>5. ~d.entry[r].completed => \E h \in Client : Fetches(v, h, r)
      BY <1>1, <1>4, <2>1, <3>1 DEF InEntry, Fetches
    <3>6. InEntry(v, r)
      BY <1>1, <1>2, <2>1, <3>1, <3>4, <3>5 DEF InEntry
    <3>. QED
      BY <1>2, <2>1, <3>6 DEF OnCourse
  <2>2. CASE /\ ~Contains(cache, r) /\ d = cache
             /\ \/ Idle(k)
                \/ /\ k.state = "sending_request" /\ k.conn = NewConnection
                   /\ request_clients_map[r] = <<>>
    <3>1. NoEntryOnly(Now, r)
      BY <1>1, <2>2 DEF OnCourse
    <3>2. OnHisOwn(k, r)
      BY <1>3, <2>2 DEF OnHisOwn, Starts
    <3>3. \A h \in Client : IsOf(v, h, r) => OnHisOwn(v.clients[h], r)
      BY <1>1, <1>2, <1>4, <3>1, <3>2 DEF NoEntryOnly
    <3>4. Idle(k) \/ \A h \in Client : ~IsOf(Now, h, r)
      BY <1>1, <2>2, NobodyListed
    <3>5. ASSUME r \in Found, NEW a \in Client, NEW b \in Client,
                 IsOf(v, a, r), ~Idle(v.clients[a]), IsOf(v, b, r), ~Idle(v.clients[b])
          PROVE  a = b
      <4>1. CASE Idle(k)
        <5>1. a # c /\ b # c
          BY <1>2, <3>5, <4>1
        <5>. QED
          BY <1>1, <1>4, <3>1, <3>5, <5>1 DEF NoEntryOnly
      <4>2. CASE \A h \in Client : ~IsOf(Now, h, r)
        BY <1>4, <3>5, <4>2
      <4>. QED
        BY <3>4, <4>1, <4>2
    <3>6. NoEntryOnly(v, r)
      BY <3>3, <3>5 DEF NoEntryOnly
    <3>. QED
      BY <1>2, <2>2, <3>6 DEF OnCourse
  <2>. QED
    BY <2>1, <2>2 DEF Joins, Idle
<1>6. \A q \in Key \ {r} : Keeps(Now, v, q)
  BY <1>1, <1>2, <1>3 DEF Keeps
<1>7. /\ v.stranded = {}
      /\ \A h \in Client \ {c} : v.clients[h] = Now.clients[h]
      /\ Now.clients[c] # NoClient => Now.clients[c].request \in {r, NoRequest}
      /\ v.clients[c] # NoClient => v.clients[c].request \in {r, NoRequest}
  BY <1>1, <1>2, <1>3
<1>8. Good(Now, {}) /\ Delivers(Now) /\ Good(v, {}) /\ c \in Client /\ r \in Key
  OBVIOUS
<1>. QED
  BY ONLY <1>5, <1>6, <1>7, <1>8, OneDelivers

(* A client of a request without an entry goes on by himself. *)
LEMMA OwnDelivers ==
  ASSUME NEW w, Good(w, {}), Delivers(w), NEW c \in Client, NEW r \in Key,
         IsOf(w, c, r), ~Contains(w.cache, r),
         NEW v, Good(v, {}), v.stranded = {}, v.map = w.map,
         v.cache.entry = w.cache.entry,
         \A d \in Client \ {c} : v.clients[d] = w.clients[d],
         IsOf(v, c, r), OnHisOwn(v.clients[c], r),
         Idle(w.clients[c]) => Idle(v.clients[c])
  PROVE  Delivers(v)
<1>1. NoEntryOnly(w, r) /\ w.stranded = {}
  BY DEF Delivers, OnCourse
<1>2. /\ \A d \in Client : IsOf(v, d, r) <=> IsOf(w, d, r)
      /\ \A d \in Client : Idle(w.clients[d]) => Idle(v.clients[d])
  BY DEF IsOf
<1>3. NoEntryOnly(v, r)
  BY <1>1, <1>2 DEF NoEntryOnly
<1>4. OnCourse(v, r)
  BY <1>3 DEF OnCourse, Contains
<1>5. \A q \in Key \ {r} : Keeps(w, v, q)
  BY <1>1 DEF Keeps
<1>6. /\ w.clients[c] # NoClient => w.clients[c].request \in {r, NoRequest}
      /\ v.clients[c] # NoClient => v.clients[c].request \in {r, NoRequest}
  BY DEF IsOf
<1>. QED
  BY <1>4, <1>5, <1>6, OneDelivers

(* A client of a request with an entry goes on, and the entry may grow by  *)
(* what he read or become complete.                                        *)
LEMMA EntryDelivers ==
  ASSUME NEW w, Good(w, {}), Delivers(w), NEW c \in Client, NEW r \in Key,
         IsOf(w, c, r), Contains(w.cache, r),
         NEW v, Good(v, {}), v.stranded = {}, v.map = w.map,
         \A d \in Client \ {c} : v.clients[d] = w.clients[d],
         IsOf(v, c, r), Contains(v.cache, r),
         \A q \in Key \ {r} : \/ v.cache.entry[q] = w.cache.entry[q]
                              \/ v.cache.entry[q] = NoEntry /\ w.cache.entry[q].in_use = 0,
         NEW e, e = w.cache.entry[r], NEW f, f = v.cache.entry[r],
         IsPrefixOf(e.buffer, f.buffer), e.completed => f.completed,
         f.buffer = e.buffer \/ \A d \in Client \ {c} : ~Fetches(w, d, r),
         IsPrefixOf(f.buffer, Body["ok"]), f.completed => f.buffer = Body["ok"],
         TakesFrom(v.clients[c], f),
         f.completed \/ Fetches(v, c, r) \/ v.clients[c].state = w.clients[c].state
  PROVE  Delivers(v)
<1>1. InEntry(w, r) /\ w.stranded = {}
  BY DEF Delivers, OnCourse
<1>2. \A d \in Client : IsOf(v, d, r) <=> IsOf(w, d, r)
  BY DEF IsOf
<1>3. /\ e.buffer \in Seq(Block) /\ f.buffer \in Seq(Block)
      /\ \A d \in Client : IsOf(w, d, r) => w.clients[d].sent \in Seq(Block)
  BY EntryIsTyped, WorldFacts DEF ClientRecord, IsOf
<1>4. ASSUME NEW d \in Client, IsOf(v, d, r) PROVE TakesFrom(v.clients[d], f)
  <2>1. CASE d = c
    BY <2>1
  <2>2. CASE d # c
    <3>1. IsOf(w, d, r) /\ v.clients[d] = w.clients[d] /\ TakesFrom(w.clients[d], e)
      BY <1>1, <1>2, <1>4, <2>2 DEF InEntry
    <3>2. IsPrefixOf(w.clients[d].sent, f.buffer)
      BY <1>3, <3>1, PrefixOfPrefix DEF TakesFrom
    <3>3. CASE f.buffer = e.buffer
      BY <3>1, <3>2, <3>3 DEF TakesFrom
    <3>4. CASE w.clients[d].state # "waiting_response"
      BY <3>1, <3>2, <3>4 DEF TakesFrom
    <3>. QED
      BY <2>2, <3>1, <3>3, <3>4 DEF Fetches
  <2>. QED
    BY <2>1, <2>2
<1>5. ASSUME ~f.completed PROVE \E d \in Client : Fetches(v, d, r)
  <2>1. PICK d \in Client : Fetches(w, d, r)
    BY <1>1, <1>5 DEF InEntry
  <2>2. CASE d = c
    BY <1>5, <2>1, <2>2 DEF Fetches
  <2>3. CASE d # c
    BY <1>2, <2>1, <2>3 DEF Fetches
  <2>. QED
    BY <2>2, <2>3
<1>6. OnCourse(v, r)
  BY <1>1, <1>4, <1>5 DEF OnCourse, InEntry
<1>7. \A q \in Key \ {r} : Keeps(w, v, q)
  BY <1>1 DEF Keeps
<1>8. /\ w.clients[c] # NoClient => w.clients[c].request \in {r, NoRequest}
      /\ v.clients[c] # NoClient => v.clients[c].request \in {r, NoRequest}
  BY DEF IsOf
<1>. QED
  BY <1>6, <1>7, <1>8, OneDelivers

(* The world of the next state, once one client changed and the cache is d. *)
LEMMA ChangedBoth ==
  ASSUME NEW T, Good(Now, T), NEW c \in Client, NEW k, NEW d
  PROVE  LET z == [clients |-> [clients EXCEPT ![c] = k], map |-> request_clients_map,
                   cache |-> d, stranded |-> stranded]
         IN  /\ [Now EXCEPT !.clients[c] = k, !.cache = d] = z
             /\ d = cache => [Now EXCEPT !.clients[c] = k] = z
<1>. DEFINE y == [clients EXCEPT ![c] = k]
            u == [clients |-> y, map |-> request_clients_map, cache |-> cache,
                  stranded |-> stranded]
<1>1. [Now EXCEPT !.clients[c] = k] = u
  BY ChangedOne DEF Now
<1>2. [Now EXCEPT !.clients[c] = k, !.cache = d] = [u EXCEPT !.cache = d]
  BY <1>1
<1>. HIDE DEF y
<1>3. [u EXCEPT !.cache = d] =
        [clients |-> y, map |-> request_clients_map, cache |-> d, stranded |-> stranded]
  BY Rebuilt
<1>. QED
  BY <1>1, <1>2, <1>3 DEF y

LEMMA ThenIs ==
  ASSUME NEW T, Good(Now, T), NEW c \in Client, NEW k, NEW d,
         \/ Becomes([clients |-> [clients EXCEPT ![c] = k], map |-> request_clients_map,
                     cache |-> d, stranded |-> stranded])
         \/ Becomes([Now EXCEPT !.clients[c] = k]) /\ d = cache
         \/ Becomes([Now EXCEPT !.clients[c] = k, !.cache = d])
  PROVE  /\ Then.clients[c] = k
         /\ \A h \in Client \ {c} : Then.clients[h] = clients[h]
         /\ Then.map = request_clients_map /\ Then.cache = d /\ Then.stranded = stranded
<1>. DEFINE y == [clients EXCEPT ![c] = k]
            z == [clients |-> y, map |-> request_clients_map, cache |-> d,
                  stranded |-> stranded]
<1>1. clients \in [Client -> ClientRecord \cup {NoClient}]
  BY WorldFacts DEF Now
<1>2. /\ y[c] = k /\ \A h \in Client \ {c} : y[h] = clients[h]
  BY <1>1
<1>3. Becomes(z)
  BY ChangedBoth
<1>. HIDE DEF y
<1>. QED
  BY <1>2, <1>3 DEF Becomes, Then

(* A client whose deliveries are on course: with an entry to his request,  *)
(* and without one.                                                        *)
LEMMA WithEntry ==
  ASSUME NEW w, Good(w, {}), Delivers(w), NEW c \in Client, NEW r \in Key,
         IsOf(w, c, r), Contains(w.cache, r)
  PROVE  LET e  == w.cache.entry[r]
             cl == w.clients[c]
         IN  /\ InEntry(w, r) /\ TakesFrom(cl, e) /\ r \in Found
             /\ e.buffer \in Seq(Block) /\ cl.sent \in Seq(Block) /\ cl \in ClientRecord
             /\ cl.state \in {"got_response", "waiting_response"}
             /\ cl.should_read_from_cache
             /\ cl.state = "waiting_response" =>
                  /\ cl.should_write_to_cache /\ ~e.completed
                  /\ \A d \in Client \ {c} : ~Fetches(w, d, r)
<1>1. InEntry(w, r) /\ EntryOk(w, r)
  BY DEF Delivers, OnCourse, Good, RequestOk
<1>2. w.cache.entry[r].buffer \in Seq(Block) /\ w.clients[c] \in ClientRecord
  BY EntryIsTyped, WorldFacts DEF IsOf
<1>3. w.clients[c].sent \in Seq(Block)
  BY <1>2 DEF ClientRecord
<1>4. w.clients[c].state = "waiting_response" => Fetches(w, c, r)
  BY DEF Fetches
<1>. QED
  BY <1>1, <1>2, <1>3, <1>4 DEF InEntry, EntryOk, WriterOk

LEMMA WithoutEntry ==
  ASSUME NEW w, Good(w, {}), Delivers(w), NEW c \in Client, NEW r \in Key,
         IsOf(w, c, r), ~Contains(w.cache, r)
  PROVE  LET cl == w.clients[c]
         IN  /\ NoEntryOnly(w, r) /\ OnHisOwn(cl, r)
             /\ cl \in ClientRecord /\ cl.sent \in Seq(Block)
             /\ cl.chunks \in Seq(Seq(Block)) /\ ~cl.should_write_to_all
             /\ ~cl.should_read_from_cache /\ ~cl.should_write_to_cache
<1>1. NoEntryOnly(w, r) /\ CleanOk(w, r, {})
  BY DEF Delivers, OnCourse, Good, RequestOk
<1>2. OnHisOwn(w.clients[c], r) /\ w.clients[c] \in ClientRecord
  BY <1>1, WorldFacts DEF NoEntryOnly, IsOf
<1>3. ~w.clients[c].should_read_from_cache /\ ~w.clients[c].should_write_to_cache
  BY <1>1 DEF CleanOk
<1>. QED
  BY <1>1, <1>2, <1>3 DEF ClientRecord, OnHisOwn

LEMMA SendRequestDelivers ==
  ASSUME Good(Now, {}), Delivers(Now), Good(Then, {}), NEW c \in Client, SendRequest(c)
  PROVE  Delivers(Then)
<1>. DEFINE cl == clients[c]
            r  == cl.request
            k  == [cl EXCEPT !.state = "waiting_response_status_code"]
<1>1. /\ In(c, {"sending_request"})
      /\ Becomes([Now EXCEPT !.clients[c].state = "waiting_response_status_code"])
  BY DEF SendRequest
<1>2. /\ cl \in ClientRecord /\ r \in Key /\ IsOf(Now, c, r)
      /\ cl.state = "sending_request"
      /\ Now.clients = clients /\ Now.cache = cache /\ Now.map = request_clients_map
      /\ Now.stranded = stranded /\ cl # NoClient
  BY <1>1, RequestOf
<1>3. ~Contains(Now.cache, r)
  BY <1>2, NoEntryYet
<1>4. OnHisOwn(cl, r)
  BY <1>2, <1>3, WithoutEntry
<1>5. /\ k.request = r /\ k # NoClient /\ ~Idle(k)
      /\ k.state = "waiting_response_status_code" /\ k.conn = cl.conn
      /\ k.sent = cl.sent /\ k.chunks = cl.chunks
      /\ k.should_write_to_all = cl.should_write_to_all
  <2>1. k \in ClientRecord
    BY <1>2 DEF ClientRecord, State
  <2>. QED
    BY <1>2, <2>1, MarkerAssumption DEF ClientRecord, Idle
<1>6. OnHisOwn(k, r) /\ ~Idle(cl)
  BY <1>2, <1>4, <1>5 DEF OnHisOwn, Starts, GetsError, Idle
<1>7. Becomes([Now EXCEPT !.clients[c] = k])
  BY <1>1, <1>2
<1>. HIDE DEF k, cl
<1>8. /\ Then.clients[c] = k
      /\ \A h \in Client \ {c} : Then.clients[h] = clients[h]
      /\ Then.map = request_clients_map /\ Then.cache = cache /\ Then.stranded = stranded
  BY <1>7, ThenIs
<1>9. IsOf(Then, c, r) /\ Then.stranded = {}
  BY <1>2, <1>5, <1>8 DEF IsOf, Delivers
<1>. QED
  BY <1>2, <1>3, <1>6, <1>8, <1>9, OwnDelivers DEF cl

(* A visit to an entry makes it the most recently used one. *)
LEMMA TouchedEntry ==
  ASSUME NEW w, NEW T, Good(w, T), NEW r \in Key, Contains(w.cache, r)
  PROVE  Touch(w.cache, r).entry = w.cache.entry
<1>1. r \in Present(w.cache)
  BY DEF Present
<1>2. PICK x \in Nat : Sound(w.cache, x)
  BY DEF Good, CacheOk
<1>. QED
  BY <1>1, <1>2, TouchSound

(* The same of the next state. *)
LEMMA EntryGoesOn ==
  ASSUME Good(Now, {}), Delivers(Now), Good(Then, {}), NEW c \in Client, NEW r \in Key,
         IsOf(Now, c, r), Contains(cache, r),
         NEW k, k # NoClient, k.request = r, NEW d, Contains(d, r),
         \A q \in Key \ {r} : \/ d.entry[q] = cache.entry[q]
                              \/ d.entry[q] = NoEntry /\ cache.entry[q].in_use = 0,
         NEW e, e = cache.entry[r], NEW f, f = d.entry[r],
         IsPrefixOf(e.buffer, f.buffer), e.completed => f.completed,
         f.buffer = e.buffer \/ \A h \in Client \ {c} : ~Fetches(Now, h, r),
         IsPrefixOf(f.buffer, Body["ok"]), f.completed => f.buffer = Body["ok"],
         TakesFrom(k, f),
         f.completed \/ k.state = "waiting_response" \/ k.state = clients[c].state,
         \/ Becomes([clients |-> [clients EXCEPT ![c] = k], map |-> request_clients_map,
                     cache |-> d, stranded |-> stranded])
         \/ Becomes([Now EXCEPT !.clients[c] = k]) /\ d = cache
         \/ Becomes([Now EXCEPT !.clients[c] = k, !.cache = d])
  PROVE  Delivers(Then)
<1>1. /\ Then.clients[c] = k
      /\ \A h \in Client \ {c} : Then.clients[h] = clients[h]
      /\ Then.map = request_clients_map /\ Then.cache = d /\ Then.stranded = stranded
  BY ThenIs
<1>2. /\ Now.clients = clients /\ Now.cache = cache /\ Now.map = request_clients_map
      /\ Now.stranded = stranded /\ stranded = {}
  BY DEF Now, Delivers
<1>3. IsOf(Then, c, r) /\ (k.state = "waiting_response" => Fetches(Then, c, r))
  BY <1>1 DEF IsOf, Fetches
<1>4. /\ Contains(Now.cache, r) /\ Contains(Then.cache, r)
      /\ e = Now.cache.entry[r] /\ f = Then.cache.entry[r]
      /\ \A q \in Key \ {r} : \/ Then.cache.entry[q] = Now.cache.entry[q]
                              \/ /\ Then.cache.entry[q] = NoEntry
                                 /\ Now.cache.entry[q].in_use = 0
  BY <1>1, <1>2
<1>5. /\ Then.stranded = {} /\ Then.map = Now.map
      /\ \A h \in Client \ {c} : Then.clients[h] = Now.clients[h]
      /\ TakesFrom(Then.clients[c], f)
      /\ f.completed \/ Fetches(Then, c, r) \/ Then.clients[c].state = Now.clients[c].state
  BY <1>1, <1>2, <1>3
<1>. QED
  BY <1>3, <1>4, <1>5, EntryDelivers

(* A client of a request with an entry, and the entry, with what they are  *)
(* at least.                                                               *)
LEMMA EntrySoFar ==
  ASSUME NEW w, Good(w, {}), Delivers(w), NEW r \in Key, Contains(w.cache, r)
  PROVE  LET e == w.cache.entry[r]
         IN  /\ IsPrefixOf(e.buffer, e.buffer) /\ IsPrefixOf(e.buffer, Body["ok"])
             /\ e.completed => e.buffer = Body["ok"]
             /\ e.buffer \in Seq(Block) /\ Body["ok"] \in Seq(Block)
<1>1. InEntry(w, r)
  BY DEF Delivers, OnCourse
<1>2. w.cache.entry[r].buffer \in Seq(Block) /\ Body["ok"] \in Seq(Block)
  BY EntryIsTyped, BodyFacts
<1>3. /\ IsPrefixOf(w.cache.entry[r].buffer, Body["ok"])
      /\ w.cache.entry[r].completed => w.cache.entry[r].buffer = Body["ok"]
  BY <1>1 DEF InEntry
<1>4. IsPrefixOf(w.cache.entry[r].buffer, w.cache.entry[r].buffer)
  <2>. DEFINE b == w.cache.entry[r].buffer
  <2>. HIDE DEF b
  <2>1. b \in Seq(Block)
    BY <1>2 DEF b
  <2>2. SubSeq(b, 1, Len(b)) = b /\ Len(b) \in Nat
    BY <2>1, SubSeqFull, LenProperties
  <2>3. IsPrefixOf(b, b)
    BY <2>2 DEF IsPrefixOf
  <2>. QED
    BY <2>3 DEF b
<1>. QED
  BY <1>2, <1>3, <1>4

LEMMA SendCachedDelivers ==
  ASSUME Good(Now, {}), Delivers(Now), Good(Then, {}), NEW c \in Client, SendCached(c)
  PROVE  Delivers(Then)
<1>. DEFINE cl == clients[c]
            r  == cl.request
            d  == Touch(cache, r)
            e  == cache.entry[r]
            m  == Len(cl.sent)
<1>1. Sending(c) /\ Contains(cache, r) /\ m < Size(cache, r)
  BY DEF SendCached
<1>2. /\ cl \in ClientRecord /\ r \in Key /\ IsOf(Now, c, r) /\ cl # NoClient
      /\ Now.clients = clients /\ Now.cache = cache /\ Now.map = request_clients_map
      /\ Now.stranded = stranded
  BY <1>1, SendingFacts DEF Now
<1>3. PICK n \in 1..Least(MaxChunk, Size(cache, r) - m) :
        Becomes([Now EXCEPT !.clients[c].sent = @ \o SubSeq(e.buffer, m + 1, m + n),
                            !.cache = Touch(@, r)])
  BY DEF SendCached
<1>4. /\ TakesFrom(cl, e) /\ InEntry(Now, r) /\ e.buffer \in Seq(Block)
      /\ cl.sent \in Seq(Block)
  BY <1>1, <1>2, WithEntry
<1>. DEFINE more == cl.sent \o SubSeq(e.buffer, m + 1, m + n)
            k    == [cl EXCEPT !.sent = more]
<1>5. n \in 0..(Len(e.buffer) - m)
  <2>. DEFINE L == Len(e.buffer)
  <2>1. L \in Nat /\ m \in Nat /\ MaxChunk \in Nat /\ L = Size(cache, r)
    BY <1>4, LenProperties, ServerAssumption DEF Size
  <2>2. n \in 1..Least(MaxChunk, L - m) /\ m < L
    BY <1>1, <2>1
  <2>. HIDE DEF L, m
  <2>3. n \in 0..(L - m)
    BY <2>1, <2>2 DEF Least
  <2>. QED
    BY <2>3 DEF L
<1>6. more \in Seq(Block) /\ IsPrefixOf(more, e.buffer)
  <2>. HIDE DEF e, cl
  <2>1. IsPrefixOf(cl.sent, e.buffer)
    BY <1>4 DEF TakesFrom
  <2>. QED
    BY <1>4, <1>5, <2>1, LongerPrefix
<1>. HIDE DEF more
<1>7. /\ k.request = r /\ k # NoClient /\ k.state = cl.state /\ k.conn = cl.conn
      /\ k.sent = more
  <2>1. k \in ClientRecord
    BY <1>2, <1>6 DEF ClientRecord
  <2>. QED
    BY <1>2, <2>1, MarkerAssumption DEF ClientRecord
<1>8. TakesFrom(k, e)
  BY <1>4, <1>6, <1>7 DEF TakesFrom
<1>9. Becomes([Now EXCEPT !.clients[c] = k, !.cache = d])
  BY <1>2, <1>3 DEF more
<1>. HIDE DEF k, cl, d
<1>10. d.entry = cache.entry
  BY <1>1, <1>2, TouchedEntry DEF d
<1>11. /\ IsPrefixOf(e.buffer, e.buffer) /\ IsPrefixOf(e.buffer, Body["ok"])
       /\ e.completed => e.buffer = Body["ok"]
  BY <1>1, <1>2, EntrySoFar
<1>12. /\ Contains(d, r) /\ e = d.entry[r] /\ e = cache.entry[r]
       /\ \A q \in Key \ {r} : d.entry[q] = cache.entry[q]
  BY <1>1, <1>10 DEF Contains
<1>13. k.request = r /\ k.state = clients[c].state
  BY <1>7 DEF cl
<1>. HIDE DEF e, r
<1>. QED
  BY <1>1, <1>2, <1>7, <1>8, <1>9, <1>11, <1>12, <1>13, EntryGoesOn

LEMMA NothingNewDelivers ==
  ASSUME Good(Now, {}), Delivers(Now), Good(Then, {}), NEW c \in Client,
         SendCachedNothingNew(c)
  PROVE  Delivers(Then)
<1>. DEFINE k == clients[c]
            r == k.request
            d == Touch(cache, r)
            e == cache.entry[r]
<1>1. Sending(c) /\ Contains(cache, r) /\ Becomes([Now EXCEPT !.cache = d])
  <2>1. Becomes([Now EXCEPT !.cache = Touch(@, r)]) /\ Now.cache = cache
    BY DEF SendCachedNothingNew, Now
  <2>2. Becomes([Now EXCEPT !.cache = d])
    BY <2>1
  <2>. QED
    BY <2>2 DEF SendCachedNothingNew
<1>2. /\ k \in ClientRecord /\ r \in Key /\ IsOf(Now, c, r) /\ k # NoClient
      /\ Now.clients = clients /\ Now.cache = cache
  BY <1>1, SendingFacts
<1>3. TakesFrom(k, e)
  BY <1>1, <1>2, WithEntry
<1>4. d.entry = cache.entry
  BY <1>1, <1>2, TouchedEntry
<1>5. /\ IsPrefixOf(e.buffer, e.buffer) /\ IsPrefixOf(e.buffer, Body["ok"])
      /\ e.completed => e.buffer = Body["ok"]
  BY <1>1, <1>2, EntrySoFar
<1>6. Becomes([clients |-> [clients EXCEPT ![c] = k], map |-> request_clients_map,
               cache |-> d, stranded |-> stranded])
  <2>1. [clients EXCEPT ![c] = k] = clients
    BY <1>2, WorldFacts
  <2>2. [Now EXCEPT !.cache = d] = [clients |-> clients, map |-> request_clients_map,
                                    cache |-> d, stranded |-> stranded]
    BY Rebuilt DEF Now
  <2>. HIDE DEF k, d
  <2>. QED
    BY <1>1, <2>1, <2>2
<1>. HIDE DEF d
<1>7. /\ Contains(d, r) /\ e = d.entry[r] /\ e = cache.entry[r]
      /\ \A q \in Key \ {r} : d.entry[q] = cache.entry[q]
  BY <1>1, <1>4 DEF Contains
<1>8. k.request = r /\ k.state = clients[c].state
  OBVIOUS
<1>. HIDE DEF k, e, r
<1>. QED
  BY <1>1, <1>2, <1>3, <1>5, <1>6, <1>7, <1>8, EntryGoesOn

(* The same of a client of a request without an entry. *)
LEMMA OwnGoesOn ==
  ASSUME Good(Now, {}), Delivers(Now), Good(Then, {}), NEW c \in Client, NEW r \in Key,
         IsOf(Now, c, r), ~Contains(cache, r),
         NEW k, k # NoClient, k.request = r, OnHisOwn(k, r),
         Idle(clients[c]) => Idle(k),
         Becomes([Now EXCEPT !.clients[c] = k])
  PROVE  Delivers(Then)
<1>1. /\ Then.clients[c] = k
      /\ \A h \in Client \ {c} : Then.clients[h] = clients[h]
      /\ Then.map = request_clients_map /\ Then.cache = cache /\ Then.stranded = stranded
  BY ThenIs
<1>2. /\ Now.clients = clients /\ Now.cache = cache /\ Now.map = request_clients_map
      /\ Now.stranded = stranded /\ stranded = {}
  BY DEF Now, Delivers
<1>3. /\ IsOf(Then, c, r) /\ ~Contains(Now.cache, r) /\ Then.stranded = {}
      /\ Then.map = Now.map /\ Then.cache.entry = Now.cache.entry
      /\ \A h \in Client \ {c} : Then.clients[h] = Now.clients[h]
      /\ OnHisOwn(Then.clients[c], r)
      /\ Idle(Now.clients[c]) => Idle(Then.clients[c])
  BY <1>1, <1>2 DEF IsOf
<1>. QED
  BY <1>3, OwnDelivers

LEMMA SendUncachedDelivers ==
  ASSUME Good(Now, {}), Delivers(Now), Good(Then, {}), NEW c \in Client, SendUncached(c)
  PROVE  Delivers(Then)
<1>. DEFINE cl   == clients[c]
            r    == cl.request
            body == Body["error"]
            head == Head(cl.chunks)
            tail == Tail(cl.chunks)
            m    == Len(cl.sent)
<1>1. Sending(c) /\ ~cl.should_read_from_cache /\ cl.chunks # <<>>
  BY DEF SendUncached
<1>2. /\ cl \in ClientRecord /\ r \in Key /\ IsOf(Now, c, r) /\ cl # NoClient
      /\ Now.clients = clients /\ Now.cache = cache
  BY <1>1, SendingFacts
<1>3. PICK n \in 1..Len(head) :
        Becomes([Now EXCEPT !.clients[c].sent = @ \o SubSeq(head, 1, n),
                            !.clients[c].chunks = Rest(head, n) \o tail])
  BY DEF SendUncached
<1>4. ~Contains(cache, r)
  BY <1>1, <1>2, WithEntry
<1>5. /\ OnHisOwn(cl, r) /\ cl.sent \in Seq(Block) /\ cl.chunks \in Seq(Seq(Block))
      /\ ~cl.should_write_to_all
  BY <1>2, <1>4, WithoutEntry
<1>6. GetsError(cl, r) /\ body \in Seq(Block)
  BY <1>1, <1>5, BodyFacts DEF OnHisOwn
<1>. DEFINE more == cl.sent \o SubSeq(head, 1, n)
            left == Rest(head, n) \o tail
            k    == [cl EXCEPT !.sent = more, !.chunks = left]
<1>7. /\ m \in Nat /\ m + n <= Len(body)
      /\ SubSeq(head, 1, n) = SubSeq(body, m + 1, m + n)
      /\ InPieces(left, body, m + n, cl.conn.pos)
  <2>1. InPieces(cl.chunks, body, m, cl.conn.pos)
    BY <1>6 DEF GetsError
  <2>. HIDE DEF m, body, cl
  <2>. QED
    BY <1>1, <1>3, <1>5, <1>6, <2>1, FirstPiece
<1>8. more \in Seq(Block) /\ Len(more) = m + n /\ IsPrefixOf(more, body)
  <2>1. IsPrefixOf(cl.sent, body)
    BY <1>6 DEF GetsError
  <2>2. n \in 0..(Len(body) - m)
    <3>1. Len(body) \in Nat
      BY <1>6, LenProperties
    <3>. HIDE DEF m, body, head
    <3>. QED
      BY <1>3, <1>7, <3>1
  <2>. HIDE DEF cl, body, head
  <2>. QED
    BY <1>5, <1>6, <1>7, <2>1, <2>2, LongerPrefix
<1>9. left \in Seq(Seq(Block))
  <2>1. head \in Seq(Block) /\ tail \in Seq(Seq(Block))
    <3>. HIDE DEF cl
    <3>. QED
      BY <1>1, <1>5, HeadTailProperties, EmptySeq, LenProperties
  <2>2. Rest(head, n) \in Seq(Seq(Block))
    <3>. HIDE DEF head
    <3>. QED
      BY <2>1, RestIsChunks
  <2>. HIDE DEF head, tail
  <2>. QED
    BY <2>1, <2>2, ConcatProperties
<1>. HIDE DEF more, left
<1>10. /\ k.request = r /\ k # NoClient /\ k.state = cl.state /\ k.conn = cl.conn
       /\ k.sent = more /\ k.chunks = left
       /\ k.should_write_to_all = cl.should_write_to_all
  <2>1. k \in ClientRecord
    BY <1>2, <1>8, <1>9 DEF ClientRecord
  <2>. QED
    BY <1>2, <2>1, MarkerAssumption DEF ClientRecord
<1>11. GetsError(k, r)
  BY <1>6, <1>7, <1>8, <1>10 DEF GetsError
<1>12. OnHisOwn(k, r) /\ (Idle(cl) => Idle(k))
  BY <1>5, <1>10, <1>11 DEF OnHisOwn, Idle
<1>13. Becomes([Now EXCEPT !.clients[c] = k])
  BY <1>2, <1>3 DEF more, left
<1>14. Idle(clients[c]) => Idle(k)
  BY <1>12
<1>. HIDE DEF k, r
<1>. QED
  BY <1>2, <1>4, <1>10, <1>12, <1>13, <1>14, OwnGoesOn

LEMMA PrefixGrows ==
  ASSUME NEW s \in Seq(Block), NEW t \in Seq(Block)
  PROVE  IsPrefixOf(s, s \o t)
<1>. DEFINE u == s \o t
            m == Len(s)
            v == SubSeq(u, 0 + 1, m)
<1>1. /\ u \in Seq(Block) /\ m \in Nat /\ m <= Len(u)
      /\ \A i \in 1..m : u[i] = s[i]
  <2>1. /\ u \in Seq(Block) /\ Len(u) = m + Len(t)
        /\ \A i \in 1..(m + Len(t)) : u[i] = IF i <= m THEN s[i] ELSE t[i - m]
    BY ConcatProperties
  <2>2. m \in Nat /\ Len(t) \in Nat
    BY LenProperties
  <2>. HIDE DEF u, m
  <2>. QED
    BY <2>1, <2>2
<1>2. /\ v \in Seq(Block) /\ Len(v) = m - 0
      /\ \A i \in 1..(m - 0) : v[i] = u[0 + i]
  <2>1. m \in 0..Len(u) /\ 0 \in 0..m
    BY <1>1, LenProperties
  <2>. HIDE DEF u, m
  <2>. QED
    BY <1>1, <2>1, PartFacts
<1>. HIDE DEF u, v
<1>3. 0 + 1 = 1 /\ m - 0 = m /\ \A i \in 1..m : 0 + i = i
  BY <1>1
<1>4. v = s
  BY <1>1, <1>2, <1>3, SeqEqual
<1>5. s = SubSeq(u, 1, m)
  BY <1>3, <1>4 DEF v
<1>. QED
  BY <1>1, <1>5 DEF IsPrefixOf, u

(* The rest of what is known of a client who has read a chunk. *)
LEMMA HasReadFacts ==
  ASSUME NEW cl \in ClientRecord, ClientOk(cl), cl.state \in Fetching,
         NEW rd \in Reading(cl)
  PROVE  LET k == HasRead(cl, rd)
         IN  /\ k.sent = cl.sent /\ k.chunks = cl.chunks
             /\ k.should_write_to_all = cl.should_write_to_all
             /\ k.conn # NoConn /\ k.conn.answer = rd.answer /\ k.conn.alive
             /\ cl.conn.pos \in Nat /\ rd.len \in Nat
             /\ k.conn.pos = cl.conn.pos + rd.len
             /\ cl.conn.pos + rd.len <= Len(Body[rd.answer])
             /\ rd.answer \in {"ok", "error"}
             /\ IF cl.conn.answer = "unknown" THEN rd.answer \in Answers[cl.request]
                ELSE rd.answer = cl.conn.answer
             /\ ChunkRead(cl, rd) = SubSeq(Body[rd.answer], cl.conn.pos + 1,
                                           cl.conn.pos + rd.len)
<1>. DEFINE conn == cl.conn
            next == [answer |-> rd.answer, pos |-> conn.pos + rd.len, alive |-> TRUE]
            k    == HasRead(cl, rd)
<1>1. conn \in Connection /\ conn # NoConn
  BY DEF ClientOk, ClientRecord
<1>2. /\ rd.answer \in {"ok", "error"} /\ rd.len \in Nat /\ conn.pos \in Nat
      /\ conn.pos + rd.len <= Len(Body[rd.answer])
      /\ IF conn.answer = "unknown" THEN rd.answer \in Answers[cl.request]
         ELSE rd.answer = conn.answer
  BY <1>1, ServerAssumption DEF Reading, Connection
<1>3. next \in Connection /\ next # NoConn
  <2>1. next \in Connection
    BY <1>2 DEF Connection
  <2>. QED
    BY <2>1, MarkerAssumption
<1>4. next.answer = rd.answer /\ next.pos = conn.pos + rd.len /\ next.alive
  OBVIOUS
<1>. HIDE DEF next
<1>5. /\ k.sent = cl.sent /\ k.chunks = cl.chunks
      /\ k.should_write_to_all = cl.should_write_to_all /\ k.conn = next
  <2>1. k = [cl EXCEPT !.conn = next]
    BY DEF HasRead, next
  <2>. HIDE DEF k
  <2>. QED
    BY <1>3, <2>1 DEF ClientRecord
<1>6. ChunkRead(cl, rd) = SubSeq(Body[rd.answer], cl.conn.pos + 1, cl.conn.pos + rd.len)
  BY DEF ChunkRead
<1>. QED
  BY <1>2, <1>3, <1>4, <1>5, <1>6

(* What a write that finds room leaves of the entries. *)
LEMMA WrittenEntry ==
  ASSUME NEW k, Sound(k, 0), NEW r \in Present(k), k.entry[r].in_use > 0,
         NEW chunk \in Seq(Block), WriteOutcome(k, r, chunk) = "Written"
  PROVE  LET d == Write(k, r, chunk)
         IN  /\ d \in CacheValue /\ Sound(d, 0) /\ Contains(d, r)
             /\ \A q \in Key \ {r} : \/ d.entry[q] = k.entry[q]
                                     \/ d.entry[q] = NoEntry /\ k.entry[q].in_use = 0
             /\ d.entry[r].in_use = k.entry[r].in_use
             /\ d.entry[r].completed = k.entry[r].completed
             /\ d.entry[r].buffer = k.entry[r].buffer \o chunk
BY WriteInUse

(* The client who fetches the response reads on: the write finds room.     *)
LEMMA WriteDelivers ==
  ASSUME Undisturbed, Good(Now, {}), Delivers(Now), Good(Then, {}),
         NEW c \in Client, NEW r \in Key, IsOf(Now, c, r), Contains(cache, r),
         clients[c] \in ClientRecord, ClientOk(clients[c]),
         clients[c].request = r, clients[c].state = "waiting_response",
         NEW rd \in Reading(clients[c]),
         NEW chunk, chunk = ChunkRead(clients[c], rd),
         NEW k, k = HasRead(clients[c], rd),
         NEW d, d = Write(cache, r, chunk),
         WriteOutcome(cache, r, chunk) = "Written" =>
           Becomes([clients |-> [clients EXCEPT ![c] = k], map |-> request_clients_map,
                    cache |-> d, stranded |-> stranded])
  PROVE  Delivers(Then)
<1>. DEFINE cl == clients[c]
            e == cache.entry[r]
            f == d.entry[r]
            body == Body["ok"]
<1>1. /\ Now.clients = clients /\ Now.cache = cache /\ Now.stranded = stranded
      /\ stranded = {}
  BY DEF Now, Delivers
<1>2. /\ TakesFrom(cl, e) /\ r \in Found /\ e.buffer \in Seq(Block)
      /\ cl.sent \in Seq(Block) /\ ~e.completed
      /\ \A h \in Client \ {c} : ~Fetches(Now, h, r)
  BY <1>1, WithEntry
<1>3. /\ IsPrefixOf(e.buffer, e.buffer) /\ IsPrefixOf(e.buffer, body)
      /\ body \in Seq(Block)
  BY <1>1, EntrySoFar
<1>4. /\ cl.conn.answer = "ok" /\ cl.conn.pos = Len(e.buffer)
      /\ IsPrefixOf(cl.sent, e.buffer)
  BY <1>2 DEF TakesFrom
<1>5. /\ k \in ClientRecord /\ k.request = r /\ k # NoClient /\ chunk \in Seq(Block)
      /\ k.state = "waiting_response"
  <2>1. clients[c].state \in Fetching
    BY DEF Fetching
  <2>. QED
    BY <2>1, ReadingFacts, MarkerAssumption
<1>6. /\ k.sent = cl.sent /\ k.conn.answer = "ok" /\ k.conn.alive
      /\ rd.len \in Nat /\ k.conn.pos = Len(e.buffer) + rd.len
      /\ Len(e.buffer) + rd.len <= Len(body)
      /\ chunk = SubSeq(body, Len(e.buffer) + 1, Len(e.buffer) + rd.len)
  <2>1. clients[c].state \in Fetching
    BY DEF Fetching
  <2>2. /\ k.sent = cl.sent /\ k.conn.answer = rd.answer /\ k.conn.alive
        /\ rd.len \in Nat /\ k.conn.pos = cl.conn.pos + rd.len
        /\ cl.conn.pos + rd.len <= Len(Body[rd.answer])
        /\ IF cl.conn.answer = "unknown" THEN rd.answer \in Answers[cl.request]
           ELSE rd.answer = cl.conn.answer
        /\ chunk = SubSeq(Body[rd.answer], cl.conn.pos + 1, cl.conn.pos + rd.len)
    BY <2>1, HasReadFacts
  <2>3. rd.answer = "ok"
    BY <1>4, <2>2
  <2>. HIDE DEF cl, e
  <2>. QED
    BY <1>4, <2>2, <2>3
<1>7. /\ Sound(cache, 0) /\ e.in_use > 0 /\ r \in Present(cache)
  <2>1. Sound(cache, 0)
    BY <1>1 DEF Good, CacheOk
  <2>. QED
    BY <1>1, <2>1, EntryIsTyped
<1>. DEFINE more == e.buffer \o chunk
<1>8. /\ Len(chunk) = rd.len /\ more \in Seq(Block)
      /\ Len(more) = Len(e.buffer) + rd.len
      /\ IsPrefixOf(more, body) /\ IsPrefixOf(e.buffer, more)
  <2>. DEFINE m == Len(e.buffer)
              s == e.buffer
  <2>1. m \in Nat /\ Len(body) \in Nat /\ Len(chunk) \in Nat
    BY <1>2, <1>3, <1>5, LenProperties
  <2>2. rd.len \in 0..(Len(body) - m)
    <3>. HIDE DEF m, body
    <3>. QED
      BY <1>6, <2>1 DEF m
  <2>. HIDE DEF body, e
  <2>3. /\ s \o SubSeq(body, m + 1, m + rd.len) \in Seq(Block)
        /\ Len(s \o SubSeq(body, m + 1, m + rd.len)) = m + rd.len
        /\ IsPrefixOf(s \o SubSeq(body, m + 1, m + rd.len), body)
    BY <1>2, <1>3, <2>2, LongerPrefix
  <2>4. more = s \o SubSeq(body, m + 1, m + rd.len)
    BY <1>6
  <2>5. Len(more) = m + Len(chunk) /\ IsPrefixOf(s, more)
    BY <1>2, <1>5, ConcatProperties, PrefixGrows
  <2>. HIDE DEF m, s, more
  <2>6. Len(chunk) = rd.len
    <3>1. rd.len \in Nat /\ m + rd.len = m + Len(chunk)
      BY <1>6, <2>3, <2>4, <2>5
    <3>. QED
      BY <2>1, <3>1
  <2>. QED
    BY <2>3, <2>4, <2>5, <2>6 DEF m, s
<1>9. WriteOutcome(cache, r, chunk) = "Written"
  <2>1. \A q \in Key \ {r} : cache.entry[q] = Now.cache.entry[q]
    BY <1>1
  <2>2. Len(cache.entry[r].buffer) + Len(chunk) <= Len(Body["ok"])
    BY <1>6, <1>8
  <2>. HIDE DEF e, cl, body
  <2>. QED
    BY <1>2, <1>5, <1>7, <2>1, <2>2, ThereIsRoom DEF e
<1>10. /\ Contains(d, r) /\ f.completed = e.completed /\ f.buffer = more
       /\ \A q \in Key \ {r} : \/ d.entry[q] = cache.entry[q]
                               \/ d.entry[q] = NoEntry /\ cache.entry[q].in_use = 0
  <2>. HIDE DEF more
  <2>1. cache.entry[r].in_use > 0
    BY <1>7
  <2>2. /\ Contains(d, r)
        /\ \A q \in Key \ {r} : \/ d.entry[q] = cache.entry[q]
                                \/ d.entry[q] = NoEntry /\ cache.entry[q].in_use = 0
        /\ d.entry[r].completed = cache.entry[r].completed
        /\ d.entry[r].buffer = cache.entry[r].buffer \o chunk
    <3>1. Sound(cache, 0) /\ r \in Present(cache)
      BY <1>7
    <3>. HIDE DEF e, f
    <3>2. chunk \in Seq(Block) /\ WriteOutcome(cache, r, chunk) = "Written"
      BY <1>5, <1>9
    <3>. DEFINE v == Write(cache, r, chunk)
    <3>3. /\ Contains(v, r)
          /\ \A q \in Key \ {r} : \/ v.entry[q] = cache.entry[q]
                                  \/ v.entry[q] = NoEntry /\ cache.entry[q].in_use = 0
          /\ v.entry[r].completed = cache.entry[r].completed
          /\ v.entry[r].buffer = cache.entry[r].buffer \o chunk
      BY ONLY <2>1, <3>1, <3>2, WrittenEntry
    <3>. HIDE DEF v
    <3>. QED
      BY <3>3 DEF v
  <2>. QED
    BY <2>2 DEF more
<1>11. TakesFrom(k, f)
  <2>1. IsPrefixOf(k.sent, f.buffer)
    <3>. HIDE DEF e, f, cl, more
    <3>. QED
      BY <1>2, <1>4, <1>6, <1>8, <1>10, PrefixOfPrefix
  <2>. HIDE DEF e, f, more
  <2>. QED
    BY <1>5, <1>6, <1>8, <1>10, <2>1 DEF TakesFrom
<1>12. Becomes([clients |-> [clients EXCEPT ![c] = k], map |-> request_clients_map,
                cache |-> d, stranded |-> stranded])
  BY <1>9
<1>13. e = cache.entry[r] /\ f = d.entry[r]
  OBVIOUS
<1>. HIDE DEF e, f, more, body, cl
<1>14. /\ IsPrefixOf(e.buffer, f.buffer) /\ IsPrefixOf(f.buffer, Body["ok"])
       /\ ~e.completed /\ ~f.completed
  BY <1>2, <1>8, <1>10 DEF body
<1>. QED
  BY <1>2, <1>5, <1>10, <1>11, <1>12, <1>13, <1>14, EntryGoesOn

(* A chunk that was read, kept for the one client who reads it. *)
KeepsChunk(k, chunk) == [k EXCEPT !.chunks = Append(@, chunk)]

LEMMA KeepsChunkFacts ==
  ASSUME NEW k \in ClientRecord, NEW chunk \in Seq(Block)
  PROVE  LET l == KeepsChunk(k, chunk)
         IN  /\ l \in ClientRecord /\ l # NoClient /\ l.chunks = Append(k.chunks, chunk)
             /\ l.request = k.request /\ l.state = k.state /\ l.conn = k.conn
             /\ l.sent = k.sent /\ l.should_write_to_all = k.should_write_to_all
<1>. DEFINE more == Append(k.chunks, chunk)
            l    == [k EXCEPT !.chunks = more]
<1>1. k.chunks \in Seq(Seq(Block)) /\ more \in Seq(Seq(Block))
  BY DEF ClientRecord
<1>. HIDE DEF more
<1>2. /\ l \in ClientRecord /\ l.chunks = more
      /\ l.request = k.request /\ l.state = k.state /\ l.conn = k.conn
      /\ l.sent = k.sent /\ l.should_write_to_all = k.should_write_to_all
  BY <1>1 DEF ClientRecord
<1>3. KeepsChunk(k, chunk) = l
  BY DEF KeepsChunk, more
<1>. HIDE DEF l
<1>. QED
  BY <1>2, <1>3, MarkerAssumption DEF more

LEMMA BufferOne ==
  ASSUME NEW w, NEW T, Good(w, T), NEW c \in Client, NEW k, NEW chunk
  PROVE  BufferChunk([w EXCEPT !.clients[c] = k], {c}, chunk) =
           [w EXCEPT !.clients[c] = KeepsChunk(k, chunk)]
<1>. DEFINE y == [w.clients EXCEPT ![c] = k]
            v == [clients |-> y, map |-> w.map, cache |-> w.cache,
                  stranded |-> w.stranded]
            z == [d \in Client |-> IF d \in {c} THEN KeepsChunk(y[d], chunk) ELSE y[d]]
            a == [w.clients EXCEPT ![c] = KeepsChunk(k, chunk)]
<1>1. [w EXCEPT !.clients[c] = k] = v
  BY ChangedOne
<1>2. BufferChunk(v, {c}, chunk) = [v EXCEPT !.clients = z]
  BY DEF BufferChunk, ForEach, KeepsChunk
<1>3. z = a
  <2>1. w.clients \in [Client -> ClientRecord \cup {NoClient}]
    BY WorldFacts
  <2>2. y[c] = k /\ \A d \in Client \ {c} : y[d] = w.clients[d]
    BY <2>1
  <2>3. z[c] = KeepsChunk(k, chunk) /\ \A d \in Client \ {c} : z[d] = w.clients[d]
    <3>. HIDE DEF y
    <3>. QED
      BY <2>2
  <2>4. z = [d \in Client |-> z[d]] /\ DOMAIN z = Client
    OBVIOUS
  <2>. HIDE DEF z
  <2>. QED
    BY <2>1, <2>3, <2>4
<1>. HIDE DEF y, z
<1>4. [v EXCEPT !.clients = z] = [clients |-> z, map |-> w.map, cache |-> w.cache,
                                  stranded |-> w.stranded]
  BY Rebuilt
<1>. HIDE DEF v, a
<1>5. [w EXCEPT !.clients[c] = KeepsChunk(k, chunk)] =
        [clients |-> a, map |-> w.map, cache |-> w.cache, stranded |-> w.stranded]
  BY ChangedOne DEF a
<1>. QED
  BY <1>1, <1>2, <1>3, <1>4, <1>5

(* Who gets an "error" answer and reads on keeps what he reads. *)
LEMMA ReadsError ==
  ASSUME NEW cl \in ClientRecord, ClientOk(cl), cl.state = "waiting_response",
         NEW rd \in Reading(cl), NEW r, OnHisOwn(cl, r)
  PROVE  LET l == KeepsChunk(HasRead(cl, rd), ChunkRead(cl, rd))
         IN  /\ l # NoClient /\ l.request = cl.request /\ OnHisOwn(l, r)
             /\ l.state = "waiting_response"
<1>. DEFINE chunk == ChunkRead(cl, rd)
            k     == HasRead(cl, rd)
            l     == KeepsChunk(k, chunk)
            body  == Body["error"]
<1>1. cl.state \in Fetching
  BY DEF Fetching
<1>2. /\ GetsError(cl, r) /\ ~cl.should_write_to_all
  BY DEF OnHisOwn, Starts, Idle
<1>3. k \in ClientRecord /\ k.request = cl.request /\ k.state = "waiting_response"
      /\ chunk \in Seq(Block)
  BY <1>1, ReadingFacts
<1>4. /\ k.sent = cl.sent /\ k.chunks = cl.chunks
      /\ k.should_write_to_all = cl.should_write_to_all
      /\ k.conn # NoConn /\ k.conn.answer = rd.answer /\ k.conn.alive
      /\ cl.conn.pos \in Nat /\ rd.len \in Nat
      /\ k.conn.pos = cl.conn.pos + rd.len
      /\ cl.conn.pos + rd.len <= Len(Body[rd.answer])
      /\ IF cl.conn.answer = "unknown" THEN rd.answer \in Answers[cl.request]
         ELSE rd.answer = cl.conn.answer
      /\ chunk = SubSeq(Body[rd.answer], cl.conn.pos + 1, cl.conn.pos + rd.len)
  BY <1>1, HasReadFacts
<1>5. rd.answer = "error"
  BY <1>2, <1>4 DEF GetsError
<1>. HIDE DEF k, chunk
<1>6. /\ l # NoClient /\ l.chunks = Append(k.chunks, chunk)
      /\ l.request = k.request /\ l.state = k.state /\ l.conn = k.conn
      /\ l.sent = k.sent /\ l.should_write_to_all = k.should_write_to_all
  BY <1>3, KeepsChunkFacts
<1>. HIDE DEF l
<1>7. InPieces(Append(cl.chunks, SubSeq(body, cl.conn.pos + 1, cl.conn.pos + rd.len)),
               body, Len(cl.sent), cl.conn.pos + rd.len)
  <2>1. /\ cl.chunks \in Seq(Seq(Block)) /\ body \in Seq(Block)
        /\ InPieces(cl.chunks, body, Len(cl.sent), cl.conn.pos)
    BY <1>2, BodyFacts DEF ClientRecord, GetsError
  <2>2. cl.conn.pos + rd.len <= Len(body)
    BY <1>4, <1>5
  <2>. HIDE DEF body
  <2>. QED
    BY <1>4, <2>1, <2>2, OnePieceMore
<1>8. InPieces(l.chunks, Body["error"], Len(l.sent), l.conn.pos)
  BY <1>4, <1>5, <1>6, <1>7
<1>9. GetsError(l, r)
  BY <1>2, <1>3, <1>4, <1>5, <1>6, <1>8 DEF GetsError
<1>. QED
  BY <1>2, <1>3, <1>4, <1>6, <1>9 DEF OnHisOwn, l, k, chunk

LEMMA ReadResponseDelivers ==
  ASSUME Undisturbed, Good(Now, {}), Delivers(Now), Good(Then, {}),
         NEW c \in Client, ReadResponse(c)
  PROVE  Delivers(Then)
<1>. DEFINE cl == clients[c]
            r  == cl.request
<1>1. In(c, {"waiting_response"})
  BY DEF ReadResponse
<1>2. /\ cl \in ClientRecord /\ r \in Key /\ IsOf(Now, c, r)
      /\ ClientOk(cl) /\ cl.state = "waiting_response"
      /\ Now.clients = clients /\ Now.cache = cache /\ Now.map = request_clients_map
      /\ Now.stranded = stranded
  BY <1>1, RequestOf
<1>3. cl.state \in Fetching
  BY <1>2 DEF Fetching
<1>4. PICK rd \in Reading(cl) :
        LET w       == AfterReading(Now, c, rd)
            chunk   == ChunkRead(cl, rd)
            written == WriteToCache(w, c, chunk)
        IN  \/ /\ cl.should_write_to_cache
               /\ Becomes(IF written.threw THEN DiscardClient(written.world, c)
                          ELSE written.world)
            \/ /\ ~cl.should_write_to_cache
               /\ Becomes(BufferChunk(w,
                            IF cl.should_write_to_all
                            THEN Listed(Now, cl.request) ELSE {c}, chunk))
  BY DEF ReadResponse
<1>. DEFINE chunk == ChunkRead(cl, rd)
            k     == HasRead(cl, rd)
            w     == AfterReading(Now, c, rd)
<1>5. k \in ClientRecord /\ k.request = r /\ chunk \in Seq(Block)
  BY <1>2, <1>3, ReadingFacts
<1>6. w = [Now EXCEPT !.clients[c] = k]
  BY <1>2 DEF AfterReading, HasRead
<1>7. CASE ~Contains(cache, r)
  <2>1. /\ OnHisOwn(cl, r) /\ ~cl.should_write_to_all /\ ~cl.should_write_to_cache
    BY <1>2, <1>7, WithoutEntry
  <2>2. Becomes(BufferChunk(w, {c}, chunk))
    BY <1>4, <2>1
  <2>. DEFINE l == KeepsChunk(k, chunk)
  <2>3. BufferChunk(w, {c}, chunk) = [Now EXCEPT !.clients[c] = l]
    <3>. HIDE DEF w, k, chunk
    <3>. QED
      BY <1>6, BufferOne
  <2>4. l # NoClient /\ l.request = r /\ OnHisOwn(l, r) /\ ~Idle(clients[c])
    <3>1. ~Idle(cl)
      BY <1>2 DEF Idle
    <3>. QED
      BY <1>2, <2>1, <3>1, ReadsError
  <2>. HIDE DEF w, l, r
  <2>. QED
    BY <1>2, <1>7, <2>2, <2>3, <2>4, OwnGoesOn
<1>8. CASE Contains(cache, r)
  <2>. DEFINE d == Write(cache, r, chunk)
              y == [clients EXCEPT ![c] = k]
              v == [clients |-> y, map |-> request_clients_map, cache |-> d,
                    stranded |-> stranded]
              t == WriteToCache(w, c, chunk)
  <2>1. cl.should_write_to_cache
    BY <1>2, <1>8, WithEntry
  <2>2. Becomes(IF t.threw THEN DiscardClient(t.world, c) ELSE t.world)
    BY <1>4, <2>1
  <2>3. w = [clients |-> y, map |-> request_clients_map, cache |-> cache,
             stranded |-> stranded]
    <3>. HIDE DEF w, k
    <3>. QED
      BY <1>2, <1>6, ChangedOne
  <2>4. /\ w.clients = y /\ w.cache = cache
        /\ v = [w EXCEPT !.cache = Write(w.cache, r, chunk)]
    <3>. HIDE DEF w, y, k, chunk, r
    <3>1. [[clients |-> y, map |-> request_clients_map, cache |-> cache,
            stranded |-> stranded] EXCEPT !.cache = d] = v
      BY Rebuilt
    <3>. QED
      BY <2>3, <3>1
  <2>5. y[c] = k
    BY <1>2, WorldFacts
  <2>6. WriteOutcome(cache, r, chunk) = "Written" => t.world = v /\ ~t.threw
    <3>1. w.clients[c].request = r
      BY <1>5, <2>4, <2>5
    <3>. HIDE DEF w, chunk, r, v, y, k, d
    <3>2. LET a == WriteToCache(w, c, chunk)
          IN  /\ WriteOutcome(w.cache, r, chunk) = "AllInUse" =>
                   a.world = Fallback(v, c, chunk) /\ a.threw = FallbackThrows(v, r)
              /\ WriteOutcome(w.cache, r, chunk) = "KeyNotFound" =>
                   a.world = v /\ a.threw
              /\ WriteOutcome(w.cache, r, chunk) = "Written" =>
                   a.world = v /\ ~a.threw
      BY <2>4, <3>1, WriteCases
    <3>. QED
      BY <2>4, <3>2
  <2>7. WriteOutcome(cache, r, chunk) = "Written" => Becomes(v)
    <3>. HIDE DEF t, v, chunk, r
    <3>. QED
      BY <2>2, <2>6
  <2>8. rd \in Reading(clients[c]) /\ chunk = ChunkRead(clients[c], rd)
        /\ k = HasRead(clients[c], rd) /\ clients[c].request = r
        /\ d = Write(cache, r, chunk)
    BY <1>4
  <2>. HIDE DEF t, w, r, k, chunk, d
  <2>. QED
    BY <1>2, <1>8, <2>7, <2>8, WriteDelivers
<1>. QED
  BY <1>7, <1>8

(* The client who is told that the origin is done. *)
LEMMA ToldFacts ==
  ASSUME NEW cl \in ClientRecord
  PROVE  LET k == GotResponse(cl)
         IN  /\ k \in ClientRecord /\ k # NoClient /\ k.state = "got_response"
             /\ k.request = cl.request /\ k.conn = cl.conn /\ k.sent = cl.sent
             /\ k.chunks = cl.chunks /\ k.should_write_to_all = cl.should_write_to_all
<1>. DEFINE k == GotResponse(cl)
<1>1. /\ k \in ClientRecord /\ k.state = "got_response"
      /\ k.request = cl.request /\ k.conn = cl.conn /\ k.sent = cl.sent
      /\ k.chunks = cl.chunks /\ k.should_write_to_all = cl.should_write_to_all
  BY DEF GotResponse, ClientRecord, State
<1>. HIDE DEF k
<1>. QED
  BY <1>1, MarkerAssumption DEF k

LEMMA CompletedEntry ==
  ASSUME NEW k, Sound(k, 0), NEW r \in Present(k)
  PROVE  LET d == CompleteEntry(k, r)
         IN  /\ Contains(d, r)
             /\ \A q \in Key \ {r} : d.entry[q] = k.entry[q]
             /\ d.entry[r].completed /\ d.entry[r].buffer = k.entry[r].buffer
<1>. DEFINE d == CompleteEntry(k, r)
            f == [k.entry[r] EXCEPT !.completed = TRUE]
<1>1. d.entry = [k.entry EXCEPT ![r].completed = TRUE]
  BY CompleteSound
<1>2. /\ r \in Key /\ k.entry \in [Key -> Entry \cup {NoEntry}] /\ k.entry[r] \in Entry
  BY DEF Sound, WellFormed, CacheValue, Present, Contains
<1>3. f \in Entry /\ f.completed /\ f.buffer = k.entry[r].buffer /\ f # NoEntry
  <2>1. f \in Entry /\ f.completed /\ f.buffer = k.entry[r].buffer
    BY <1>2 DEF Entry
  <2>. QED
    BY <2>1, CacheAssumption
<1>. HIDE DEF d
<1>4. d.entry[r] = f /\ \A q \in Key \ {r} : d.entry[q] = k.entry[q]
  BY <1>1, <1>2
<1>. HIDE DEF f
<1>. QED
  BY <1>3, <1>4 DEF Contains, d

LEMMA ReadResponseEndDelivers ==
  ASSUME Good(Now, {}), Delivers(Now), Good(Then, {}),
         NEW c \in Client, ReadResponseEnd(c)
  PROVE  Delivers(Then)
<1>. DEFINE cl == clients[c]
            r  == cl.request
            k  == GotResponse(cl)
            w  == ForEach(Now, {c}, GotResponse)
<1>1. In(c, {"waiting_response"}) /\ AtEnd(cl)
  BY DEF ReadResponseEnd
<1>2. /\ cl \in ClientRecord /\ r \in Key /\ IsOf(Now, c, r)
      /\ ClientOk(cl) /\ cl.state = "waiting_response"
      /\ Now.clients = clients /\ Now.cache = cache /\ Now.map = request_clients_map
      /\ Now.stranded = stranded
  BY <1>1, RequestOf
<1>3. \/ /\ cl.should_write_to_cache
         /\ Becomes(IF Contains(cache, r)
                    THEN [w EXCEPT !.cache = CompleteEntry(@, r)] ELSE w)
      \/ /\ ~cl.should_write_to_cache
         /\ Becomes(IF cl.should_write_to_all
                    THEN ForEach(w, Listed(w, r), GotResponse) ELSE w)
  BY DEF ReadResponseEnd
<1>4. w = [clients |-> [clients EXCEPT ![c] = k], map |-> request_clients_map,
           cache |-> cache, stranded |-> stranded]
  <2>. DEFINE y == [d \in Client |-> IF d \in {c} THEN GotResponse(clients[d])
                                     ELSE clients[d]]
  <2>1. w = [Now EXCEPT !.clients = y]
    BY <1>2 DEF ForEach
  <2>2. y = [clients EXCEPT ![c] = k]
    <3>1. y[c] = k /\ \A d \in Client \ {c} : y[d] = clients[d]
      OBVIOUS
    <3>2. DOMAIN y = Client /\ y = [d \in Client |-> y[d]]
      OBVIOUS
    <3>3. clients \in [Client -> ClientRecord \cup {NoClient}]
      BY <1>2, WorldFacts
    <3>. HIDE DEF y, k
    <3>. QED
      BY <3>1, <3>2, <3>3
  <2>3. Now \in World
    BY WorldFacts
  <2>. HIDE DEF y, w, k
  <2>. QED
    BY <1>2, <2>1, <2>2, <2>3, Replaced
<1>5. /\ k # NoClient /\ k.state = "got_response"
      /\ k.request = r /\ k.conn = cl.conn /\ k.sent = cl.sent
      /\ k.chunks = cl.chunks /\ k.should_write_to_all = cl.should_write_to_all
  BY <1>2, ToldFacts
<1>6. CASE Contains(cache, r)
  <2>. DEFINE e == cache.entry[r]
              d == CompleteEntry(cache, r)
              f == d.entry[r]
              body == Body["ok"]
  <2>1. TakesFrom(cl, e) /\ cl.should_write_to_cache
    BY <1>2, <1>6, WithEntry
  <2>2. /\ IsPrefixOf(e.buffer, e.buffer) /\ IsPrefixOf(e.buffer, body)
        /\ e.buffer \in Seq(Block) /\ body \in Seq(Block)
    BY <1>2, <1>6, EntrySoFar
  <2>3. e.buffer = body
    <3>1. cl.conn.alive /\ cl.conn.answer = "ok" /\ cl.conn.pos = Len(e.buffer)
      BY <1>2, <2>1 DEF TakesFrom
    <3>2. Len(e.buffer) = Len(body)
      BY <1>1, <3>1 DEF AtEnd
    <3>. HIDE DEF e, body
    <3>3. Len(e.buffer) >= Len(body)
      BY <2>2, <3>2, LenProperties
    <3>. QED
      BY <2>2, <3>3, WholePrefix
  <2>4. /\ Contains(d, r) /\ f.completed /\ f.buffer = e.buffer
        /\ \A q \in Key \ {r} : d.entry[q] = cache.entry[q]
    <3>1. Sound(cache, 0) /\ r \in Present(cache)
      BY <1>2, <1>6, EntryIsTyped DEF Good, CacheOk, Delivers
    <3>. QED
      BY <3>1, CompletedEntry
  <2>5. TakesFrom(k, f)
    BY <1>5, <2>1, <2>4 DEF TakesFrom
  <2>6. Becomes([clients |-> [clients EXCEPT ![c] = k], map |-> request_clients_map,
                 cache |-> d, stranded |-> stranded])
    <3>1. Becomes([w EXCEPT !.cache = CompleteEntry(@, r)])
      BY <1>3, <1>6, <2>1
    <3>. DEFINE y == [clients EXCEPT ![c] = k]
    <3>2. w = [clients |-> y, map |-> request_clients_map, cache |-> cache,
               stranded |-> stranded]
      BY <1>4
    <3>. HIDE DEF y, w, r
    <3>3. [w EXCEPT !.cache = CompleteEntry(@, r)] = [w EXCEPT !.cache = d]
      BY <3>2
    <3>. HIDE DEF d
    <3>4. [w EXCEPT !.cache = d] = [clients |-> y, map |-> request_clients_map,
                                    cache |-> d, stranded |-> stranded]
      BY <3>2, Rebuilt
    <3>. QED
      BY <3>1, <3>3, <3>4 DEF y
  <2>7. e = cache.entry[r] /\ f = d.entry[r]
    OBVIOUS
  <2>8. /\ IsPrefixOf(e.buffer, f.buffer) /\ IsPrefixOf(f.buffer, Body["ok"])
        /\ f.completed /\ f.buffer = Body["ok"] /\ f.buffer = e.buffer
    BY <2>2, <2>3, <2>4
  <2>9. k # NoClient /\ k.request = r
    BY <1>5
  <2>. HIDE DEF e, f, d, k, r
  <2>. QED
    BY <1>2, <1>6, <2>4, <2>5, <2>6, <2>7, <2>8, <2>9, EntryGoesOn
<1>7. CASE ~Contains(cache, r)
  <2>1. /\ OnHisOwn(cl, r) /\ ~cl.should_write_to_all /\ ~cl.should_write_to_cache
    BY <1>2, <1>7, WithoutEntry
  <2>2. Becomes(w)
    BY <1>3, <2>1
  <2>3. Becomes([Now EXCEPT !.clients[c] = k])
    <3>. HIDE DEF w, k
    <3>1. w = [Now EXCEPT !.clients[c] = k]
      BY <1>2, <1>4, ChangedOne
    <3>. QED
      BY <2>2, <3>1
  <2>4. GetsError(cl, r)
    BY <1>2, <2>1 DEF OnHisOwn, Starts, Idle
  <2>5. k.conn.pos = Len(Body["error"])
    BY <1>1, <1>5, <2>4 DEF AtEnd, GetsError
  <2>6. GetsError(k, r)
    BY <1>5, <2>4, <2>5 DEF GetsError
  <2>7. OnHisOwn(k, r) /\ ~Idle(clients[c])
    BY <1>2, <1>5, <2>1, <2>6 DEF OnHisOwn, Idle
  <2>. HIDE DEF w, k, r
  <2>. QED
    BY <1>2, <1>5, <1>7, <2>3, <2>7, OwnGoesOn
<1>. QED
  BY <1>6, <1>7

LEMMA ObtainFacts ==
  ASSUME NEW cl \in ClientRecord, NEW other \in ClientRecord
  PROVE  LET k == ObtainServerConnection(cl, other)
         IN  /\ k \in ClientRecord /\ k # NoClient /\ k.request = cl.request
             /\ k.state = "waiting_response" /\ k.conn = other.conn /\ k.sent = cl.sent
<1>. DEFINE k == ObtainServerConnection(cl, other)
<1>1. /\ k \in ClientRecord /\ k.request = cl.request
      /\ k.state = "waiting_response" /\ k.conn = other.conn /\ k.sent = cl.sent
  BY DEF ObtainServerConnection, ClientRecord, State
<1>. HIDE DEF k
<1>. QED
  BY <1>1, MarkerAssumption DEF k

(* A client leaves: another one goes on fetching, or there is nobody left  *)
(* and the entry is dropped.                                               *)
LEMMA DiscardDelivers ==
  ASSUME NEW w, Good(w, {}), Delivers(w), NEW c \in Client, NEW r \in Key, IsOf(w, c, r)
  PROVE  Delivers(DiscardClient(w, c))
<1>. DEFINE v  == DiscardClient(w, c)
            l  == Without(w.map[r], c)
            cl == w.clients[c]
            e  == w.cache.entry[r]
            f  == v.cache.entry[r]
            Same   == /\ \A d \in Client \ {c} : v.clients[d] = w.clients[d]
                      /\ \/ cl.state # "waiting_response"
                         \/ \A h \in Elements(l) : ~IsReadingFromCache(w.clients[h])
            Heir(h) == /\ cl.state = "waiting_response"
                       /\ h \in Elements(l) \ {c}
                       /\ IsReadingFromCache(w.clients[h])
                       /\ v.clients[h] = ObtainServerConnection(w.clients[h], cl)
                       /\ \A d \in Client \ {c, h} : v.clients[d] = w.clients[d]
<1>1. /\ v.map = [w.map EXCEPT ![r] = l]
      /\ v.cache = DisuseEntry(w.cache, r)
      /\ v.stranded = w.stranded
      /\ v.clients[c] = NoClient
      /\ Same \/ \E h : Heir(h)
  BY DiscardFacts
<1>2. /\ w.map[r] \in Seq(Client) /\ OnceEach(w.map[r]) /\ c \in Elements(w.map[r])
      /\ \A d \in Client : d \in Elements(w.map[r]) <=> IsOf(w, d, r)
      /\ w.map \in [Key -> Seq(Client)]
      /\ \A d \in Client : w.clients[d] # NoClient =>
           w.clients[d] \in ClientRecord /\ ClientOk(w.clients[d])
      /\ cl \in ClientRecord /\ cl.request = r
  BY WorldFacts DEF IsOf
<1>3. /\ Elements(l) = Elements(w.map[r]) \ {c}
      /\ \A d \in Elements(l) : d \in Client \ {c} /\ IsOf(w, d, r)
  <2>1. Elements(l) = Elements(w.map[r]) \ {c}
    BY <1>2, WithoutFacts
  <2>2. \A d \in Elements(w.map[r]) : d \in Client
    BY <1>2 DEF Elements
  <2>. HIDE DEF l
  <2>. QED
    BY <1>2, <2>1, <2>2
<1>4. /\ \A q \in Key \ {r} : v.cache.entry[q] = w.cache.entry[q]
      /\ ~Contains(w.cache, r) => ~Contains(v.cache, r)
      /\ Contains(w.cache, r) /\ ~Contains(v.cache, r) => Len(w.map[r]) = 1
      /\ Contains(v.cache, r) /\ ~f.completed => Len(w.map[r]) > 1
      /\ Contains(v.cache, r) =>
           Contains(w.cache, r) /\ f.completed = e.completed /\ f.buffer = e.buffer
  BY <1>1, DisuseOne
<1>. HIDE DEF v, l
<1>5. ASSUME NEW h, Heir(h)
      PROVE  /\ h \in Client \ {c} /\ IsOf(w, h, r) /\ IsOf(v, h, r)
             /\ v.clients[h].conn = cl.conn /\ v.clients[h].sent = w.clients[h].sent
             /\ v.clients[h].state = "waiting_response"
             /\ w.clients[h].should_read_from_cache
             /\ w.clients[h].request = r /\ v.clients[h].request = r
  <2>1. h \in Client \ {c} /\ IsOf(w, h, r) /\ w.clients[h] \in ClientRecord
    BY <1>2, <1>3, <1>5 DEF IsOf
  <2>. DEFINE k == ObtainServerConnection(w.clients[h], cl)
  <2>2. /\ k \in ClientRecord /\ k # NoClient /\ k.request = w.clients[h].request
        /\ k.state = "waiting_response" /\ k.conn = cl.conn
        /\ k.sent = w.clients[h].sent
    <3>. HIDE DEF cl
    <3>. QED
      BY <1>2, <2>1, ObtainFacts
  <2>. HIDE DEF k
  <2>3. v.clients[h] = k
    BY <1>5 DEF k
  <2>. QED
    BY <1>5, <2>1, <2>2, <2>3 DEF IsOf, IsReadingFromCache
<1>6. \A d \in Client : IsOf(v, d, r) <=> IsOf(w, d, r) /\ d # c
  BY <1>1, <1>5 DEF IsOf
<1>7. OnCourse(v, r)
  <2>1. CASE ~Contains(w.cache, r)
    <3>1. NoEntryOnly(w, r)
      BY <2>1 DEF Delivers, OnCourse
    <3>2. \A d \in Client : IsOf(w, d, r) => ~w.clients[d].should_read_from_cache
      BY <2>1, WithoutEntry
    <3>3. \A d \in Client \ {c} : v.clients[d] = w.clients[d]
      BY <1>1, <1>5, <3>2
    <3>4. NoEntryOnly(v, r)
      BY <1>6, <3>1, <3>3 DEF NoEntryOnly
    <3>. QED
      BY <1>4, <2>1, <3>4 DEF OnCourse
  <2>2. CASE Contains(w.cache, r) /\ ~Contains(v.cache, r)
    <3>1. Elements(w.map[r]) = {c}
      BY <1>2, <1>4, <2>2, AloneInList
    <3>2. \A d \in Client : ~IsOf(v, d, r)
      BY <1>2, <1>6, <3>1
    <3>3. NoEntryOnly(v, r)
      BY <3>2 DEF NoEntryOnly
    <3>. QED
      BY <2>2, <3>3 DEF OnCourse
  <2>3. CASE Contains(v.cache, r)
    <3>1. InEntry(w, r) /\ EntryOk(w, r) /\ Contains(w.cache, r)
      <4>1. Contains(w.cache, r)
        BY <1>4, <2>3
      <4>. QED
        BY <4>1 DEF Delivers, OnCourse, Good, RequestOk
    <3>2. f.completed = e.completed /\ f.buffer = e.buffer
      BY <1>4, <2>3
    <3>. HIDE DEF e, f
    <3>3. CASE Same
      <4>1. \A d \in Client : IsOf(v, d, r) => TakesFrom(v.clients[d], f)
        BY <1>6, <3>1, <3>2, <3>3 DEF InEntry, TakesFrom, e
      <4>2. ASSUME ~f.completed PROVE \E d \in Client : Fetches(v, d, r)
        <5>1. PICK d \in Client : Fetches(w, d, r)
          BY <3>1, <3>2, <4>2 DEF InEntry, e
        <5>2. CASE d # c
          BY <1>6, <3>3, <5>1, <5>2 DEF Fetches
        <5>3. CASE d = c
          <6>1. cl.state = "waiting_response" /\ Fetches(w, c, r)
            BY <5>1, <5>3 DEF Fetches
          <6>2. PICK h \in Elements(w.map[r]) : h # c
            <7>1. Len(w.map[r]) > 1
              BY <1>4, <2>3, <4>2 DEF f
            <7>2. /\ 1 \in DOMAIN w.map[r] /\ 2 \in DOMAIN w.map[r]
              BY <1>2, <7>1, LenProperties
            <7>3. w.map[r][1] # w.map[r][2]
              BY <1>2, <7>2 DEF OnceEach
            <7>. QED
              BY <7>2, <7>3 DEF Elements
          <6>3. h \in Elements(l) /\ h \in Client /\ IsOf(w, h, r)
            BY <1>3, <6>2
          <6>4. ~Fetches(w, h, r)
            BY <3>1, <6>1, <6>2, <6>3 DEF EntryOk
          <6>5. w.clients[h].state = "got_response" /\ w.clients[h].should_read_from_cache
            BY <3>1, <6>3, <6>4 DEF EntryOk, Fetches
          <6>6. w.clients[h].conn = NoConn
            BY <3>1, <3>2, <4>2, <6>3, <6>5 DEF InEntry, TakesFrom, e
          <6>7. IsReadingFromCache(w.clients[h])
            BY <6>5, <6>6 DEF IsReadingFromCache
          <6>. QED
            BY <3>3, <6>1, <6>3, <6>7
        <5>. QED
          BY <5>2, <5>3
      <4>3. InEntry(v, r)
        BY <3>1, <3>2, <4>1, <4>2 DEF InEntry, e, f
      <4>. QED
        BY <2>3, <4>3 DEF OnCourse
    <3>4. ASSUME NEW h, Heir(h) PROVE OnCourse(v, r)
      <4>1. /\ h \in Client /\ IsOf(w, h, r) /\ IsOf(v, h, r) /\ Fetches(v, h, r)
            /\ v.clients[h].conn = cl.conn /\ v.clients[h].sent = w.clients[h].sent
        BY <1>5, <3>4 DEF Fetches
      <4>2. TakesFrom(cl, e) /\ TakesFrom(w.clients[h], e)
        BY <3>1, <4>1 DEF InEntry, e
      <4>3. TakesFrom(v.clients[h], f)
        BY <3>2, <3>4, <4>1, <4>2 DEF TakesFrom, Fetches
      <4>4. \A d \in Client : IsOf(v, d, r) => TakesFrom(v.clients[d], f)
        <5>. SUFFICES ASSUME NEW d \in Client, IsOf(v, d, r), d # h
                      PROVE  TakesFrom(v.clients[d], f)
          BY <4>3
        <5>1. v.clients[d] = w.clients[d] /\ IsOf(w, d, r)
          BY <1>6, <3>4
        <5>2. TakesFrom(w.clients[d], e)
          BY <3>1, <5>1 DEF InEntry, e
        <5>. QED
          BY <3>2, <5>1, <5>2 DEF TakesFrom
      <4>5. InEntry(v, r)
        BY <3>1, <3>2, <4>1, <4>4 DEF InEntry, e, f
      <4>. QED
        BY <2>3, <4>5 DEF OnCourse
    <3>. QED
      BY <1>1, <3>3, <3>4
  <2>. QED
    BY <2>1, <2>2, <2>3
<1>. DEFINE R == {r}
<1>8. Good(v, {})
  BY DiscardIsGood, GoodWeakens DEF v
<1>9. \A d \in Client : v.clients[d] = w.clients[d] \/ Concerns(w, v, d, R \cup {NoRequest})
  <2>1. \A d \in Client : v.clients[d] # NoClient => ClientOk(v.clients[d])
    BY <1>8, WorldFacts
  <2>. QED
    BY <1>1, <1>2, <1>5, <2>1 DEF Concerns
<1>10. /\ R \in SUBSET Key /\ \A q \in R : OnCourse(v, q)
       /\ \A q \in Key \ R : Keeps(w, v, q) /\ v.stranded = {}
  BY <1>1, <1>2, <1>4, <1>7 DEF Keeps, Delivers
<1>11. v.stranded = {}
  BY <1>1 DEF Delivers
<1>. HIDE DEF R
<1>12. Delivers(v)
  BY <1>9, <1>10, <1>11, OthersOnCourse
<1>. QED
  BY <1>12 DEF v

(* The next state is that of the world that a step leads to. *)
LEMMA BecomesThen ==
  ASSUME NEW z, NEW T, Good(z, T), Becomes(z)
  PROVE  z = Then
<1>1. z = [clients |-> z.clients, map |-> z.map, cache |-> z.cache,
           stranded |-> z.stranded]
  BY WorldFacts
<1>. QED
  BY <1>1 DEF Becomes, Then

LEMMA AcceptDelivers ==
  ASSUME Good(Now, {}), Delivers(Now), NEW c \in Client, AcceptClient(c)
  PROVE  Delivers(Then)
<1>1. Now.clients[c] = NoClient /\ Becomes([Now EXCEPT !.clients[c] = NewClient])
  BY DEF AcceptClient, Live
<1>. DEFINE z == [Now EXCEPT !.clients[c] = NewClient]
<1>2. Good(z, {})
  BY <1>1, UnlistedIsGood
<1>3. Delivers(z)
  BY <1>1, UnlistedDelivers
<1>. HIDE DEF z
<1>4. z = Then
  BY <1>1, <1>2, BecomesThen DEF z
<1>. QED
  BY <1>3, <1>4

LEMMA ReadRequestFailsDelivers ==
  ASSUME Good(Now, {}), Delivers(Now), NEW c \in Client, ReadRequestFails(c)
  PROVE  Delivers(Then)
<1>1. /\ Now.clients[c] # NoClient /\ Now.clients[c].state = "waiting_for_request"
      /\ Becomes(DiscardClient(Now, c))
  BY DEF ReadRequestFails, In, Live, Now
<1>2. Now.clients[c].request = NoRequest
  BY <1>1, WorldFacts DEF ClientOk
<1>. DEFINE z == [Now EXCEPT !.clients[c] = NoClient]
<1>3. Becomes(z)
  BY <1>1, <1>2 DEF DiscardClient
<1>4. Good(z, {})
  BY <1>1, UnlistedIsGood
<1>5. Delivers(z)
  BY <1>1, UnlistedDelivers
<1>. HIDE DEF z
<1>6. z = Then
  BY <1>3, <1>4, BecomesThen
<1>. QED
  BY <1>5, <1>6

LEMMA ReadRequestDelivers ==
  ASSUME Undisturbed, Good(Now, {}), Delivers(Now), Good(Then, {}),
         NEW c \in Client, NEW r \in Key, ReadRequest(c, r)
  PROVE  Delivers(Then)
<1>1. clients[c] = NewClient /\ \E k, d : Joins(c, r, k, d)
  BY ReadRequestFacts DEF Undisturbed
<1>2. PICK k, d : Joins(c, r, k, d)
  BY <1>1
<1>. DEFINE v == [clients |-> [clients EXCEPT ![c] = k],
                  map |-> [request_clients_map EXCEPT ![r] = Append(@, c)],
                  cache |-> d, stranded |-> stranded]
<1>3. Becomes(v)
  BY <1>2 DEF Joins
<1>4. v = Then
  BY <1>3 DEF Becomes, Then
<1>5. v = [clients |-> [clients EXCEPT ![c] = k],
           map |-> [request_clients_map EXCEPT ![r] = Append(@, c)],
           cache |-> d, stranded |-> stranded]
  OBVIOUS
<1>. HIDE DEF v
<1>6. Good(v, {})
  BY <1>4
<1>7. Delivers(v)
  BY <1>1, <1>2, <1>5, <1>6, JoinDelivers
<1>. QED
  BY <1>4, <1>7

(* Nothing changes but the order in which entries are evicted. *)
LEMMA TouchDelivers ==
  ASSUME NEW w, Good(w, {}), Delivers(w), NEW v, v.clients = w.clients, v.map = w.map,
         v.stranded = w.stranded, v.cache.entry = w.cache.entry
  PROVE  Delivers(v)
<1>. DEFINE R == {}
<1>1. /\ R \in SUBSET Key /\ \A q \in R : OnCourse(v, q)
      /\ \A q \in Key \ R : Keeps(w, v, q)
      /\ v.stranded = {} /\ \A c \in Client : v.clients[c] = w.clients[c]
  BY DEF Keeps, Delivers
<1>. HIDE DEF R
<1>. QED
  BY <1>1, OthersOnCourse

LEMMA DoneDelivers ==
  ASSUME Good(Now, {}), Delivers(Now), NEW c \in Client, SendCachedDone(c)
  PROVE  Delivers(Then)
<1>. DEFINE cl == clients[c]
            r  == cl.request
            d  == Touch(cache, r)
            w  == [clients |-> clients, map |-> request_clients_map, cache |-> d,
                   stranded |-> stranded]
<1>1. Sending(c) /\ Contains(cache, r)
  BY DEF SendCachedDone
<1>2. /\ cl \in ClientRecord /\ r \in Key /\ IsOf(Now, c, r) /\ ClientOk(cl)
      /\ cl # NoClient /\ Now.clients = clients /\ Now.cache = cache
      /\ Now.map = request_clients_map /\ Now.stranded = stranded
  BY <1>1, SendingFacts DEF Now
<1>3. Becomes(DiscardClient(w, c))
  <2>1. Becomes(DiscardClient([Now EXCEPT !.cache = Touch(@, r)], c))
    BY DEF SendCachedDone
  <2>2. [Now EXCEPT !.cache = Touch(@, r)] = [Now EXCEPT !.cache = d]
    BY <1>2
  <2>. HIDE DEF d, r
  <2>3. [Now EXCEPT !.cache = d] = w
    BY Rebuilt DEF Now
  <2>. QED
    BY <2>1, <2>2, <2>3
<1>4. Good(w, {})
  <2>1. [clients EXCEPT ![c] = cl] = clients
    BY <1>2, WorldFacts
  <2>2. /\ cl = Now.clients[c] /\ Alike(Now.clients[c], cl) /\ cl \in ClientRecord
        /\ Contains(Now.cache, r) /\ d = Touch(Now.cache, r)
    BY <1>1, <1>2 DEF Alike
  <2>. HIDE DEF d, r, cl
  <2>3. Good([clients |-> [Now.clients EXCEPT ![c] = cl], map |-> Now.map,
              cache |-> d, stranded |-> Now.stranded], {})
    BY <1>2, <2>2, DeliveredIsGood
  <2>. QED
    BY <1>2, <2>1, <2>3
<1>5. Delivers(w)
  <2>1. d.entry = cache.entry
    BY <1>1, <1>2, TouchedEntry
  <2>2. /\ w.clients = Now.clients /\ w.map = Now.map /\ w.stranded = Now.stranded
        /\ w.cache.entry = Now.cache.entry
    BY <1>2, <2>1
  <2>. HIDE DEF w
  <2>. QED
    BY <2>2, TouchDelivers
<1>6. IsOf(w, c, r)
  BY <1>2 DEF IsOf
<1>. HIDE DEF w, r
<1>7. Good(DiscardClient(w, c), {}) /\ Delivers(DiscardClient(w, c))
  <2>1. Good(w, {c})
    BY <1>4, GoodWeakens
  <2>. QED
    BY <1>2, <1>4, <1>5, <1>6, <2>1, DiscardIsGood, DiscardDelivers
<1>. QED
  BY <1>3, <1>7, BecomesThen

LEMMA LeavingDelivers ==
  ASSUME Good(Now, {}), Delivers(Now), NEW c \in Client,
         ClientFails(c) \/ OriginHangsUp(c) \/ SendUncachedDone(c)
  PROVE  Delivers(Then)
<1>. DEFINE S == {"sending_request", "waiting_response_status_code", "waiting_response",
                  "getting_response_from_another_client", "got_response"}
<1>1. In(c, S) /\ Becomes(DiscardClient(Now, c))
  BY DEF ClientFails, OriginHangsUp, SendUncachedDone, Sending, In
<1>2. "waiting_for_request" \notin S
  OBVIOUS
<1>. HIDE DEF S
<1>3. clients[c].request \in Key /\ IsOf(Now, c, clients[c].request)
  BY <1>1, <1>2, RequestOf
<1>4. Good(DiscardClient(Now, c), {}) /\ Delivers(DiscardClient(Now, c))
  BY <1>3, DiscardNow, DiscardDelivers
<1>. QED
  BY <1>1, <1>4, BecomesThen

LEMMA EndDelivers == ProcessEnds => Delivers(Then)
<1>. SUFFICES ASSUME ProcessEnds PROVE Delivers(Then)
  OBVIOUS
<1>1. /\ Then.clients = [c \in Client |-> NoClient] /\ Then.stranded = {}
      /\ \A r \in Key : ~Contains(Then.cache, r)
  <2>1. Then.cache = EmptyCache /\ Then.stranded = {}
        /\ Then.clients = [c \in Client |-> NoClient]
    BY DEF ProcessEnds, Then
  <2>. QED
    BY <2>1, EmptyCacheSound DEF Present
<1>2. \A c \in Client, r \in Key : ~IsOf(Then, c, r)
  BY <1>1 DEF IsOf
<1>. QED
  BY <1>1, <1>2 DEF Delivers, OnCourse, NoEntryOnly

----------------------------------------------------------------------------
(* The first chunk of an answer.                                           *)

(* Who waits may be connected, and nobody else changes. *)
LEMMA PreparedFacts ==
  ASSUME NEW w, NEW T, Good(w, T), NEW r \in Key, NEW n
  PROVE  LET v == PrepareWaiting(w, r, n)
         IN  /\ v = [clients |-> v.clients, map |-> w.map, cache |-> w.cache,
                     stranded |-> w.stranded]
             /\ \A d \in Client :
                  \/ v.clients[d] = w.clients[d]
                  \/ /\ IsOf(w, d, r) /\ Idle(w.clients[d])
                     /\ v.clients[d] = PrepareForSendingRequest(w.clients[d])
<1>. DEFINE v     == PrepareWaiting(w, r, n)
            woken == {w.map[r][i] : i \in {j \in WaitingAt(w, r) :
                                Cardinality({h \in WaitingAt(w, r) : h <= j}) <= n}}
            y     == [d \in Client |-> IF d \in woken
                                       THEN PrepareForSendingRequest(w.clients[d])
                                       ELSE w.clients[d]]
<1>1. w \in World /\ \A d \in Client : d \in Elements(w.map[r]) <=> IsOf(w, d, r)
  BY WorldFacts
<1>2. \A d \in woken : d \in Elements(w.map[r]) /\ Idle(w.clients[d])
  BY DEF WaitingAt, Elements, Idle
<1>3. v = [w EXCEPT !.clients = y]
  BY DEF PrepareWaiting, ForEach
<1>. HIDE DEF woken
<1>4. \A d \in Client : \/ y[d] = w.clients[d]
                        \/ d \in woken /\ y[d] = PrepareForSendingRequest(w.clients[d])
  OBVIOUS
<1>. HIDE DEF y, v
<1>5. v = [clients |-> y, map |-> w.map, cache |-> w.cache, stranded |-> w.stranded]
  BY <1>1, <1>3, Replaced
<1>6. v.clients = y
  BY <1>5
<1>. QED
  BY <1>1, <1>2, <1>4, <1>5, <1>6 DEF v

LEMMA ConnectedFacts ==
  ASSUME NEW cl \in ClientRecord
  PROVE  LET k == PrepareForSendingRequest(cl)
         IN  /\ k # NoClient /\ k.request = cl.request /\ k.state = "sending_request"
             /\ k.conn = NewConnection /\ k.sent = cl.sent /\ k.chunks = cl.chunks
             /\ k.should_write_to_all = cl.should_write_to_all
<1>. DEFINE k == PrepareForSendingRequest(cl)
<1>1. k \in ClientRecord /\ k.request = cl.request
  BY UpdateFacts
<1>2. /\ k.state = "sending_request" /\ k.conn = NewConnection
      /\ k.sent = cl.sent /\ k.chunks = cl.chunks
      /\ k.should_write_to_all = cl.should_write_to_all
  BY DEF PrepareForSendingRequest, ClientRecord
<1>. QED
  BY <1>1, <1>2, MarkerAssumption

(* A client of a request without an entry gets an "error" answer, and some *)
(* of those who waited for him ask for their own.                          *)
LEMMA WakingDelivers ==
  ASSUME NEW w, Good(w, {}), Delivers(w), NEW c \in Client, NEW r \in Key \ Found,
         IsOf(w, c, r), ~Contains(w.cache, r),
         NEW v, Good(v, {}), v.stranded = {}, v.map = w.map, v.cache = w.cache,
         IsOf(v, c, r), OnHisOwn(v.clients[c], r),
         \A d \in Client \ {c} :
           \/ v.clients[d] = w.clients[d]
           \/ /\ IsOf(w, d, r) /\ Idle(w.clients[d])
              /\ v.clients[d] = PrepareForSendingRequest(w.clients[d])
  PROVE  Delivers(v)
<1>1. w.stranded = {} /\ OnCourse(w, r) /\ NoEntryOnly(w, r)
  BY DEF Delivers, OnCourse
<1>2. \A d \in Client : v.clients[d] # NoClient => ClientOk(v.clients[d])
  BY WorldFacts
<1>3. ASSUME NEW d \in Client
      PROVE  /\ \/ v.clients[d] = w.clients[d]
                \/ Concerns(w, v, d, {r} \cup {NoRequest})
             /\ IsOf(v, d, r) => OnHisOwn(v.clients[d], r)
  <2>1. CASE d = c
    BY <1>2, <2>1 DEF Concerns, IsOf
  <2>2. CASE v.clients[d] = w.clients[d]
    BY <1>1, <2>2 DEF NoEntryOnly, IsOf
  <2>3. CASE d # c /\ v.clients[d] # w.clients[d]
    <3>. DEFINE cl == w.clients[d]
                k  == PrepareForSendingRequest(cl)
    <3>1. IsOf(w, d, r) /\ Idle(cl) /\ v.clients[d] = k
      BY <2>3
    <3>2. cl \in ClientRecord /\ cl.request = r
      BY <3>1, WorldFacts DEF IsOf
    <3>3. /\ k # NoClient /\ k.request = cl.request /\ k.state = "sending_request"
          /\ k.conn = NewConnection /\ k.sent = cl.sent /\ k.chunks = cl.chunks
          /\ k.should_write_to_all = cl.should_write_to_all
      BY <3>2, ConnectedFacts
    <3>4. OnHisOwn(cl, r) /\ ~GetsError(cl, r)
      BY <1>1, <3>1 DEF NoEntryOnly, GetsError, Idle
    <3>. HIDE DEF cl, k
    <3>5. OnHisOwn(k, r)
      BY <3>3, <3>4 DEF OnHisOwn, Starts
    <3>6. Concerns(w, v, d, {r} \cup {NoRequest})
      BY <1>2, <3>1, <3>2, <3>3 DEF Concerns, cl
    <3>. QED
      BY <3>1, <3>5, <3>6
  <2>. QED
    BY <2>1, <2>2, <2>3
<1>4. OnCourse(v, r)
  BY <1>3 DEF OnCourse, NoEntryOnly
<1>5. \A q \in Key \ {r} : Keeps(w, v, q)
  BY <1>1 DEF Keeps
<1>. DEFINE R == {r}
<1>6. /\ R \in SUBSET Key /\ \A q \in R : OnCourse(v, q)
      /\ \A q \in Key \ R : Keeps(w, v, q)
      /\ \A d \in Client : v.clients[d] = w.clients[d]
                             \/ Concerns(w, v, d, R \cup {NoRequest})
  BY <1>3, <1>4, <1>5
<1>. HIDE DEF R
<1>. QED
  BY <1>6, OthersOnCourse

(* Who asked for his own answer and gets the beginning of an "error".      *)
LEMMA FirstOfError ==
  ASSUME NEW cl \in ClientRecord, ClientOk(cl), cl.state \in Fetching,
         cl.conn = NewConnection, cl.sent = <<>>, cl.chunks = <<>>,
         ~cl.should_write_to_all,
         NEW rd \in Reading(cl), rd.answer = "error"
  PROVE  LET l == KeepsChunk(HasRead(cl, rd), ChunkRead(cl, rd))
         IN  OnHisOwn(ReadsOn(l), cl.request) /\ ReadsOn(l).request = cl.request
             /\ ReadsOn(l) \in ClientRecord /\ "error" \in Answers[cl.request]
<1>. DEFINE chunk == ChunkRead(cl, rd)
            k     == HasRead(cl, rd)
            l     == KeepsChunk(k, chunk)
            m     == ReadsOn(l)
            body  == Body["error"]
            r     == cl.request
<1>1. k \in ClientRecord /\ k.request = r /\ chunk \in Seq(Block)
  BY ReadingFacts
<1>2. /\ k.sent = <<>> /\ k.chunks = <<>> /\ ~k.should_write_to_all
      /\ k.conn # NoConn /\ k.conn.answer = "error" /\ k.conn.alive
      /\ rd.len \in Nat /\ k.conn.pos = 0 + rd.len /\ 0 + rd.len <= Len(body)
      /\ "error" \in Answers[r]
      /\ chunk = SubSeq(body, 0 + 1, 0 + rd.len)
  <2>1. cl.conn.pos = 0 /\ cl.conn.answer = "unknown"
    BY DEF NewConnection
  <2>2. /\ k.sent = cl.sent /\ k.chunks = cl.chunks
        /\ k.should_write_to_all = cl.should_write_to_all
        /\ k.conn # NoConn /\ k.conn.answer = rd.answer /\ k.conn.alive
        /\ cl.conn.pos \in Nat /\ rd.len \in Nat
        /\ k.conn.pos = cl.conn.pos + rd.len
        /\ cl.conn.pos + rd.len <= Len(Body[rd.answer])
        /\ IF cl.conn.answer = "unknown" THEN rd.answer \in Answers[r]
           ELSE rd.answer = cl.conn.answer
        /\ chunk = SubSeq(Body[rd.answer], cl.conn.pos + 1, cl.conn.pos + rd.len)
    BY HasReadFacts
  <2>. HIDE DEF k, chunk, r
  <2>. QED
    BY <2>1, <2>2
<1>. HIDE DEF k, chunk, r
<1>3. /\ l \in ClientRecord /\ l.chunks = Append(k.chunks, chunk)
      /\ l.request = k.request /\ l.conn = k.conn
      /\ l.sent = k.sent /\ l.should_write_to_all = k.should_write_to_all
  BY <1>1, KeepsChunkFacts
<1>. HIDE DEF l
<1>4. /\ m \in ClientRecord /\ m.chunks = l.chunks /\ m.state = "waiting_response"
      /\ m.request = l.request /\ m.conn = l.conn
      /\ m.sent = l.sent /\ m.should_write_to_all = l.should_write_to_all
  BY <1>3 DEF ReadsOn, ClientRecord, State
<1>. HIDE DEF m
<1>5. /\ IsPrefixOf(<<>>, body) /\ Len(<<>>) = 0
      /\ InPieces(Append(<<>>, chunk), body, 0, 0 + rd.len)
  <2>. DEFINE none == <<>>
  <2>1. body \in Seq(Block) /\ 0 \in 0..Len(body) /\ Len(body) \in Nat
    BY BodyFacts
  <2>2. none \in Seq(Seq(Block))
    OBVIOUS
  <2>. HIDE DEF body
  <2>3. InPieces(none, body, 0, 0)
    BY <2>1, NoPieces
  <2>. HIDE DEF none
  <2>4. InPieces(Append(none, SubSeq(body, 0 + 1, 0 + rd.len)), body, 0, 0 + rd.len)
    <3>1. 0 \in Nat
      OBVIOUS
    <3>. QED
      BY <1>2, <2>1, <2>2, <2>3, <3>1, OnePieceMore
  <2>5. IsPrefixOf(body, body)
    BY <2>1, SubSeqFull DEF IsPrefixOf
  <2>6. IsPrefixOf(<<>>, body)
    BY <2>1, <2>5, WholePrefix
  <2>. QED
    BY <1>2, <2>4, <2>6 DEF none
<1>6. GetsError(m, r)
  <2>1. m.sent = <<>> /\ m.conn = k.conn /\ m.chunks = Append(<<>>, chunk)
    BY <1>2, <1>3, <1>4
  <2>2. InPieces(m.chunks, body, Len(m.sent), m.conn.pos)
    BY <1>2, <1>5, <2>1
  <2>3. IsPrefixOf(m.sent, body)
    BY <1>5, <2>1
  <2>. QED
    BY <1>2, <1>4, <2>1, <2>2, <2>3 DEF GetsError
<1>7. OnHisOwn(m, r) /\ m.request = r
  BY <1>1, <1>2, <1>3, <1>4, <1>6 DEF OnHisOwn
<1>. QED
  BY <1>2, <1>4, <1>7 DEF m, l, k, chunk, r

LEMMA ErrorStatusDelivers ==
  ASSUME Undisturbed, Good(Now, {}), Delivers(Now), Good(Then, {}),
         NEW c \in Client, NEW r \in Key, IsOf(Now, c, r), ~Contains(cache, r),
         clients[c] \in ClientRecord, ClientOk(clients[c]), clients[c].request = r,
         clients[c].state = "waiting_response_status_code",
         clients[c].conn = NewConnection, clients[c].sent = <<>>,
         clients[c].chunks = <<>>, ~clients[c].should_write_to_all,
         NEW rd \in Reading(clients[c]), rd.answer = "error",
         StatusIsError(AfterReading(Now, c, rd), c, ChunkRead(clients[c], rd))
  PROVE  Delivers(Then)
<1>. DEFINE cl    == clients[c]
            w     == AfterReading(Now, c, rd)
            chunk == ChunkRead(cl, rd)
            k     == HasRead(cl, rd)
            l     == KeepsChunk(k, chunk)
            m     == ReadsOn(l)
            v     == BufferChunk(w, {c}, chunk)
            None  == {}
<1>1. /\ Now.clients = clients /\ Now.cache = cache /\ Now.map = request_clients_map
      /\ Now.stranded = stranded /\ stranded = {}
  BY DEF Now, Delivers
<1>2. cl.state \in Fetching
  BY DEF Fetching
<1>3. OnHisOwn(m, r) /\ m.request = r /\ m \in ClientRecord /\ r \in Key \ Found
  <2>1. OnHisOwn(m, cl.request) /\ m.request = cl.request
        /\ m \in ClientRecord /\ "error" \in Answers[cl.request]
    BY <1>2, FirstOfError
  <2>2. "error" \in Answers[r] => r \notin Found
    BY DEF Undisturbed, Found
  <2>. HIDE DEF m
  <2>. QED
    BY <2>1, <2>2
<1>4. /\ k \in ClientRecord /\ ClientOk(k) /\ k.request = r /\ k.state = cl.state
      /\ k.should_read_from_cache = cl.should_read_from_cache
      /\ k.should_write_to_cache = cl.should_write_to_cache
      /\ chunk \in Seq(Block)
  BY <1>2, ReadingFacts
<1>5. /\ l \in ClientRecord /\ l.request = k.request /\ l.state = k.state
      /\ l.conn = k.conn /\ l.should_read_from_cache = k.should_read_from_cache
      /\ l.should_write_to_cache = k.should_write_to_cache
  <2>1. /\ l \in ClientRecord /\ l.request = k.request /\ l.state = k.state
        /\ l.conn = k.conn
    BY <1>4, KeepsChunkFacts
  <2>. HIDE DEF k, chunk
  <2>2. l.should_read_from_cache = k.should_read_from_cache
        /\ l.should_write_to_cache = k.should_write_to_cache
    BY <1>4 DEF KeepsChunk, ClientRecord
  <2>. QED
    BY <2>1, <2>2
<1>6. w = [Now EXCEPT !.clients[c] = k] /\ w.clients[c].request = r
  <2>1. w = [Now EXCEPT !.clients[c] = k]
    BY <1>1 DEF AfterReading, HasRead
  <2>. HIDE DEF w, k
  <2>2. w = [clients |-> [Now.clients EXCEPT ![c] = k], map |-> Now.map,
             cache |-> Now.cache, stranded |-> Now.stranded]
    BY <2>1, ChangedOne
  <2>3. [Now.clients EXCEPT ![c] = k][c] = k
    BY WorldFacts
  <2>4. w.clients[c] = k
    BY <2>2, <2>3
  <2>. QED
    BY <1>4, <2>1, <2>4
<1>. HIDE DEF m
<1>7. v = [Now EXCEPT !.clients[c] = l]
  <2>. HIDE DEF w, k, chunk
  <2>1. BufferChunk([Now EXCEPT !.clients[c] = k], {c}, chunk) =
          [Now EXCEPT !.clients[c] = KeepsChunk(k, chunk)]
    <3>. HIDE DEF v, l, cl
    <3>. SUFFICES \A x, y : BufferChunk([Now EXCEPT !.clients[c] = x], {c}, y) =
                              [Now EXCEPT !.clients[c] = KeepsChunk(x, y)]
      OBVIOUS
    <3>. QED
      BY BufferOne
  <2>. HIDE DEF v, l
  <2>2. v = BufferChunk(w, {c}, chunk) /\ l = KeepsChunk(k, chunk)
    BY DEF v, l
  <2>. QED
    BY <1>6, <2>1, <2>2
<1>. HIDE DEF w, k, l, chunk, v
<1>8. PICK n : LET u == PrepareWaiting(v, r, n)
               IN  Becomes([u EXCEPT !.clients[c].state = "waiting_response"])
  <2>1. PICK n \in Prepared(v, r) :
          LET u == PrepareWaiting(v, r, n)
          IN  IF AllPrepared(v, r, n)
              THEN Becomes([u EXCEPT !.clients[c].state = "waiting_response"])
              ELSE RecoverFromStatusError(u, c)
    <3>1. StatusIsError(w, c, chunk)
      BY DEF w, chunk, cl
    <3>. QED
      BY <1>6, <3>1 DEF StatusIsError, v
  <2>2. AllPrepared(v, r, n)
    BY <2>1 DEF Undisturbed, Prepared, AllPrepared
  <2>. QED
    BY <2>1, <2>2
<1>9. /\ Good(v, None) /\ v.clients[c] = l /\ v.cache = cache
      /\ v.map = request_clients_map /\ v.stranded = stranded
      /\ \A h \in Client \ {c} : v.clients[h] = clients[h]
  <2>1. Good(v, None) /\ IsOf(v, c, r) /\ v.clients[c] = l /\ v.cache = Now.cache
    <3>1. None \in SUBSET {c} /\ Good(Now, None) /\ c \notin None
      OBVIOUS
    <3>2. /\ l.should_read_from_cache => Now.clients[c].should_read_from_cache
          /\ l.should_write_to_cache => Now.clients[c].should_write_to_cache
      BY <1>1, <1>4, <1>5
    <3>3. l \in ClientRecord /\ l.request = r /\ ClientOk(l)
      BY <1>4, <1>5 DEF ClientOk
    <3>. HIDE DEF None
    <3>4. ~Contains(Now.cache, r)
      BY <1>1
    <3>. DEFINE z == [Now EXCEPT !.clients[c] = l]
    <3>5. Good(z, None) /\ IsOf(z, c, r) /\ z.clients[c] = l /\ z.cache = Now.cache
      BY <3>1, <3>2, <3>3, <3>4, ChangeOneAbsent
    <3>. HIDE DEF z
    <3>6. v = z
      BY <1>7 DEF z
    <3>. QED
      BY <3>5, <3>6
  <2>2. v = [clients |-> [Now.clients EXCEPT ![c] = l], map |-> Now.map,
             cache |-> Now.cache, stranded |-> Now.stranded]
    BY <1>7, ChangedOne
  <2>3. \A h \in Client \ {c} : [Now.clients EXCEPT ![c] = l][h] = Now.clients[h]
    BY WorldFacts
  <2>. QED
    BY <1>1, <2>1, <2>2, <2>3
<1>. DEFINE u == PrepareWaiting(v, r, n)
<1>10. /\ u = [clients |-> u.clients, map |-> v.map, cache |-> v.cache,
               stranded |-> v.stranded]
       /\ \A d \in Client :
            \/ u.clients[d] = v.clients[d]
            \/ /\ IsOf(v, d, r) /\ Idle(v.clients[d])
               /\ u.clients[d] = PrepareForSendingRequest(v.clients[d])
  BY <1>9, PreparedFacts
<1>11. u.clients \in [Client -> ClientRecord \cup {NoClient}]
  <2>1. Good(u, None)
    <3>1. IsOf(v, c, r) /\ ~Contains(v.cache, r) /\ None \in SUBSET {c}
      BY <1>4, <1>5, <1>9, MarkerAssumption DEF IsOf
    <3>. HIDE DEF None
    <3>. QED
      BY <1>9, <3>1, PrepareIsGood
  <2>. HIDE DEF u
  <2>. QED
    BY <2>1, WorldFacts
<1>12. u.clients[c] = l
  BY <1>4, <1>5, <1>9, <1>10 DEF Idle
<1>. HIDE DEF u
<1>13. [u EXCEPT !.clients[c].state = "waiting_response"] =
         [clients |-> [u.clients EXCEPT ![c] = m], map |-> v.map, cache |-> v.cache,
          stranded |-> v.stranded]
  <2>. DEFINE y == [u.clients EXCEPT ![c] = m]
  <2>1. [u EXCEPT !.clients[c].state = "waiting_response"] = [u EXCEPT !.clients = y]
    BY <1>12 DEF m, ReadsOn
  <2>. HIDE DEF y
  <2>2. [u EXCEPT !.clients = y] =
          [clients |-> y, map |-> v.map, cache |-> v.cache, stranded |-> v.stranded]
    BY <1>10, Rebuilt
  <2>. QED
    BY <2>1, <2>2 DEF y
<1>14. /\ Then.clients = [u.clients EXCEPT ![c] = m] /\ Then.map = v.map
       /\ Then.cache = v.cache /\ Then.stranded = v.stranded
  BY <1>8, <1>13 DEF Becomes, Then, u
<1>15. Then.clients[c] = m /\ \A d \in Client \ {c} : Then.clients[d] = u.clients[d]
  BY <1>11, <1>14
<1>16. \A d \in Client \ {c} :
         \/ Then.clients[d] = Now.clients[d]
         \/ /\ IsOf(Now, d, r) /\ Idle(Now.clients[d])
            /\ Then.clients[d] = PrepareForSendingRequest(Now.clients[d])
  BY <1>1, <1>9, <1>10, <1>15 DEF IsOf
<1>17. /\ IsOf(Then, c, r) /\ OnHisOwn(Then.clients[c], r) /\ ~Contains(Now.cache, r)
       /\ Then.stranded = {} /\ Then.map = Now.map /\ Then.cache = Now.cache
  BY <1>1, <1>3, <1>9, <1>14, <1>15, MarkerAssumption DEF IsOf
<1>. QED
  BY <1>3, <1>16, <1>17, WakingDelivers

(* A client of a request without an entry gets an "ok" answer: its first   *)
(* chunk is the entry, and whoever waited for him reads from there.        *)
LEMMA ReadersFacts ==
  ASSUME NEW cl \in ClientRecord
  PROVE  LET k == GetResponseFromCache(cl)
         IN  /\ k # NoClient /\ k.request = cl.request /\ k.state = "got_response"
             /\ k.conn = cl.conn /\ k.sent = cl.sent
<1>. DEFINE k == GetResponseFromCache(cl)
<1>1. k \in ClientRecord /\ k.request = cl.request
  BY UpdateFacts
<1>2. k.state = "got_response" /\ k.conn = cl.conn /\ k.sent = cl.sent
  BY DEF GetResponseFromCache, ClientRecord
<1>. QED
  BY <1>1, <1>2, MarkerAssumption

LEMMA SharingDelivers ==
  ASSUME NEW w, Good(w, {}), Delivers(w), NEW c \in Client, NEW r \in Found,
         IsOf(w, c, r), ~Contains(w.cache, r), ~Idle(w.clients[c]),
         NEW v, Good(v, {}), v.stranded = {}, v.map = w.map,
         Contains(v.cache, r), ~v.cache.entry[r].completed,
         IsPrefixOf(v.cache.entry[r].buffer, Body["ok"]),
         \A q \in Key \ {r} : \/ v.cache.entry[q] = w.cache.entry[q]
                              \/ v.cache.entry[q] = NoEntry /\ w.cache.entry[q].in_use = 0,
         IsOf(v, c, r), v.clients[c].state = "waiting_response",
         TakesFrom(v.clients[c], v.cache.entry[r]),
         \A d \in Client \ {c} :
           v.clients[d] = IF IsOf(w, d, r) THEN GetResponseFromCache(w.clients[d])
                          ELSE w.clients[d]
  PROVE  Delivers(v)
<1>. DEFINE e == v.cache.entry[r]
<1>1. r \in Key /\ w.stranded = {} /\ NoEntryOnly(w, r)
  BY DEF Delivers, OnCourse, Found
<1>2. \A d \in Client : v.clients[d] # NoClient => ClientOk(v.clients[d])
  BY WorldFacts
<1>3. e.buffer \in Seq(Block)
  BY <1>1, EntryIsTyped
<1>4. IsPrefixOf(<<>>, e.buffer)
  <2>1. IsPrefixOf(e.buffer, e.buffer)
    BY <1>3, SubSeqFull, LenProperties DEF IsPrefixOf
  <2>. HIDE DEF e
  <2>. QED
    BY <1>3, <2>1, WholePrefix
<1>5. ASSUME NEW d \in Client \ {c}, IsOf(w, d, r)
      PROVE  /\ Concerns(w, v, d, {r} \cup {NoRequest})
             /\ TakesFrom(v.clients[d], e)
  <2>. DEFINE cl == w.clients[d]
              k  == GetResponseFromCache(cl)
  <2>1. Idle(cl) /\ cl.sent = <<>>
    <3>1. Idle(cl)
      BY <1>1, <1>5 DEF NoEntryOnly
    <3>2. OnHisOwn(cl, r)
      BY <1>1, <1>5 DEF NoEntryOnly
    <3>. QED
      BY <3>1, <3>2 DEF OnHisOwn, GetsError, Idle
  <2>2. cl \in ClientRecord /\ cl.request = r /\ cl.conn = NoConn /\ cl # NoClient
    <3>1. cl \in ClientRecord /\ ClientOk(cl) /\ cl.request = r /\ cl # NoClient
      BY <1>5, WorldFacts DEF IsOf
    <3>. HIDE DEF cl
    <3>. QED
      BY <2>1, <3>1 DEF ClientOk, Idle
  <2>3. v.clients[d] = k
    BY <1>5
  <2>4. /\ k # NoClient /\ k.request = cl.request /\ k.state = "got_response"
        /\ k.conn = cl.conn /\ k.sent = cl.sent
    BY <2>2, ReadersFacts
  <2>. HIDE DEF k, e
  <2>5. TakesFrom(k, e)
    BY <1>4, <2>1, <2>2, <2>4 DEF TakesFrom
  <2>6. Concerns(w, v, d, {r} \cup {NoRequest})
    BY <1>2, <2>2, <2>3, <2>4 DEF Concerns
  <2>. QED
    BY <2>3, <2>5, <2>6
<1>6. \A d \in Client : \/ v.clients[d] = w.clients[d]
                        \/ Concerns(w, v, d, {r} \cup {NoRequest})
  <2>. SUFFICES ASSUME NEW d \in Client
                PROVE  \/ v.clients[d] = w.clients[d]
                       \/ Concerns(w, v, d, {r} \cup {NoRequest})
    OBVIOUS
  <2>1. CASE d = c
    BY <1>2, <2>1 DEF Concerns, IsOf
  <2>2. CASE d # c
    BY <1>5, <2>2
  <2>. QED
    BY <2>1, <2>2
<1>7. \A d \in Client : IsOf(v, d, r) => TakesFrom(v.clients[d], e)
  <2>. SUFFICES ASSUME NEW d \in Client, IsOf(v, d, r) PROVE TakesFrom(v.clients[d], e)
    OBVIOUS
  <2>1. CASE d # c /\ ~IsOf(w, d, r)
    <3>1. v.clients[d] = w.clients[d]
      BY <2>1
    <3>. QED
      BY <2>1, <3>1 DEF IsOf
  <2>. HIDE DEF e
  <2>2. CASE d = c
    BY <2>2 DEF e
  <2>. QED
    BY <1>5, <2>1, <2>2
<1>8. Fetches(v, c, r)
  BY DEF Fetches
<1>9. OnCourse(v, r)
  BY <1>7, <1>8 DEF OnCourse, InEntry
<1>. DEFINE R == {r}
<1>10. /\ R \in SUBSET Key /\ \A q \in R : OnCourse(v, q)
       /\ \A q \in Key \ R : Keeps(w, v, q)
       /\ \A d \in Client : v.clients[d] = w.clients[d]
                              \/ Concerns(w, v, d, R \cup {NoRequest})
  BY <1>1, <1>6, <1>9 DEF Keeps
<1>. HIDE DEF R
<1>. QED
  BY <1>10, OthersOnCourse

(* The entry that is made for the first chunk. *)
LEMMA FirstUse ==
  ASSUME NEW k \in CacheValue, Sound(k, 0), NEW r \in Key, ~Contains(k, r)
  PROVE  LET d == UseEntry(k, r)
         IN  /\ Sound(d, 0) /\ r \in Present(d) /\ Contains(d, r)
             /\ d.entry[r].in_use = 1 /\ d.entry[r].in_use > 0
             /\ ~d.entry[r].completed /\ d.entry[r].buffer = <<>>
             /\ \A q \in Key \ {r} : d.entry[q] = k.entry[q]
<1>. DEFINE d == UseEntry(k, r)
            first == [buffer |-> <<>>, completed |-> FALSE, in_use |-> 1]
<1>1. Sound(d, 0) /\ d.entry = [k.entry EXCEPT ![r] = first]
  BY UseSound
<1>2. k.entry \in [Key -> Entry \cup {NoEntry}]
  BY DEF CacheValue
<1>3. /\ first.in_use = 1 /\ ~first.completed /\ first.buffer = <<>>
      /\ first \in Entry
  BY DEF Entry
<1>. HIDE DEF first, d
<1>4. d.entry[r] = first /\ \A q \in Key \ {r} : d.entry[q] = k.entry[q]
  BY <1>1, <1>2
<1>. QED
  BY <1>1, <1>3, <1>4, CacheAssumption DEF Present, Contains, d

(* The world once the first chunk was written, from which it is shared.    *)
LEMMA FirstOfOk ==
  ASSUME NEW w, NEW c \in Client, NEW r \in Key, Good(w, {}), IsOf(w, c, r),
         ~Contains(w.cache, r), w.clients[c].request = r, Sound(w.cache, 0),
         NEW chunk \in Seq(Block),
         WriteOutcome(UseEntry(w.cache, r), r, chunk) = "Written",
         StatusIsOk(w, c, chunk)
  PROVE  \E e :
           /\ e \in CacheValue /\ Sound(e, 0) /\ Contains(e, r)
           /\ ~e.entry[r].completed /\ e.entry[r].buffer = chunk
           /\ \A q \in Key \ {r} : \/ e.entry[q] = w.cache.entry[q]
                                   \/ e.entry[q] = NoEntry /\ w.cache.entry[q].in_use = 0
           /\ Becomes(Shared(
                [clients |-> [w.clients EXCEPT ![c] =
                                [@ EXCEPT !.should_write_to_cache = TRUE,
                                          !.should_read_from_cache = TRUE]],
                 map |-> w.map, cache |-> e, stranded |-> w.stranded], c))
<1>. DEFINE cl == w.clients[c]
            k == [cl EXCEPT !.should_write_to_cache = TRUE,
                            !.should_read_from_cache = TRUE]
            y == [w.clients EXCEPT ![c] = k]
            d == UseEntry(w.cache, r)
            u == [clients |-> y, map |-> w.map, cache |-> d, stranded |-> w.stranded]
            e == Write(d, r, chunk)
            v == [clients |-> y, map |-> w.map, cache |-> e, stranded |-> w.stranded]
            t == WriteToCache(u, c, chunk)
<1>1. /\ w.clients \in [Client -> ClientRecord \cup {NoClient}] /\ w \in World
      /\ w.cache \in CacheValue /\ cl \in ClientRecord
  BY WorldFacts DEF IsOf
<1>2. k \in ClientRecord /\ k.request = r
  BY <1>1 DEF ClientRecord
<1>3. y[c] = k
  <2>. HIDE DEF k
  <2>. QED
    BY <1>1
<1>4. [w EXCEPT !.clients[c].should_write_to_cache = TRUE,
                !.clients[c].should_read_from_cache = TRUE,
                !.cache = UseEntry(@, w.clients[c].request)] = u
  <2>. DEFINE g == [clients |-> y, map |-> w.map, cache |-> w.cache,
                    stranded |-> w.stranded]
  <2>1. [w EXCEPT !.clients[c].should_write_to_cache = TRUE,
                  !.clients[c].should_read_from_cache = TRUE] = [w EXCEPT !.clients = y]
    BY <1>1 DEF World
  <2>. HIDE DEF y, d
  <2>2. [w EXCEPT !.clients = y] = g
    BY <1>1, Replaced
  <2>3. [g EXCEPT !.cache = d] = u
    BY Rebuilt
  <2>4. [g EXCEPT !.cache = UseEntry(@, r)] = [g EXCEPT !.cache = d]
    BY DEF d
  <2>. HIDE DEF g, u
  <2>. QED
    BY <1>1, <2>1, <2>2, <2>3, <2>4
<1>5. /\ Sound(d, 0) /\ r \in Present(d) /\ Contains(d, r)
      /\ d.entry[r].in_use = 1 /\ d.entry[r].in_use > 0
      /\ ~d.entry[r].completed /\ d.entry[r].buffer = <<>>
      /\ \A q \in Key \ {r} : d.entry[q] = w.cache.entry[q]
  BY <1>1, FirstUse
<1>6. WriteOutcome(d, r, chunk) = "Written"
  OBVIOUS
<1>. HIDE DEF d
<1>7. /\ e \in CacheValue /\ Sound(e, 0) /\ Contains(e, r)
      /\ \A q \in Key \ {r} : \/ e.entry[q] = d.entry[q]
                              \/ e.entry[q] = NoEntry /\ d.entry[q].in_use = 0
      /\ e.entry[r].in_use = d.entry[r].in_use
      /\ e.entry[r].completed = d.entry[r].completed
      /\ e.entry[r].buffer = d.entry[r].buffer \o chunk
  BY ONLY <1>5, <1>6, WrittenEntry
<1>. HIDE DEF e
<1>8. v = [u EXCEPT !.cache = Write(u.cache, r, chunk)] /\ u.cache = d
      /\ u.clients[c].request = r
  <2>1. u.cache = d /\ u.clients[c] = k
    BY <1>3
  <2>. HIDE DEF y, k
  <2>2. [u EXCEPT !.cache = e] = v
    BY Rebuilt
  <2>. HIDE DEF u, v
  <2>. QED
    BY <1>2, <2>1, <2>2 DEF e
<1>. HIDE DEF u
<1>9. WriteOutcome(d, r, chunk) = "Written" => t.world = v /\ ~t.threw
  <2>. HIDE DEF u, v
  <2>1. /\ WriteOutcome(u.cache, r, chunk) = "AllInUse" =>
             t.world = Fallback(v, c, chunk) /\ t.threw = FallbackThrows(v, r)
        /\ WriteOutcome(u.cache, r, chunk) = "KeyNotFound" => t.world = v /\ t.threw
        /\ WriteOutcome(u.cache, r, chunk) = "Written" => t.world = v /\ ~t.threw
    <3>1. v = [u EXCEPT !.cache = Write(u.cache, r, chunk)]
      BY <1>8
    <3>2. u.clients[c].request = r
      BY <1>8
    <3>. HIDE DEF t
    <3>3. t = WriteToCache(u, c, chunk)
      BY DEF t
    <3>. SUFFICES LET a == WriteToCache(u, c, chunk)
                  IN  /\ WriteOutcome(u.cache, r, chunk) = "AllInUse" =>
                           a.world = Fallback(v, c, chunk) /\ a.threw = FallbackThrows(v, r)
                      /\ WriteOutcome(u.cache, r, chunk) = "KeyNotFound" =>
                           a.world = v /\ a.threw
                      /\ WriteOutcome(u.cache, r, chunk) = "Written" =>
                           a.world = v /\ ~a.threw
      BY <3>3
    <3>. QED
      BY <3>1, <3>2, WriteCases
  <2>. HIDE DEF t
  <2>. QED
    BY <1>8, <2>1
<1>10. IF t.threw THEN RecoverFromStatusError(t.world, c)
       ELSE Becomes(Shared(t.world, c))
  BY <1>4 DEF StatusIsOk, Shared
<1>. HIDE DEF t, v
<1>11. Becomes(Shared(v, c))
  BY <1>6, <1>9, <1>10
<1>12. e.entry[r].buffer = chunk /\ ~e.entry[r].completed
       /\ \A q \in Key \ {r} : \/ e.entry[q] = w.cache.entry[q]
                               \/ e.entry[q] = NoEntry /\ w.cache.entry[q].in_use = 0
  BY <1>5, <1>7
<1>. QED
  BY <1>7, <1>11, <1>12 DEF v

(* What the sharing leaves. *)
LEMMA SharedWorld ==
  ASSUME NEW w, NEW c \in Client, NEW r \in Key, Good(w, {}), IsOf(w, c, r),
         NEW k \in ClientRecord, k.request = r,
         NEW e \in CacheValue, Sound(e, 0), Contains(e, r),
         Becomes(Shared([clients |-> [w.clients EXCEPT ![c] = k], map |-> w.map,
                         cache |-> e, stranded |-> w.stranded], c))
  PROVE  /\ Then.map = w.map /\ Then.stranded = w.stranded
         /\ Contains(Then.cache, r)
         /\ Then.cache.entry[r].completed = e.entry[r].completed
         /\ Then.cache.entry[r].buffer = e.entry[r].buffer
         /\ \A q \in Key \ {r} : Then.cache.entry[q] = e.entry[q]
         /\ Then.clients[c] = ReadsOn(k)
         /\ \A d \in Client \ {c} :
              Then.clients[d] = IF IsOf(w, d, r) THEN GetResponseFromCache(w.clients[d])
                                ELSE w.clients[d]
<1>. DEFINE y == [w.clients EXCEPT ![c] = k]
            v == [clients |-> y, map |-> w.map, cache |-> e, stranded |-> w.stranded]
            z == Shared(v, c)
            n == Len(w.map[r]) - 1
<1>1. /\ w.clients \in [Client -> ClientRecord \cup {NoClient}]
      /\ w.map \in [Key -> Seq(Client)] /\ w.stranded \in SUBSET Key
      /\ w.map[r] \in Seq(Client) /\ OnceEach(w.map[r])
      /\ \A d \in Client : d \in Elements(w.map[r]) <=> IsOf(w, d, r)
  BY WorldFacts
<1>2. /\ y \in [Client -> ClientRecord \cup {NoClient}] /\ y[c] = k
      /\ \A d \in Client \ {c} : y[d] = w.clients[d]
  BY <1>1
<1>3. v.clients = y /\ v.map = w.map /\ v.cache = e /\ v.stranded = w.stranded
  OBVIOUS
<1>. HIDE DEF y
<1>4. v \in World
  BY <1>1, <1>2 DEF World
<1>. HIDE DEF v
<1>5. IsOf(v, c, r) /\ \A d \in Client : IsOf(v, d, r) <=> IsOf(w, d, r)
  BY <1>2, <1>3, MarkerAssumption DEF IsOf
<1>6. OnceEach(v.map[r]) /\ \A d \in Client : d \in Elements(v.map[r]) <=> IsOf(v, d, r)
  BY <1>1, <1>3, <1>5
<1>7. /\ n \in Nat
      /\ z = [clients |-> z.clients, map |-> w.map, cache |-> UseTimes(e, r, n),
              stranded |-> w.stranded]
      /\ z.clients[c] = ReadsOn(k)
      /\ \A d \in Client \ {c} :
           z.clients[d] = IF IsOf(w, d, r) THEN GetResponseFromCache(w.clients[d])
                          ELSE w.clients[d]
  <2>1. LET a == Shared(v, c)
            m == Len(v.map[r]) - 1
            l == ReadsOn(v.clients[c])
        IN  /\ m \in Nat
            /\ a = [clients |-> a.clients, map |-> v.map,
                    cache |-> UseTimes(v.cache, r, m), stranded |-> v.stranded]
            /\ a.clients[c] = l
            /\ \A d \in Client \ {c} :
                 a.clients[d] = IF IsOf(v, d, r) THEN GetResponseFromCache(v.clients[d])
                                ELSE v.clients[d]
    BY <1>4, <1>5, <1>6, SharedFacts
  <2>. QED
    BY <1>2, <1>3, <1>5, <2>1
<1>8. Becomes(z)
  BY DEF z, v, y
<1>. HIDE DEF z, n
<1>9. /\ Then.clients = z.clients /\ Then.map = w.map
      /\ Then.cache = UseTimes(e, r, n) /\ Then.stranded = w.stranded
  BY <1>7, <1>8 DEF Becomes, Then
<1>10. LET d == UseTimes(e, r, n)
       IN  /\ \A q \in Key \ {r} : d.entry[q] = e.entry[q]
           /\ Contains(d, r)
           /\ d.entry[r].buffer = e.entry[r].buffer
           /\ d.entry[r].completed = e.entry[r].completed
  <2>1. r \in Present(e) /\ 0 \in Nat
    BY DEF Present
  <2>. QED
    BY <1>7, <2>1, UsedTimes
<1>. QED
  BY <1>7, <1>9, <1>10

(* A client of a request without an entry changes in the middle of a       *)
(* handler.                                                                *)
LEMMA OneChanges ==
  ASSUME NEW w, Good(w, {}), NEW c \in Client, NEW r \in Key, IsOf(w, c, r),
         ~Contains(w.cache, r), NEW k \in ClientRecord, k.request = r, ClientOk(k),
         k.should_read_from_cache = w.clients[c].should_read_from_cache,
         k.should_write_to_cache = w.clients[c].should_write_to_cache
  PROVE  LET v == [w EXCEPT !.clients[c] = k]
         IN  Good(v, {}) /\ IsOf(v, c, r) /\ v.clients[c] = k /\ v.cache = w.cache
<1>. DEFINE None == {}
            v == [w EXCEPT !.clients[c] = k]
<1>1. None \in SUBSET {c} /\ Good(w, None) /\ c \notin None
  OBVIOUS
<1>. HIDE DEF None
<1>2. Good(v, None) /\ IsOf(v, c, r) /\ v.clients[c] = k /\ v.cache = w.cache
  BY <1>1, ChangeOneAbsent
<1>. QED
  BY <1>2 DEF None

LEMMA OkStatusDelivers ==
  ASSUME Undisturbed, Good(Now, {}), Delivers(Now), Good(Then, {}),
         NEW c \in Client, NEW r \in Key, IsOf(Now, c, r), ~Contains(cache, r),
         clients[c] \in ClientRecord, ClientOk(clients[c]), clients[c].request = r,
         clients[c].state = "waiting_response_status_code",
         clients[c].conn = NewConnection, clients[c].sent = <<>>,
         NEW rd \in Reading(clients[c]), rd.answer = "ok",
         StatusIsOk(AfterReading(Now, c, rd), c, ChunkRead(clients[c], rd))
  PROVE  Delivers(Then)
<1>. DEFINE cl    == clients[c]
            w     == AfterReading(Now, c, rd)
            chunk == ChunkRead(cl, rd)
            k     == HasRead(cl, rd)
            l     == [k EXCEPT !.should_write_to_cache = TRUE,
                               !.should_read_from_cache = TRUE]
            body  == Body["ok"]
            d     == UseEntry(cache, r)
<1>1. /\ Now.clients = clients /\ Now.cache = cache /\ Now.map = request_clients_map
      /\ Now.stranded = stranded /\ stranded = {}
  BY DEF Now, Delivers
<1>2. cl.state \in Fetching
  BY DEF Fetching
<1>3. /\ k \in ClientRecord /\ ClientOk(k) /\ k.request = r /\ k.state = cl.state
      /\ k.should_read_from_cache = cl.should_read_from_cache
      /\ k.should_write_to_cache = cl.should_write_to_cache
      /\ chunk \in Seq(Block)
  BY <1>2, ReadingFacts
<1>4. /\ k.sent = <<>> /\ k.conn.answer = "ok" /\ k.conn.alive /\ rd.len \in Nat
      /\ k.conn.pos = 0 + rd.len /\ 0 + rd.len <= Len(body) /\ r \in Found
      /\ chunk = SubSeq(body, 0 + 1, 0 + rd.len)
  <2>1. cl.conn.pos = 0 /\ cl.conn.answer = "unknown"
    BY DEF NewConnection
  <2>2. /\ k.sent = cl.sent /\ k.conn.answer = rd.answer /\ k.conn.alive
        /\ rd.len \in Nat /\ k.conn.pos = cl.conn.pos + rd.len
        /\ cl.conn.pos + rd.len <= Len(Body[rd.answer])
        /\ IF cl.conn.answer = "unknown" THEN rd.answer \in Answers[cl.request]
           ELSE rd.answer = cl.conn.answer
        /\ chunk = SubSeq(Body[rd.answer], cl.conn.pos + 1, cl.conn.pos + rd.len)
    BY <1>2, HasReadFacts
  <2>. HIDE DEF k, chunk
  <2>. QED
    BY <2>1, <2>2 DEF Found
<1>. HIDE DEF k, chunk
<1>5. Len(chunk) = rd.len /\ IsPrefixOf(chunk, body) /\ IsPrefixOf(<<>>, chunk)
  <2>. DEFINE m == rd.len
  <2>1. /\ body \in Seq(Block) /\ Len(body) \in Nat /\ Len(chunk) \in Nat
        /\ m \in 0..Len(body) /\ 0 \in 0..m
    <3>1. body \in Seq(Block) /\ Len(body) \in Nat /\ Len(chunk) \in Nat
      BY <1>3, BodyFacts, LenProperties
    <3>. HIDE DEF body
    <3>. QED
      BY <1>4, <3>1
  <2>2. chunk = SubSeq(body, 0 + 1, m)
    BY <1>4
  <2>. HIDE DEF body, m
  <2>3. Len(chunk) = m - 0
    BY <2>1, <2>2, PartFacts
  <2>4. Len(chunk) = m /\ chunk = SubSeq(body, 1, m)
    BY <2>1, <2>2, <2>3
  <2>5. IsPrefixOf(chunk, body)
    BY <2>1, <2>4 DEF IsPrefixOf
  <2>6. IsPrefixOf(chunk, chunk)
    BY <1>3, <2>1, SubSeqFull DEF IsPrefixOf
  <2>7. IsPrefixOf(<<>>, chunk)
    BY <1>3, <2>6, WholePrefix
  <2>. QED
    BY <2>4, <2>5, <2>7 DEF m
<1>6. w = [Now EXCEPT !.clients[c] = k]
  <2>1. k = HasRead(cl, rd)
    BY DEF k
  <2>2. [Now EXCEPT !.clients[c] = HasRead(cl, rd)] = w
    BY <1>1 DEF AfterReading, HasRead
  <2>. HIDE DEF w, cl
  <2>. QED
    BY <2>1, <2>2
<1>7. /\ Good(w, {}) /\ IsOf(w, c, r) /\ w.clients[c] = k /\ w.cache = cache
      /\ w.map = request_clients_map /\ w.stranded = stranded
      /\ \A h \in Client \ {c} : w.clients[h] = clients[h]
  <2>. DEFINE z == [Now EXCEPT !.clients[c] = k]
  <2>1. Good(z, {}) /\ IsOf(z, c, r) /\ z.clients[c] = k /\ z.cache = Now.cache
    <3>. HIDE DEF w, d, body, l
    <3>1. /\ k.should_read_from_cache = Now.clients[c].should_read_from_cache
          /\ k.should_write_to_cache = Now.clients[c].should_write_to_cache
      BY <1>1, <1>3
    <3>2. ~Contains(Now.cache, r)
      BY <1>1
    <3>3. k \in ClientRecord /\ k.request = r /\ ClientOk(k)
      BY <1>3
    <3>. HIDE DEF cl
    <3>. QED
      BY <3>1, <3>2, <3>3, OneChanges
  <2>. HIDE DEF z, w
  <2>2. z = [clients |-> [Now.clients EXCEPT ![c] = k], map |-> Now.map,
             cache |-> Now.cache, stranded |-> Now.stranded]
    BY ChangedOne DEF z
  <2>3. \A h \in Client \ {c} : [Now.clients EXCEPT ![c] = k][h] = Now.clients[h]
    BY WorldFacts
  <2>4. w = z
    BY <1>6 DEF z
  <2>. QED
    BY <1>1, <2>1, <2>2, <2>3, <2>4
<1>8. WriteOutcome(d, r, chunk) = "Written"
  <2>1. cache \in CacheValue /\ Sound(cache, 0)
    BY <1>1, WorldFacts DEF Good, CacheOk
  <2>2. /\ Sound(d, 0) /\ Contains(d, r) /\ d.entry[r].in_use > 0
        /\ d.entry[r].buffer = <<>>
        /\ \A q \in Key \ {r} : d.entry[q] = cache.entry[q]
    BY <2>1, FirstUse
  <2>. HIDE DEF d
  <2>3. \A q \in Key \ {r} : d.entry[q] = Now.cache.entry[q]
    BY <1>1, <2>2
  <2>4. Len(d.entry[r].buffer) + Len(chunk) <= Len(Body["ok"])
    BY <1>4, <1>5, <2>2
  <2>. HIDE DEF body, cl, w, l
  <2>5. r \in Found /\ chunk \in Seq(Block)
    BY <1>3, <1>4
  <2>6. Sound(d, 0) /\ Contains(d, r) /\ d.entry[r].in_use > 0
    BY <2>2
  <2>. QED
    BY <2>3, <2>4, <2>5, <2>6, ThereIsRoom
<1>9. StatusIsOk(w, c, chunk)
  BY DEF w, chunk, cl
<1>. HIDE DEF w
<1>10. PICK e :
         /\ e \in CacheValue /\ Sound(e, 0) /\ Contains(e, r)
         /\ ~e.entry[r].completed /\ e.entry[r].buffer = chunk
         /\ \A q \in Key \ {r} : \/ e.entry[q] = w.cache.entry[q]
                                 \/ e.entry[q] = NoEntry /\ w.cache.entry[q].in_use = 0
         /\ Becomes(Shared(
              [clients |-> [w.clients EXCEPT ![c] =
                              [@ EXCEPT !.should_write_to_cache = TRUE,
                                        !.should_read_from_cache = TRUE]],
               map |-> w.map, cache |-> e, stranded |-> w.stranded], c))
  <2>1. /\ ~Contains(w.cache, r) /\ w.clients[c].request = r /\ Sound(w.cache, 0)
        /\ WriteOutcome(UseEntry(w.cache, r), r, chunk) = "Written"
    BY <1>1, <1>3, <1>7, <1>8 DEF Good, CacheOk
  <2>. QED
    BY <1>3, <1>7, <1>9, <2>1, FirstOfOk
<1>11. /\ l \in ClientRecord /\ l.request = r /\ l.conn = k.conn /\ l.sent = k.sent
       /\ ReadsOn(l).state = "waiting_response" /\ ReadsOn(l).request = r
       /\ ReadsOn(l).conn = k.conn /\ ReadsOn(l).sent = k.sent
       /\ ReadsOn(l) \in ClientRecord
  BY <1>3 DEF ReadsOn, ClientRecord, State
<1>12. Becomes(Shared([clients |-> [w.clients EXCEPT ![c] = l], map |-> w.map,
                       cache |-> e, stranded |-> w.stranded], c))
  <2>. DEFINE x == w.clients[c]
  <2>1. x = k
    BY <1>7
  <2>. QED
    BY <1>10, <2>1
<1>. HIDE DEF l
<1>13. /\ Then.map = w.map /\ Then.stranded = w.stranded
       /\ Contains(Then.cache, r)
       /\ Then.cache.entry[r].completed = e.entry[r].completed
       /\ Then.cache.entry[r].buffer = e.entry[r].buffer
       /\ \A q \in Key \ {r} : Then.cache.entry[q] = e.entry[q]
       /\ Then.clients[c] = ReadsOn(l)
       /\ \A h \in Client \ {c} :
            Then.clients[h] = IF IsOf(w, h, r) THEN GetResponseFromCache(w.clients[h])
                              ELSE w.clients[h]
  BY <1>7, <1>10, <1>11, <1>12, SharedWorld
<1>14. /\ Then.map = Now.map /\ Then.stranded = {}
       /\ ~Then.cache.entry[r].completed /\ Then.cache.entry[r].buffer = chunk
       /\ \A q \in Key \ {r} : \/ Then.cache.entry[q] = Now.cache.entry[q]
                               \/ Then.cache.entry[q] = NoEntry /\ Now.cache.entry[q].in_use = 0
       /\ \A h \in Client \ {c} :
            Then.clients[h] = IF IsOf(Now, h, r) THEN GetResponseFromCache(Now.clients[h])
                              ELSE Now.clients[h]
  BY <1>1, <1>7, <1>10, <1>13 DEF IsOf
<1>15. /\ IsOf(Then, c, r) /\ Then.clients[c].state = "waiting_response"
       /\ TakesFrom(Then.clients[c], Then.cache.entry[r])
  BY <1>4, <1>5, <1>11, <1>13, <1>14, MarkerAssumption DEF IsOf, TakesFrom
<1>16. ~Contains(Now.cache, r) /\ ~Idle(Now.clients[c])
  BY <1>1 DEF Idle
<1>17. IsPrefixOf(Then.cache.entry[r].buffer, Body["ok"])
  BY <1>5, <1>14
<1>18. r \in Found /\ Contains(Then.cache, r)
  BY <1>4, <1>13
<1>. HIDE DEF body, cl, d
<1>. QED
  BY <1>14, <1>15, <1>16, <1>17, <1>18, SharingDelivers

LEMMA ReadStatusDelivers ==
  ASSUME Undisturbed, Good(Now, {}), Delivers(Now), Good(Then, {}),
         NEW c \in Client, ReadStatus(c)
  PROVE  Delivers(Then)
<1>. DEFINE cl == clients[c]
            r  == cl.request
<1>1. In(c, {"waiting_response_status_code"})
  BY DEF ReadStatus
<1>2. /\ cl \in ClientRecord /\ r \in Key /\ IsOf(Now, c, r)
      /\ ClientOk(cl) /\ cl.state = "waiting_response_status_code"
      /\ Now.clients = clients /\ Now.cache = cache
  BY <1>1, RequestOf
<1>3. ~Contains(Now.cache, r)
  BY <1>2, NoEntryYet
<1>4. /\ cl.conn = NewConnection /\ cl.sent = <<>> /\ cl.chunks = <<>>
      /\ ~cl.should_write_to_all
  <2>1. OnHisOwn(cl, r)
    BY <1>2, <1>3, WithoutEntry
  <2>. QED
    BY <1>2, <2>1 DEF OnHisOwn, GetsError, Starts, Idle
<1>5. ~AtEnd(cl) /\ cl.conn.pos = 0
  BY <1>4 DEF AtEnd, NewConnection
<1>6. \/ ProcessEnds
      \/ \E rd \in Reading(cl) :
           LET w     == AfterReading(Now, c, rd)
               chunk == ChunkRead(cl, rd)
           IN  \/ rd.answer = "ok" /\ StatusIsOk(w, c, chunk)
               \/ rd.answer = "error" /\ StatusIsError(w, c, chunk)
  BY <1>5 DEF ReadStatus, StatusIsGarbled, StatusOf
<1>7. CASE ProcessEnds
  BY <1>7, EndDelivers
<1>8. ASSUME NEW rd \in Reading(cl), rd.answer = "ok",
             StatusIsOk(AfterReading(Now, c, rd), c, ChunkRead(cl, rd))
      PROVE  Delivers(Then)
  BY <1>2, <1>3, <1>4, <1>8, OkStatusDelivers
<1>9. ASSUME NEW rd \in Reading(cl), rd.answer = "error",
             StatusIsError(AfterReading(Now, c, rd), c, ChunkRead(cl, rd))
      PROVE  Delivers(Then)
  BY <1>2, <1>3, <1>4, <1>9, ErrorStatusDelivers
<1>. QED
  BY <1>6, <1>7, <1>8, <1>9

----------------------------------------------------------------------------
(* The invariant of the deliveries, and what follows from it.              *)

DInv == IInv /\ Delivers(Now) /\ (exited => Live(Now) = {})

LEMMA GoodNext == IInv' => Good(Then, {})
<1>1. Now' = Then
  BY DEF Now, Then
<1>. QED
  BY <1>1 DEF IInv, Good, World, CacheOk, Sound, WellFormed, Ordered, CacheValue,
       Present, Contains, Space, Slots, Size, ClientOk, ConnOk, RequestOk, ListOk,
       OnceEach, Elements, EntryOk, PartOfOne, IsOf, Fetches, WriterOk, Continues,
       CleanOk, Now, Then

LEMMA DeliversNext == Delivers(Then) => Delivers(Now)'
<1>1. Now' = Then
  BY DEF Now, Then
<1>. QED
  BY <1>1 DEF Delivers, OnCourse, InEntry, NoEntryOnly, OnHisOwn, GetsError, Starts,
       Idle, TakesFrom, InPieces, IsPrefixOf, Fetches, IsOf, Contains, Now, Then

(* The process ends once, and nobody is left then. *)
LEMMA EndsOnce ==
  /\ Next => ~exited /\ (ProcessEnds \/ exited' = exited)
  /\ ProcessEnds => (Live(Now) = {})'
<1>1. ProcessEnds => (Live(Now) = {})'
  BY DEF ProcessEnds, Live, Now
<1>2. ASSUME NEW c \in Client, ReadRequestFails(c) \/ \E r \in Key : ReadRequest(c, r)
      PROVE  ~exited /\ exited' = exited
  BY <1>2 DEF ReadRequestFails, ReadRequest, In, Becomes
<1>3. ASSUME NEW c \in Client, NEW w, RecoverFromStatusError(w, c)
      PROVE  exited' = exited
  BY <1>3 DEF RecoverFromStatusError, Becomes
<1>4. ASSUME NEW c \in Client, ReadStatus(c) \/ ReadStatusFails(c)
      PROVE  ~exited /\ (ProcessEnds \/ exited' = exited)
  <2>1. ASSUME NEW w, NEW chunk, StatusIsOk(w, c, chunk) PROVE exited' = exited
    BY <1>3, <2>1 DEF StatusIsOk, Becomes
  <2>2. ASSUME NEW w, NEW chunk, StatusIsError(w, c, chunk) PROVE exited' = exited
    BY <1>3, <2>2 DEF StatusIsError, Becomes
  <2>3. ~exited
    BY <1>4 DEF ReadStatus, ReadStatusFails, In
  <2>4. CASE ReadStatus(c)
    BY <1>3, <2>1, <2>2, <2>3, <2>4 DEF ReadStatus, StatusIsGarbled
  <2>5. CASE ReadStatusFails(c)
    BY <1>3, <2>3, <2>5 DEF ReadStatusFails
  <2>. QED
    BY <1>4, <2>4, <2>5
<1>5. ASSUME NEW c \in Client,
             ReadResponse(c) \/ ReadResponseEnd(c) \/ ReadResponseFails(c)
      PROVE  ~exited /\ exited' = exited
  BY ONLY <1>5 DEF ReadResponse, ReadResponseEnd, ReadResponseFails, In, Becomes
<1>6. ASSUME NEW c \in Client, SendResponse(c) PROVE ~exited /\ exited' = exited
  BY <1>6 DEF SendResponse, SendCached, SendCachedNothingNew, SendCachedDone,
       SendUncached, SendUncachedDone, Sending, In, Becomes
<1>7. ASSUME NEW c \in Client, AcceptClient(c) \/ SendRequest(c) \/ ClientFails(c)
                                 \/ OriginHangsUp(c)
      PROVE  ~exited /\ exited' = exited
  BY <1>7 DEF AcceptClient, SendRequest, ClientFails, OriginHangsUp, Sending, In, Becomes
<1>8. Stop => ~exited /\ ProcessEnds
  BY DEF Stop
<1>. QED
  BY <1>1, <1>2, <1>4, <1>5, <1>6, <1>7, <1>8 DEF Next

LEMMA InitDelivers == Init => DInv
<1>. SUFFICES ASSUME Init PROVE DInv
  OBVIOUS
<1>1. /\ Now.clients = [c \in Client |-> NoClient] /\ Now.stranded = {} /\ ~exited
      /\ \A r \in Key : ~Contains(Now.cache, r)
  <2>1. Now.cache = EmptyCache /\ Now.stranded = {} /\ exited = FALSE
        /\ Now.clients = [c \in Client |-> NoClient]
    BY DEF Init, Now
  <2>. QED
    BY <2>1, EmptyCacheSound DEF Present
<1>2. \A c \in Client, r \in Key : ~IsOf(Now, c, r)
  BY <1>1 DEF IsOf
<1>3. Delivers(Now)
  BY <1>1, <1>2 DEF Delivers, OnCourse, NoEntryOnly
<1>. QED
  BY <1>1, <1>3, InitInvariant DEF DInv

LEMMA StepDelivers ==
  ASSUME Undisturbed
  PROVE  DInv /\ [Next]_vars => DInv'
<1>. SUFFICES ASSUME DInv, [Next]_vars PROVE DInv'
  OBVIOUS
<1>1. Good(Now, {}) /\ Delivers(Now) /\ IInv' /\ Good(Then, {})
  <2>1. IInv'
    BY StepInvariant DEF DInv
  <2>. QED
    BY <2>1, GoodNext DEF DInv, IInv
<1>2. (exited => Live(Now) = {})'
  <2>1. CASE UNCHANGED vars
    BY <2>1 DEF vars, DInv, Live, Now
  <2>2. CASE Next
    <3>1. CASE ProcessEnds
      BY <3>1, EndsOnce
    <3>2. CASE ~exited'
      BY <3>2
    <3>. QED
      BY <2>2, <3>1, <3>2, EndsOnce
  <2>. QED
    BY <2>1, <2>2
<1>3. Delivers(Then)
  <2>1. CASE UNCHANGED vars
    <3>1. Then = Now
      BY <2>1 DEF vars, Now, Then
    <3>. QED
      BY <1>1, <3>1
  <2>2. CASE Stop
    BY <2>2, EndDelivers DEF Stop
  <2>3. ASSUME NEW c \in Client, AcceptClient(c) PROVE Delivers(Then)
    BY <1>1, <2>3, AcceptDelivers
  <2>4. ASSUME NEW c \in Client, ReadRequestFails(c) PROVE Delivers(Then)
    BY <1>1, <2>4, ReadRequestFailsDelivers
  <2>5. ASSUME NEW c \in Client, NEW r \in Key, ReadRequest(c, r) PROVE Delivers(Then)
    BY <1>1, <2>5, ReadRequestDelivers
  <2>6. ASSUME NEW c \in Client, SendRequest(c) PROVE Delivers(Then)
    BY <1>1, <2>6, SendRequestDelivers
  <2>7. ASSUME NEW c \in Client, ReadStatus(c) PROVE Delivers(Then)
    BY <1>1, <2>7, ReadStatusDelivers
  <2>8. ASSUME NEW c \in Client, ReadStatusFails(c) \/ ReadResponseFails(c)
        PROVE  Delivers(Then)
    BY <2>8 DEF ReadStatusFails, ReadResponseFails, Undisturbed
  <2>9. ASSUME NEW c \in Client, ReadResponse(c) PROVE Delivers(Then)
    BY <1>1, <2>9, ReadResponseDelivers
  <2>10. ASSUME NEW c \in Client, ReadResponseEnd(c) PROVE Delivers(Then)
    BY <1>1, <2>10, ReadResponseEndDelivers
  <2>11. ASSUME NEW c \in Client, SendCached(c) PROVE Delivers(Then)
    BY <1>1, <2>11, SendCachedDelivers
  <2>12. ASSUME NEW c \in Client, SendCachedNothingNew(c) PROVE Delivers(Then)
    BY <1>1, <2>12, NothingNewDelivers
  <2>13. ASSUME NEW c \in Client, SendCachedDone(c) PROVE Delivers(Then)
    BY <1>1, <2>13, DoneDelivers
  <2>14. ASSUME NEW c \in Client, SendUncached(c) PROVE Delivers(Then)
    BY <1>1, <2>14, SendUncachedDelivers
  <2>15. ASSUME NEW c \in Client,
                ClientFails(c) \/ OriginHangsUp(c) \/ SendUncachedDone(c)
         PROVE  Delivers(Then)
    BY <1>1, <2>15, LeavingDelivers
  <2>. QED
    BY <2>1, <2>2, <2>3, <2>4, <2>5, <2>6, <2>7, <2>8, <2>9, <2>10, <2>11, <2>12,
       <2>13, <2>14, <2>15 DEF Next, SendResponse
<1>. QED
  BY <1>1, <1>2, <1>3, DeliversNext DEF DInv

LEMMA DeliveriesStayOnCourse ==
  ASSUME Undisturbed
  PROVE  Spec => []DInv
BY InitDelivers, StepDelivers, PTL DEF Spec

LEMMA CompletedIsWholeFollows == DInv => CompletedIsWhole
<1>. SUFFICES ASSUME DInv, NEW r \in Present(cache), cache.entry[r].completed
              PROVE  \E a \in DOMAIN Body : cache.entry[r].buffer = Body[a]
  BY DEF CompletedIsWhole
<1>1. r \in Key /\ Contains(Now.cache, r) /\ Now.cache = cache
  BY DEF Present, Now
<1>2. InEntry(Now, r)
  BY <1>1 DEF DInv, Delivers, OnCourse
<1>3. cache.entry[r].buffer = Body["ok"] /\ "ok" \in DOMAIN Body
  BY <1>1, <1>2, BodyFacts DEF InEntry
<1>. QED
  BY <1>3

(* An entry that is marked complete is the whole answer of the origin.     *)
THEOREM CompletedStaysWhole ==
  ASSUME Undisturbed
  PROVE  Spec => []CompletedIsWhole
BY DeliveriesStayOnCourse, CompletedIsWholeFollows, PTL

LEMMA IncompleteHasWriterFollows == DInv => IncompleteHasWriter
<1>. SUFFICES ASSUME DInv, NEW r \in Present(cache), ~cache.entry[r].completed
              PROVE  Writers(r) # {}
  BY DEF IncompleteHasWriter
<1>1. r \in Key /\ Contains(Now.cache, r) /\ Now.cache = cache /\ Now.clients = clients
  BY DEF Present, Now
<1>2. InEntry(Now, r) /\ EntryOk(Now, r)
  BY <1>1 DEF DInv, IInv, Good, RequestOk, Delivers, OnCourse
<1>3. PICK c \in Client : Fetches(Now, c, r)
  BY <1>1, <1>2 DEF InEntry
<1>4. clients[c].should_write_to_cache /\ c \in Live(Now)
  BY <1>1, <1>2, <1>3 DEF EntryOk, WriterOk, Fetches, IsOf, Live
<1>5. ~exited
  BY <1>4 DEF DInv
<1>6. c \in Writers(r)
  BY <1>1, <1>3, <1>4, <1>5 DEF Writers, Holds, In, Fetches, IsOf
<1>. QED
  BY <1>6

(* A response that is not complete has somebody who fetches the rest of    *)
(* it: who leaves in the middle of one finds an heir, or nobody is left    *)
(* and the entry goes.                                                     *)
THEOREM IncompleteAlwaysHasWriter ==
  ASSUME Undisturbed
  PROVE  Spec => []IncompleteHasWriter
BY DeliveriesStayOnCourse, IncompleteHasWriterFollows, PTL

(* What a client has been sent, whichever way he is served. *)
LEMMA SentSoFar ==
  ASSUME DInv, NEW c \in Client, clients[c] # NoClient,
         clients[c].state # "waiting_for_request"
  PROVE  LET cl == clients[c]
             r  == cl.request
         IN  \/ /\ Contains(cache, r) /\ cl.should_read_from_cache
                /\ Body["ok"] \in ResponsesTo(c)
                /\ IsPrefixOf(cl.sent, cache.entry[r].buffer)
                /\ IsPrefixOf(cache.entry[r].buffer, Body["ok"])
                /\ cache.entry[r].completed => cache.entry[r].buffer = Body["ok"]
                /\ cl.sent \in Seq(Block) /\ cache.entry[r].buffer \in Seq(Block)
             \/ /\ ~Contains(cache, r) /\ cl.sent = <<>> /\ cl.state # "got_response"
             \/ /\ ~Contains(cache, r) /\ GetsError(cl, r)
                /\ Body["error"] \in ResponsesTo(c) /\ cl.sent \in Seq(Block)
<1>. DEFINE cl == clients[c]
            r  == cl.request
<1>1. Now.clients = clients /\ Now.cache = cache /\ Good(Now, {}) /\ Delivers(Now)
  BY DEF Now, DInv, IInv
<1>2. r \in Key /\ IsOf(Now, c, r)
  <2>1. cl \in ClientRecord /\ ClientOk(cl)
    BY <1>1, WorldFacts
  <2>. QED
    BY <1>1, <2>1 DEF ClientOk, ClientRecord, IsOf
<1>3. DOMAIN Body = {"ok", "error"}
  BY BodyFacts
<1>4. CASE Contains(cache, r)
  <2>1. /\ InEntry(Now, r) /\ TakesFrom(cl, cache.entry[r]) /\ r \in Found
        /\ cache.entry[r].buffer \in Seq(Block) /\ cl.sent \in Seq(Block)
        /\ cl.should_read_from_cache
    BY <1>1, <1>2, <1>4, WithEntry
  <2>2. Body["ok"] \in ResponsesTo(c)
    BY <1>3, <2>1 DEF Found, ResponsesTo
  <2>. QED
    BY <1>1, <1>4, <2>1, <2>2 DEF InEntry, TakesFrom
<1>5. CASE ~Contains(cache, r)
  <2>1. OnHisOwn(cl, r) /\ cl.sent \in Seq(Block)
    BY <1>1, <1>2, <1>5, WithoutEntry
  <2>2. CASE GetsError(cl, r)
    <3>1. Body["error"] \in ResponsesTo(c)
      BY <1>3, <2>2 DEF GetsError, ResponsesTo
    <3>. QED
      BY <1>5, <2>1, <2>2, <3>1
  <2>3. CASE ~GetsError(cl, r)
    BY <1>5, <2>1, <2>3 DEF OnHisOwn, Starts, Idle
  <2>. QED
    BY <2>2, <2>3
<1>. QED
  BY <1>4, <1>5

LEMMA DeliveredInOrderFollows == DInv => DeliveredInOrder
<1>. SUFFICES ASSUME DInv, NEW c \in Live(Now), clients[c].sent # <<>>
              PROVE  \E b \in ResponsesTo(c) : IsPrefixOf(clients[c].sent, b)
  BY DEF DeliveredInOrder
<1>1. c \in Client /\ clients[c] # NoClient
  BY DEF Live, Now
<1>2. clients[c].state # "waiting_for_request"
  <2>1. ClientOk(clients[c])
    BY <1>1, WorldFacts DEF DInv, IInv, Now
  <2>. QED
    BY <2>1 DEF ClientOk, NewClient
<1>. DEFINE cl == clients[c]
            e  == cache.entry[cl.request]
<1>3. CASE /\ Body["ok"] \in ResponsesTo(c) /\ IsPrefixOf(cl.sent, e.buffer)
           /\ IsPrefixOf(e.buffer, Body["ok"])
           /\ cl.sent \in Seq(Block) /\ e.buffer \in Seq(Block)
  <2>1. Body["ok"] \in Seq(Block)
    BY BodyFacts
  <2>2. IsPrefixOf(cl.sent, Body["ok"])
    <3>. HIDE DEF e, cl
    <3>. QED
      BY <1>3, <2>1, PrefixOfPrefix
  <2>. QED
    BY <1>3, <2>2
<1>4. CASE GetsError(cl, cl.request) /\ Body["error"] \in ResponsesTo(c)
  BY <1>4 DEF GetsError
<1>. QED
  BY <1>1, <1>2, <1>3, <1>4, SentSoFar

(* A client gets one response to his own request, in order and without     *)
(* gaps: from the cache, which another client may fill, or from the chunks *)
(* kept for him.                                                           *)
THEOREM DeliveriesAreInOrder ==
  ASSUME Undisturbed
  PROVE  Spec => []DeliveredInOrder
BY DeliveriesStayOnCourse, DeliveredInOrderFollows, PTL

LEMMA DoneIsWhole ==
  ASSUME DInv, NEW c \in Client, SendCachedDone(c) \/ SendUncachedDone(c)
  PROVE  clients[c].sent \in ResponsesTo(c)
<1>. DEFINE cl == clients[c]
            r  == cl.request
            e  == cache.entry[r]
<1>1. cl # NoClient /\ cl.state # "waiting_for_request"
  BY DEF SendCachedDone, SendUncachedDone, Sending, In, Live, Now
<1>2. \/ /\ Contains(cache, r) /\ cl.should_read_from_cache
         /\ Body["ok"] \in ResponsesTo(c)
         /\ IsPrefixOf(cl.sent, e.buffer) /\ IsPrefixOf(e.buffer, Body["ok"])
         /\ e.completed => e.buffer = Body["ok"]
         /\ cl.sent \in Seq(Block) /\ e.buffer \in Seq(Block)
      \/ ~Contains(cache, r) /\ cl.sent = <<>> /\ cl.state # "got_response"
      \/ /\ ~Contains(cache, r) /\ GetsError(cl, r)
         /\ Body["error"] \in ResponsesTo(c) /\ cl.sent \in Seq(Block)
  BY <1>1, SentSoFar
<1>3. CASE SendCachedDone(c)
  <2>1. Contains(cache, r) /\ e.completed /\ Len(cl.sent) >= Len(e.buffer)
    BY <1>3 DEF SendCachedDone, Size
  <2>2. /\ Body["ok"] \in ResponsesTo(c) /\ e.buffer = Body["ok"]
        /\ IsPrefixOf(cl.sent, e.buffer)
        /\ cl.sent \in Seq(Block) /\ e.buffer \in Seq(Block)
    BY <1>2, <2>1
  <2>. HIDE DEF e, cl
  <2>3. cl.sent = e.buffer
    BY <2>1, <2>2, WholePrefix
  <2>. QED
    BY <2>2, <2>3 DEF cl
<1>4. CASE SendUncachedDone(c)
  <2>. DEFINE body == Body["error"]
  <2>1. ~cl.should_read_from_cache /\ cl.chunks = <<>> /\ cl.state = "got_response"
    BY <1>4 DEF SendUncachedDone
  <2>2. GetsError(cl, r) /\ body \in ResponsesTo(c) /\ cl.sent \in Seq(Block)
    BY <1>2, <2>1
  <2>3. /\ IsPrefixOf(cl.sent, body)
        /\ InPieces(<<>>, body, Len(cl.sent), Len(body))
    BY <2>1, <2>2 DEF GetsError
  <2>4. body \in Seq(Block) /\ Len(body) \in Nat /\ Len(body) \in 0..Len(body)
    BY BodyFacts
  <2>. HIDE DEF body, cl
  <2>5. Len(cl.sent) = Len(body)
    BY <2>3, <2>4, NoPieces
  <2>6. cl.sent = body
    BY <2>2, <2>3, <2>4, <2>5, WholePrefix
  <2>. QED
    BY <2>2, <2>6 DEF cl
<1>. QED
  BY <1>3, <1>4

(* The server is done with a client only when he got all of the response:  *)
(* neither the mark on an entry nor the last chunk kept for him comes      *)
(* before the end of what the origin sent.                                 *)
THEOREM DoneAlwaysMeansWhole ==
  ASSUME Undisturbed
  PROVE  Spec => DoneMeansWhole
<1>1. DInv /\ [Next]_vars =>
        [\A c \in Client : SendCachedDone(c) \/ SendUncachedDone(c) =>
           clients[c].sent \in ResponsesTo(c)]_vars
  BY DoneIsWhole
<1>. QED
  BY <1>1, DeliveriesStayOnCourse, PTL DEF Spec, DoneMeansWhole

=============================================================================
