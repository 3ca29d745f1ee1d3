---------------------------- MODULE RequestProofs ----------------------------
(***************************************************************************)
(* Proofs about the request parser, for every choice of the tokens that    *)
(* are read, and for inputs and parts of any length.                       *)
(***************************************************************************)
EXTENDS RequestParser, SequenceTheorems, TLAPS

MethodStates == {"RequestMethodStart", "RequestMethod"}

LineStates ==
  {"RequestUriStart", "RequestUri", "RequestHttpVersion",
   "RequestHttpVersion_majorStart", "RequestHttpVersion_major",
   "RequestHttpVersion_minorStart", "RequestHttpVersion_minor",
   "HeaderLws", "HeaderName", "SpaceBeforeHeaderValue", "HeaderValue"}

NewlineStates == {"ResponseHttpVersion_newLine", "ExpectingNewline_2"}

BodyStates ==
  {"Post", "ChunkSize", "ChunkExtensionName", "ChunkExtensionValue",
   "ChunkSizeNewLine", "ChunkSizeNewLine_2", "ChunkSizeNewLine_3",
   "ChunkTrailerName", "ChunkTrailerValue", "ChunkData",
   "ChunkDataNewLine_1", "ChunkDataNewLine_2"}

ParserState == MethodStates \cup LineStates \cup NewlineStates \cup BodyStates
                 \cup {"HeaderLineStart", "ExpectingNewline_3"}

Token == UNION {Offered[s] : s \in ParserState}

----------------------------------------------------------------------------
(* The invariant.                                                          *)

(* Only of a POST or a PUT does the parser know a body. *)
BodyKnown ==
  /\ p.state \in MethodStates => p.contentSize = 0 /\ ~p.chunked
  /\ p.contentSize # 0 \/ p.chunked \/ p.state \in BodyStates => HasBody(p.method)

(* What a state of the head says of the end of the input. *)
EndOfInput ==
  LET n == Len(str)
  IN  /\ p.state \in MethodStates \cup LineStates /\ n > 0 => str[n] # "\n"
      /\ p.state \in LineStates => n > 0
      /\ p.state \in NewlineStates => n > 1 /\ str[n - 1] # "\n" /\ str[n] = "\r"
      /\ p.state = "HeaderLineStart" =>
           n > 2 /\ str[n - 2] # "\n" /\ str[n - 1] = "\r" /\ str[n] = "\n"
      /\ p.state = "ExpectingNewline_3" =>
           n > 2 /\ str[n - 2] = "\r" /\ str[n - 1] = "\n" /\ str[n] = "\r"

Blank ==
  LET n == Len(str)
  IN  /\ n > 3 /\ str[n - 3] = "\r" /\ str[n - 2] = "\n"
      /\ str[n - 1] = "\r" /\ str[n] = "\n"

ParserInv ==
  /\ DOMAIN p = DOMAIN NewRequest
  /\ p.state \in ParserState
  /\ str \in Seq(Token)
  /\ BodyKnown
  /\ p.result = "ParsingIncompleted" => EndOfInput
  /\ p.result = "ParsingCompleted" /\ ~HasBody(p.method) =>
       Blank \/ <<p.major, p.minor>> = <<0, 9>>

LEMMA Digits == Digit = {"0", "1", "2", "3", "4", "5", "6", "7", "8", "9"}
BY DEF Digit, ToSet, Numeral

LEMMA InitParserInv == Init => ParserInv
BY DEF Init, ParserInv, NewRequest, ParserState, MethodStates, LineStates, NewlineStates,
       BodyStates, BodyKnown, EndOfInput, HasBody

(* A body is read to its end without another look at the head. *)
LEMMA BodyStep ==
  ASSUME NEW q, DOMAIN q = DOMAIN NewRequest, q.state \in BodyStates, NEW t
  PROVE  LET r == Step(q, t)
         IN  /\ DOMAIN r = DOMAIN NewRequest
             /\ r.state \in BodyStates /\ r.method = q.method
<1>. USE DEF NewRequest, BodyStates, GoTo, Push, Error, Completed, Terminates, Expect, Skip
<1>1. CASE q.state = "Post"
  BY <1>1 DEF Step, Post
<1>2. CASE q.state = "ChunkSize"
  BY <1>2 DEF Step, ChunkSize
<1>3. CASE q.state = "ChunkExtensionName"
  <2>1. Step(q, t) = ChunkExtensionName(q, t)
    BY <1>3 DEF Step
  <2>2. CASE t \in Alnum \cup {" "}
    BY <1>3, <2>1, <2>2 DEF ChunkExtensionName
  <2>3. CASE t \notin Alnum \cup {" "}
    BY <1>3, <2>1, <2>3 DEF ChunkExtensionName
  <2>. QED
    BY <2>2, <2>3
<1>4. CASE q.state = "ChunkExtensionValue"
  BY <1>4 DEF Step
<1>5. CASE q.state = "ChunkSizeNewLine"
  BY <1>5 DEF Step, ChunkSizeNewLine
<1>6. CASE q.state = "ChunkSizeNewLine_2"
  BY <1>6 DEF Step, ChunkSizeNewLine_2
<1>7. CASE q.state = "ChunkSizeNewLine_3"
  BY <1>7 DEF Step
<1>8. CASE q.state \in {"ChunkTrailerName", "ChunkTrailerValue"}
  BY <1>8 DEF Step
<1>9. CASE q.state = "ChunkData"
  BY <1>9 DEF Step, ChunkData
<1>10. CASE q.state \in {"ChunkDataNewLine_1", "ChunkDataNewLine_2"}
  BY <1>10 DEF Step
<1>. QED
  BY <1>1, <1>2, <1>3, <1>4, <1>5, <1>6, <1>7, <1>8, <1>9, <1>10

(* What a step from a state of the head keeps, unless it is an error: the  *)
(* end of a line is only read where a line may end.                        *)
HeadKept(q, t, r) ==
  /\ DOMAIN r = DOMAIN NewRequest
  /\ r.state \in ParserState \ BodyStates
  /\ q.state \notin MethodStates => r.method = q.method /\ r.state \notin MethodStates
  /\ r.contentSize # q.contentSize \/ r.chunked # q.chunked => HasBody(q.method)

MovesTo(r, S) ==
  \/ r.result = "ParsingError"
  \/ r.result = "ParsingIncompleted" /\ r.state \in S

LEMMA MethodStep ==
  ASSUME NEW q, DOMAIN q = DOMAIN NewRequest, q.state \in MethodStates, NEW t,
         q.result = "ParsingIncompleted"
  PROVE  LET r == Step(q, t)
         IN  /\ HeadKept(q, t, r) /\ r.contentSize = q.contentSize /\ r.chunked = q.chunked
             /\ MovesTo(r, {"RequestMethod", "RequestUriStart"})
             /\ r.result = "ParsingError" \/ t # "\n"
<1>. USE DEF NewRequest, MethodStates, LineStates, NewlineStates, BodyStates, ParserState,
             HeadKept, MovesTo, InName, Control, GoTo, Push, Error
<1>1. CASE q.state = "RequestMethodStart"
  BY <1>1 DEF Step, RequestMethodStart
<1>2. CASE q.state = "RequestMethod"
  BY <1>2 DEF Step, RequestMethod
<1>. QED
  BY <1>1, <1>2

LEMMA LineStep ==
  ASSUME NEW q, DOMAIN q = DOMAIN NewRequest, q.state \in LineStates, NEW t,
         q.result = "ParsingIncompleted"
  PROVE  LET r == Step(q, t)
         IN  /\ HeadKept(q, t, r)
             /\ \/ MovesTo(r, LineStates) /\ (r.result = "ParsingError" \/ t # "\n")
                \/ MovesTo(r, NewlineStates) /\ t = "\r"
                \/ r.result = "ParsingCompleted" /\ r.major = 0 /\ r.minor = 9
                \/ r.result = "terminate"
<1>. USE DEF NewRequest, MethodStates, LineStates, NewlineStates, BodyStates, ParserState,
             HeadKept, MovesTo, InName, Control, GoTo, Push, Error, Completed, Expect
<1>1. CASE q.state = "RequestUriStart"
  BY <1>1 DEF Step, RequestUriStart
<1>2. CASE q.state = "RequestUri"
  <2>1. Step(q, t) = RequestUri(q, t)
    BY <1>2 DEF Step
  <2>2. CASE t \in {" ", "\r"}
    BY <1>2, <2>1, <2>2 DEF RequestUri
  <2>3. CASE t \in Control \ {"\r"}
    BY <1>2, <2>1, <2>3 DEF RequestUri
  <2>4. CASE t \notin Control \cup {" "}
    BY <1>2, <2>1, <2>4 DEF RequestUri
  <2>. QED
    BY <2>2, <2>3, <2>4
<1>3. CASE q.state = "RequestHttpVersion"
  BY <1>3 DEF Step, RequestHttpVersion
<1>4. CASE q.state \in {"RequestHttpVersion_majorStart", "RequestHttpVersion_minorStart"}
  <2>1. "\n" \notin Digit
    BY Digits
  <2>2. \/ Step(q, t) = VersionStart(q, t, "major", "RequestHttpVersion_major")
        \/ Step(q, t) = VersionStart(q, t, "minor", "RequestHttpVersion_minor")
    BY <1>4 DEF Step
  <2>. QED
    BY <1>4, <2>1, <2>2 DEF VersionStart
<1>5. CASE q.state \in {"RequestHttpVersion_major", "RequestHttpVersion_minor"}
  <2>1. "\n" \notin Digit
    BY Digits
  <2>2. \/ Step(q, t) = Version(q, t, "major", ".", "RequestHttpVersion_minorStart")
        \/ Step(q, t) = Version(q, t, "minor", "\r", "ResponseHttpVersion_newLine")
    BY <1>5 DEF Step
  <2>. QED
    BY <1>5, <2>1, <2>2 DEF Version
<1>6. CASE q.state = "HeaderLws"
  <2>1. Step(q, t) = HeaderLws(q, t)
    BY <1>6 DEF Step
  <2>2. CASE t \in Control \cup {" "}
    BY <1>6, <2>1, <2>2 DEF HeaderLws
  <2>3. CASE t \notin Control \cup {" "}
    BY <1>6, <2>1, <2>3 DEF HeaderLws, PushValue
  <2>. QED
    BY <2>2, <2>3
<1>7. CASE q.state = "HeaderName"
  BY <1>7 DEF Step, HeaderName, PushName
<1>8. CASE q.state = "SpaceBeforeHeaderValue"
  BY <1>8 DEF Step
<1>9. CASE q.state = "HeaderValue"
  <2>1. Step(q, t) = HeaderValue(q, t)
    BY <1>9 DEF Step
  <2>2. CASE t = "\r"
    <3>. DEFINE e == IF HasBody(q.method) THEN Evaluated(q) ELSE q
    <3>1. HeaderValue(q, t) = GoTo(e, "ExpectingNewline_2")
      BY <2>2 DEF HeaderValue
    <3>2. /\ DOMAIN e = DOMAIN NewRequest /\ e.method = q.method
          /\ e.result \in {"ParsingIncompleted", "terminate"}
          /\ e.contentSize # q.contentSize \/ e.chunked # q.chunked => HasBody(q.method)
      BY DEF Evaluated, Terminates
    <3>. HIDE DEF e
    <3>. QED
      BY <2>1, <2>2, <3>1, <3>2
  <2>3. CASE t # "\r"
    BY <1>9, <2>1, <2>3 DEF HeaderValue, PushValue
  <2>. QED
    BY <2>2, <2>3
<1>. QED
  BY <1>1, <1>2, <1>3, <1>4, <1>5, <1>6, <1>7, <1>8, <1>9

LEMMA NewlineStep ==
  ASSUME NEW q, DOMAIN q = DOMAIN NewRequest, q.state \in NewlineStates, NEW t,
         q.result = "ParsingIncompleted"
  PROVE  LET r == Step(q, t)
         IN  /\ HeadKept(q, t, r)
             /\ MovesTo(r, {"HeaderLineStart"})
             /\ r.result = "ParsingError" \/ t = "\n"
BY DEF NewRequest, MethodStates, LineStates, NewlineStates, BodyStates, ParserState,
       HeadKept, MovesTo, GoTo, Error, Expect, Step

LEMMA HeaderStep ==
  ASSUME NEW q, DOMAIN q = DOMAIN NewRequest, q.state = "HeaderLineStart", NEW t,
         q.result = "ParsingIncompleted"
  PROVE  LET r == Step(q, t)
         IN  /\ HeadKept(q, t, r)
             /\ \/ MovesTo(r, {"ExpectingNewline_3"}) /\ t = "\r"
                \/ MovesTo(r, LineStates) /\ (r.result = "ParsingError" \/ t # "\n")
<1>. USE DEF NewRequest, MethodStates, LineStates, NewlineStates, BodyStates, ParserState,
             HeadKept, MovesTo, GoTo, Push, Error
<1>1. Step(q, t) = HeaderLineStart(q, t)
  BY DEF Step
<1>2. CASE t = "\r"
  BY <1>1, <1>2 DEF HeaderLineStart
<1>3. CASE t \in {" ", "\t"}
  BY <1>1, <1>3 DEF HeaderLineStart, InName, Special, Control
<1>4. CASE t \notin {"\r", " ", "\t"}
  BY <1>1, <1>4 DEF HeaderLineStart, InName, Control
<1>. QED
  BY <1>2, <1>3, <1>4

LEMMA EndOfHeadStep ==
  ASSUME NEW q, DOMAIN q = DOMAIN NewRequest, q.state = "ExpectingNewline_3", NEW t,
         q.result = "ParsingIncompleted"
  PROVE  LET r == Step(q, t)
         IN  /\ DOMAIN r = DOMAIN NewRequest /\ r.method = q.method
             /\ r.contentSize = q.contentSize /\ r.chunked = q.chunked
             /\ \/ r.state \in BodyStates /\ (q.chunked \/ q.contentSize # 0)
                \/ r.state = "ExpectingNewline_3" /\ r.result = "ParsingError"
                \/ r.state = "ExpectingNewline_3" /\ r.result = "ParsingCompleted" /\ t = "\n"
BY DEF NewRequest, MethodStates, LineStates, NewlineStates, BodyStates, ParserState,
       HeadKept, MovesTo, GoTo, Error, Completed, Step, ExpectingNewline_3
----------------------------------------------------------------------------
(* The steps put together. *)

LEMMA InputGrows ==
  ASSUME NEW t \in Token, str \in Seq(Token), str' = Append(str, t)
  PROVE  LET n == Len(str)
         IN  /\ n \in Nat /\ str' \in Seq(Token) /\ Len(str') = n + 1 /\ str'[n + 1] = t
             /\ \A i \in 1..n : str'[i] = str[i]
OBVIOUS

LEMMA ReadInvariant ==
  ASSUME ParserInv, NEW t \in Token, p.result = "ParsingIncompleted",
         p' = Step(p, t), str' = Append(str, t)
  PROVE  ParserInv'
<1>. DEFINE n == Len(str)
<1>1. /\ n \in Nat /\ str' \in Seq(Token) /\ Len(str') = n + 1 /\ str'[n + 1] = t
      /\ \A i \in 1..n : str'[i] = str[i]
  BY InputGrows DEF ParserInv
<1>2. /\ DOMAIN p = DOMAIN NewRequest /\ p.state \in ParserState
      /\ BodyKnown /\ EndOfInput
  BY DEF ParserInv
<1>. USE DEF HeadKept, MovesTo, MethodStates, LineStates, NewlineStates, BodyStates,
             ParserState
<1>3. CASE p.state \in BodyStates
  <2>1. /\ DOMAIN p' = DOMAIN NewRequest
        /\ p'.state \in BodyStates /\ p'.method = p.method
    BY <1>2, <1>3, BodyStep
  <2>2. HasBody(p'.method)
    BY <1>2, <1>3, <2>1 DEF BodyKnown
  <2>3. p'.state \in ParserState /\ BodyKnown'
    BY <2>1, <2>2 DEF BodyKnown
  <2>4. EndOfInput'
    BY <2>1 DEF EndOfInput
  <2>. QED
    BY <1>1, <2>1, <2>2, <2>3, <2>4 DEF ParserInv
<1>4. CASE p.state \in MethodStates
  <2>1. /\ HeadKept(p, t, p') /\ p'.contentSize = p.contentSize /\ p'.chunked = p.chunked
        /\ MovesTo(p', {"RequestMethod", "RequestUriStart"})
        /\ p'.result = "ParsingError" \/ t # "\n"
    BY <1>2, <1>4, MethodStep
  <2>. QED
    BY <1>1, <1>2, <1>4, <2>1 DEF ParserInv, BodyKnown, EndOfInput
<1>5. CASE p.state \in LineStates
  <2>1. /\ HeadKept(p, t, p')
        /\ \/ MovesTo(p', LineStates) /\ (p'.result = "ParsingError" \/ t # "\n")
           \/ MovesTo(p', NewlineStates) /\ t = "\r"
           \/ p'.result = "ParsingCompleted" /\ p'.major = 0 /\ p'.minor = 9
           \/ p'.result = "terminate"
    BY <1>2, <1>5, LineStep
  <2>2. BodyKnown'
    BY <1>2, <1>5, <2>1 DEF BodyKnown
  <2>3. p'.result = "ParsingIncompleted" => EndOfInput'
    BY <1>1, <1>2, <1>5, <2>1 DEF EndOfInput
  <2>. QED
    BY <1>1, <2>1, <2>2, <2>3 DEF ParserInv
<1>6. CASE p.state \in NewlineStates
  <2>1. /\ HeadKept(p, t, p')
        /\ MovesTo(p', {"HeaderLineStart"})
        /\ p'.result = "ParsingError" \/ t = "\n"
    BY <1>2, <1>6, NewlineStep
  <2>2. BodyKnown'
    BY <1>2, <1>6, <2>1 DEF BodyKnown
  <2>3. p'.result = "ParsingIncompleted" => EndOfInput'
    BY <1>1, <1>2, <1>6, <2>1 DEF EndOfInput
  <2>. QED
    BY <1>1, <2>1, <2>2, <2>3 DEF ParserInv
<1>7. CASE p.state = "HeaderLineStart"
  <2>1. /\ HeadKept(p, t, p')
        /\ \/ MovesTo(p', {"ExpectingNewline_3"}) /\ t = "\r"
           \/ MovesTo(p', LineStates) /\ (p'.result = "ParsingError" \/ t # "\n")
    BY <1>2, <1>7, HeaderStep
  <2>2. BodyKnown'
    BY <1>2, <1>7, <2>1 DEF BodyKnown
  <2>3. p'.result = "ParsingIncompleted" => EndOfInput'
    BY <1>1, <1>2, <1>7, <2>1 DEF EndOfInput
  <2>. QED
    BY <1>1, <2>1, <2>2, <2>3 DEF ParserInv
<1>8. CASE p.state = "ExpectingNewline_3"
  <2>1. /\ DOMAIN p' = DOMAIN NewRequest /\ p'.method = p.method
        /\ p'.contentSize = p.contentSize /\ p'.chunked = p.chunked
        /\ \/ p'.state \in BodyStates /\ (p.chunked \/ p.contentSize # 0)
           \/ p'.state = "ExpectingNewline_3" /\ p'.result = "ParsingError"
           \/ p'.state = "ExpectingNewline_3" /\ p'.result = "ParsingCompleted" /\ t = "\n"
    BY <1>2, <1>8, EndOfHeadStep
  <2>2. CASE p'.state \in BodyStates
    <3>1. HasBody(p'.method) /\ BodyKnown'
      BY <1>2, <1>8, <2>1, <2>2 DEF BodyKnown
    <3>2. EndOfInput'
      BY <2>2 DEF EndOfInput
    <3>. QED
      BY <1>1, <2>1, <2>2, <3>1, <3>2 DEF ParserInv
  <2>3. CASE p'.state = "ExpectingNewline_3"
    <3>1. BodyKnown'
      BY <1>2, <1>8, <2>1, <2>3 DEF BodyKnown
    <3>2. p'.result = "ParsingCompleted" => Blank'
      BY <1>1, <1>2, <1>8, <2>1, <2>3 DEF EndOfInput, Blank
    <3>. QED
      BY <1>1, <2>1, <2>3, <3>1, <3>2 DEF ParserInv
  <2>. QED
    BY <2>1, <2>2, <2>3
<1>. QED
  BY <1>2, <1>3, <1>4, <1>5, <1>6, <1>7, <1>8

LEMMA StepParserInv == ParserInv /\ [Next]_vars => ParserInv'
<1>. SUFFICES ASSUME ParserInv, [Next]_vars PROVE ParserInv'
  OBVIOUS
<1>1. CASE UNCHANGED vars
  BY <1>1 DEF vars, ParserInv, BodyKnown, EndOfInput, Blank
<1>2. ASSUME NEW t \in Offered[p.state], Read(t) PROVE ParserInv'
  <2>1. t \in Token
    BY <1>2 DEF Token, ParserInv
  <2>. QED
    BY <1>2, <2>1, ReadInvariant DEF Read
<1>. QED
  BY <1>1, <1>2 DEF Next

LEMMA Agree == ParserInv => ReaderAndParserAgree
<1>. SUFFICES ASSUME ParserInv PROVE ReaderAndParserAgree
  OBVIOUS
<1>. DEFINE n    == Len(str)
            tail == SubSeq(str, n - 3, n)
<1>1. n \in Nat /\ str \in Seq(Token)
  BY DEF ParserInv
<1>2. n >= 4 => (tail = CRLF \o CRLF <=> Blank)
  <2>. SUFFICES ASSUME n >= 4 PROVE tail = CRLF \o CRLF <=> Blank
    OBVIOUS
  <2>1. /\ Len(tail) = 4 /\ tail[1] = str[n - 3] /\ tail[2] = str[n - 2]
        /\ tail[3] = str[n - 1] /\ tail[4] = str[n] /\ tail \in Seq(Token)
    BY <1>1
  <2>. DEFINE blank == CRLF \o CRLF
  <2>2. /\ blank \in Seq({"\r", "\n"}) /\ Len(blank) = 4
        /\ blank[1] = "\r" /\ blank[2] = "\n" /\ blank[3] = "\r" /\ blank[4] = "\n"
    <3>. DEFINE S == {"\r", "\n"}
    <3>1. \A a, b \in S : <<a, b>> \in Seq(S) /\ Len(<<a, b>>) = 2
      OBVIOUS
    <3>2. CRLF \in Seq(S) /\ Len(CRLF) = 2 /\ CRLF[1] = "\r" /\ CRLF[2] = "\n"
      BY <3>1 DEF CRLF
    <3>. HIDE DEF S
    <3>3. /\ blank \in Seq(S) /\ Len(blank) = 4
          /\ \A i \in 1..4 : blank[i] = IF i <= 2 THEN CRLF[i] ELSE CRLF[i - 2]
      <4>1. /\ blank \in Seq(S) /\ Len(blank) = Len(CRLF) + Len(CRLF)
            /\ \A i \in 1..(Len(CRLF) + Len(CRLF)) :
                 blank[i] = IF i <= Len(CRLF) THEN CRLF[i] ELSE CRLF[i - Len(CRLF)]
        BY <3>2, ConcatProperties, Zenon
      <4>. QED
        BY <3>2, <4>1
    <3>. QED
      BY <3>2, <3>3 DEF S
  <2>. HIDE DEF tail, blank
  <2>3. tail = blank <=> \A i \in 1..4 : tail[i] = blank[i]
    BY <2>1, <2>2
  <2>4. tail = blank <=> Blank
    BY <1>1, <2>1, <2>2, <2>3 DEF Blank
  <2>. QED
    BY <2>4 DEF tail, blank
<1>3. ~HasBody(p.method) /\ Blank => p.result # "ParsingIncompleted"
  BY <1>1 DEF ParserInv, BodyKnown, EndOfInput, Blank, ParserState, MethodStates, LineStates,
              NewlineStates
<1>4. Blank => n >= 4
  BY <1>1 DEF Blank
<1>. QED
  BY <1>2, <1>3, <1>4 DEF ParserInv, ReaderAndParserAgree

(* readHttpRequest and the parser agree on where a request without a body  *)
(* ends, whatever its head is made of and however long it is: the parser   *)
(* is never left waiting after the blank line, nor done before it.         *)
THEOREM ReaderStopsWhereTheParserDoes == Spec => []ReaderAndParserAgree
BY InitParserInv, StepParserInv, Agree, PTL DEF Spec

=============================================================================
