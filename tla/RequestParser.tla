--------------------------- MODULE RequestParser ---------------------------
(***************************************************************************)
(* HttpRequestParser::consume of src/http/httpparser/httprequestparser.hpp *)
(* and what HttpRequest makes of a parsed request: the text that is sent   *)
(* to the origin and is the key of the cache.                              *)
(*                                                                         *)
(* The parser reads one character at a time, so it is a function: Step     *)
(* gives what a request `p' in the making becomes when token t is read,    *)
(* one operator per state of the parser.  The behaviours are all inputs.   *)
(*                                                                         *)
(* A token is a character, or a word of which no character ends what is    *)
(* being read, such as a header's name; Offered says what is read where.   *)
(* keepAlive, which the proxy does not look at, is left out.               *)
(***************************************************************************)
EXTENDS Integers, Sequences, SequencesExt, FiniteSetsExt

CONSTANTS
  Offered,     \* bound: the tokens that are read in each state
  Absolute,    \* the words that are http://host/ of some host
  Huge,        \* the words that are more digits than a number has
  MaxHeaders,  \* bound: headers of a request
  MaxPart,     \* bound: no input is read on after a part longer than this
  MaxVersion,  \* bound: nor after a number of a version larger than this
  MaxLength    \* bound: tokens of an input

ASSUME RequestAssumption == {MaxHeaders, MaxVersion, MaxLength} \subseteq Nat

Numeral == <<"0", "1", "2", "3", "4", "5", "6", "7", "8", "9">>
CRLF    == <<"\r", "\n">>

VARIABLES
  p,         \* the request, as the parser has it
  str,       \* the input up to here
  announced  \* history: the chunk sizes read, added up

vars == <<p, str, announced>>

----------------------------------------------------------------------------
(* The classes of characters, and the functions of libc.                   *)

Control  == {"\r", "\n", "\t"}
Special  == {" ", "\t", ":", ";", "=", "/", "?"}
NotAscii == {"8bit"}
Digit    == ToSet(Numeral)
\* "g" stands for the letters, none of which is a hexadecimal digit.
Alnum    == Digit \cup Huge \cup {"g"}
InName(t) == t \notin Control \cup Special \cup NotAscii

(* strcasecmp with one of the words the parser knows *)
Spelled(s, word) ==
  s \in CASE word = "Content-Length"    -> {<<"Content-Length">>}
          [] word = "Transfer-Encoding" -> {<<"Transfer-Encoding">>, <<"transfer-encoding">>}
          [] word = "chunked"           -> {<<"chunked">>}

(* atoi and strtol: the number the leading digits make, 0 without any.  A  *)
(* number that is too large is LONG_MAX to strtol and -1 to atoi.  Blanks  *)
(* and signs before a number are not offered.                              *)
TooLarge == -1

NumberOf(s, base) ==
  LET rest   == SelectInSeq(s, LAMBDA t : t \notin Digit \cup Huge)
      digits == IF rest = 0 THEN s ELSE SubSeq(s, 1, rest - 1)
      NumeralOf(t) == CHOOSE n \in 0..9 : Numeral[n + 1] = t
  IN  IF ToSet(digits) \cap Huge # {} THEN TooLarge
      ELSE FoldLeft(LAMBDA n, t : base * n + NumeralOf(t), 0, digits)

----------------------------------------------------------------------------
NewRequest ==
  [state |-> "RequestMethodStart", result |-> "ParsingIncompleted",
   method |-> <<>>, uri |-> <<>>, major |-> 0, minor |-> 0,
   headers |-> <<>>, content |-> <<>>,
   contentSize |-> 0, chunkSizeStr |-> <<>>, chunkSize |-> 0, chunked |-> FALSE]

GoTo(q, s)        == [q EXCEPT !.state = s]
Push(q, part, t)  == [q EXCEPT ![part] = Append(@, t)]
Error(q)          == [q EXCEPT !.result = "ParsingError"]
Completed(q)      == [q EXCEPT !.result = "ParsingCompleted"]
(* reserve() throws an exception of the library, which nobody catches. *)
Terminates(q)     == [q EXCEPT !.result = "terminate"]
Expect(q, t, c, s) == IF t = c THEN GoTo(q, s) ELSE Error(q)

PushName(q, t)  == [q EXCEPT !.headers[Len(q.headers)].name = Append(@, t)]
PushValue(q, t) == [q EXCEPT !.headers[Len(q.headers)].value = Append(@, t)]

RequestMethodStart(q, t) ==
  IF InName(t) THEN GoTo(Push(q, "method", t), "RequestMethod") ELSE Error(q)

RequestMethod(q, t) ==
  CASE t = " "                  -> GoTo(q, "RequestUriStart")
    [] t # " " /\ InName(t)     -> Push(q, "method", t)
    [] t # " " /\ ~InName(t)    -> Error(q)

RequestUriStart(q, t) ==
  IF t \in Control THEN Error(q) ELSE GoTo(Push(q, "uri", t), "RequestUri")

RequestUri(q, t) ==
  CASE t = " "                  -> GoTo(q, "RequestHttpVersion")
    [] t = "\r"                 -> Completed([q EXCEPT !.major = 0, !.minor = 9])
    [] t \in Control \ {"\r"}   -> Error(q)
    [] t \notin Control \cup {" "} -> Push(q, "uri", t)

(* The five states that read "HTTP/" are one. *)
RequestHttpVersion(q, t) ==
  Expect([q EXCEPT !.major = 0, !.minor = 0], t, "HTTP/", "RequestHttpVersion_majorStart")

VersionStart(q, t, part, next) ==
  IF t \in Digit THEN GoTo([q EXCEPT ![part] = NumberOf(<<t>>, 10)], next) ELSE Error(q)

Version(q, t, part, last, next) ==
  IF t \in Digit THEN [q EXCEPT ![part] = 10 * @ + NumberOf(<<t>>, 10)]
                 ELSE Expect(q, t, last, next)

HeaderLineStart(q, t) ==
  CASE t = "\r"                                -> GoTo(q, "ExpectingNewline_3")
    [] t \in {" ", "\t"} /\ q.headers # <<>>   -> GoTo(q, "HeaderLws")
    [] InName(t) -> GoTo(Push(q, "headers", [name |-> <<t>>, value |-> <<>>]), "HeaderName")
    [] OTHER -> Error(q)

(* Faulty variant: the character that ends the blanks is lost. *)
HeaderLwsLoses(q, t) ==
  CASE t = "\r"               -> GoTo(q, "ExpectingNewline_2")
    [] t \in {" ", "\t"}      -> q
    [] t = "\n"               -> Error(q)
    [] t \notin Control \cup {" "} -> GoTo(q, "HeaderValue")

HeaderLws(q, t) ==
  CASE t = "\r"               -> GoTo(q, "ExpectingNewline_2")
    [] t \in {" ", "\t"}      -> q
    [] t = "\n"               -> Error(q)
    [] t \notin Control \cup {" "} -> GoTo(PushValue(q, t), "HeaderValue")

HeaderName(q, t) ==
  CASE t = ":"                -> GoTo(q, "SpaceBeforeHeaderValue")
    [] InName(t)              -> PushName(q, t)
    [] t # ":" /\ ~InName(t)  -> Error(q)

(* What a header says of the body, looked at when a line of its value ends. *)
HasBody(method) == method \in {<<"POST">>, <<"PUT">>}

Evaluated(q) ==
  LET h == Last(q.headers) n == NumberOf(h.value, 10)
  IN  CASE Spelled(h.name, "Content-Length") ->
             IF n = TooLarge THEN Terminates(q) ELSE [q EXCEPT !.contentSize = n]
        [] Spelled(h.name, "Transfer-Encoding") /\ Spelled(h.value, "chunked") ->
             [q EXCEPT !.chunked = TRUE]
        [] OTHER -> q

(* Faulty variant: the length of a body counts for every method. *)
HeaderValueOfAny(q, t) ==
  CASE t = "\r" -> GoTo(Evaluated(q), "ExpectingNewline_2")
    [] t \in Control \ {"\r"} -> Error(q)
    [] t \notin Control       -> PushValue(q, t)

HeaderValue(q, t) ==
  CASE t = "\r" -> GoTo(IF HasBody(q.method) THEN Evaluated(q) ELSE q, "ExpectingNewline_2")
    [] t \in Control \ {"\r"} -> Error(q)
    [] t \notin Control       -> PushValue(q, t)

(* The end of the head.  If a body follows, the character is not looked at. *)
ExpectingNewline_3(q, t) ==
  CASE q.chunked                                        -> GoTo(q, "ChunkSize")
    [] ~q.chunked /\ q.contentSize # 0                  -> GoTo(q, "Post")
    [] ~q.chunked /\ q.contentSize = 0 /\ t = "\n"      -> Completed(q)
    [] ~q.chunked /\ q.contentSize = 0 /\ t # "\n"      -> Error(q)

(* Faulty variant: the count is looked at before the character counts. *)
PostToZero(q, t) ==
  LET r == Push([q EXCEPT !.contentSize = @ - 1], "content", t)
  IN  IF q.contentSize = 0 THEN Completed(r) ELSE r

Post(q, t) ==
  LET r == Push([q EXCEPT !.contentSize = @ - 1], "content", t)
  IN  IF r.contentSize = 0 THEN Completed(r) ELSE r

ChunkSize(q, t) ==
  CASE t \in Alnum -> Push(q, "chunkSizeStr", t)
    [] t = ";"     -> GoTo(q, "ChunkExtensionName")
    [] t = "\r"    -> GoTo(q, "ChunkSizeNewLine")
    [] OTHER       -> Error(q)

ChunkExtensionName(q, t) ==
  CASE t \in Alnum \cup {" "} -> q
    [] t = "="     -> GoTo(q, "ChunkExtensionValue")
    [] t = "\r"    -> GoTo(q, "ChunkSizeNewLine")
    [] OTHER       -> Error(q)

Skip(q, t, skipped, last, next) ==
  IF t \in skipped THEN q ELSE Expect(q, t, last, next)

(* Also reached after a trailer, when chunkSizeStr is empty. *)
ChunkSizeNewLine(q, t) ==
  LET n == NumberOf(q.chunkSizeStr, 16)
      r == [q EXCEPT !.chunkSize = n, !.chunkSizeStr = <<>>]
  IN  CASE t # "\n"                          -> Error(q)
        [] t = "\n" /\ n = TooLarge          -> Terminates(q)
        [] t = "\n" /\ n = 0                 -> GoTo(r, "ChunkSizeNewLine_2")
        [] t = "\n" /\ n \notin {0, TooLarge} -> GoTo(r, "ChunkData")

ChunkSizeNewLine_2(q, t) ==
  CASE t = "\r" -> GoTo(q, "ChunkSizeNewLine_3")
    [] t = "g"  -> GoTo(q, "ChunkTrailerName")
    [] OTHER    -> Error(q)

ChunkData(q, t) ==
  LET r == Push([q EXCEPT !.chunkSize = @ - 1], "content", t)
  IN  IF r.chunkSize = 0 THEN GoTo(r, "ChunkDataNewLine_1") ELSE r

Step(q, t) ==
  CASE q.state = "RequestMethodStart"   -> RequestMethodStart(q, t)
    [] q.state = "RequestMethod"        -> RequestMethod(q, t)
    [] q.state = "RequestUriStart"      -> RequestUriStart(q, t)
    [] q.state = "RequestUri"           -> RequestUri(q, t)
    [] q.state = "RequestHttpVersion"   -> RequestHttpVersion(q, t)
    [] q.state = "RequestHttpVersion_majorStart" ->
         VersionStart(q, t, "major", "RequestHttpVersion_major")
    [] q.state = "RequestHttpVersion_major" ->
         Version(q, t, "major", ".", "RequestHttpVersion_minorStart")
    [] q.state = "RequestHttpVersion_minorStart" ->
         VersionStart(q, t, "minor", "RequestHttpVersion_minor")
    [] q.state = "RequestHttpVersion_minor" ->
         Version(q, t, "minor", "\r", "ResponseHttpVersion_newLine")
    [] q.state = "ResponseHttpVersion_newLine" -> Expect(q, t, "\n", "HeaderLineStart")
    [] q.state = "HeaderLineStart"      -> HeaderLineStart(q, t)
    [] q.state = "HeaderLws"            -> HeaderLws(q, t)
    [] q.state = "HeaderName"           -> HeaderName(q, t)
    [] q.state = "SpaceBeforeHeaderValue" -> Expect(q, t, " ", "HeaderValue")
    [] q.state = "HeaderValue"          -> HeaderValue(q, t)
    [] q.state = "ExpectingNewline_2"   -> Expect(q, t, "\n", "HeaderLineStart")
    [] q.state = "ExpectingNewline_3"   -> ExpectingNewline_3(q, t)
    [] q.state = "Post"                 -> Post(q, t)
    [] q.state = "ChunkSize"            -> ChunkSize(q, t)
    [] q.state = "ChunkExtensionName"   -> ChunkExtensionName(q, t)
    [] q.state = "ChunkExtensionValue"  ->
         Skip(q, t, Alnum \cup {" "}, "\r", "ChunkSizeNewLine")
    [] q.state = "ChunkSizeNewLine"     -> ChunkSizeNewLine(q, t)
    [] q.state = "ChunkSizeNewLine_2"   -> ChunkSizeNewLine_2(q, t)
    [] q.state = "ChunkSizeNewLine_3"   -> IF t = "\n" THEN Completed(q) ELSE Error(q)
    [] q.state = "ChunkTrailerName"     -> Skip(q, t, Alnum, ":", "ChunkTrailerValue")
    [] q.state = "ChunkTrailerValue"    ->
         Skip(q, t, Alnum \cup {" "}, "\r", "ChunkSizeNewLine")
    [] q.state = "ChunkData"            -> ChunkData(q, t)
    [] q.state = "ChunkDataNewLine_1"   -> Expect(q, t, "\r", "ChunkDataNewLine_2")
    [] q.state = "ChunkDataNewLine_2"   -> Expect(q, t, "\n", "ChunkSize")

(* HttpRequestParser::parse *)
Parsed(s) ==
  FoldLeft(LAMBDA q, t : IF q.result = "ParsingIncompleted" THEN Step(q, t) ELSE q,
           NewRequest, s)

----------------------------------------------------------------------------
(* HttpRequest::parse and toString.  The path of an absolute URL is what   *)
(* follows the host up to a query or a fragment; for any other URI path()  *)
(* fails its assertion.                                                    *)

ToRemove == {<<"Proxy-Connection">>, <<"Upgrade-Insecure-Requests">>, <<"Range">>}

IsValid(uri) == Head(uri) \in Absolute

Path(uri) ==
  LET rest == Tail(uri)
      end  == SelectInSeq(rest, LAMBDA t : t \in {"?", "#"})
  IN  <<"/">> \o (IF end = 0 THEN rest ELSE SubSeq(rest, 1, end - 1))

(* The map of the headers that are kept; the last of one name wins. *)
Headers(q) ==
  [n \in {q.headers[i].name : i \in DOMAIN q.headers} \ ToRemove |->
     IF n = <<"Connection">> THEN <<"close">>
     ELSE q.headers[Max({i \in DOMAIN q.headers : q.headers[i].name = n})].value]

(* A number as it is written *)
Decimal[n \in Nat] ==
  IF n < 10 THEN <<Numeral[n + 1]>> ELSE Decimal[n \div 10] \o Decimal[n % 10]

(* Faulty variant: a header is written without the blank. *)
LineTight(name, value) == name \o <<":">> \o value \o CRLF

Line(name, value) == name \o <<":", " ">> \o value \o CRLF

(* SetToSeq stands for the order of the std::map. *)
toString(q) ==
  LET h == Headers(q)
  IN  q.method \o <<" ">> \o Path(q.uri) \o <<" ", "HTTP/">>
        \o Decimal[q.major] \o <<".">> \o Decimal[q.minor] \o CRLF
        \o FlattenSeq([i \in 1..Cardinality(DOMAIN h) |->
                         LET n == SetToSeq(DOMAIN h)[i] IN Line(n, h[n])])
        \o CRLF \o CRLF

----------------------------------------------------------------------------
Init == p = NewRequest /\ str = <<>> /\ announced = 0

InBounds ==
  /\ Len(str) < MaxLength /\ Len(p.headers) <= MaxHeaders
  /\ {p.major, p.minor} \subseteq 0..MaxVersion
  /\ \A part \in {"method", "uri", "chunkSizeStr", "content"} : Len(p[part]) <= MaxPart[part]
  /\ \A i \in DOMAIN p.headers, part \in {"name", "value"} :
       Len(p.headers[i][part]) <= MaxPart[part]

Read(t) ==
  /\ p.result = "ParsingIncompleted" /\ InBounds
  /\ p' = Step(p, t)
  /\ str' = Append(str, t)
  /\ announced' = IF p.state = "ChunkSizeNewLine" THEN announced + p'.chunkSize
                                                  ELSE announced

Next == \E t \in Offered[p.state] : Read(t)

Spec == Init /\ [][Next]_vars

----------------------------------------------------------------------------
(* Properties.                                                             *)

(* What is read of a head is what is written in it: method, URI, names and *)
(* values, put together again, are the input, but for blanks and ends of   *)
(* lines.  A value that goes on over several lines loses no character.     *)
HeadIsTheInput ==
  p.state = "ExpectingNewline_3" /\ p.result = "ParsingIncompleted" =>
    LET Unmarked(s) == SelectSeq(s, LAMBDA t : t \notin {" ", "\t", "\r", "\n"})
        AsRead == p.method \o p.uri \o <<"HTTP/">> \o Decimal[p.major] \o <<".">>
                    \o Decimal[p.minor]
                    \o FlattenSeq([i \in DOMAIN p.headers |->
                                     Line(p.headers[i].name, p.headers[i].value)])
    IN  Unmarked(str) = Unmarked(AsRead)

(* The reader of a socket and the parser agree on where a request ends:    *)
(* readHttpRequest stops at the blank line, and there the parser is done   *)
(* with a request that is neither POST nor PUT, and before it only with    *)
(* one of HTTP/0.9.  Otherwise the client would be sent away.              *)
ReaderAndParserAgree ==
  ~HasBody(p.method) =>
    LET blank == Len(str) >= 4 /\ SubSeq(str, Len(str) - 3, Len(str)) = CRLF \o CRLF
    IN  /\ blank => p.result # "ParsingIncompleted"
        /\ p.result = "ParsingCompleted" => blank \/ <<p.major, p.minor>> = <<0, 9>>

(* A complete request has the body its head announces: as many characters  *)
(* as the last Content-Length says, the last ones of the input, or as many *)
(* as the chunks of it add up to.                                          *)
BodyAsDeclared ==
  p.result = "ParsingCompleted" /\ HasBody(p.method) /\ <<p.major, p.minor>> # <<0, 9>> =>
    LET n == Len(p.content)
        lengths == {i \in DOMAIN p.headers : Spelled(p.headers[i].name, "Content-Length")}
    IN  IF p.chunked THEN n = announced
        ELSE /\ n = IF lengths = {} THEN 0
                    ELSE NumberOf(p.headers[Max(lengths)].value, 10)
             /\ p.content = SubSeq(str, Len(str) - n + 1, Len(str))

NamesIn(headers) == {headers[i].name : i \in DOMAIN headers}

(* What is sent to the origin is read there, by the same rules, as the     *)
(* request that was received as far as toString means to write it: method  *)
(* and version; the URI from its host on, up to a query or a fragment; the *)
(* headers that are not to go, each once with the last of its values, but  *)
(* "Connection", which is "close".  So a request without a body is read as *)
(* complete.  The string is the key of the cache, too: requests that share *)
(* an entry agree in all of this, as nothing written in one part can be    *)
(* taken for another.  They need not agree in the query or in the body.    *)
ForwardedHeadIsRead ==
  p.result = "ParsingCompleted" /\ IsValid(p.uri) =>
    LET q == Parsed(toString(p))
    IN  /\ q.result # "ParsingError"
        /\ p.content = <<>> /\ ~p.chunked => q.result = "ParsingCompleted"
        /\ q.method = p.method /\ q.major = p.major /\ q.minor = p.minor
        /\ Head(q.uri) = "/" /\ ToSet(Tail(q.uri)) \cap {"?", "#"} = {}
        /\ \E n \in 1..Len(p.uri) :
             /\ SubSeq(p.uri, 2, n) = Tail(q.uri)
             /\ n < Len(p.uri) => p.uri[n + 1] \in {"?", "#"}
        /\ NamesIn(q.headers) = NamesIn(p.headers) \ ToRemove
        /\ \A i, j \in DOMAIN q.headers :
             q.headers[i].name = q.headers[j].name => i = j
        /\ \A h \in ToSet(q.headers) :
             IF h.name = <<"Connection">> THEN h.value = <<"close">>
             ELSE \E i \in DOMAIN p.headers :
                    /\ h = p.headers[i]
                    /\ \A j \in DOMAIN p.headers : p.headers[j].name = h.name => j <= i
=============================================================================
