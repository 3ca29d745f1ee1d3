----------------------------- MODULE UrlParser -----------------------------
(***************************************************************************)
(* UrlParser::parse_ of src/http/httpparser/urlparser.hpp, which finds the *)
(* host, the port and the path of a request's URL.  It reads one character *)
(* at a time and never looks back, so an action reads a character in one   *)
(* of its states, and what parse_ would return after any input is a        *)
(* function of the state reached: see Finished.                            *)
(*                                                                         *)
(* A part of a URL is a sequence of characters.  The number atoi makes of  *)
(* the port is left out.                                                   *)
(***************************************************************************)
EXTENDS Integers, Sequences, SequencesExt

CONSTANTS
  Letter, Digit,  \* the letters and the digits of the input
  Other,          \* its other characters, as one-character strings
  MaxLength,      \* bound: how long an input is considered
  MaxPart         \* bound: no input is read on after a part longer than this

ASSUME UrlAssumption == MaxLength \in Nat /\ MaxPart \in Nat

VARIABLES
  state,               \* the local enum of parse_
  valid, url,          \* the members of the same names
  usernameOrHostname,  \* what was read before it is known what it is
  portOrPassword,
  aborted,             \* abort() was called
  str                  \* the input up to here

vars == <<state, valid, url, usernameOrHostname, portOrPassword, aborted, str>>

Char == Letter \cup Digit \cup Other

Alnum      == Letter \cup Digit
Unreserved == Alnum \cup {"-", ".", "_", "~"}

NoUrl == [scheme |-> <<>>, username |-> <<>>, password |-> <<>>,
          hostname |-> <<>>, port |-> <<>>, path |-> <<>>, query |-> <<>>,
          fragment |-> <<>>]

Init ==
  /\ state = "Scheme"
  /\ valid = TRUE
  /\ url = [NoUrl EXCEPT !.path = <<"/">>]
  /\ usernameOrHostname = <<>>
  /\ portOrPassword = <<>>
  /\ aborted = FALSE
  /\ str = <<>>

(* The character is read in state s and is one of S. *)
Reads(s, S, ch) ==
  /\ valid /\ ~aborted /\ Len(str) < MaxLength
  /\ state = s /\ ch \in S
  /\ Len(usernameOrHostname) <= MaxPart
  /\ \A part \in DOMAIN url : Len(url[part]) <= MaxPart
  /\ str' = Append(str, ch)

Pending == <<usernameOrHostname, portOrPassword>>

Keep(part, ch) == url' = [url EXCEPT ![part] = Append(@, ch)]

(* The character is appended to a part of the URL, or leads to a state. *)
Extends(part, ch) ==
  Keep(part, ch) /\ UNCHANGED <<state, valid, aborted, Pending>>

GoTo(s) == state' = s /\ UNCHANGED <<valid, url, aborted, Pending>>

Reject ==
  /\ valid' = FALSE /\ url' = NoUrl
  /\ UNCHANGED <<state, aborted, Pending>>

(* Faulty variant: what was read before the '@' stays for the hostname. *)
UserEndsWithCopy(ch) ==
  /\ Reads("UsernameOrHostname", {"@"}, ch)
  /\ state' = "Hostname"
  /\ url' = [url EXCEPT !.username = usernameOrHostname]
  /\ UNCHANGED <<valid, aborted, Pending>>

(* Faulty variant: a slash ends the username, as an '@' does. *)
HostEndsInPath(ch) ==
  /\ Reads("UsernameOrHostname", {"/"}, ch)
  /\ state' = "Path"
  /\ url' = [url EXCEPT !.username = usernameOrHostname]
  /\ usernameOrHostname' = url.hostname
  /\ UNCHANGED <<valid, aborted, portOrPassword>>

(* Faulty variant: the digits of the port are copied, not swapped. *)
PortCopies(ch) ==
  \/ /\ Reads("Port", Digit, ch)
     /\ portOrPassword' = Append(portOrPassword, ch)
     /\ UNCHANGED <<state, valid, url, aborted, usernameOrHostname>>
  \/ /\ Reads("Port", {"/"}, ch)
     /\ state' = "Path"
     /\ url' = [url EXCEPT !.port = portOrPassword]
     /\ UNCHANGED <<valid, aborted, Pending>>
  \/ Reads("Port", Char \ (Digit \cup {"/"}), ch) /\ Reject

----------------------------------------------------------------------------
Scheme(ch) ==
  \/ Reads("Scheme", Alnum \cup {"+", "-", "."}, ch) /\ Extends("scheme", ch)
  \/ Reads("Scheme", {":"}, ch) /\ GoTo("SlashAfterScheme1")
  \/ Reads("Scheme", Char \ (Alnum \cup {"+", "-", ".", ":"}), ch) /\ Reject

SlashAfterScheme(ch) ==
  \/ Reads("SlashAfterScheme1", {"/"}, ch) /\ GoTo("SlashAfterScheme2")
  \/ /\ Reads("SlashAfterScheme1", Alnum, ch)
     /\ usernameOrHostname' = <<ch>> /\ state' = "UsernameOrHostname"
     /\ UNCHANGED <<valid, url, aborted, portOrPassword>>
  \/ Reads("SlashAfterScheme1", Char \ (Alnum \cup {"/"}), ch) /\ Reject
  \/ Reads("SlashAfterScheme2", {"/"}, ch) /\ GoTo("UsernameOrHostname")
  \/ Reads("SlashAfterScheme2", Char \ {"/"}, ch) /\ Reject

(* std::swap of usernameOrHostname and an empty part of the URL *)
UserEnds(ch) ==
  /\ Reads("UsernameOrHostname", {"@"}, ch)
  /\ state' = "Hostname"
  /\ url' = [url EXCEPT !.username = usernameOrHostname]
  /\ usernameOrHostname' = url.username
  /\ UNCHANGED <<valid, aborted, portOrPassword>>

HostEnds(ch) ==
  /\ Reads("UsernameOrHostname", {"/"}, ch)
  /\ state' = "Path"
  /\ url' = [url EXCEPT !.hostname = usernameOrHostname]
  /\ usernameOrHostname' = url.hostname
  /\ UNCHANGED <<valid, aborted, portOrPassword>>

UsernameOrHostname(ch) ==
  \/ /\ Reads("UsernameOrHostname", Unreserved \cup {"%"}, ch)
     /\ usernameOrHostname' = Append(usernameOrHostname, ch)
     /\ UNCHANGED <<state, valid, url, aborted, portOrPassword>>
  \/ Reads("UsernameOrHostname", {":"}, ch) /\ GoTo("PortOrPassword")
  \/ UserEnds(ch) \/ HostEnds(ch)
  \/ /\ Reads("UsernameOrHostname", Char \ (Unreserved \cup {"%", ":", "@", "/"}), ch)
     /\ Reject

Password(ch) ==
  \/ Reads("Password", Alnum \cup {"%"}, ch) /\ Extends("password", ch)
  \/ Reads("Password", {"@"}, ch) /\ GoTo("Hostname")
  \/ Reads("Password", Char \ (Alnum \cup {"%", "@"}), ch) /\ Reject

Hostname(ch) ==
  \/ Reads("Hostname", {"["}, ch) /\ url.hostname = <<>> /\ GoTo("IPV6Hostname")
  \/ Reads("Hostname", Unreserved \cup {"%"}, ch) /\ Extends("hostname", ch)
  \/ Reads("Hostname", {":"}, ch) /\ GoTo("Port")
  \/ Reads("Hostname", {"/"}, ch) /\ GoTo("Path")
  \/ /\ Reads("Hostname", Char \ (Unreserved \cup {"%", ":", "/"}), ch)
     /\ ~(ch = "[" /\ url.hostname = <<>>)
     /\ Reject

IPV6Hostname(ch) ==
  /\ Reads("IPV6Hostname", Char, ch)
  /\ aborted' = TRUE
  /\ UNCHANGED <<state, valid, url, Pending>>

(* A digit may belong to a port or to a password; a letter settles it. *)
PortOrPassword(ch) ==
  \/ /\ Reads("PortOrPassword", Digit, ch)
     /\ portOrPassword' = Append(portOrPassword, ch)
     /\ UNCHANGED <<state, valid, url, aborted, usernameOrHostname>>
  \/ /\ Reads("PortOrPassword", {"/"}, ch)
     /\ state' = "Path"
     /\ url' = [url EXCEPT !.hostname = usernameOrHostname, !.port = portOrPassword]
     /\ usernameOrHostname' = url.hostname /\ portOrPassword' = url.port
     /\ UNCHANGED <<valid, aborted>>
  \/ /\ Reads("PortOrPassword", Letter \cup {"%"}, ch)
     /\ state' = "Password"
     /\ url' = [url EXCEPT !.username = usernameOrHostname,
                           !.password = Append(portOrPassword, ch)]
     /\ usernameOrHostname' = url.username /\ portOrPassword' = url.password
     /\ UNCHANGED <<valid, aborted>>
  \/ Reads("PortOrPassword", Char \ (Alnum \cup {"%", "/"}), ch) /\ Reject

Port(ch) ==
  \/ /\ Reads("Port", Digit, ch)
     /\ portOrPassword' = Append(portOrPassword, ch)
     /\ UNCHANGED <<state, valid, url, aborted, usernameOrHostname>>
  \/ /\ Reads("Port", {"/"}, ch)
     /\ state' = "Path"
     /\ url' = [url EXCEPT !.port = portOrPassword]
     /\ portOrPassword' = url.port
     /\ UNCHANGED <<valid, aborted, usernameOrHostname>>
  \/ Reads("Port", Char \ (Digit \cup {"/"}), ch) /\ Reject

Path(ch) ==
  \/ Reads("Path", {"#"}, ch) /\ GoTo("Fragment")
  \/ Reads("Path", {"?"}, ch) /\ GoTo("Query")
  \/ Reads("Path", Char \ {"#", "?"}, ch) /\ Extends("path", ch)

Query(ch) ==
  \/ Reads("Query", {"#"}, ch) /\ GoTo("Fragment")
  \/ Reads("Query", {"?"}, ch) /\ GoTo("Query")
  \/ Reads("Query", Char \ {"#", "?"}, ch) /\ Extends("query", ch)

Fragment(ch) == Reads("Fragment", Char, ch) /\ Extends("fragment", ch)

Next == \E ch \in Char :
  \/ Scheme(ch) \/ SlashAfterScheme(ch) \/ UsernameOrHostname(ch) \/ Password(ch)
  \/ Hostname(ch) \/ IPV6Hostname(ch) \/ PortOrPassword(ch) \/ Port(ch)
  \/ Path(ch) \/ Query(ch) \/ Fragment(ch)

Spec == Init /\ [][Next]_vars

(* The URL that parse_ leaves when the input ends here. *)
Finished ==
  [url EXCEPT !.hostname = IF usernameOrHostname = <<>> THEN @
                           ELSE usernameOrHostname]

----------------------------------------------------------------------------
(* Properties.                                                             *)

(* Nothing the parser still holds is a part of the URL when it returns:    *)
(* assert(portOrPassword.empty()), which runs for accepted and for         *)
(* rejected inputs.                                                        *)
NothingPending == ~aborted => portOrPassword = <<>>

(* What the parser holds when that assertion fails is the port the input   *)
(* ends with: a colon and these digits are the last that was read, or the  *)
(* last but one character, which was rejected.  Whatever is read after a   *)
(* port that is over takes the digits out, be it a password or the path.   *)
PendingIsTheLastPort ==
  portOrPassword # <<>> =>
    /\ state \in {"PortOrPassword", "Port"}
    /\ LET n == Len(str) - Len(portOrPassword) - (IF valid THEN 0 ELSE 1)
       IN  /\ n \in DOMAIN str /\ str[n] = ":"
           /\ \A i \in DOMAIN portOrPassword :
                str[n + i] = portOrPassword[i] /\ str[n + i] \in Digit

(* Every character of an accepted input ends up in the part it belongs to: *)
(* the parts, put together again, are the input.  The swaps neither lose   *)
(* nor mix them up, whatever user, password and port turn out to be.       *)
(* Of the marks, those that an empty part has in the input are free, and   *)
(* '?' and '#' are left out, as the code skips a second '?' in a query.    *)
After(mark, part) == IF part = <<>> THEN <<>> ELSE mark \o part

Rendered(u, slashes, at, colon) ==
  u.scheme \o <<":">> \o slashes
    \o u.username \o After(<<":">>, u.password)
    \o (IF u.username = <<>> /\ u.password = <<>> THEN at ELSE <<"@">>)
    \o u.hostname \o (IF u.port = <<>> THEN colon ELSE <<":">>) \o u.port
    \o u.path \o u.query \o u.fragment

PartsAreTheInput ==
  valid /\ state \in {"Path", "Query", "Fragment"} =>
    \E slashes \in {<<>>, <<"/", "/">>}, at \in {<<>>, <<"@">>},
       colon \in {<<>>, <<":">>} :
      LET Unmarked(s) == SelectSeq(s, LAMBDA ch : ch \notin {"?", "#"})
      IN  Unmarked(str) = Unmarked(Rendered(Finished, slashes, at, colon))

(* A URL that ends after its authority names the same host, port and user  *)
(* as the one that goes on with a slash.                                   *)
SlashIsOptional ==
  [][state' = "Path" /\ state # "Path" /\ portOrPassword = <<>> =>
       /\ Finished'.hostname = Finished.hostname
       /\ Finished'.port = Finished.port
       /\ Finished'.username = Finished.username]_vars
============================================================================
