----------------------------- MODULE UrlProofs -----------------------------
(***************************************************************************)
(* Proofs about the URL parser, for every alphabet and inputs and parts of *)
(* any length.                                                             *)
(***************************************************************************)
EXTENDS UrlParser, TLAPS

Undecided  == {"UsernameOrHostname", "PortOrPassword"}
BeforeHost == {"Scheme", "SlashAfterScheme1", "SlashAfterScheme2"} \cup Undecided
BeforePath == BeforeHost \cup {"Password", "Hostname", "IPV6Hostname", "Port"}
AfterPath  == {"Path", "Query", "Fragment"}

(* What a state says of the parts: those that come later are empty still,  *)
(* and so is what the parser holds back once it is known what it was.      *)
Known ==
  /\ DOMAIN url = DOMAIN NoUrl
  /\ state \in BeforePath \cup AfterPath
  /\ state \in BeforePath => url.port = <<>>
  /\ state \in BeforeHost =>
       url.hostname = <<>> /\ url.username = <<>> /\ url.password = <<>>
  /\ state \notin Undecided => usernameOrHostname = <<>>
  /\ state \notin {"PortOrPassword", "Port"} => portOrPassword = <<>>

LEMMA InitKnown == Init => Known
BY DEF Init, Known, NoUrl, Undecided, BeforeHost, BeforePath, AfterPath

LEMMA StepKnown == Known /\ [Next]_vars => Known'
<1>. SUFFICES ASSUME Known, [Next]_vars PROVE Known'
  OBVIOUS
<1>. USE DEF Known, Undecided, BeforeHost, BeforePath, AfterPath, NoUrl,
             Reads, GoTo, Extends, Keep, Reject, Pending
<1>1. CASE UNCHANGED vars
  BY <1>1 DEF vars
<1>2. ASSUME NEW ch \in Char, Scheme(ch) PROVE Known'
  BY <1>2 DEF Scheme
<1>3. ASSUME NEW ch \in Char, SlashAfterScheme(ch) PROVE Known'
  BY <1>3 DEF SlashAfterScheme
<1>4. ASSUME NEW ch \in Char, UsernameOrHostname(ch) PROVE Known'
  BY <1>4 DEF UsernameOrHostname, UserEnds, HostEnds
<1>5. ASSUME NEW ch \in Char, Password(ch) PROVE Known'
  BY <1>5 DEF Password
<1>6. ASSUME NEW ch \in Char, Hostname(ch) PROVE Known'
  BY <1>6 DEF Hostname
<1>7. ASSUME NEW ch \in Char, IPV6Hostname(ch) PROVE Known'
  BY <1>7 DEF IPV6Hostname
<1>8. ASSUME NEW ch \in Char, PortOrPassword(ch) PROVE Known'
  <2>1. CASE state' = "Password"
    <3>1. /\ DOMAIN url' = DOMAIN url /\ url'.port = url.port
          /\ usernameOrHostname' = url.username /\ portOrPassword' = url.password
      BY <1>8, <2>1 DEF PortOrPassword
    <3>. QED
      BY <1>8, <2>1, <3>1 DEF PortOrPassword
  <2>2. CASE state' = "Path"
    <3>1. /\ DOMAIN url' = DOMAIN url
          /\ usernameOrHostname' = url.hostname /\ portOrPassword' = url.port
      BY <1>8, <2>2 DEF PortOrPassword
    <3>. QED
      BY <1>8, <2>2, <3>1 DEF PortOrPassword
  <2>3. CASE state' = state /\ (url' = url \/ url' = NoUrl)
    BY <1>8, <2>3 DEF PortOrPassword
  <2>. QED
    BY <1>8, <2>1, <2>2, <2>3 DEF PortOrPassword
<1>9. ASSUME NEW ch \in Char, Port(ch) PROVE Known'
  BY <1>9 DEF Port
<1>10. ASSUME NEW ch \in Char, Path(ch) \/ Query(ch) \/ Fragment(ch) PROVE Known'
  BY <1>10 DEF Path, Query, Fragment
<1>. QED
  BY <1>1, <1>2, <1>3, <1>4, <1>5, <1>6, <1>7, <1>8, <1>9, <1>10 DEF Next

(* What the parser holds of a port is what it has read since the colon.    *)
Rejected == IF valid THEN 0 ELSE 1

Colon == Len(str) - Len(portOrPassword) - Rejected

Held ==
  /\ str \in Seq(Char) /\ portOrPassword \in Seq(Digit) /\ valid \in BOOLEAN
  /\ state \in {"PortOrPassword", "Port"} =>
       /\ Colon \in DOMAIN str /\ str[Colon] = ":"
       /\ \A i \in DOMAIN portOrPassword : str[Colon + i] = portOrPassword[i]

LEMMA InitHeld == Init => Held
BY DEF Init, Held

(* A step that reads a character, by what it does with what is held. *)
LEMMA HoldsNothing ==
  ASSUME Held, NEW ch \in Char, str' = Append(str, ch), valid' \in BOOLEAN,
         portOrPassword' = <<>>, state' \notin {"PortOrPassword", "Port"}
  PROVE  Held'
BY DEF Held

LEMMA ColonIsRead ==
  ASSUME Held, ":" \in Char, str' = Append(str, ":"), valid' = TRUE,
         portOrPassword' = <<>>
  PROVE  Held'
<1>1. str' \in Seq(Char) /\ Len(str') = Len(str) + 1 /\ str'[Len(str) + 1] = ":"
  BY DEF Held
<1>2. Colon' = Len(str) + 1
  BY <1>1 DEF Colon, Rejected, Held
<1>. QED
  BY <1>1, <1>2 DEF Held

LEMMA DigitIsHeld ==
  ASSUME Held, valid, NEW ch \in Digit, ch \in Char, str' = Append(str, ch), valid' = valid,
         state \in {"PortOrPassword", "Port"},
         portOrPassword' = Append(portOrPassword, ch)
  PROVE  Held'
<1>1. /\ str' \in Seq(Char) /\ portOrPassword' \in Seq(Digit)
      /\ Len(str') = Len(str) + 1 /\ Len(portOrPassword') = Len(portOrPassword) + 1
      /\ Len(str) \in Nat /\ Len(portOrPassword) \in Nat
  BY DEF Held
<1>2. Colon' = Colon /\ Colon = Len(str) - Len(portOrPassword)
  BY <1>1 DEF Colon, Rejected
<1>3. Colon \in 1..Len(str) /\ str[Colon] = ":"
      /\ \A i \in 1..Len(portOrPassword) : str[Colon + i] = portOrPassword[i]
  BY DEF Held
<1>4. str'[Colon] = ":"
  BY <1>1, <1>3 DEF Held
<1>5. ASSUME NEW i \in 1..Len(portOrPassword') PROVE str'[Colon + i] = portOrPassword'[i]
  <2>1. CASE i \in 1..Len(portOrPassword)
    <3>1. Colon + i \in 1..Len(str)
      BY <1>1, <1>2, <1>3, <2>1
    <3>2. str'[Colon + i] = str[Colon + i] /\ portOrPassword'[i] = portOrPassword[i]
      BY <2>1, <3>1 DEF Held
    <3>. QED
      BY <1>3, <2>1, <3>2
  <2>2. CASE i = Len(portOrPassword) + 1
    <3>1. Colon + i = Len(str) + 1
      BY <1>1, <1>2, <2>2
    <3>. QED
      BY <2>2, <3>1 DEF Held
  <2>3. i \in 1..(Len(portOrPassword) + 1)
    BY <1>1, <1>5
  <2>. QED
    BY ONLY <1>1, <2>1, <2>2, <2>3
<1>6. valid' \in BOOLEAN /\ DOMAIN str' = 1..Len(str')
      /\ DOMAIN portOrPassword' = 1..Len(portOrPassword')
  BY <1>1 DEF Held
<1>7. Colon' \in DOMAIN str'
  BY <1>1, <1>2, <1>3, <1>6
<1>. QED
  BY <1>1, <1>2, <1>4, <1>5, <1>6, <1>7 DEF Held

LEMMA RejectHolds ==
  ASSUME Held, valid, NEW ch \in Char, str' = Append(str, ch), valid' = FALSE,
         state' = state, portOrPassword' = portOrPassword
  PROVE  Held'
<1>1. /\ str' \in Seq(Char) /\ Len(str') = Len(str) + 1
      /\ Len(str) \in Nat /\ Len(portOrPassword) \in Nat
  BY DEF Held
<1>2. Colon' = Colon /\ Colon = Len(str) - Len(portOrPassword)
  BY <1>1 DEF Colon, Rejected
<1>3. ASSUME NEW j \in 1..Len(str) PROVE str'[j] = str[j]
  BY DEF Held
<1>4. SUFFICES ASSUME state \in {"PortOrPassword", "Port"}
               PROVE  /\ Colon \in DOMAIN str' /\ str'[Colon] = ":"
                      /\ \A i \in DOMAIN portOrPassword :
                            str'[Colon + i] = portOrPassword[i]
  BY <1>1, <1>2 DEF Held
<1>5. Colon \in 1..Len(str) /\ str[Colon] = ":"
      /\ \A i \in 1..Len(portOrPassword) : str[Colon + i] = portOrPassword[i]
  BY <1>4 DEF Held
<1>6. ASSUME NEW i \in 1..Len(portOrPassword) PROVE str'[Colon + i] = portOrPassword[i]
  <2>1. Colon + i \in 1..Len(str)
    BY <1>1, <1>2, <1>5
  <2>. QED
    BY <1>3, <1>5, <2>1
<1>7. DOMAIN str' = 1..Len(str') /\ DOMAIN portOrPassword = 1..Len(portOrPassword)
  BY <1>1 DEF Held
<1>8. Colon \in 1..Len(str')
  BY <1>1, <1>5
<1>. QED
  BY ONLY <1>3, <1>5, <1>6, <1>7, <1>8

(* Every character does one of these four things to what is held.          *)
LEMMA StepHeld == Known /\ Held /\ [Next]_vars => Held'
<1>. SUFFICES ASSUME Known, Held, [Next]_vars PROVE Held'
  OBVIOUS
<1>. DEFINE InPort(s)     == s \in {"PortOrPassword", "Port"}
            Nothing(ch)   == /\ str' = Append(str, ch) /\ valid' = valid
                             /\ portOrPassword' = <<>> /\ ~InPort(state')
            IsColon(ch)   == /\ ch = ":" /\ str' = Append(str, ch) /\ valid /\ valid' = valid
                             /\ portOrPassword' = <<>>
            IsDigit(ch)   == /\ ch \in Digit /\ str' = Append(str, ch) /\ valid /\ valid' = valid
                             /\ InPort(state)
                             /\ portOrPassword' = Append(portOrPassword, ch)
            Rejects(ch)   == /\ str' = Append(str, ch) /\ valid /\ valid' = FALSE
                             /\ state' = state /\ portOrPassword' = portOrPassword
            OneOf(ch)     == Nothing(ch) \/ IsColon(ch) \/ IsDigit(ch) \/ Rejects(ch)
<1>1. CASE UNCHANGED vars
  BY <1>1 DEF vars, Held, Colon, Rejected
<1>2. ASSUME NEW ch \in Char, OneOf(ch) PROVE Held'
  <2>1. valid \in BOOLEAN
    BY DEF Held
  <2>2. CASE Nothing(ch)
    BY <2>1, <2>2, HoldsNothing
  <2>3. CASE IsColon(ch)
    BY <2>1, <2>3, ColonIsRead
  <2>4. CASE IsDigit(ch)
    BY <2>1, <2>4, DigitIsHeld
  <2>5. CASE Rejects(ch)
    BY <2>1, <2>5, RejectHolds
  <2>. QED
    BY <1>2, <2>2, <2>3, <2>4, <2>5
<1>. USE DEF Known, Undecided, BeforeHost, BeforePath, AfterPath,
             Reads, GoTo, Extends, Keep, Reject, Pending
<1>3. ASSUME NEW ch \in Char, Scheme(ch) \/ SlashAfterScheme(ch) PROVE OneOf(ch)
  BY <1>3 DEF Scheme, SlashAfterScheme
<1>4. ASSUME NEW ch \in Char, UsernameOrHostname(ch) PROVE OneOf(ch)
  BY <1>4 DEF UsernameOrHostname, UserEnds, HostEnds
<1>5. ASSUME NEW ch \in Char, Password(ch) \/ Hostname(ch) \/ IPV6Hostname(ch) PROVE OneOf(ch)
  BY <1>5 DEF Password, Hostname, IPV6Hostname
<1>6. ASSUME NEW ch \in Char, PortOrPassword(ch) PROVE OneOf(ch)
  BY <1>6 DEF PortOrPassword
<1>7. ASSUME NEW ch \in Char, Port(ch) PROVE OneOf(ch)
  BY <1>7 DEF Port
<1>8. ASSUME NEW ch \in Char, Path(ch) \/ Query(ch) \/ Fragment(ch) PROVE OneOf(ch)
  BY <1>8 DEF Path, Query, Fragment
<1>. QED
  BY <1>1, <1>2, <1>3, <1>4, <1>5, <1>6, <1>7, <1>8 DEF Next

(* The assertion that no port is pending at the end of parse_ can only     *)
(* fail for an input that ends with a port, but for one character that is  *)
(* rejected.                                                               *)
THEOREM OnlyPortsArePending == Spec => []PendingIsTheLastPort
<1>1. Known /\ Held => PendingIsTheLastPort
  <2>. SUFFICES ASSUME Known, Held, portOrPassword # <<>> PROVE PendingIsTheLastPort
    BY DEF PendingIsTheLastPort
  <2>1. state \in {"PortOrPassword", "Port"}
    BY DEF Known
  <2>2. \A i \in DOMAIN portOrPassword : portOrPassword[i] \in Digit
    BY DEF Held
  <2>. QED
    BY <2>1, <2>2 DEF Held, PendingIsTheLastPort, Colon, Rejected
<1>. QED
  BY <1>1, InitKnown, StepKnown, InitHeld, StepHeld, PTL DEF Spec

(* A URL names the same host, port and user whether it ends after its      *)
(* authority or goes on with a slash.                                      *)
THEOREM SlashStaysOptional == Spec => SlashIsOptional
<1>. DEFINE Same == /\ Finished'.hostname = Finished.hostname
                    /\ Finished'.port = Finished.port
                    /\ Finished'.username = Finished.username
            A == state' = "Path" /\ state # "Path" /\ portOrPassword = <<>> => Same
<1>1. ASSUME Known, [Next]_vars PROVE [A]_vars
  <2>. SUFFICES ASSUME NEW ch \in Char, Next, state' = "Path", state # "Path",
                       portOrPassword = <<>>
                PROVE  Same
    BY <1>1 DEF Next
  <2>. USE DEF Known, Undecided, BeforeHost, BeforePath, AfterPath, NoUrl
  <2>1. \/ /\ state \in {"Hostname", "Path"} /\ url' = url
           /\ usernameOrHostname' = usernameOrHostname
        \/ /\ state = "UsernameOrHostname"
           /\ url' = [url EXCEPT !.hostname = usernameOrHostname]
           /\ usernameOrHostname' = url.hostname
        \/ /\ state = "PortOrPassword"
           /\ url' = [url EXCEPT !.hostname = usernameOrHostname, !.port = portOrPassword]
           /\ usernameOrHostname' = url.hostname
        \/ /\ state = "Port"
           /\ url' = [url EXCEPT !.port = portOrPassword]
           /\ usernameOrHostname' = usernameOrHostname
    BY DEF Next, Scheme, SlashAfterScheme, UsernameOrHostname, UserEnds, HostEnds,
           Password, Hostname, IPV6Hostname, PortOrPassword, Port, Path, Query,
           Fragment, Reads, GoTo, Extends, Keep, Reject, Pending
  <2>. QED
    BY <1>1, <2>1 DEF Finished
<1>2. Known /\ [Next]_vars => [A]_vars
  BY <1>1
<1>. QED
  BY <1>2, InitKnown, StepKnown, PTL DEF Spec, SlashIsOptional

=============================================================================
