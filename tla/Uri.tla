--------------------------------- MODULE Uri ---------------------------------
(***************************************************************************)
(* uri.hpp, and the Host header that carries a client's URI to the server  *)
(* (get_host_port, get_uri_from_host).  Text is a sequence of characters;  *)
(* a scheme with the "://" behind it is one of them, a digit is another.   *)
(***************************************************************************)
EXTENDS Integers, Sequences, SequencesExt, FiniteSetsExt

Schemes == {"ws", "wss", "http", "https"}
Prefix == [scheme \in Schemes |-> scheme \o "://"]
Secure(scheme) == scheme \in {"wss", "https"}
default_port(secure) == IF secure THEN 443 ELSE 80

Digits == <<"0", "1", "2", "3", "4", "5", "6", "7", "8", "9">>
Digit(c) == (CHOOSE i \in 1 .. 10 : Digits[i] = c) - 1

\* A port as it is written to a stream.
Decimal[n \in Nat] == IF n < 10 THEN <<Digits[n + 1]>>
                      ELSE Append(Decimal[n \div 10], Digits[(n % 10) + 1])

\* The position of the first character of the set at or behind i.
FindFirst(s, i, cs) ==
    LET found == {j \in i .. Len(s) : s[j] \in cs}
    IN  IF found = {} THEN Len(s) + 1 ELSE Min(found)

\* atoi, of a number without a sign.
atoi(s) ==
    FoldLeft(LAMBDA n, c : 10 * n + Digit(c), 0,
             SubSeq(s, 1, LET junk == {j \in DOMAIN s : s[j] \notin ToSet(Digits)}
                          IN  IF junk = {} THEN Len(s) ELSE Min(junk) - 1))

Invalid == [valid |-> FALSE]

\* 0 stands for the error.
get_port_from_string(port, secure) ==
    IF port = <<>> THEN default_port(secure)
    ELSE IF atoi(port) > 65535 THEN 0 ELSE atoi(port)

\* A URI of its parts; port is text, host has lost its brackets.
Of(scheme, host, port, resource) ==
    LET p == get_port_from_string(port, Secure(scheme))
    IN  IF p = 0 THEN Invalid
        ELSE [valid |-> TRUE, scheme |-> scheme, host |-> host, port |-> p,
              resource |-> IF resource = <<>> THEN <<"/">> ELSE resource]

\* uri(uri_string).  What follows the port, up to the first "/", is the
\* resource, which always gets a "/" in front.
Parse(s) ==
    LET scheme == CHOOSE sc \in Schemes : s[1] = Prefix[sc]
        bracket == FindFirst(s, 3, {"]"})
        hostEnd == IF s[2] = "[" THEN bracket + 1 ELSE FindFirst(s, 2, {":", "/"})
        host == IF s[2] = "[" THEN SubSeq(s, 3, bracket - 1)
                ELSE SubSeq(s, 2, hostEnd - 1)
        ported == hostEnd <= Len(s) /\ s[hostEnd] = ":"
        pathAt == IF ported THEN FindFirst(s, hostEnd + 1, {"/"}) ELSE hostEnd
        port == IF ported THEN SubSeq(s, hostEnd + 1, pathAt - 1) ELSE <<>>
    IN  IF Len(s) < 2 \/ s[1] \notin Range(Prefix) THEN Invalid
        ELSE IF s[2] = "[" /\ bracket > Len(s) THEN Invalid
        ELSE IF hostEnd <= Len(s) /\ s[hostEnd] \notin {":", "/"} THEN Invalid
        ELSE Of(scheme, host, port, <<"/">> \o SubSeq(s, pathAt + 1, Len(s)))

PortText(u) ==
    IF u.port = default_port(Secure(u.scheme)) THEN <<>> ELSE <<":">> \o Decimal[u.port]

str(u) == <<Prefix[u.scheme]>> \o u.host \o PortText(u) \o u.resource

\* Mutant: the port is left out if it is the default one of ws.
get_host_port_Insecure(u) ==
    IF u.port = default_port(FALSE) THEN u.host ELSE u.host \o <<":">> \o Decimal[u.port]

get_host_port(u) == u.host \o PortText(u)

\* On the server: the host and the port that a Host header names.
get_uri_from_host(scheme, h, resource) ==
    LET colons == {j \in DOMAIN h : h[j] = ":"}
        braces == {j \in DOMAIN h : h[j] = "]"}
        last_colon == Max(colons)
    IN  IF colons = {} THEN Of(scheme, h, <<>>, resource)
        ELSE IF braces # {} /\ Max(braces) > last_colon
        THEN Of(scheme, h, <<>>, resource)
        ELSE Of(scheme, SubSeq(h, 1, last_colon - 1),
                SubSeq(h, last_colon + 1, Len(h)), resource)

-----------------------------------------------------------------------------
(***************************************************************************)
(* Properties.                                                             *)
(***************************************************************************)

\* A URI that was parsed is the one that its text, as str() writes it, is
\* parsed to, and the one that a server of the same security finds from the
\* Host header and the resource of the client's request.  Addresses of IPv6
\* lose their brackets, so this is not so for them, save that the server
\* finds the host and port if the port had to be named.
UriReadsBack(s) ==
    LET u == Parse(s)
        scheme == IF Secure(u.scheme) THEN "wss" ELSE "ws"
        theirs == get_uri_from_host(scheme, get_host_port(u), u.resource)
    IN  u.valid =>
          /\ u.port \in 1 .. 65535
          /\ (":" \notin ToSet(u.host) /\ u.host # <<>>) => Parse(str(u)) = u
          /\ (":" \notin ToSet(u.host) \/ PortText(u) # <<>>) =>
               theirs = [u EXCEPT !.scheme = scheme]

=============================================================================
