----------------------------- MODULE Negotiation -----------------------------
(***************************************************************************)
(* What the opening handshake says: the request a client makes, the        *)
(* server's choice of a processor, its verdict, extensions, subprotocol and *)
(* answer, and the client's verdict on the answer (processors/hybi13.hpp,  *)
(* hybi00.hpp, processor.hpp, connection_impl.hpp).  OpenHandshake has the *)
(* steps and errors around these and takes the verdicts as choices.        *)
(***************************************************************************)
EXTENDS PermessageDeflate

CONSTANTS
    ServerSettings, ClientSettings,  \* what applications configured
    Requests,       \* requests of other clients than this library
    Subprotocols    \* subprotocols that an application may know

None == "none"

VARIABLES
    phase,     \* "idle", "requested", "answered", "done"
    library,   \* the request comes from a client of this library
    request,
    response,
    server,    \* the server's connection: version, settings, m_subprotocol, ec
    client,    \* the client's connection: settings, m_subprotocol, ec
    validated  \* what the validate handler said

vars == <<phase, library, request, response, server, client, validated>>

NoRequest == [method |-> "GET", version |-> "HTTP/1.1", upgrade |-> FALSE,
              connection |-> FALSE, wsversion |-> Empty, key |-> FALSE,
              keys00 |-> FALSE, host |-> TRUE, subprotocols |-> <<>>,
              extensions |-> <<>>, parses |-> TRUE]
NoResponse == [status |-> 0, upgrade |-> FALSE, connection |-> FALSE,
               accept |-> FALSE, subprotocol |-> None, extensions |-> <<>>]

Init ==
    /\ phase = "idle" /\ library = FALSE
    /\ request = NoRequest /\ response = NoResponse
    /\ server \in [version : {Empty}, subprotocol : {None}, ec : {"ok"},
                   pmd : ServerSettings]
    /\ client \in [subprotocol : {None}, ec : {"ok"}, pmd : ClientSettings]
    /\ validated = FALSE

-----------------------------------------------------------------------------

\* client_handshake_request(req, uri, subprotocols).
client_handshake_request(subprotocols) ==
    [NoRequest EXCEPT !.upgrade = TRUE, !.connection = TRUE, !.wsversion = 13,
       !.key = TRUE, !.subprotocols = subprotocols, !.extensions = <<generate_offer>>]

\* A client of this library, whose application added subprotocols, or another.
LibraryRequests ==
    /\ phase = "idle"
    /\ \E subprotocols \in {<<>>} \cup {<<s>> : s \in Subprotocols}
                           \cup {<<s, t>> : s \in Subprotocols, t \in Subprotocols} :
          request' = client_handshake_request(subprotocols)
    /\ library' = TRUE
    /\ phase' = "requested"
    /\ UNCHANGED <<response, server, client, validated>>

OtherRequests ==
    /\ phase = "idle"
    /\ request' \in Requests
    /\ phase' = "requested"
    /\ UNCHANGED <<library, response, server, client, validated>>

-----------------------------------------------------------------------------
is_websocket_handshake(r) == r.upgrade /\ r.connection

\* get_websocket_version: none is version 0, -2 stands for one that is no number.
get_websocket_version(r) == IF r.wsversion = Empty THEN 0 ELSE r.wsversion

versions_supported == {0, 7, 8, 13}

\* initialize_processor: its error, if any.
InitializeError(r) ==
    IF ~is_websocket_handshake(r) THEN "ok"
    ELSE IF get_websocket_version(r) < 0 THEN "invalid_version"
    ELSE IF get_websocket_version(r) \notin versions_supported
         THEN "unsupported_version" ELSE "ok"

\* validate_handshake of hybi13, which hybi08 and hybi07 share, and of hybi00.
ValidateError(r) ==
    IF r.method # "GET" THEN "invalid_http_method"
    ELSE IF r.version # "HTTP/1.1" THEN "invalid_http_version"
    ELSE IF ~(IF get_websocket_version(r) = 0 THEN r.keys00 ELSE r.key)
         THEN "missing_required_header" ELSE "ok"

\* A response of an error, with the extensions that were set before it.
Refusal(status, extensions) ==
    [NoResponse EXCEPT !.status = status, !.extensions = extensions]

Answer(status, ec) ==
    /\ response' = Refusal(status, <<>>)
    /\ server' = [server EXCEPT !.ec = ec]
    /\ UNCHANGED validated

\* Another version, a request without its headers, or for plain HTTP where no
\* http handler is set, is refused.
Refuses ==
    LET r == request
        ec == IF InitializeError(r) # "ok" THEN InitializeError(r)
              ELSE IF ~is_websocket_handshake(r)
                   THEN IF r.host THEN "upgrade_required" ELSE "invalid_uri"
              ELSE ValidateError(r)
    IN /\ ec # "ok"
       /\ Answer(IF ec = "upgrade_required" THEN 426 ELSE 400, ec)

\* Mutant: the key is not answered.
Accepted_NoKey(version, selected, reply) ==
    [status |-> 101, upgrade |-> TRUE, connection |-> TRUE, accept |-> FALSE,
     subprotocol |-> selected, extensions |-> reply]

\* process_handshake: hybi00 answers with a digest of its own.
Accepted(version, selected, reply) ==
    [status |-> 101, upgrade |-> TRUE, connection |-> TRUE, accept |-> version # 0,
     subprotocol |-> selected, extensions |-> reply]

\* process_handshake_request of a valid handshake, when neg is what became of
\* the extensions: an unreadable list of them, an invalid uri, or what the
\* application's validate handler says, which may have selected a subprotocol.
Judges(version, neg, says, selected) ==
    \/ /\ version # 0 /\ ~request.parses
       /\ Answer(400, "extension_parse_error")
    \/ /\ version = 0 \/ request.parses
       /\ ~request.host
       /\ response' = Refusal(400, neg.reply)
       /\ server' = [server EXCEPT !.version = version, !.pmd = neg.st, !.ec = "invalid_uri"]
       /\ UNCHANGED validated
    \/ /\ version = 0 \/ request.parses
       /\ request.host
       /\ validated' = says
       /\ server' = [version |-> version, subprotocol |-> selected,
                     ec |-> IF says THEN "ok" ELSE "rejected", pmd |-> neg.st]
       /\ response' = IF says THEN Accepted(version, selected, neg.reply)
                      ELSE Refusal(400, neg.reply)

\* Extensions first, then uri and handler, which may select one of the requested
\* subprotocols.  hybi00 has no extensions.
Negotiates ==
    LET version == get_websocket_version(request)
        offers == IF version = 0 THEN <<>> ELSE request.extensions
    IN /\ is_websocket_handshake(request)
       /\ InitializeError(request) = "ok" /\ ValidateError(request) = "ok"
       /\ \E zlib \in Zlib, says \in BOOLEAN,
            selected \in {None} \cup ToSet(request.subprotocols) :
              Judges(version, negotiate_extensions(server.pmd, offers, "server", zlib),
                     says, selected)

ServerAnswers ==
    /\ phase = "requested"
    /\ Refuses \/ Negotiates
    /\ phase' = "answered"
    /\ UNCHANGED <<library, request, client>>

-----------------------------------------------------------------------------
\* validate_server_handshake_response(req, res).
ResponseError(r) ==
    IF r.status # 101 THEN "invalid_http_status"
    ELSE IF ~(r.upgrade /\ r.connection /\ r.accept) THEN "missing_required_header"
    ELSE "ok"

\* handle_read_http_response: the verdict, then the extensions of the response.
\* The subprotocol of the response is not looked at.
ClientValidates ==
    /\ phase = "answered" /\ library
    /\ \E zlib \in Zlib :
          LET neg == negotiate_extensions(client.pmd, response.extensions, "client", zlib)
          IN client' = IF ResponseError(response) # "ok"
                       THEN [client EXCEPT !.ec = ResponseError(response)]
                       ELSE [client EXCEPT !.pmd = neg.st,
                               !.ec = IF neg.ec = "ok" THEN "ok" ELSE "extension_neg_failed"]
    /\ phase' = "done"
    /\ UNCHANGED <<library, request, response, server, validated>>

Next == LibraryRequests \/ OtherRequests \/ ServerAnswers \/ ClientValidates

Spec == Init /\ [][Next]_vars

-----------------------------------------------------------------------------
Compresses(pmd) == pmd.enabled /\ pmd.initialized

(***************************************************************************)
(* A client and a server of this library that both went on agree: either   *)
(* both compress or neither does, each inflates with a window at least as  *)
(* large as the other deflates with, and a compressor whose context was    *)
(* negotiated away is flushed fully (enabled.hpp, negotiate, init,         *)
(* generate_response).  For clients that keep the default server window    *)
(* and decline nothing, see ServerWindow in the README.                    *)
(***************************************************************************)
CompressionAgreed ==
    phase = "done" /\ client.ec = "ok" =>
        LET s == server.pmd
            c == client.pmd
        IN /\ Compresses(s) <=> Compresses(c)
           /\ Compresses(c) =>
                 /\ s.inflate_bits >= c.deflate_bits
                 /\ c.inflate_bits >= s.deflate_bits
                 /\ c.client_no_context_takeover => c.flush = "full"
                 /\ s.server_no_context_takeover => s.flush = "full"
                 /\ "server_no_context_takeover" \in DOMAIN response.extensions[1]
                       <=> s.server_no_context_takeover

(***************************************************************************)
(* A server of this library accepts every client of this library that its  *)
(* application accepts, and such a client accepts the answer unless zlib   *)
(* fails (client_handshake_request, validate_handshake, process_handshake, *)
(* validate_server_handshake_response).  A server that answers 101 to      *)
(* anybody saw a valid handshake of a version it has a processor for.      *)
(***************************************************************************)
SpeaksToItself ==
    /\ library /\ phase # "requested" /\ phase # "idle" /\ response.status # 101
          => ~validated /\ server.ec = "rejected"
    /\ library /\ phase = "done" /\ response.status = 101
          => client.ec \in {"ok", "extension_neg_failed"}
    /\ response.status = 101 =>
          /\ request.method = "GET" /\ request.upgrade /\ request.connection
          /\ server.version \in versions_supported /\ request.host
          /\ response.subprotocol \in {None} \cup ToSet(request.subprotocols)

-----------------------------------------------------------------------------
(***************************************************************************)
(* What makes SpeaksToItself inductive: a client of this library makes a   *)
(* request that is never refused, and what was answered to it is either a  *)
(* complete handshake or the application's refusal.                        *)
(***************************************************************************)
UnderstoodInv ==
    /\ {"ec", "pmd"} \subseteq DOMAIN client
    /\ phase = "idle" => ~library
    /\ phase \in {"idle", "requested"} => response.status = 0
    /\ library => request = client_handshake_request(request.subprotocols)
    /\ library /\ phase \in {"answered", "done"} =>
          \/ ~validated /\ server.ec = "rejected" /\ response.status = 400
          \/ response.status = 101 /\ ResponseError(response) = "ok"
    /\ phase = "done" => library
    /\ SpeaksToItself

\* What applications may configure, and what the clients of CompressionAgreed
\* configure: they leave the server's window alone and decline nothing.
Configurations ==
    {Settings(sb, sm, cb, cm, sn, cn) :
        sb \in 8 .. 15, sm \in Modes, cb \in 8 .. 15, cm \in Modes,
        sn \in BOOLEAN, cn \in BOOLEAN}
ClientConfigurations ==
    {c \in Configurations :
        /\ c.server_bits = 15 /\ c.server_mode = "accept"
        /\ c.client_mode # "decline" /\ ~c.server_no_context_takeover}

\* What a server has settled when it answered a client of this library: nothing,
\* or what its reply says.
AnswerSettled(s, reply) ==
    \/ reply = <<>> /\ ~Compresses(s)
    \/ /\ reply = <<generate_response(s)>>
       /\ Compresses(s) /\ s.client_no_context_takeover
       /\ {s.server_bits, s.client_bits} \subseteq 9 .. 15
       /\ s.server_no_context_takeover \in BOOLEAN
       /\ s.deflate_bits = s.server_bits /\ s.inflate_bits = s.client_bits
       /\ s.server_no_context_takeover => s.flush = "full"

\* What makes CompressionAgreed inductive: until the client has judged the
\* answer its settings are those it offered from, and the server's are settled.
SettledInv ==
    /\ UnderstoodInv
    /\ phase \in {"idle", "requested"} => server.pmd \in Configurations
    /\ phase # "done" => client.pmd \in ClientConfigurations
    /\ library /\ response.status = 101 => AnswerSettled(server.pmd, response.extensions)
    /\ CompressionAgreed

(***************************************************************************)
(* enabled.hpp:502 says of negotiate: confirm that the offer "has settings *)
(* compatible with local policy. If so, generate a reply and apply those   *)
(* settings to the extension state".  So what is in effect, and what the   *)
(* response says, comes from the offer that was accepted.                  *)
(***************************************************************************)
DeclinedOffersLeaveNothing ==
    [][phase = "requested" /\ response'.extensions # <<>> =>
          \E i \in 1 .. Len(request.extensions) :
             LET alone == negotiate(server.pmd, request.extensions[i])
             IN /\ alone.ec = "ok"
                /\ response'.extensions = <<generate_response(alone.st)>>]_vars

(***************************************************************************)
(* connection.hpp:870 says of get_subprotocol: it "retrieves the           *)
(* subprotocol that was negotiated during the handshake", at either end.   *)
(***************************************************************************)
SubprotocolKnown ==
    phase = "done" /\ client.ec = "ok" => client.subprotocol = response.subprotocol

=============================================================================
