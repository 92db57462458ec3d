---------------------------- MODULE OpenHandshake ----------------------------
(***************************************************************************)
(* One connection<config> from its construction to its end: start, the     *)
(* opening handshake of a server or of a client, plain HTTP requests with  *)
(* an immediate or a deferred response, the open handshake timer, and      *)
(* terminate() with the open, fail, close and termination handlers.        *)
(*                                                                         *)
(* Every action is one handler on the connection's strand, except the two  *)
(* steps of send_http_response, which an application thread takes.  What   *)
(* happens between open and the end is EstablishedConnection's subject;    *)
(* here it is one step.  Requests, responses and error codes are reduced   *)
(* to the outcomes that the control flow tells apart.                      *)
(***************************************************************************)
EXTENDS Integers

CONSTANTS
    Roles,              \* the values that m_is_server may have
    OpenTimeout,        \* m_open_handshake_timeout_dur > 0
    HasHttpHandler,     \* the application set an http handler
    MayDefer,           \* and that handler may call defer_http_response
    ProcessorCanDial,   \* the processor of config::client_version can dial
    Refusals,           \* the values that ext_refused may have
    MaxReads            \* bound: reads that do not complete a header

ASSUME ConfigAssumption ==
    /\ Roles \subseteq BOOLEAN /\ OpenTimeout \in BOOLEAN
    /\ HasHttpHandler \in BOOLEAN /\ MayDefer \in BOOLEAN
    /\ ProcessorCanDial \in BOOLEAN /\ Refusals \subseteq BOOLEAN
    /\ MaxReads \in Nat

VARIABLES
    m_is_server,       \* the role, which never changes
    ext_refused,       \* negotiate_extensions rejects what a client's server answers
    m_state,           \* session::state; closing is not told from open here
    m_internal_state,  \* session::internal_state
    m_is_http,         \* the http handler was called
    m_http_state,      \* session::http_state
    status,            \* the class of m_response's status code
    m_ec,              \* the reason kept for get_ec()
    ops,               \* transport operations in progress
    timer,             \* m_handshake_timer is "none" or "armed"
    expired,           \* open timeout handlers queued on the strand
    shut_failed,       \* async_shutdowns in progress with tstat = failed
    shut_closed,       \* async_shutdowns in progress with tstat = closed
    responding,        \* an application thread is inside send_http_response
    reads,             \* incomplete reads so far
    opens, fails, closes, ended,  \* calls of these handlers
    https,             \* calls of the http handler
    responses          \* history: HTTP responses given to the transport

stateVars   == <<m_state, m_internal_state>>
httpVars    == <<m_is_http, m_http_state, status>>
timerVars   == <<timer, expired>>
shutVars    == <<shut_failed, shut_closed>>
handlerVars == <<opens, fails, closes, ended>>
otherVars   == <<reads, https, responses, responding>>

given       == <<m_is_server, ext_refused>>

vars == <<given, stateVars, httpVars, m_ec, ops, timerVars, shutVars,
          handlerVars, otherVars>>

Init ==
    /\ m_is_server \in Roles
    /\ ext_refused \in Refusals
    /\ m_is_server => ~ext_refused
    /\ m_state = "connecting"
    /\ m_internal_state = "USER_INIT"
    /\ m_is_http = FALSE
    /\ m_http_state = "init"
    /\ status = "uninitialized"
    /\ m_ec = "none"
    /\ ops = {}
    /\ timer = "none"
    /\ expired = 0
    /\ shut_failed = 0
    /\ shut_closed = 0
    /\ responding = FALSE
    /\ reads = 0
    /\ opens = 0 /\ fails = 0 /\ closes = 0 /\ ended = 0
    /\ https = 0
    /\ responses = 0

-----------------------------------------------------------------------------
(***************************************************************************)
(* Shared pieces.                                                          *)
(***************************************************************************)

\* Mutant: terminate() shuts down again when the connection is closed already.
Terminate_Again(ec, http) ==
    /\ timer' = "none"
    /\ m_ec' = IF ec = "none" THEN m_ec ELSE ec
    /\ m_http_state' = IF http THEN "closed" ELSE m_http_state
    /\ m_state' = "closed"
    /\ shut_failed' = IF m_state = "connecting" THEN shut_failed + 1 ELSE shut_failed
    /\ shut_closed' = IF m_state # "connecting" THEN shut_closed + 1 ELSE shut_closed

\* terminate(ec) on a connection whose m_is_http is http.
Terminate(ec, http) ==
    /\ timer' = "none"
    /\ m_ec' = IF ec = "none" THEN m_ec ELSE ec
    /\ m_http_state' = IF http THEN "closed" ELSE m_http_state
    /\ m_state' = "closed"
    /\ shut_failed' = IF m_state = "connecting" THEN shut_failed + 1 ELSE shut_failed
    /\ shut_closed' = IF m_state = "open" THEN shut_closed + 1 ELSE shut_closed

terminateVars == <<timer, m_ec, m_http_state, m_state, shutVars>>

\* Mutant: the handshake handlers do not look for a connection that was closed
\* in the meantime.
Verdict_Stale(ec, want) ==
    IF ec = "none"
    THEN IF m_internal_state = want THEN "proceed" ELSE "invalid_state"
    ELSE IF ec = "eof" /\ m_state = "closed" THEN "ignore" ELSE ec

\* What the handshake handlers make of a completion code when they expect
\* internal state want: go on, ignore it, or terminate with a reason.
Verdict(ec, want) ==
    IF ec = "none"
    THEN CASE m_state = "connecting" ->
                IF m_internal_state = want THEN "proceed" ELSE "invalid_state"
           [] m_state = "closed" -> "ignore"
           [] OTHER -> "invalid_state"
    ELSE IF ec = "eof" /\ m_state = "closed" THEN "ignore" ELSE ec

\* The operation op completes and its handler goes on with the handshake.
Completes(op, want) ==
    /\ op \in ops
    /\ Verdict("none", want) = "proceed"

\* The operation op completes and its handler does not go on.
Fails(op, want) ==
    /\ op \in ops
    /\ ops' = ops \ {op}
    /\ \E ec \in {"none", "eof", "error"} :
          LET v == Verdict(ec, want) IN
          /\ v # "proceed"
          /\ IF v = "ignore"
             THEN UNCHANGED terminateVars
             ELSE Terminate(v, m_is_http)
    /\ UNCHANGED <<m_internal_state, m_is_http, status, expired, handlerVars,
                   otherVars, given>>

\* Mutant: no open handshake timer.
ArmTimer_Never == timer' = timer

\* set_timer for the opening handshake.
ArmTimer == timer' = IF OpenTimeout THEN "armed" ELSE timer

\* write_http_response(ec) with a response whose status is s; one that was
\* never set becomes an internal server error.
WriteHttpResponse(ec, s) ==
    /\ status' = IF s = "uninitialized" THEN "error" ELSE s
    /\ m_ec' = IF s = "uninitialized" THEN "general" ELSE ec
    /\ responses' = responses + 1

\* The handshake is complete: the open handler runs and reading begins.
Opened ==
    /\ m_state' = "open"
    /\ m_internal_state' = "PROCESS_CONNECTION"
    /\ opens' = opens + 1

-----------------------------------------------------------------------------
(***************************************************************************)
(* Both roles.                                                             *)
(***************************************************************************)

\* handle_accept or handle_connect with an error.
AcceptFails ==
    /\ m_internal_state = "USER_INIT"
    /\ m_state = "connecting"
    /\ Terminate("error", m_is_http)
    /\ UNCHANGED <<m_internal_state, m_is_http, status, ops, expired,
                   handlerVars, otherVars, given>>

\* start(), called once, by handle_accept or handle_connect.
Start ==
    /\ m_internal_state = "USER_INIT"
    /\ m_state = "connecting"
    /\ m_internal_state' = "TRANSPORT_INIT"
    /\ ops' = {"init"}
    /\ UNCHANGED <<m_state, httpVars, m_ec, timerVars, shutVars, handlerVars,
                   otherVars, given>>

\* handle_transport_init with an error.
TransportInitFails ==
    /\ "init" \in ops
    /\ ops' = ops \ {"init"}
    /\ Terminate("error", m_is_http)
    /\ UNCHANGED <<m_internal_state, m_is_http, status, expired, handlerVars,
                   otherVars, given>>

\* handle_transport_init of a server, with read_handshake.
TransportInitServer ==
    /\ m_is_server
    /\ "init" \in ops
    /\ m_internal_state = "TRANSPORT_INIT"
    /\ m_internal_state' = "READ_HTTP_REQUEST"
    /\ ArmTimer
    /\ ops' = (ops \ {"init"}) \cup {"read_request"}
    /\ UNCHANGED <<m_state, httpVars, m_ec, expired, shutVars, handlerVars,
                   otherVars, given>>

\* handle_transport_init of a client, with send_http_request, which gives up
\* without a word if its processor cannot dial.
TransportInitClient ==
    /\ ~m_is_server
    /\ "init" \in ops
    /\ m_internal_state = "TRANSPORT_INIT"
    /\ m_internal_state' = "WRITE_HTTP_REQUEST"
    /\ IF ProcessorCanDial
       THEN ArmTimer /\ ops' = (ops \ {"init"}) \cup {"write_request"}
       ELSE ops' = ops \ {"init"} /\ UNCHANGED timer
    /\ UNCHANGED <<m_state, httpVars, m_ec, expired, shutVars, handlerVars,
                   otherVars, given>>

\* The open handshake timer expires and its handler is queued; cancelling it
\* from now on has no effect.
TimerExpires ==
    /\ timer = "armed"
    /\ timer' = "none"
    /\ expired' = expired + 1
    /\ UNCHANGED <<stateVars, httpVars, m_ec, ops, shutVars, handlerVars,
                   otherVars, given>>

\* handle_open_handshake_timeout, in whatever state it finds the connection.
HandleOpenTimeout ==
    /\ expired > 0
    /\ expired' = expired - 1
    /\ Terminate("open_handshake_timeout", m_is_http)
    /\ UNCHANGED <<m_internal_state, m_is_http, status, ops, handlerVars,
                   otherVars, given>>

\* The established connection ends: see EstablishedConnection.
EstablishedEnds ==
    /\ m_internal_state = "PROCESS_CONNECTION"
    /\ m_state = "open"
    /\ \E ec \in {"none", "error"} : Terminate(ec, m_is_http)
    /\ UNCHANGED <<m_internal_state, m_is_http, status, ops, expired,
                   handlerVars, otherVars, given>>

\* handle_terminate(failed): the fail handler, unless an HTTP request was
\* answered; then the termination handler.
HandleTerminateFailed ==
    /\ shut_failed > 0
    /\ shut_failed' = shut_failed - 1
    /\ IF m_ec = "http_connection_ended"
       THEN UNCHANGED fails
       ELSE fails' = fails + 1
    /\ ended' = ended + 1
    /\ UNCHANGED <<stateVars, httpVars, m_ec, ops, timerVars, shut_closed,
                   opens, closes, otherVars, given>>

\* handle_terminate(closed): the close handler and the termination handler.
HandleTerminateClosed ==
    /\ shut_closed > 0
    /\ shut_closed' = shut_closed - 1
    /\ closes' = closes + 1
    /\ ended' = ended + 1
    /\ UNCHANGED <<stateVars, httpVars, m_ec, ops, timerVars, shut_failed,
                   opens, fails, otherVars, given>>

-----------------------------------------------------------------------------
(***************************************************************************)
(* The server: handle_read_handshake and handle_write_http_response.       *)
(***************************************************************************)
ReadsRequest == Completes("read_request", "READ_HTTP_REQUEST")

\* The header is not complete: read on.
ReadRequestMore ==
    /\ ReadsRequest
    /\ reads < MaxReads
    /\ reads' = reads + 1
    /\ UNCHANGED <<stateVars, httpVars, m_ec, ops, timerVars, shutVars,
                   handlerVars, https, responses, responding, given>>

\* The request is answered at once with status s and result ec.
Answers(ec, s) ==
    /\ m_internal_state' = "PROCESS_HTTP_REQUEST"
    /\ WriteHttpResponse(ec, s)
    /\ ops' = (ops \ {"read_request"}) \cup {"write_response"}

\* A WebSocket handshake that is valid and that the application accepts.
AcceptRequest ==
    /\ ReadsRequest
    /\ Answers("none", "switching_protocols")
    /\ UNCHANGED <<m_state, m_is_http, m_http_state, timerVars, shutVars,
                   handlerVars, reads, https, responding, given>>

\* A request that does not parse, has an unknown version, is no valid
\* handshake, is rejected by the application, or is plain HTTP when the
\* application has no http handler.
RefuseRequest ==
    /\ ReadsRequest
    /\ Answers("rejected", "error")
    /\ UNCHANGED <<m_state, m_is_http, m_http_state, timerVars, shutVars,
                   handlerVars, reads, https, responding, given>>

\* A plain HTTP request: the http handler is called.
HttpRequest ==
    /\ HasHttpHandler
    /\ ReadsRequest
    /\ m_is_http' = TRUE
    /\ https' = https + 1

\* It leaves the response to the library.
HttpRespond ==
    /\ HttpRequest
    /\ \E s \in {"set", "uninitialized"} : Answers("none", s)
    /\ UNCHANGED <<m_state, m_http_state, timerVars, shutVars, handlerVars,
                   reads, responding, given>>

\* Mutant: handle_read_handshake answers although the response was deferred.
HttpDefer_Answered ==
    /\ MayDefer
    /\ HttpRequest
    /\ timer' = "none"
    /\ m_http_state' = "deferred"
    /\ Answers("none", "set")
    /\ UNCHANGED <<m_state, expired, shutVars, handlerVars, reads, responding,
                   given>>

\* It calls defer_http_response, which cancels the timer.
HttpDefer ==
    /\ MayDefer
    /\ HttpRequest
    /\ m_internal_state' = "PROCESS_HTTP_REQUEST"
    /\ timer' = "none"
    /\ m_http_state' = "deferred"
    /\ status' \in {"set", "uninitialized"}
    /\ ops' = ops \ {"read_request"}
    /\ UNCHANGED <<m_state, m_ec, expired, shutVars, handlerVars, reads,
                   responses, responding, given>>

\* It takes the connection over by terminating it.
HttpTakeOver ==
    /\ HttpRequest
    /\ m_internal_state' = "PROCESS_HTTP_REQUEST"
    /\ \E ec \in {"none", "http_connection_ended"} : Terminate(ec, TRUE)
    /\ ops' = ops \ {"read_request"}
    /\ UNCHANGED <<status, expired, handlerVars, reads, responses, responding,
                   given>>

\* send_http_response on an application thread: the state is checked and set
\* inside the lock ...
SendHttpResponse ==
    /\ m_http_state = "deferred"
    /\ m_http_state' = "body_written"
    /\ responding' = TRUE
    /\ UNCHANGED <<stateVars, m_is_http, status, m_ec, ops, timerVars, shutVars,
                   handlerVars, reads, https, responses, given>>

\* ... and the response is written after it is released.
SendHttpResponseWrite ==
    /\ responding
    /\ responding' = FALSE
    /\ WriteHttpResponse("none", status)
    /\ ops' = ops \cup {"write_response"}
    /\ UNCHANGED <<stateVars, m_is_http, m_http_state, timerVars, shutVars,
                   handlerVars, reads, https, given>>

WritesResponse == Completes("write_response", "PROCESS_HTTP_REQUEST")

\* The response that accepts a WebSocket handshake is written.
ResponseOpens ==
    /\ WritesResponse
    /\ status = "switching_protocols"
    /\ ops' = ops \ {"write_response"}
    /\ timer' = "none"
    /\ Opened
    /\ UNCHANGED <<httpVars, m_ec, expired, shutVars, fails, closes, ended,
                   otherVars, given>>

\* Any other response is written: the connection is over.
ResponseEnds ==
    /\ WritesResponse
    /\ status # "switching_protocols"
    /\ ops' = ops \ {"write_response"}
    /\ Terminate(IF m_is_http THEN "http_connection_ended" ELSE m_ec, m_is_http)
    /\ UNCHANGED <<m_internal_state, m_is_http, status, expired, handlerVars,
                   otherVars, given>>

-----------------------------------------------------------------------------
(***************************************************************************)
(* The client: handle_send_http_request and handle_read_http_response.     *)
(***************************************************************************)
RequestWritten ==
    /\ Completes("write_request", "WRITE_HTTP_REQUEST")
    /\ m_internal_state' = "READ_HTTP_RESPONSE"
    /\ ops' = (ops \ {"write_request"}) \cup {"read_response"}
    /\ UNCHANGED <<m_state, httpVars, m_ec, timerVars, shutVars, handlerVars,
                   otherVars, given>>

ReadsResponse == Completes("read_response", "READ_HTTP_RESPONSE")

\* The headers are not complete: read on.
ReadResponseMore ==
    /\ ReadsResponse
    /\ reads < MaxReads
    /\ reads' = reads + 1
    /\ UNCHANGED <<stateVars, httpVars, m_ec, ops, timerVars, shutVars,
                   handlerVars, https, responses, responding, given>>

\* The response does not parse or does not accept the handshake.
ResponseInvalid ==
    /\ ReadsResponse
    /\ ops' = ops \ {"read_response"}
    /\ Terminate("invalid_response", m_is_http)
    /\ UNCHANGED <<m_internal_state, m_is_http, status, expired, handlerVars,
                   otherVars, given>>

\* The response is valid: the connection is open.
ResponseValid ==
    /\ ReadsResponse
    /\ ~ext_refused
    /\ ops' = ops \ {"read_response"}
    /\ timer' = "none"
    /\ Opened
    /\ UNCHANGED <<httpVars, m_ec, expired, shutVars, fails, closes, ended,
                   otherVars, given>>

\* The response is valid but its extensions are refused: terminate() is called
\* and the handler nevertheless goes on to open the connection.
ExtensionsRefused ==
    /\ ReadsResponse
    /\ ext_refused
    /\ ops' = ops \ {"read_response"}
    /\ timer' = "none"
    /\ m_ec' = "extension_neg_failed"
    /\ shut_failed' = shut_failed + 1
    /\ Opened
    /\ UNCHANGED <<httpVars, expired, shut_closed, fails, closes, ended,
                   otherVars, given>>

-----------------------------------------------------------------------------
OpFails ==
    \/ Fails("read_request", "READ_HTTP_REQUEST")
    \/ Fails("write_response", "PROCESS_HTTP_REQUEST")
    \/ Fails("write_request", "WRITE_HTTP_REQUEST")
    \/ Fails("read_response", "READ_HTTP_RESPONSE")

TransportInit == TransportInitFails \/ TransportInitServer \/ TransportInitClient

Request == ReadRequestMore \/ AcceptRequest \/ RefuseRequest \/ HttpRespond
           \/ HttpDefer \/ HttpTakeOver

Response == ReadResponseMore \/ ResponseInvalid \/ ResponseValid \/ ExtensionsRefused

HandleTerminate == HandleTerminateFailed \/ HandleTerminateClosed

Next ==
    \/ AcceptFails \/ Start \/ TransportInit
    \/ Request \/ SendHttpResponse \/ SendHttpResponseWrite
    \/ ResponseOpens \/ ResponseEnds
    \/ RequestWritten \/ Response
    \/ OpFails
    \/ TimerExpires \/ HandleOpenTimeout
    \/ EstablishedEnds \/ HandleTerminate

Spec == Init /\ [][Next]_vars

(***************************************************************************)
(* Fairness: the endpoint starts or fails its connections, io_service::run *)
(* executes queued handlers, timers expire, and the transport's init and   *)
(* shutdown complete (each has a timer of its own).  The remote endpoint   *)
(* owes us neither bytes nor room to write.                                *)
(***************************************************************************)
FairSpec ==
    /\ Spec
    /\ WF_vars(Start \/ AcceptFails)
    /\ WF_vars(TransportInit)
    /\ WF_vars(TimerExpires)
    /\ WF_vars(HandleOpenTimeout)
    /\ WF_vars(HandleTerminate)

-----------------------------------------------------------------------------
(***************************************************************************)
(* Properties.                                                             *)
(***************************************************************************)

\* Types of the variables.
TypeOK ==
    /\ m_state \in {"connecting", "open", "closed"}
    /\ m_internal_state \in {"USER_INIT", "TRANSPORT_INIT", "READ_HTTP_REQUEST",
                             "WRITE_HTTP_REQUEST", "READ_HTTP_RESPONSE",
                             "PROCESS_HTTP_REQUEST", "PROCESS_CONNECTION"}
    /\ m_is_http \in BOOLEAN
    /\ m_http_state \in {"init", "deferred", "body_written", "closed"}
    /\ status \in {"uninitialized", "set", "error", "switching_protocols"}
    /\ m_ec \in {"none", "eof", "error", "general", "rejected", "invalid_state",
                 "invalid_response", "open_handshake_timeout",
                 "http_connection_ended", "extension_neg_failed"}
    /\ ops \subseteq {"init", "read_request", "write_response", "write_request",
                      "read_response"}
    /\ timer \in {"none", "armed"}
    /\ responding \in BOOLEAN
    /\ {m_is_server, ext_refused} \subseteq BOOLEAN
    /\ \A n \in {expired, shut_failed, shut_closed, reads, opens, fails, closes,
                 ended, https, responses} : n \in Nat

\* The handlers of a client that refuses the server's extensions are outside
\* the contract: both open and fail are called.
Promised(calls) == IF ext_refused THEN 0 ELSE calls

Contract == INSTANCE ConnectionContract
            WITH opens <- Promised(opens), fails <- Promised(fails),
                 closes <- Promised(closes), ended <- Promised(ended)

\* The connection keeps the handlers' contract: open or fail and never both,
\* close once and only after open, nothing after the termination handler,
\* whatever timer, read, write and shutdown completions are still queued,
\* unless its extension negotiation fails.
KeepsContract == Contract!Spec

\* What makes it inductive: a connection that is not closed has no shutdown to
\* wait for; a closed one has exactly one shutdown or termination handler, and
\* its kind agrees with whether the connection had opened.
HandlerInv ==
    /\ m_state \in {"connecting", "open", "closed"}
    /\ {shut_failed, shut_closed, ended} \subseteq Nat
    /\ opens = IF m_state = "connecting" THEN 0
               ELSE IF m_state = "open" THEN 1 ELSE opens
    /\ opens \in {0, 1}
    /\ ended = 0 => fails = 0 /\ closes = 0
    /\ shut_failed + shut_closed + ended = IF m_state = "closed" THEN 1 ELSE 0
    /\ shut_failed > 0 => opens = 0
    /\ shut_closed > 0 => opens = 1

\* A terminated connection starts no further transport operation: handlers that
\* were queued when it ended find it closed.  (A deferred response that an
\* application thread is already writing is the exception.)
QuietAfterEnd ==
    [][m_state = "closed" /\ ~responding => ops' \subseteq ops]_vars

\* A request gets at most one HTTP response, from the library or from the
\* application that deferred it.
OneResponse == responses <= 1

RespondsOnce == TypeOK /\ OneResponse

\* What makes this and QuietAfterEnd inductive: a deferred response, and one
\* that a thread is writing, is the only one, and there is none before the
\* request was read; while the transport is initialised nothing else is under
\* way that could end the connection.
ResponseInv ==
    /\ RespondsOnce
    /\ m_http_state = "deferred" \/ responding => responses = 0
    /\ ~(m_http_state = "deferred" /\ responding)
    /\ m_internal_state \in {"USER_INIT", "TRANSPORT_INIT", "READ_HTTP_REQUEST"} =>
          responses = 0 /\ ~responding /\ m_http_state # "deferred"
    /\ m_internal_state = "USER_INIT" \/ ops = {"init"} =>
          timer = "none" /\ expired = 0
    /\ m_internal_state = "USER_INIT" => ops = {}
    /\ "init" \in ops =>
          ops = {"init"} /\ m_internal_state = "TRANSPORT_INIT" /\ m_state = "connecting"

\* Every connection attempt is settled, even if the remote endpoint is mute: it
\* opens, or its termination handler is called, or the application has deferred
\* the response and with it the end.
Settled == <>(opens > 0 \/ ended > 0 \/ m_http_state = "deferred")

=============================================================================
