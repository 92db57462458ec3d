------------------------ MODULE OpenHandshake_proofs ------------------------
(***************************************************************************)
(* A connection keeps the contract of its handlers, unless it is a client  *)
(* that refuses the server's extensions: OpenHandshake implements          *)
(* ConnectionContract.  It answers a request at most once, and is quiet    *)
(* once it has ended.  Two ends of the library understand each other's     *)
(* handshake and agree on the compression: SpeaksToItself and              *)
(* CompressionAgreed of Negotiation.                                       *)
(***************************************************************************)
EXTENDS MCOpening, Integers, Sequences, TLAPS

-----------------------------------------------------------------------------
(***************************************************************************)
(* What an action can do to the handlers.                                  *)
(***************************************************************************)

\* It leaves them alone.
Aside == UNCHANGED <<m_state, shut_failed, shut_closed, opens, fails, closes, ended>>

\* It terminates the connection.
Terminates ==
    /\ m_state' = "closed"
    /\ shut_failed' = IF m_state = "connecting" THEN shut_failed + 1 ELSE shut_failed
    /\ shut_closed' = IF m_state = "open" THEN shut_closed + 1 ELSE shut_closed
    /\ UNCHANGED <<opens, fails, closes, ended>>

\* It opens the connection.
OpensNow ==
    /\ m_state = "connecting"
    /\ m_state' = "open"
    /\ opens' = opens + 1
    /\ UNCHANGED <<shut_failed, shut_closed, fails, closes, ended>>

\* Verdict lets a handshake go on only in state connecting.
LEMMA ProceedMeansConnecting ==
    ASSUME NEW op, NEW want, Completes(op, want)
    PROVE  m_state = "connecting"
BY DEF Completes, Verdict

\* A handshake handler that does not go on leaves the handlers alone or
\* terminates the connection.
LEMMA FailsCases ==
    ASSUME NEW op, NEW want, Fails(op, want)
    PROVE  Aside \/ Terminates
BY DEF Fails, Terminate, terminateVars, shutVars, handlerVars, Aside, Terminates

\* Every step does one of these things, or runs handle_terminate.
LEMMA StepCases ==
    ASSUME ~ext_refused, [Next]_vars
    PROVE  Aside \/ Terminates \/ OpensNow \/ HandleTerminate
<1> USE DEF stateVars, httpVars, timerVars, shutVars, handlerVars
<1>1. CASE AcceptFails
  BY <1>1 DEF AcceptFails, Terminate, Terminates
<1>2. CASE Start
  BY <1>2 DEF Start, Aside
<1>3. CASE TransportInit
  BY <1>3 DEF TransportInit, TransportInitFails, TransportInitServer,
              TransportInitClient, Terminate, Terminates, Aside
<1>4. CASE Request
  <2>1. CASE ReadRequestMore
    BY <2>1 DEF ReadRequestMore, Aside
  <2>2. CASE AcceptRequest
    BY <2>2 DEF AcceptRequest, Aside
  <2>3. CASE RefuseRequest
    BY <2>3 DEF RefuseRequest, Aside
  <2>4. CASE HttpRespond
    BY <2>4 DEF HttpRespond, Aside
  <2>5. CASE HttpDefer
    BY <2>5 DEF HttpDefer, Aside
  <2>6. CASE HttpTakeOver
    BY <2>6 DEF HttpTakeOver, Terminate, Terminates
  <2> QED
    BY <1>4, <2>1, <2>2, <2>3, <2>4, <2>5, <2>6 DEF Request
<1>5. CASE SendHttpResponse \/ SendHttpResponseWrite
  BY <1>5 DEF SendHttpResponse, SendHttpResponseWrite, Aside
<1>6. CASE ResponseOpens
  BY <1>6, ProceedMeansConnecting DEF ResponseOpens, WritesResponse, Opened, OpensNow
<1>7. CASE ResponseEnds
  BY <1>7 DEF ResponseEnds, Terminate, Terminates
<1>8. CASE RequestWritten
  BY <1>8 DEF RequestWritten, Aside
<1>9. CASE Response
  <2>1. CASE ReadResponseMore
    BY <2>1 DEF ReadResponseMore, Aside
  <2>2. CASE ResponseInvalid
    BY <2>2 DEF ResponseInvalid, Terminate, Terminates
  <2>3. CASE ResponseValid
    BY <2>3, ProceedMeansConnecting DEF ResponseValid, ReadsResponse, Opened, OpensNow
  <2> QED
    BY <1>9, <2>1, <2>2, <2>3 DEF Response, ExtensionsRefused
<1>10. CASE OpFails
  BY <1>10, FailsCases DEF OpFails
<1>11. CASE TimerExpires
  BY <1>11 DEF TimerExpires, Aside
<1>12. CASE HandleOpenTimeout
  BY <1>12 DEF HandleOpenTimeout, Terminate, Terminates
<1>13. CASE EstablishedEnds
  BY <1>13 DEF EstablishedEnds, Terminate, Terminates
<1>14. CASE UNCHANGED vars
  BY <1>14 DEF vars, Aside
<1> QED
  BY <1>1, <1>2, <1>3, <1>4, <1>5, <1>6, <1>7, <1>8, <1>9, <1>10, <1>11, <1>12,
     <1>13, <1>14 DEF Next

-----------------------------------------------------------------------------
(***************************************************************************)
(* The invariant and the refinement.                                       *)
(***************************************************************************)

\* A new connection satisfies the invariant.
LEMMA HandlerInit == Init => HandlerInv
BY DEF Init, HandlerInv

\* Every action leaves the configuration as it is.
LEMMA GivenStays ==
    ASSUME [Next]_vars
    PROVE  UNCHANGED given
<1> USE DEF Next, Request, Response, OpFails, Fails, TransportInit, HandleTerminate
<1>1. CASE AcceptFails \/ Start \/ TransportInit
  BY <1>1 DEF AcceptFails, Start, TransportInitFails, TransportInitServer,
              TransportInitClient
<1>2. CASE Request
  BY <1>2 DEF ReadRequestMore, AcceptRequest, RefuseRequest, HttpRespond,
              HttpDefer, HttpTakeOver
<1>3. CASE SendHttpResponse \/ SendHttpResponseWrite \/ ResponseOpens
           \/ ResponseEnds \/ RequestWritten
  BY <1>3 DEF SendHttpResponse, SendHttpResponseWrite, ResponseOpens,
              ResponseEnds, RequestWritten
<1>4. CASE Response
  BY <1>4 DEF ReadResponseMore, ResponseInvalid, ResponseValid,
              ExtensionsRefused
<1>5. CASE OpFails \/ TimerExpires \/ HandleOpenTimeout \/ EstablishedEnds
           \/ HandleTerminate
  BY <1>5 DEF TimerExpires, HandleOpenTimeout, EstablishedEnds,
              HandleTerminateFailed, HandleTerminateClosed
<1>6. CASE UNCHANGED vars
  BY <1>6 DEF vars
<1> QED
  BY <1>1, <1>2, <1>3, <1>4, <1>5, <1>6

\* Every step preserves the invariant and is a step of the contract.
LEMMA HandlerStep ==
    ASSUME ~ext_refused, HandlerInv, [Next]_vars
    PROVE  HandlerInv' /\ [Contract!Next]_(Contract!vars)
<1> ~ext_refused'
  BY GivenStays DEF given
<1> USE DEF Promised
<1>1. CASE Aside
  BY <1>1 DEF Aside, HandlerInv, Contract!vars
<1>2. CASE Terminates
  BY <1>2 DEF Terminates, HandlerInv, Contract!vars
<1>3. CASE OpensNow
  <2>1. /\ opens = 0 /\ ended = 0 /\ shut_failed = 0 /\ shut_closed = 0
        /\ fails = 0 /\ closes = 0
    BY <1>3 DEF OpensNow, HandlerInv
  <2>2. HandlerInv'
    BY <1>3, <2>1 DEF OpensNow, HandlerInv
  <2>3. Contract!Open
    BY <1>3, <2>1 DEF OpensNow, Contract!Open
  <2> QED
    BY <2>2, <2>3 DEF Contract!Next
<1>4. CASE HandleTerminateFailed
  <2>1. /\ m_state = "closed" /\ shut_failed = 1 /\ shut_closed = 0
        /\ ended = 0 /\ opens = 0 /\ fails = 0 /\ closes = 0
    BY <1>4 DEF HandleTerminateFailed, HandlerInv
  <2>2. /\ UNCHANGED <<m_state, shut_closed, opens, closes>>
        /\ shut_failed' = 0 /\ ended' = 1
        /\ fails' = 0 \/ fails' = 1
    BY <1>4, <2>1 DEF HandleTerminateFailed, stateVars
  <2>3. HandlerInv'
    BY <2>1, <2>2 DEF HandlerInv
  <2>4. Contract!Fail \/ Contract!EndHttp
    BY <2>1, <2>2 DEF Contract!Fail, Contract!EndHttp
  <2> QED
    BY <2>3, <2>4 DEF Contract!Next
<1>5. CASE HandleTerminateClosed
  <2>1. /\ m_state = "closed" /\ shut_closed = 1 /\ shut_failed = 0
        /\ ended = 0 /\ opens = 1 /\ fails = 0 /\ closes = 0
    BY <1>5 DEF HandleTerminateClosed, HandlerInv
  <2>2. /\ UNCHANGED <<m_state, shut_failed, opens, fails>>
        /\ shut_closed' = 0 /\ ended' = 1 /\ closes' = 1
    BY <1>5, <2>1 DEF HandleTerminateClosed, stateVars
  <2>3. HandlerInv'
    BY <2>1, <2>2 DEF HandlerInv
  <2>4. Contract!Close
    BY <2>1, <2>2 DEF Contract!Close
  <2> QED
    BY <2>3, <2>4 DEF Contract!Next
<1> QED
  BY <1>1, <1>2, <1>3, <1>4, <1>5, StepCases DEF HandleTerminate

\* A client that refuses the extensions is outside the contract, for good.
LEMMA RefusedStep ==
    ASSUME ext_refused, [Next]_vars
    PROVE  ext_refused' /\ UNCHANGED Contract!vars
BY GivenStays DEF given, Promised, Contract!vars

\* Whatever completions, timeouts and deferred responses are still under way,
\* the application sees the handlers' contract, unless a client's extension
\* negotiation fails.
THEOREM ContractKept == Spec => KeepsContract
<1> DEFINE Kept == ext_refused \/ HandlerInv
<1>1. Init => Kept /\ Contract!Init
  BY HandlerInit DEF Init, Contract!Init, Promised
<1>2. Kept /\ [Next]_vars => Kept' /\ [Contract!Next]_(Contract!vars)
  BY HandlerStep, RefusedStep
<1> HIDE DEF Kept
<1> QED
  BY <1>1, <1>2, PTL DEF Spec, KeepsContract, Contract!Spec

-----------------------------------------------------------------------------
(***************************************************************************)
(* Responses, and the operations of a connection that has ended.           *)
(***************************************************************************)

\* What an action that terminates the connection leaves alone or knows.
LEMMA TerminateTypes ==
    ASSUME TypeOK, NEW ec, NEW http, Terminate(ec, http),
           ec \in {"none", "eof", "error", "invalid_state", "invalid_response",
                   "open_handshake_timeout", "http_connection_ended"} \cup {m_ec}
    PROVE  /\ m_state' = "closed" /\ timer' = "none"
           /\ m_ec' \in {"none", "eof", "error", "general", "rejected", "invalid_state",
                          "invalid_response", "open_handshake_timeout",
                          "http_connection_ended", "extension_neg_failed"}
           /\ m_http_state' \in {m_http_state, "closed"}
           /\ shut_failed' \in Nat /\ shut_closed' \in Nat
BY DEF TypeOK, Terminate

\* The handler of an operation that goes on finds the state it expects.
LEMMA CompletesMeans ==
    ASSUME NEW op, NEW want, Completes(op, want), want # "proceed"
    PROVE  op \in ops /\ m_state = "connecting" /\ m_internal_state = want
<1>1. m_state = "connecting"
  BY ProceedMeansConnecting
<1> QED
  BY <1>1 DEF Completes, Verdict

\* The handler of an operation that does not go on.
LEMMA FailsKeeps ==
    ASSUME ResponseInv, NEW op, NEW want, Fails(op, want), op # "init"
    PROVE  ResponseInv'
<1> USE DEF ResponseInv, RespondsOnce, OneResponse
<1>1. PICK ec \in {"none", "eof", "error"} :
         LET v == Verdict(ec, want)
         IN  /\ v # "proceed"
             /\ IF v = "ignore" THEN UNCHANGED terminateVars ELSE Terminate(v, m_is_http)
  BY DEF Fails
<1>2. Verdict(ec, want) \in {"none", "eof", "error", "invalid_state", "proceed", "ignore"}
  BY DEF Verdict
<1>3. /\ op \in ops /\ ops' = ops \ {op} /\ ops # {"init"}
      /\ UNCHANGED <<m_internal_state, m_is_http, status, expired, opens, fails,
                     closes, ended, reads, https, responses, responding,
                     m_is_server, ext_refused>>
  BY DEF Fails, handlerVars, otherVars, given
<1>4. CASE UNCHANGED terminateVars
  <2>1. UNCHANGED <<timer, m_ec, m_http_state, m_state, shut_failed, shut_closed>>
    BY <1>4 DEF terminateVars, shutVars
  <2>2. TypeOK'
    BY <1>3, <2>1 DEF TypeOK
  <2> QED
    BY <1>3, <2>1, <2>2
<1>5. CASE Verdict(ec, want) # "ignore" /\ Terminate(Verdict(ec, want), m_is_http)
  <2>1. Verdict(ec, want) \in {"none", "eof", "error", "invalid_state"}
    BY <1>1, <1>2, <1>5
  <2> QED
    BY <1>3, <1>5, <2>1, TerminateTypes DEF TypeOK
<1> QED
  BY <1>1, <1>4, <1>5

\* A new connection has sent no response.
LEMMA ResponseInit == Init => ResponseInv
<1> SUFFICES ASSUME Init PROVE ResponseInv
  OBVIOUS
<1>1. m_is_server \in BOOLEAN /\ ext_refused \in BOOLEAN
  <2>1. Roles \subseteq BOOLEAN /\ Refusals \subseteq BOOLEAN
    BY ConfigAssumption
  <2>2. m_is_server \in Roles /\ ext_refused \in Refusals
    BY DEF Init
  <2> QED
    BY <2>1, <2>2
<1>2. m_is_http \in BOOLEAN /\ responding \in BOOLEAN
  BY DEF Init
<1>3. /\ m_state = "connecting" /\ m_internal_state = "USER_INIT"
      /\ m_http_state = "init" /\ status = "uninitialized" /\ m_ec = "none"
      /\ ops = {} /\ timer = "none" /\ expired = 0 /\ shut_failed = 0
      /\ shut_closed = 0 /\ reads = 0 /\ opens = 0 /\ fails = 0 /\ closes = 0
      /\ ended = 0 /\ https = 0 /\ responses = 0
  BY DEF Init
<1>4. TypeOK
  BY <1>1, <1>2, <1>3 DEF TypeOK
<1> QED
  BY <1>4 DEF Init, ResponseInv, RespondsOnce, OneResponse

\* Every step preserves the invariant.
LEMMA ResponseStep ==
    ASSUME ResponseInv, [Next]_vars
    PROVE  ResponseInv'
<1> USE DEF ResponseInv, RespondsOnce, OneResponse, TypeOK,
            stateVars, httpVars, timerVars, shutVars, handlerVars, otherVars, given
<1>1. CASE AcceptFails
  BY <1>1 DEF AcceptFails, Terminate
<1>2. CASE Start
  BY <1>2 DEF Start
<1>3. CASE TransportInit
  <2>1. CASE TransportInitFails
    BY <2>1 DEF TransportInitFails, Terminate
  <2>2. CASE TransportInitServer
    BY <2>2 DEF TransportInitServer, ArmTimer
  <2>3. CASE TransportInitClient
    BY <2>3 DEF TransportInitClient, ArmTimer
  <2> QED
    BY <1>3, <2>1, <2>2, <2>3 DEF TransportInit
<1>4. CASE Request
  <2> USE DEF ReadsRequest
  <2> ReadsRequest => m_state = "connecting" /\ m_internal_state = "READ_HTTP_REQUEST"
    BY CompletesMeans
  <2>1. CASE ReadRequestMore
    BY <2>1 DEF ReadRequestMore
  <2>2. CASE AcceptRequest
    BY <2>2 DEF AcceptRequest, Answers, WriteHttpResponse
  <2>3. CASE RefuseRequest
    BY <2>3 DEF RefuseRequest, Answers, WriteHttpResponse
  <2>4. CASE HttpRespond
    BY <2>4 DEF HttpRespond, HttpRequest, Answers, WriteHttpResponse
  <2>5. CASE HttpDefer
    BY <2>5 DEF HttpDefer, HttpRequest
  <2>6. CASE HttpTakeOver
    BY <2>6 DEF HttpTakeOver, HttpRequest, Terminate
  <2> QED
    BY <1>4, <2>1, <2>2, <2>3, <2>4, <2>5, <2>6 DEF Request
<1>5. CASE SendHttpResponse
  <2>1. /\ m_http_state' = "body_written" /\ responding' = TRUE /\ responses = 0
        /\ m_http_state = "deferred"
    BY <1>5 DEF SendHttpResponse
  <2>2. UNCHANGED <<m_state, m_internal_state, m_is_http, status, m_ec, ops, timer,
                    expired, shut_failed, shut_closed, opens, fails, closes, ended,
                    reads, https, responses, m_is_server, ext_refused>>
    BY <1>5 DEF SendHttpResponse
  <2> QED
    BY <2>1, <2>2
<1>6. CASE SendHttpResponseWrite
  <2>1. /\ responses = 0 /\ responses' = 1 /\ responding' = FALSE
        /\ m_http_state # "deferred" /\ UNCHANGED m_http_state
        /\ m_internal_state \notin {"USER_INIT", "TRANSPORT_INIT", "READ_HTTP_REQUEST"}
    BY <1>6 DEF SendHttpResponseWrite, WriteHttpResponse
  <2>2. /\ status' \in {"uninitialized", "set", "error", "switching_protocols"}
        /\ m_ec' \in {"general", "none"} /\ ops' = ops \cup {"write_response"}
        /\ "init" \notin ops'
    BY <1>6, <2>1 DEF SendHttpResponseWrite, WriteHttpResponse
  <2>3. UNCHANGED <<m_state, m_internal_state, m_is_http, timer, expired, shut_failed,
                    shut_closed, opens, fails, closes, ended, reads, https,
                    m_is_server, ext_refused>>
    BY <1>6 DEF SendHttpResponseWrite
  <2>4. responding' \in BOOLEAN /\ responses' \in Nat
    BY <2>1
  <2>5. TypeOK'
    BY <2>2, <2>3, <2>4, <2>1
  <2> HIDE DEF TypeOK
  <2> QED
    BY <2>1, <2>2, <2>3, <2>5
<1>7. CASE ResponseOpens
  BY <1>7, CompletesMeans DEF ResponseOpens, WritesResponse, Opened
<1>8. CASE ResponseEnds
  BY <1>8, CompletesMeans DEF ResponseEnds, WritesResponse, Terminate
<1>9. CASE RequestWritten
  BY <1>9, CompletesMeans DEF RequestWritten
<1>10. CASE Response
  <2> USE DEF ReadsResponse
  <2> ReadsResponse => m_state = "connecting" /\ m_internal_state = "READ_HTTP_RESPONSE"
    BY CompletesMeans
  <2>1. CASE ReadResponseMore
    BY <2>1 DEF ReadResponseMore
  <2>2. CASE ResponseInvalid
    BY <2>2 DEF ResponseInvalid, Terminate
  <2>3. CASE ResponseValid
    BY <2>3 DEF ResponseValid, Opened
  <2>4. CASE ExtensionsRefused
    BY <2>4 DEF ExtensionsRefused, Opened
  <2> QED
    BY <1>10, <2>1, <2>2, <2>3, <2>4 DEF Response
<1>11. CASE OpFails
  BY <1>11, FailsKeeps DEF OpFails
<1>12. CASE TimerExpires
  BY <1>12 DEF TimerExpires
<1>13. CASE HandleOpenTimeout
  BY <1>13 DEF HandleOpenTimeout, Terminate
<1>14. CASE EstablishedEnds
  BY <1>14 DEF EstablishedEnds, Terminate
<1>15. CASE HandleTerminate
  <2>1. CASE HandleTerminateFailed
    BY <2>1 DEF HandleTerminateFailed
  <2>2. CASE HandleTerminateClosed
    BY <2>2 DEF HandleTerminateClosed
  <2> QED
    BY <1>15, <2>1, <2>2 DEF HandleTerminate
<1>16. CASE UNCHANGED vars
  BY <1>16 DEF vars
<1> QED
  BY <1>1, <1>2, <1>3, <1>4, <1>5, <1>6, <1>7, <1>8, <1>9, <1>10, <1>11, <1>12,
     <1>13, <1>14, <1>15, <1>16 DEF Next

\* A request gets at most one HTTP response, whoever sends it and however the
\* application's thread races the connection's end.
THEOREM RespondsOnceAlways == Spec => []RespondsOnce
<1>1. ResponseInv => RespondsOnce
  BY DEF ResponseInv
<1> QED
  BY <1>1, ResponseInit, ResponseStep, PTL DEF Spec

\* A step of a connection that was terminated starts no operation, unless an
\* application's thread is writing a deferred response.
LEMMA QuietStep ==
    ASSUME ResponseInv, [Next]_vars, m_state = "closed", ~responding
    PROVE  ops' \subseteq ops
<1> USE DEF ResponseInv, stateVars, httpVars, timerVars, shutVars, handlerVars, otherVars
<1>1. CASE AcceptFails \/ Start
  BY <1>1 DEF AcceptFails, Start
<1>2. CASE TransportInit
  BY <1>2 DEF TransportInit, TransportInitFails, TransportInitServer, TransportInitClient
<1>3. CASE Request
  <2> USE DEF ReadsRequest
  <2> ~ReadsRequest
    BY CompletesMeans
  <2> QED
    BY <1>3 DEF Request, ReadRequestMore, AcceptRequest, RefuseRequest, HttpRespond,
                HttpDefer, HttpTakeOver, HttpRequest
<1>4. CASE SendHttpResponse \/ SendHttpResponseWrite
  BY <1>4 DEF SendHttpResponse, SendHttpResponseWrite
<1>5. CASE ResponseOpens \/ ResponseEnds \/ RequestWritten \/ Response
  <2> /\ ~Completes("write_response", "PROCESS_HTTP_REQUEST")
      /\ ~Completes("write_request", "WRITE_HTTP_REQUEST")
      /\ ~Completes("read_response", "READ_HTTP_RESPONSE")
    BY CompletesMeans
  <2> QED
    BY <1>5 DEF ResponseOpens, ResponseEnds, RequestWritten, Response, ReadResponseMore,
                ResponseInvalid, ResponseValid, ExtensionsRefused, WritesResponse,
                ReadsResponse
<1>6. CASE OpFails
  BY <1>6 DEF OpFails, Fails
<1>7. CASE TimerExpires \/ HandleOpenTimeout \/ EstablishedEnds
  BY <1>7 DEF TimerExpires, HandleOpenTimeout, EstablishedEnds
<1>8. CASE HandleTerminate
  BY <1>8 DEF HandleTerminate, HandleTerminateFailed, HandleTerminateClosed
<1>9. CASE UNCHANGED vars
  BY <1>9 DEF vars
<1> QED
  BY <1>1, <1>2, <1>3, <1>4, <1>5, <1>6, <1>7, <1>8, <1>9 DEF Next

\* A terminated connection starts no further transport operation.
THEOREM QuietAfterEndAlways == Spec => QuietAfterEnd
<1>1. ResponseInv /\ [Next]_vars =>
         [m_state = "closed" /\ ~responding => ops' \subseteq ops]_vars
  BY QuietStep
<1> QED
  BY <1>1, ResponseInit, ResponseStep, PTL DEF Spec, QuietAfterEnd

-----------------------------------------------------------------------------
(***************************************************************************)
(* The negotiation: a server and a client of this library understand each  *)
(* other.                                                                  *)
(***************************************************************************)

\* The fields of a refusal and of an acceptance.
LEMMA RefusalFields ==
    ASSUME NEW code, NEW x, NEW R, R = N!Refusal(code, x)
    PROVE  R.status = code /\ R.extensions = x
BY DEF N!Refusal, N!NoResponse

LEMMA AcceptedFields ==
    ASSUME NEW version, NEW selected, NEW x, NEW R, R = N!Accepted(version, selected, x)
    PROVE  /\ R.status = 101 /\ R.subprotocol = selected /\ R.extensions = x
           /\ R.upgrade /\ R.connection /\ (version # 0 => R.accept)
BY DEF N!Accepted

\* How a server judges a valid handshake.
LEMMA Judgement ==
    ASSUME NEW version, NEW neg, NEW says \in BOOLEAN, NEW selected,
           N!Judges(version, neg, says, selected)
    PROVE  /\ response'.status = 101 =>
                 /\ request.host /\ server'.version = version
                 /\ response'.subprotocol = selected
           /\ request.parses /\ request.host /\ version # 0 =>
                 /\ server'.pmd = neg.st /\ response'.extensions = neg.reply
                 /\ \/ ~validated' /\ server'.ec = "rejected" /\ response'.status = 400
                    \/ response'.status = 101 /\ N!ResponseError(response') = "ok"
<1>1. CASE version # 0 /\ ~request.parses /\ N!Answer(400, "extension_parse_error")
  BY <1>1 DEF N!Answer, N!Refusal, N!NoResponse
<1>2. CASE /\ ~request.host
           /\ response' = N!Refusal(400, neg.reply)
  <2> response'.status = 400
    BY <1>2, RefusalFields
  <2> QED
    BY <1>2
<1>3. CASE /\ request.host /\ validated' = says
           /\ server' = [version |-> version, subprotocol |-> selected,
                         ec |-> IF says THEN "ok" ELSE "rejected", pmd |-> neg.st]
           /\ response' = IF says THEN N!Accepted(version, selected, neg.reply)
                          ELSE N!Refusal(400, neg.reply)
  <2>1. server'.version = version /\ server'.pmd = neg.st
    BY <1>3
  <2>2. CASE says
    <3>1. response' = N!Accepted(version, selected, neg.reply)
      BY <1>3, <2>2
    <3>2. /\ response'.status = 101 /\ response'.subprotocol = selected
          /\ response'.extensions = neg.reply
          /\ response'.upgrade /\ response'.connection /\ (version # 0 => response'.accept)
      BY <3>1, AcceptedFields
    <3>3. version # 0 => N!ResponseError(response') = "ok"
      BY <3>2 DEF N!ResponseError
    <3> QED
      BY <1>3, <2>1, <3>2, <3>3
  <2>3. CASE ~says
    <3>1. response' = N!Refusal(400, neg.reply)
      BY <1>3, <2>3
    <3>2. response'.status = 400 /\ response'.extensions = neg.reply
      BY <3>1, RefusalFields
    <3>3. ~validated' /\ server'.ec = "rejected"
      BY <1>3, <2>3
    <3> QED
      BY <1>3, <2>1, <3>2, <3>3
  <2> QED
    BY <2>2, <2>3
<1> QED
  BY <1>1, <1>2, <1>3 DEF N!Judges

\* What an upgrade says of the request, whoever made it.
LEMMA UpgradesValid ==
    ASSUME N!Negotiates, response'.status = 101
    PROVE  /\ request.method = "GET" /\ request.upgrade /\ request.connection
           /\ request.host
           /\ server'.version \in N!versions_supported
           /\ response'.subprotocol \in {N!None} \cup N!ToSet(request.subprotocols)
<1> DEFINE version == N!get_websocket_version(request)
           offers == IF version = 0 THEN <<>> ELSE request.extensions
<1>1. /\ N!is_websocket_handshake(request)
      /\ N!InitializeError(request) = "ok" /\ N!ValidateError(request) = "ok"
  BY DEF N!Negotiates
<1>2. request.method = "GET" /\ request.upgrade /\ request.connection
  BY <1>1 DEF N!ValidateError, N!is_websocket_handshake
<1>3. version \in N!versions_supported
  BY <1>1 DEF N!InitializeError
<1>4. PICK zlib \in N!Zlib, says \in BOOLEAN,
           selected \in {N!None} \cup N!ToSet(request.subprotocols) :
         N!Judges(version, N!negotiate_extensions(server.pmd, offers, "server", zlib),
                  says, selected)
  BY Zenon DEF N!Negotiates
<1>5. request.host /\ server'.version = version /\ response'.subprotocol = selected
  <2> DEFINE neg == N!negotiate_extensions(server.pmd, offers, "server", zlib)
  <2>1. N!Judges(version, neg, says, selected)
    BY <1>4
  <2> HIDE DEF neg, version
  <2> QED
    BY <2>1, Judgement
<1> QED
  BY <1>2, <1>3, <1>5

\* A request of this library is a handshake of version 13 that nothing refuses.
LEMMA OwnRequest ==
    ASSUME NEW list, NEW r, r = N!client_handshake_request(list)
    PROVE  /\ N!is_websocket_handshake(r) /\ N!get_websocket_version(r) = 13
           /\ N!InitializeError(r) = "ok" /\ N!ValidateError(r) = "ok"
           /\ r.parses /\ r.host /\ r.subprotocols = list
           /\ r.extensions = <<N!generate_offer>>
<1>1. /\ r.upgrade /\ r.connection /\ r.wsversion = 13 /\ r.key /\ r.host /\ r.parses
      /\ r.method = "GET" /\ r.version = "HTTP/1.1" /\ r.subprotocols = list
      /\ r.extensions = <<N!generate_offer>>
  BY DEF N!client_handshake_request, N!NoRequest
<1>2. N!is_websocket_handshake(r) /\ N!get_websocket_version(r) = 13
  BY <1>1 DEF N!is_websocket_handshake, N!get_websocket_version, N!Empty
<1> QED
  BY <1>1, <1>2 DEF N!InitializeError, N!ValidateError, N!versions_supported

\* A server answers a request of this library with a handshake, or with its
\* application's refusal; either way with the extensions it negotiated.
LEMMA OwnRequestAnswered ==
    ASSUME N!Refuses \/ N!Negotiates, NEW list,
           request = N!client_handshake_request(list)
    PROVE  \E zlib \in N!Zlib :
             LET neg == N!negotiate_extensions(server.pmd, <<N!generate_offer>>, "server", zlib)
             IN /\ server'.pmd = neg.st /\ response'.extensions = neg.reply
                /\ \/ ~validated' /\ server'.ec = "rejected" /\ response'.status = 400
                   \/ response'.status = 101 /\ N!ResponseError(response') = "ok"
<1>1. /\ N!is_websocket_handshake(request) /\ N!get_websocket_version(request) = 13
      /\ N!InitializeError(request) = "ok" /\ N!ValidateError(request) = "ok"
      /\ request.parses /\ request.host
      /\ request.extensions = <<N!generate_offer>>
  BY OwnRequest
<1>2. ~N!Refuses
  BY <1>1 DEF N!Refuses
<1>3. PICK zlib \in N!Zlib, says \in BOOLEAN,
           selected \in {N!None} \cup N!ToSet(request.subprotocols) :
         N!Judges(13, N!negotiate_extensions(server.pmd, <<N!generate_offer>>, "server", zlib),
                  says, selected)
  <2> DEFINE version == N!get_websocket_version(request)
             offers == IF version = 0 THEN <<>> ELSE request.extensions
  <2>1. PICK zlib \in N!Zlib, says \in BOOLEAN,
             selected \in {N!None} \cup N!ToSet(request.subprotocols) :
           N!Judges(version, N!negotiate_extensions(server.pmd, offers, "server", zlib),
                    says, selected)
    BY <1>2, Zenon DEF N!Negotiates
  <2>2. version = 13 /\ offers = <<N!generate_offer>>
    BY <1>1
  <2> HIDE DEF version, offers
  <2> QED
    BY <2>1, <2>2
<1> DEFINE neg == N!negotiate_extensions(server.pmd, <<N!generate_offer>>, "server", zlib)
<1>4. /\ server'.pmd = neg.st /\ response'.extensions = neg.reply
      /\ \/ ~validated' /\ server'.ec = "rejected" /\ response'.status = 400
         \/ response'.status = 101 /\ N!ResponseError(response') = "ok"
  <2> HIDE DEF neg
  <2>1. N!Judges(13, neg, says, selected)
    BY <1>3 DEF neg
  <2> QED
    BY <1>1, <2>1, Judgement
<1> QED
  BY <1>4

LEMMA UnderstoodInit == ASSUME N!Init PROVE N!UnderstoodInv
BY DEF N!Init, N!UnderstoodInv, N!SpeaksToItself, N!NoResponse

\* The requests.
LEMMA UnderstoodRequest ==
    ASSUME N!UnderstoodInv, N!LibraryRequests \/ N!OtherRequests
    PROVE  N!UnderstoodInv'
<1>1. /\ phase = "idle" /\ phase' = "requested" /\ UNCHANGED <<response, client>>
      /\ response.status = 0 /\ ~library
  BY DEF N!UnderstoodInv, N!LibraryRequests, N!OtherRequests
<1>2. library' => request' = N!client_handshake_request(request'.subprotocols)
  <2>1. CASE N!LibraryRequests
    <3>1. PICK list : request' = N!client_handshake_request(list)
      BY <2>1 DEF N!LibraryRequests
    <3>2. request'.subprotocols = list
      BY <3>1, OwnRequest
    <3> QED
      BY <3>1, <3>2
  <2>2. CASE N!OtherRequests
    BY <1>1, <2>2 DEF N!OtherRequests
  <2> QED
    BY <2>1, <2>2
<1> QED
  BY <1>1, <1>2 DEF N!UnderstoodInv, N!SpeaksToItself

\* The server's answer.
LEMMA UnderstoodAnswer ==
    ASSUME N!UnderstoodInv, N!ServerAnswers
    PROVE  N!UnderstoodInv'
<1>1. /\ phase = "requested" /\ phase' = "answered"
      /\ UNCHANGED <<library, request, client>>
      /\ N!Refuses \/ N!Negotiates
  BY DEF N!ServerAnswers
<1>2. library => request = N!client_handshake_request(request.subprotocols)
  BY DEF N!UnderstoodInv
<1>3. library' =>
         \/ ~validated' /\ server'.ec = "rejected" /\ response'.status = 400
         \/ response'.status = 101 /\ N!ResponseError(response') = "ok"
  BY <1>1, <1>2, OwnRequestAnswered
<1>4. N!Refuses => response'.status # 101
  <2> SUFFICES ASSUME N!Refuses PROVE response'.status # 101
    OBVIOUS
  <2>1. response' = N!Refusal(426, <<>>) \/ response' = N!Refusal(400, <<>>)
    BY DEF N!Refuses, N!Answer
  <2> QED
    BY <2>1, RefusalFields
<1>5. response'.status = 101 =>
         /\ request.method = "GET" /\ request.upgrade /\ request.connection
         /\ server'.version \in N!versions_supported /\ request.host
         /\ response'.subprotocol \in {N!None} \cup N!ToSet(request.subprotocols)
  BY <1>1, <1>4, UpgradesValid
<1> QED
  BY <1>1, <1>2, <1>3, <1>5 DEF N!UnderstoodInv, N!SpeaksToItself

\* The client's verdict.
LEMMA UnderstoodVerdict ==
    ASSUME N!UnderstoodInv, N!ClientValidates
    PROVE  N!UnderstoodInv'
<1>1. /\ phase = "answered" /\ phase' = "done" /\ library
      /\ UNCHANGED <<library, request, response, server, validated>>
  BY DEF N!ClientValidates
<1>2. PICK neg : client' = IF N!ResponseError(response) # "ok"
                           THEN [client EXCEPT !.ec = N!ResponseError(response)]
                           ELSE [client EXCEPT !.pmd = neg.st,
                                   !.ec = IF neg.ec = "ok" THEN "ok"
                                          ELSE "extension_neg_failed"]
  BY DEF N!ClientValidates
<1>3. {"ec", "pmd"} \subseteq DOMAIN client
  BY DEF N!UnderstoodInv
<1>4. response.status = 101 => N!ResponseError(response) = "ok"
  BY <1>1 DEF N!UnderstoodInv
<1>5. response.status = 101 => client'.ec \in {"ok", "extension_neg_failed"}
  BY <1>2, <1>3, <1>4
<1>6. {"ec", "pmd"} \subseteq DOMAIN client'
  BY <1>2, <1>3
<1> QED
  BY <1>1, <1>5, <1>6 DEF N!UnderstoodInv, N!SpeaksToItself

LEMMA UnderstoodStep == ASSUME N!UnderstoodInv, [N!Next]_negotiationVars PROVE N!UnderstoodInv'
<1>1. CASE N!Next
  BY <1>1, UnderstoodRequest, UnderstoodAnswer, UnderstoodVerdict DEF N!Next
<1>2. CASE UNCHANGED negotiationVars
  BY <1>2 DEF negotiationVars, N!UnderstoodInv, N!SpeaksToItself
<1> QED
  BY <1>1, <1>2

\* A server of this library upgrades nobody without a valid handshake of a version it
\* supports, and refuses a client of this library only if its application does
\* (process_handshake_request, validate_handshake, process_handshake).
THEOREM SpeaksToItselfAlways == MCSpec => []SpeaksToItself
<1>1. MCInit => UnderstoodInv
  BY UnderstoodInit DEF MCInit, UnderstoodInv
<1>2. UnderstoodInv /\ [MCNext]_allVars => UnderstoodInv'
  <2> SUFFICES ASSUME UnderstoodInv, [MCNext]_allVars PROVE UnderstoodInv'
    OBVIOUS
  <2>1. UNCHANGED part
    BY DEF MCNext, allVars
  <2>2. part = "negotiation" => N!UnderstoodInv /\ [N!Next]_negotiationVars
    BY DEF UnderstoodInv, MCNext, allVars
  <2> QED
    BY <2>1, <2>2, UnderstoodStep DEF UnderstoodInv
<1>3. UnderstoodInv => SpeaksToItself
  BY DEF UnderstoodInv, SpeaksToItself, N!UnderstoodInv
<1> QED
  BY <1>1, <1>2, <1>3, PTL DEF MCSpec

-----------------------------------------------------------------------------
(***************************************************************************)
(* The negotiation: what both ends make of the extension.                  *)
(***************************************************************************)

\* The settings that an application can give an extension.
SettingsRange ==
    [enabled : {FALSE}, initialized : {FALSE},
     server_no_context_takeover : BOOLEAN, client_no_context_takeover : BOOLEAN,
     server_bits : 9 .. 15, server_mode : N!Modes,
     client_bits : 9 .. 15, client_mode : N!Modes,
     deflate_bits : {0}, inflate_bits : {0}, flush : {"none"}]

LEMMA ConfiguredRange ==
    ASSUME NEW sb \in 8 .. 15, NEW sm \in N!Modes, NEW cb \in 8 .. 15, NEW cm \in N!Modes,
           NEW sn \in BOOLEAN, NEW cn \in BOOLEAN
    PROVE  N!Settings(sb, sm, cb, cm, sn, cn) \in SettingsRange
<1>1. N!NineForEight(sb) \in 9 .. 15 /\ N!NineForEight(cb) \in 9 .. 15
  BY DEF N!NineForEight
<1> QED
  BY <1>1 DEF SettingsRange, N!Settings

LEMMA Configured == ASSUME NEW s \in N!Configurations PROVE s \in SettingsRange
<1>1. PICK sb \in 8 .. 15, sm \in N!Modes, cb \in 8 .. 15, cm \in N!Modes,
           sn \in BOOLEAN, cn \in BOOLEAN : s = N!Settings(sb, sm, cb, cm, sn, cn)
  BY DEF N!Configurations
<1> QED
  BY <1>1, ConfiguredRange

\* An attribute that an offer does not have, after those that went well.
LEMMA Absent ==
    ASSUME NEW acc, NEW offer, NEW name, name \notin DOMAIN offer
    PROVE  N!Consider(acc, offer, name) = acc
BY DEF N!Consider

LEMMA Present ==
    ASSUME NEW st, NEW offer, NEW name \in DOMAIN offer
    PROVE  N!Consider(N!Ok(st), offer, name) = N!NegotiateAttribute(st, name, offer[name])
BY DEF N!Consider, N!Ok

\* negotiate, when each attribute goes well.
LEMMA AllGoWell ==
    ASSUME NEW st, NEW offer, NEW a, NEW b, NEW c, NEW d, NEW e, NEW f,
           N!Consider(N!Ok(st), offer, "another") = N!Ok(a),
           N!Consider(N!Ok(a), offer, "client_max_window_bits") = N!Ok(b),
           N!Consider(N!Ok(b), offer, "client_no_context_takeover") = N!Ok(c),
           N!Consider(N!Ok(c), offer, "server_max_window_bits") = N!Ok(d),
           N!Consider(N!Ok(d), offer, "server_no_context_takeover") = N!Ok(e),
           N!Consider(N!Ok(e), offer, "unknown") = N!Ok(f)
    PROVE  N!negotiate(st, offer) = N!Ok([f EXCEPT !.enabled = TRUE])
<1> DEFINE after == N!Consider(N!Consider(N!Consider(N!Consider(N!Consider(
                       N!Consider(N!Ok(st), offer, "another"),
                       offer, "client_max_window_bits"),
                       offer, "client_no_context_takeover"),
                       offer, "server_max_window_bits"),
                       offer, "server_no_context_takeover"), offer, "unknown")
<1>1. after = N!Ok(f)
  OBVIOUS
<1>2. N!negotiate(st, offer) = IF after.ec # "ok" THEN after
                               ELSE N!Ok([after.st EXCEPT !.enabled = TRUE])
  BY Zenon DEF N!negotiate
<1> HIDE DEF after
<1>3. after.ec = "ok" /\ after.st = f
  BY <1>1 DEF N!Ok
<1> QED
  BY <1>2, <1>3

\* The value of client_max_window_bits that a mode makes of a valid one.
LEMMA ChosenRange ==
    ASSUME NEW mode \in N!Modes, NEW bits \in 9 .. 15, NEW own \in 9 .. 15
    PROVE  /\ N!Chosen(mode, bits, own) \in 9 .. 15
           /\ mode # "decline" => N!Chosen(mode, bits, own) <= bits
           /\ mode = "accept" => N!Chosen(mode, bits, own) = bits
BY DEF N!Chosen, N!Modes, N!NineForEight, N!LessOf, N!default_max_window_bits,
       N!min_max_window_bits

\* The client's offer, as a server takes it.
LEMMA OfferTaken ==
    ASSUME NEW s \in SettingsRange
    PROVE  \E X \in 9 .. 15 :
             N!negotiate(s, N!generate_offer)
               = N!Ok([s EXCEPT !.client_bits = X, !.client_no_context_takeover = TRUE,
                                !.enabled = TRUE])
<1> DEFINE offer == N!generate_offer
           X == N!Chosen(s.client_mode, 15, s.client_bits)
           s1 == [s EXCEPT !.client_bits = X]
           s2 == [s1 EXCEPT !.client_no_context_takeover = TRUE]
<1>1. /\ DOMAIN offer = {"client_no_context_takeover", "client_max_window_bits"}
      /\ offer["client_no_context_takeover"] = N!Empty
      /\ offer["client_max_window_bits"] = N!Empty
  BY DEF N!generate_offer
<1>2. X \in 9 .. 15
  <2>1. s.client_mode \in N!Modes /\ s.client_bits \in 9 .. 15
    BY DEF SettingsRange
  <2> QED
    BY <2>1, ChosenRange
<1> HIDE DEF offer
<1>3. N!Consider(N!Ok(s), offer, "another") = N!Ok(s)
  BY <1>1, Absent
<1>4. N!Consider(N!Ok(s), offer, "client_max_window_bits") = N!Ok(s1)
  <2>1. N!Consider(N!Ok(s), offer, "client_max_window_bits")
           = N!negotiate_client_max_window_bits(s, N!Empty)
    BY <1>1, Present DEF N!NegotiateAttribute
  <2>2. N!negotiate_client_max_window_bits(s, N!Empty) = N!Ok(s1)
    BY DEF N!negotiate_client_max_window_bits, N!ValidBits, N!default_max_window_bits,
           N!min_max_window_bits
  <2> QED
    BY <2>1, <2>2
<1>5. N!Consider(N!Ok(s1), offer, "client_no_context_takeover") = N!Ok(s2)
  <2> HIDE DEF s1
  <2>1. N!Consider(N!Ok(s1), offer, "client_no_context_takeover")
           = N!negotiate_client_no_context_takeover(s1, N!Empty)
    BY <1>1, Present DEF N!NegotiateAttribute
  <2> QED
    BY <2>1 DEF N!negotiate_client_no_context_takeover
<1>6. /\ N!Consider(N!Ok(s2), offer, "server_max_window_bits") = N!Ok(s2)
      /\ N!Consider(N!Ok(s2), offer, "server_no_context_takeover") = N!Ok(s2)
      /\ N!Consider(N!Ok(s2), offer, "unknown") = N!Ok(s2)
  <2> HIDE DEF s2
  <2> QED
    BY <1>1, Absent
<1>7. N!negotiate(s, offer) = N!Ok([s2 EXCEPT !.enabled = TRUE])
  <2> HIDE DEF s1, s2
  <2> QED
    BY <1>3, <1>4, <1>5, <1>6, AllGoWell
<1> QED
  BY <1>2, <1>7 DEF offer

\* What generate_response reads of the settings.
LEMMA ResponseReads ==
    ASSUME NEW s, NEW t,
           s.server_no_context_takeover = t.server_no_context_takeover,
           s.client_no_context_takeover = t.client_no_context_takeover,
           s.server_bits = t.server_bits, s.client_bits = t.client_bits
    PROVE  N!generate_response(s) = N!generate_response(t)
<1> DEFINE G(st) == {n \in {"server_no_context_takeover", "client_no_context_takeover"} : st[n]}
                    \cup (IF st.server_bits < 15 THEN {"server_max_window_bits"} ELSE {})
                    \cup (IF st.client_bits < 15 THEN {"client_max_window_bits"} ELSE {})
<1>1. G(s) = G(t)
  OBVIOUS
<1> QED
  BY <1>1 DEF N!generate_response

\* The attributes of a response.
LEMMA ResponseAttributes ==
    ASSUME NEW s, s.client_no_context_takeover = TRUE,
           s.server_no_context_takeover \in BOOLEAN
    PROVE  LET R == N!generate_response(s)
           IN /\ "another" \notin DOMAIN R /\ "unknown" \notin DOMAIN R
              /\ "client_no_context_takeover" \in DOMAIN R
              /\ R["client_no_context_takeover"] = N!Empty
              /\ "server_no_context_takeover" \in DOMAIN R <=> s.server_no_context_takeover
              /\ s.server_no_context_takeover => R["server_no_context_takeover"] = N!Empty
              /\ "client_max_window_bits" \in DOMAIN R <=> s.client_bits < 15
              /\ s.client_bits < 15 => R["client_max_window_bits"] = s.client_bits
              /\ "server_max_window_bits" \in DOMAIN R <=> s.server_bits < 15
              /\ s.server_bits < 15 => R["server_max_window_bits"] = s.server_bits
<1> DEFINE R == N!generate_response(s)
           names == {n \in {"server_no_context_takeover", "client_no_context_takeover"} : s[n]}
                    \cup (IF s.server_bits < 15 THEN {"server_max_window_bits"} ELSE {})
                    \cup (IF s.client_bits < 15 THEN {"client_max_window_bits"} ELSE {})
<1>1. R = [n \in names |-> CASE n = "server_max_window_bits" -> s.server_bits
                             [] n = "client_max_window_bits" -> s.client_bits
                             [] OTHER -> N!Empty]
  BY DEF N!generate_response
<1>2. /\ "another" \notin names /\ "unknown" \notin names
      /\ "client_no_context_takeover" \in names
      /\ "server_no_context_takeover" \in names <=> s.server_no_context_takeover
      /\ "client_max_window_bits" \in names <=> s.client_bits < 15
      /\ "server_max_window_bits" \in names <=> s.server_bits < 15
  OBVIOUS
<1> HIDE DEF names, R
<1>3. DOMAIN R = names
  BY <1>1
<1>4. \A n \in names : R[n] = CASE n = "server_max_window_bits" -> s.server_bits
                                [] n = "client_max_window_bits" -> s.client_bits
                                [] OTHER -> N!Empty
  BY <1>1
<1>5. R["client_no_context_takeover"] = N!Empty
  BY <1>2, <1>4
<1>6. s.server_no_context_takeover => R["server_no_context_takeover"] = N!Empty
  BY <1>2, <1>4
<1>7. s.client_bits < 15 => R["client_max_window_bits"] = s.client_bits
  BY <1>2, <1>4
<1>8. s.server_bits < 15 => R["server_max_window_bits"] = s.server_bits
  BY <1>2, <1>4
<1> QED
  BY <1>2, <1>3, <1>5, <1>6, <1>7, <1>8 DEF R

\* negotiate_extensions with no offer.
LEMMA NoOffers ==
    ASSUME NEW st, NEW role, NEW zlib
    PROVE  N!negotiate_extensions(st, <<>>, role, zlib)
             = [done |-> FALSE, ec |-> "ok", st |-> st, reply |-> <<>>]
<1> DEFINE start == [done |-> FALSE, ec |-> "ok", st |-> st, reply |-> <<>>]
           offers == <<>>
           Att(acc, i) == N!Attempt(acc, offers[i], role, zlib)
           Rec(t) == t = [i \in 0 .. Len(offers) |-> IF i = 0 THEN start ELSE Att(t[i - 1], i)]
           tried == CHOOSE t : Rec(t)
           made == [i \in 0 .. Len(offers) |-> start]
<1>1. N!negotiate_extensions(st, offers, role, zlib) = tried[Len(offers)]
  BY DEF N!negotiate_extensions
<1>2. Len(offers) = 0 /\ \A i \in 0 .. Len(offers) : i = 0
  OBVIOUS
<1> HIDE DEF start, Att, offers
<1>3. Rec(made)
  BY <1>2
<1> HIDE DEF made
<1>4. Rec(tried)
  BY <1>3
<1> HIDE DEF tried
<1>5. tried[Len(offers)] = start
  BY <1>2, <1>4
<1> QED
  BY <1>1, <1>5 DEF start, offers

\* negotiate_extensions with one offer.
LEMMA FirstOffer ==
    ASSUME NEW st, NEW offer, NEW role, NEW zlib
    PROVE  LET start == [done |-> FALSE, ec |-> "ok", st |-> st, reply |-> <<>>]
           IN N!negotiate_extensions(st, <<offer>>, role, zlib)
                 = N!Attempt(start, offer, role, zlib)
<1> DEFINE start == [done |-> FALSE, ec |-> "ok", st |-> st, reply |-> <<>>]
           offers == <<offer>>
           Att(acc, i) == N!Attempt(acc, offers[i], role, zlib)
           Rec(t) == t = [i \in 0 .. Len(offers) |-> IF i = 0 THEN start ELSE Att(t[i - 1], i)]
           tried == CHOOSE t : Rec(t)
           made == [i \in 0 .. Len(offers) |-> IF i = 0 THEN start ELSE Att(start, 1)]
<1>1. N!negotiate_extensions(st, offers, role, zlib) = tried[Len(offers)]
  BY DEF N!negotiate_extensions
<1>2. Len(offers) = 1 /\ offers[1] = offer
  OBVIOUS
<1> HIDE DEF start, Att, offers
<1>3. Rec(made)
  <2>1. \A i \in 0 .. Len(offers) : i = 0 \/ (i = 1 /\ i - 1 = 0 /\ 0 \in 0 .. Len(offers))
    BY <1>2
  <2>2. \A i \in 0 .. Len(offers) :
           (IF i = 0 THEN start ELSE Att(start, 1))
             = (IF i = 0 THEN start ELSE Att(made[i - 1], i))
    BY <2>1
  <2> HIDE DEF made
  <2> QED
    BY <2>2 DEF made
<1> HIDE DEF Rec, made
<1>4. Rec(tried)
  BY <1>3
<1> HIDE DEF tried
<1>5. tried[0] = start /\ tried[1] = Att(tried[0], 1)
  BY <1>2, <1>4 DEF Rec
<1> QED
  BY <1>1, <1>2, <1>5 DEF start, Att, offers

\* An offer that is negotiated, with zlib and without.
LEMMA OfferAccepted ==
    ASSUME NEW st, NEW offer, NEW role, NEW t, N!negotiate(st, offer) = N!Ok(t)
    PROVE  N!negotiate_extensions(st, <<offer>>, role, "ok")
             = [done |-> TRUE, ec |-> "ok", st |-> N!init(t, role),
                reply |-> <<N!generate_response(t)>>]
<1> DEFINE start == [done |-> FALSE, ec |-> "ok", st |-> st, reply |-> <<>>]
<1>1. N!negotiate_extensions(st, <<offer>>, role, "ok") = N!Attempt(start, offer, role, "ok")
  BY FirstOffer
<1>2. N!Ok(t).ec = "ok" /\ N!Ok(t).st = t
  BY DEF N!Ok
<1>3. ~start.done /\ N!negotiate(start.st, offer) = N!Ok(t)
  OBVIOUS
<1> HIDE DEF start
<1> QED
  BY <1>1, <1>2, <1>3 DEF N!Attempt

LEMMA OfferWithoutZlib ==
    ASSUME NEW st, NEW offer, NEW role, NEW t, N!negotiate(st, offer) = N!Ok(t)
    PROVE  N!negotiate_extensions(st, <<offer>>, role, "fails")
             = [done |-> TRUE, ec |-> "zlib_error", st |-> t, reply |-> <<>>]
<1> DEFINE start == [done |-> FALSE, ec |-> "ok", st |-> st, reply |-> <<>>]
<1>1. N!negotiate_extensions(st, <<offer>>, role, "fails") = N!Attempt(start, offer, role, "fails")
  BY FirstOffer
<1>2. N!Ok(t).ec = "ok" /\ N!Ok(t).st = t
  BY DEF N!Ok
<1>3. ~start.done /\ N!negotiate(start.st, offer) = N!Ok(t)
  OBVIOUS
<1> HIDE DEF start
<1>4. N!negotiate_extensions(st, <<offer>>, role, "fails")
         = [start EXCEPT !.done = TRUE, !.ec = "zlib_error", !.st = t]
  BY <1>1, <1>2, <1>3 DEF N!Attempt
<1> QED
  BY <1>4 DEF start

\* A server's settings once it has answered a client of this library.
LEMMA ServerSettles ==
    ASSUME NEW s \in SettingsRange, NEW zlib \in N!Zlib, NEW neg,
           neg = N!negotiate_extensions(s, <<N!generate_offer>>, "server", zlib)
    PROVE  N!AnswerSettled(neg.st, neg.reply)
<1>1. PICK X \in 9 .. 15 :
        N!negotiate(s, N!generate_offer)
          = N!Ok([s EXCEPT !.client_bits = X, !.client_no_context_takeover = TRUE,
                           !.enabled = TRUE])
  BY OfferTaken
<1> DEFINE t == [s EXCEPT !.client_bits = X, !.client_no_context_takeover = TRUE,
                          !.enabled = TRUE]
           u == N!init(t, "server")
           r == <<N!generate_response(t)>>
<1>2. /\ t.enabled = TRUE /\ t.initialized = FALSE /\ t.client_no_context_takeover = TRUE
      /\ t.client_bits \in 9 .. 15 /\ t.server_bits \in 9 .. 15
      /\ t.server_no_context_takeover \in BOOLEAN
  BY DEF SettingsRange
<1>3. /\ u.enabled = TRUE /\ u.initialized = TRUE /\ u.client_no_context_takeover = TRUE
      /\ u.client_bits = t.client_bits /\ u.server_bits = t.server_bits
      /\ u.server_no_context_takeover = t.server_no_context_takeover
      /\ u.deflate_bits = u.server_bits /\ u.inflate_bits = u.client_bits
      /\ t.server_no_context_takeover => u.flush = "full"
  BY <1>2 DEF N!init, SettingsRange
<1>4. N!negotiate(s, N!generate_offer) = N!Ok(t)
  BY <1>1
<1> HIDE DEF t, u, r
<1>5. CASE zlib = "ok"
  <2>1. N!negotiate_extensions(s, <<N!generate_offer>>, "server", "ok")
          = [done |-> TRUE, ec |-> "ok", st |-> u, reply |-> r]
    BY <1>4, OfferAccepted DEF u, r
  <2>2. neg = [done |-> TRUE, ec |-> "ok", st |-> u, reply |-> r]
    BY <1>5, <2>1
  <2>3. N!generate_response(u) = N!generate_response(t)
    BY <1>2, <1>3, ResponseReads
  <2>4. N!AnswerSettled(u, r)
    BY <1>2, <1>3, <2>3 DEF N!AnswerSettled, N!Compresses, r
  <2>5. neg.st = u /\ neg.reply = r
    BY <2>2
  <2> QED
    BY <2>4, <2>5
<1>6. CASE zlib = "fails"
  <2>1. neg = [done |-> TRUE, ec |-> "zlib_error", st |-> t, reply |-> <<>>]
    BY <1>4, <1>6, OfferWithoutZlib
  <2>2. N!AnswerSettled(t, <<>>)
    BY <1>2 DEF N!AnswerSettled, N!Compresses
  <2>3. neg.st = t /\ neg.reply = <<>>
    BY <2>1
  <2> QED
    BY <2>2, <2>3
<1> QED
  BY <1>5, <1>6 DEF N!Zlib

\* A window that a response names, as negotiate_..._max_window_bits takes it.
LEMMA ValidWindow ==
    ASSUME NEW v \in 9 .. 14
    PROVE  v # N!Empty /\ N!Bits(v) = v /\ N!ValidBits(v)
BY DEF N!Empty, N!Bits, N!ValidBits, N!min_max_window_bits, N!default_max_window_bits

\* The settings of a client of CompressionAgreed.
LEMMA ClientRange ==
    ASSUME NEW c \in SettingsRange, c.server_bits = 15, c.server_mode = "accept",
           c.server_no_context_takeover = FALSE
    PROVE  c \in [enabled : {FALSE}, initialized : {FALSE},
                  server_no_context_takeover : {FALSE}, client_no_context_takeover : BOOLEAN,
                  server_bits : {15}, server_mode : {"accept"},
                  client_bits : 9 .. 15, client_mode : N!Modes,
                  deflate_bits : {0}, inflate_bits : {0}, flush : {"none"}]
<1> DEFINE d == [c EXCEPT !.client_bits = c.client_bits]
<1>1. d \in [enabled : {FALSE}, initialized : {FALSE},
             server_no_context_takeover : {FALSE}, client_no_context_takeover : BOOLEAN,
             server_bits : {15}, server_mode : {"accept"},
             client_bits : 9 .. 15, client_mode : N!Modes,
             deflate_bits : {0}, inflate_bits : {0}, flush : {"none"}]
  BY DEF SettingsRange
<1>2. d = c
  BY DEF SettingsRange
<1> QED
  BY <1>1, <1>2

\* What a client of CompressionAgreed makes of the response.
LEMMA ReplyTaken ==
    ASSUME NEW c \in SettingsRange, c.server_bits = 15, c.server_mode = "accept",
           c.client_mode # "decline", c.server_no_context_takeover = FALSE,
           NEW s, s.client_no_context_takeover = TRUE,
           s.server_no_context_takeover \in BOOLEAN,
           s.server_bits \in 9 .. 15, s.client_bits \in 9 .. 15
    PROVE  \E t : /\ N!negotiate(c, N!generate_response(s)) = N!Ok(t)
                  /\ t.enabled = TRUE /\ t.initialized = FALSE
                  /\ t.client_no_context_takeover = TRUE
                  /\ t.server_bits = s.server_bits
                  /\ t.client_bits \in 9 .. 15 /\ t.client_bits <= s.client_bits
                  /\ DOMAIN t = DOMAIN c
<1> DEFINE R == N!generate_response(s)
           X == N!Chosen(c.client_mode, s.client_bits, c.client_bits)
           c1 == IF s.client_bits < 15 THEN [c EXCEPT !.client_bits = X] ELSE c
           c2 == [c1 EXCEPT !.client_no_context_takeover = TRUE]
           c3 == IF s.server_bits < 15 THEN [c2 EXCEPT !.server_bits = s.server_bits] ELSE c2
           c4 == IF s.server_no_context_takeover = TRUE
                 THEN [c3 EXCEPT !.server_no_context_takeover = TRUE] ELSE c3
           t == [c4 EXCEPT !.enabled = TRUE]
<1>1. /\ "another" \notin DOMAIN R /\ "unknown" \notin DOMAIN R
      /\ "client_no_context_takeover" \in DOMAIN R
      /\ R["client_no_context_takeover"] = N!Empty
      /\ "server_no_context_takeover" \in DOMAIN R <=> s.server_no_context_takeover
      /\ s.server_no_context_takeover => R["server_no_context_takeover"] = N!Empty
      /\ "client_max_window_bits" \in DOMAIN R <=> s.client_bits < 15
      /\ s.client_bits < 15 => R["client_max_window_bits"] = s.client_bits
      /\ "server_max_window_bits" \in DOMAIN R <=> s.server_bits < 15
      /\ s.server_bits < 15 => R["server_max_window_bits"] = s.server_bits
  BY ResponseAttributes
<1> HIDE DEF R
<1>2. N!Consider(N!Ok(c), R, "another") = N!Ok(c)
  BY <1>1, Absent
<1>3. c.client_mode \in N!Modes /\ c.client_bits \in 9 .. 15
  BY DEF SettingsRange
<1>4. X \in 9 .. 15 /\ X <= s.client_bits
  BY <1>3, ChosenRange
<1>5. N!Consider(N!Ok(c), R, "client_max_window_bits") = N!Ok(c1)
  <2>1. CASE s.client_bits < 15
    <3>1. N!Consider(N!Ok(c), R, "client_max_window_bits")
             = N!negotiate_client_max_window_bits(c, s.client_bits)
      BY <1>1, <2>1, Present DEF N!NegotiateAttribute
    <3>2. s.client_bits # N!Empty /\ N!Bits(s.client_bits) = s.client_bits
          /\ N!ValidBits(s.client_bits)
      BY <2>1, ValidWindow
    <3>3. N!negotiate_client_max_window_bits(c, s.client_bits)
             = N!Ok([c EXCEPT !.client_bits = X])
      BY <3>2 DEF N!negotiate_client_max_window_bits
    <3> QED
      BY <2>1, <3>1, <3>3
  <2>2. CASE ~(s.client_bits < 15)
    BY <1>1, <2>2, Absent
  <2> QED
    BY <2>1, <2>2
<1>6. /\ c1 \in [enabled : {FALSE}, initialized : {FALSE},
                 server_no_context_takeover : {FALSE}, client_no_context_takeover : BOOLEAN,
                 server_bits : {15}, server_mode : {"accept"},
                 client_bits : 9 .. 15, client_mode : N!Modes,
                 deflate_bits : {0}, inflate_bits : {0}, flush : {"none"}]
      /\ c1.client_bits <= s.client_bits
  <2>1. CASE s.client_bits < 15
    BY <1>4, <2>1 DEF SettingsRange
  <2>2. CASE ~(s.client_bits < 15)
    <3>1. s.client_bits = 15 /\ c1 = c
      BY <2>2
    <3>2. c.client_bits <= s.client_bits
      BY <1>3, <3>1
    <3> HIDE DEF c1
    <3> QED
      BY <3>1, <3>2, ClientRange
  <2> QED
    BY <2>1, <2>2
<1> HIDE DEF c1, X
<1>7. N!Consider(N!Ok(c1), R, "client_no_context_takeover") = N!Ok(c2)
  <2>1. N!Consider(N!Ok(c1), R, "client_no_context_takeover")
           = N!negotiate_client_no_context_takeover(c1, N!Empty)
    BY <1>1, Present DEF N!NegotiateAttribute
  <2> QED
    BY <2>1 DEF N!negotiate_client_no_context_takeover
<1>8. /\ c2 \in [enabled : {FALSE}, initialized : {FALSE},
                 server_no_context_takeover : {FALSE}, client_no_context_takeover : {TRUE},
                 server_bits : {15}, server_mode : {"accept"},
                 client_bits : 9 .. 15, client_mode : N!Modes,
                 deflate_bits : {0}, inflate_bits : {0}, flush : {"none"}]
      /\ c2.client_bits <= s.client_bits
  BY <1>6
<1> HIDE DEF c2
<1>9. N!Consider(N!Ok(c2), R, "server_max_window_bits") = N!Ok(c3)
  <2>1. CASE s.server_bits < 15
    <3>1. N!Consider(N!Ok(c2), R, "server_max_window_bits")
             = N!negotiate_server_max_window_bits(c2, s.server_bits)
      BY <1>1, <2>1, Present DEF N!NegotiateAttribute
    <3>2. N!Bits(s.server_bits) = s.server_bits /\ N!ValidBits(s.server_bits)
      BY <2>1, ValidWindow
    <3>3. N!Chosen(c2.server_mode, s.server_bits, c2.server_bits) = s.server_bits
      BY <1>8, <2>1, ChosenRange DEF N!Modes
    <3>4. N!negotiate_server_max_window_bits(c2, s.server_bits)
             = N!Ok([c2 EXCEPT !.server_bits = s.server_bits])
      BY <3>2, <3>3 DEF N!negotiate_server_max_window_bits
    <3> QED
      BY <2>1, <3>1, <3>4
  <2>2. CASE ~(s.server_bits < 15)
    BY <1>1, <2>2, Absent
  <2> QED
    BY <2>1, <2>2
<1>10. /\ c3 \in [enabled : {FALSE}, initialized : {FALSE},
                  server_no_context_takeover : {FALSE}, client_no_context_takeover : {TRUE},
                  server_bits : {s.server_bits}, server_mode : {"accept"},
                  client_bits : 9 .. 15, client_mode : N!Modes,
                  deflate_bits : {0}, inflate_bits : {0}, flush : {"none"}]
       /\ c3.client_bits <= s.client_bits
  <2>1. CASE s.server_bits < 15
    BY <1>8, <2>1
  <2>2. CASE ~(s.server_bits < 15)
    <3>1. s.server_bits = 15 /\ c3 = c2
      BY <2>2
    <3> QED
      BY <1>8, <3>1
  <2> QED
    BY <2>1, <2>2
<1> HIDE DEF c3
<1>11. N!Consider(N!Ok(c3), R, "server_no_context_takeover") = N!Ok(c4)
  <2>1. CASE s.server_no_context_takeover = TRUE
    <3>1. N!Consider(N!Ok(c3), R, "server_no_context_takeover")
             = N!negotiate_server_no_context_takeover(c3, N!Empty)
      BY <1>1, <2>1, Present DEF N!NegotiateAttribute
    <3> QED
      BY <2>1, <3>1 DEF N!negotiate_server_no_context_takeover
  <2>2. CASE s.server_no_context_takeover = FALSE
    BY <1>1, <2>2, Absent
  <2> QED
    BY <2>1, <2>2
<1>12. /\ c4 \in [enabled : {FALSE}, initialized : {FALSE},
                  server_no_context_takeover : BOOLEAN, client_no_context_takeover : {TRUE},
                  server_bits : {s.server_bits}, server_mode : {"accept"},
                  client_bits : 9 .. 15, client_mode : N!Modes,
                  deflate_bits : {0}, inflate_bits : {0}, flush : {"none"}]
       /\ c4.client_bits <= s.client_bits
  <2>1. CASE s.server_no_context_takeover = TRUE
    BY <1>10, <2>1
  <2>2. CASE s.server_no_context_takeover = FALSE
    BY <1>10, <2>2
  <2> QED
    BY <2>1, <2>2
<1> HIDE DEF c4
<1>13. N!Consider(N!Ok(c4), R, "unknown") = N!Ok(c4)
  BY <1>1, Absent
<1>14. N!negotiate(c, R) = N!Ok(t)
  BY <1>2, <1>5, <1>7, <1>9, <1>11, <1>13, AllGoWell
<1>15. /\ t.enabled = TRUE /\ t.initialized = FALSE /\ t.client_no_context_takeover = TRUE
       /\ t.server_bits = s.server_bits
       /\ t.client_bits \in 9 .. 15 /\ t.client_bits <= s.client_bits
  BY <1>12
<1>16. DOMAIN t = DOMAIN c
  BY <1>12 DEF SettingsRange
<1> QED
  BY <1>14, <1>15, <1>16 DEF R

\* The client's settings once it has taken an answer.
LEMMA ClientSettles ==
    ASSUME NEW s, NEW c \in N!ClientConfigurations, NEW extensions, NEW zlib \in N!Zlib, NEW neg,
           neg = N!negotiate_extensions(c, extensions, "client", zlib),
           N!AnswerSettled(s, extensions), neg.ec = "ok"
    PROVE  LET d == neg.st
           IN /\ N!Compresses(s) <=> N!Compresses(d)
              /\ N!Compresses(d) =>
                    /\ s.inflate_bits >= d.deflate_bits
                    /\ d.inflate_bits >= s.deflate_bits
                    /\ d.client_no_context_takeover => d.flush = "full"
                    /\ s.server_no_context_takeover => s.flush = "full"
                    /\ "server_no_context_takeover" \in DOMAIN extensions[1]
                          <=> s.server_no_context_takeover
<1>1. /\ c \in SettingsRange /\ c.server_bits = 15 /\ c.server_mode = "accept"
      /\ c.client_mode # "decline" /\ ~c.server_no_context_takeover
  BY Configured DEF N!ClientConfigurations
<1>2. c.enabled = FALSE /\ c.server_no_context_takeover = FALSE
  BY <1>1 DEF SettingsRange
<1>3. CASE extensions = <<>> /\ ~N!Compresses(s)
  <2>1. neg = [done |-> FALSE, ec |-> "ok", st |-> c, reply |-> <<>>]
    BY <1>3, NoOffers
  <2>2. neg.st = c
    BY <2>1
  <2> QED
    BY <1>2, <1>3, <2>2 DEF N!Compresses
<1>4. CASE extensions # <<>> \/ N!Compresses(s)
  <2> DEFINE R == N!generate_response(s)
  <2>1. /\ extensions = <<R>>
        /\ N!Compresses(s) /\ s.client_no_context_takeover
        /\ s.server_bits \in 9 .. 15 /\ s.client_bits \in 9 .. 15
        /\ s.server_no_context_takeover \in BOOLEAN
        /\ s.deflate_bits = s.server_bits /\ s.inflate_bits = s.client_bits
        /\ s.server_no_context_takeover => s.flush = "full"
    BY <1>4 DEF N!AnswerSettled
  <2>2. s.client_no_context_takeover = TRUE
    BY <2>1
  <2>3. "server_no_context_takeover" \in DOMAIN R <=> s.server_no_context_takeover
    BY <2>1, <2>2, ResponseAttributes
  <2>4. PICK t : /\ N!negotiate(c, R) = N!Ok(t)
                 /\ t.enabled = TRUE /\ t.initialized = FALSE
                 /\ t.client_no_context_takeover = TRUE
                 /\ t.server_bits = s.server_bits
                 /\ t.client_bits \in 9 .. 15 /\ t.client_bits <= s.client_bits
                 /\ DOMAIN t = DOMAIN c
    BY <1>1, <1>2, <2>1, <2>2, ReplyTaken
  <2> DEFINE u == N!init(t, "client")
  <2> HIDE DEF R
  <2>5. zlib = "ok"
    <3> SUFFICES ASSUME zlib = "fails" PROVE FALSE
      BY DEF N!Zlib
    <3>1. neg = [done |-> TRUE, ec |-> "zlib_error", st |-> t, reply |-> <<>>]
      BY <2>1, <2>4, OfferWithoutZlib
    <3> QED
      BY <3>1
  <2>6. neg = [done |-> TRUE, ec |-> "ok", st |-> u, reply |-> <<N!generate_response(t)>>]
    BY <2>1, <2>4, <2>5, OfferAccepted
  <2>7. neg.st = u
    BY <2>6
  <2>8. {"initialized", "deflate_bits", "inflate_bits", "flush"} \subseteq DOMAIN t
    BY <1>1, <2>4 DEF SettingsRange
  <2>9. /\ u.enabled = TRUE /\ u.initialized = TRUE /\ u.flush = "full"
        /\ u.deflate_bits = t.client_bits /\ u.inflate_bits = t.server_bits
    BY <2>4, <2>8 DEF N!init
  <2> HIDE DEF u
  <2>10. N!Compresses(u)
    BY <2>9 DEF N!Compresses
  <2>11. s.inflate_bits >= u.deflate_bits /\ u.inflate_bits >= s.deflate_bits
    BY <2>1, <2>4, <2>9
  <2> QED
    BY <2>1, <2>3, <2>7, <2>9, <2>10, <2>11
<1> QED
  BY <1>3, <1>4

LEMMA SettledInit == ASSUME N!Init PROVE N!SettledInv
<1>1. server.pmd \in ServerSettings /\ client.pmd \in ClientSettings
  BY DEF N!Init
<1>2. server.pmd \in N!Configurations /\ client.pmd \in N!ClientConfigurations
  BY <1>1, SettingsAssumption
<1>3. phase = "idle" /\ ~library
  BY DEF N!Init
<1> QED
  BY <1>2, <1>3, UnderstoodInit DEF N!SettledInv, N!CompressionAgreed

LEMMA SettledStep == ASSUME N!SettledInv, [N!Next]_negotiationVars PROVE N!SettledInv'
<1>1. N!UnderstoodInv /\ N!UnderstoodInv'
  BY UnderstoodStep DEF N!SettledInv
<1>2. CASE N!LibraryRequests \/ N!OtherRequests
  <2>1. /\ phase = "idle" /\ phase' = "requested" /\ UNCHANGED <<response, server, client>>
        /\ response.status = 0
    BY <1>1, <1>2 DEF N!UnderstoodInv, N!LibraryRequests, N!OtherRequests
  <2> QED
    BY <1>1, <2>1 DEF N!SettledInv, N!CompressionAgreed
<1>3. CASE N!ServerAnswers
  <2>1. /\ phase = "requested" /\ phase' = "answered"
        /\ UNCHANGED <<library, request, client>>
        /\ N!Refuses \/ N!Negotiates
    BY <1>3 DEF N!ServerAnswers
  <2>2. ASSUME library PROVE N!AnswerSettled(server'.pmd, response'.extensions)
    <3>1. request = N!client_handshake_request(request.subprotocols)
      BY <1>1, <2>2 DEF N!UnderstoodInv
    <3>2. PICK zlib \in N!Zlib :
            LET neg == N!negotiate_extensions(server.pmd, <<N!generate_offer>>, "server", zlib)
            IN server'.pmd = neg.st /\ response'.extensions = neg.reply
      BY <2>1, <3>1, OwnRequestAnswered
    <3>3. server.pmd \in SettingsRange
      BY <2>1, Configured DEF N!SettledInv
    <3> QED
      BY <3>2, <3>3, ServerSettles
  <2> QED
    BY <1>1, <2>1, <2>2 DEF N!SettledInv, N!CompressionAgreed
<1>4. CASE N!ClientValidates
  <2>1. /\ phase = "answered" /\ phase' = "done" /\ library
        /\ UNCHANGED <<library, request, response, server, validated>>
    BY <1>4 DEF N!ClientValidates
  <2>2. PICK zlib \in N!Zlib :
          LET neg == N!negotiate_extensions(client.pmd, response.extensions, "client", zlib)
          IN client' = IF N!ResponseError(response) # "ok"
                       THEN [client EXCEPT !.ec = N!ResponseError(response)]
                       ELSE [client EXCEPT !.pmd = neg.st,
                               !.ec = IF neg.ec = "ok" THEN "ok" ELSE "extension_neg_failed"]
    BY <1>4 DEF N!ClientValidates
  <2>3. client.pmd \in N!ClientConfigurations
    BY <2>1 DEF N!SettledInv
  <2>4. {"ec", "pmd"} \subseteq DOMAIN client
    BY <1>1 DEF N!UnderstoodInv
  <2> DEFINE neg == N!negotiate_extensions(client.pmd, response.extensions, "client", zlib)
  <2>5. ASSUME client'.ec = "ok"
        PROVE  N!ResponseError(response) = "ok" /\ client'.pmd = neg.st /\ neg.ec = "ok"
    <3>1. client' = IF N!ResponseError(response) # "ok"
                    THEN [client EXCEPT !.ec = N!ResponseError(response)]
                    ELSE [client EXCEPT !.pmd = neg.st,
                            !.ec = IF neg.ec = "ok" THEN "ok" ELSE "extension_neg_failed"]
      BY <2>2
    <3> HIDE DEF neg
    <3>2. N!ResponseError(response) = "ok"
      BY <2>4, <2>5, <3>1
    <3> QED
      BY <2>4, <2>5, <3>1, <3>2
  <2>6. ASSUME client'.ec = "ok"
        PROVE  N!AnswerSettled(server.pmd, response.extensions)
    <3>1. response.status = 101
      BY <2>5, <2>6 DEF N!ResponseError
    <3> QED
      BY <2>1, <3>1 DEF N!SettledInv
  <2>7. ASSUME client'.ec = "ok" PROVE N!CompressionAgreed'
    <3> DEFINE s == server.pmd
               d == neg.st
               extensions == response.extensions
    <3>1. neg = N!negotiate_extensions(client.pmd, extensions, "client", zlib)
      OBVIOUS
    <3>2. neg.ec = "ok" /\ N!AnswerSettled(s, extensions)
      BY <2>5, <2>6, <2>7
    <3> HIDE DEF neg, s, extensions
    <3>3. /\ N!Compresses(s) <=> N!Compresses(d)
          /\ N!Compresses(d) =>
                /\ s.inflate_bits >= d.deflate_bits
                /\ d.inflate_bits >= s.deflate_bits
                /\ d.client_no_context_takeover => d.flush = "full"
                /\ s.server_no_context_takeover => s.flush = "full"
                /\ "server_no_context_takeover" \in DOMAIN extensions[1]
                      <=> s.server_no_context_takeover
      BY <2>3, <3>1, <3>2, ClientSettles
    <3>4. server'.pmd = s /\ client'.pmd = d /\ response'.extensions = extensions
      BY <2>1, <2>5, <2>7 DEF s, extensions
    <3> HIDE DEF d
    <3> QED
      BY <3>3, <3>4 DEF N!CompressionAgreed
  <2>8. N!CompressionAgreed'
    BY <2>7 DEF N!CompressionAgreed
  <2>9. library' /\ response'.status = 101 => N!AnswerSettled(server'.pmd, response'.extensions)
    BY <2>1 DEF N!SettledInv
  <2> QED
    BY <1>1, <2>1, <2>8, <2>9 DEF N!SettledInv
<1>5. CASE UNCHANGED negotiationVars
  BY <1>1, <1>5 DEF negotiationVars, N!SettledInv, N!CompressionAgreed
<1> QED
  BY <1>2, <1>3, <1>4, <1>5 DEF N!Next

\* Two ends of this library that both go on agree whether to compress, on windows that
\* are large enough and on the contexts that are not kept, whatever servers configure
\* and whether or not zlib fails (permessage_deflate::negotiate, init).
THEOREM CompressionAgreedAlways == MCSpec => []CompressionAgreed
<1>1. MCInit => SettledInv
  BY SettledInit DEF MCInit, SettledInv
<1>2. SettledInv /\ [MCNext]_allVars => SettledInv'
  <2> SUFFICES ASSUME SettledInv, [MCNext]_allVars PROVE SettledInv'
    OBVIOUS
  <2>1. UNCHANGED part
    BY DEF MCNext, allVars
  <2>2. part = "negotiation" => N!SettledInv /\ [N!Next]_negotiationVars
    BY DEF SettledInv, MCNext, allVars
  <2> QED
    BY <2>1, <2>2, SettledStep DEF SettledInv
<1>3. SettledInv => CompressionAgreed
  BY DEF SettledInv, CompressionAgreed, N!SettledInv
<1> QED
  BY <1>1, <1>2, <1>3, PTL DEF MCSpec

=============================================================================
