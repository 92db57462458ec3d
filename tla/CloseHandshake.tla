---------------------------- MODULE CloseHandshake ----------------------------
(***************************************************************************)
(* The closing handshake between two endpoints of this library, a client   *)
(* and a server, over a TCP connection: close codes and reasons (close.hpp *)
(* and prepare_close), close frames and their acknowledgements, terminal   *)
(* frames, and who drops the TCP connection.                               *)
(*                                                                         *)
(* What happens inside one endpoint between the threads that use it is     *)
(* EstablishedConnection's subject; here every handler is one step, a      *)
(* frame is written as a whole, and a close handshake timer that expires   *)
(* runs its handler at once.  A close frame without a payload has code     *)
(* no_status.  drop_on_protocol_error and silent_close are FALSE.          *)
(***************************************************************************)
EXTENDS Integers, SequencesExt

CONSTANTS
    AppCodes,    \* codes that applications pass to close()
    AppReasons,  \* reasons that they pass: see Truncated
    Timers,      \* the values has_timer may have
    MaxCalls,    \* bound: calls of close() of each application
    MaxData,     \* bound: messages sent by the applications
    MaxFaults    \* bound: messages above the limit, and TCP resets

\* Close codes are 16 bit numbers.
Codes == 0 .. 65535

ASSUME CloseAssumption ==
    /\ AppCodes \subseteq Codes
    /\ AppReasons \subseteq {"none", "short", "long", "long_cut"}
    /\ Timers \subseteq BOOLEAN
    /\ MaxCalls \in Nat /\ MaxData \in Nat /\ MaxFaults \in Nat

Endpoints == {"client", "server"}

Other(e) == IF e = "client" THEN "server" ELSE "client"

VARIABLES
    has_timer,    \* m_close_handshake_timeout_dur > 0
    m_state,      \* "open", "closing" or "closed"
    m_was_clean,  \* a close frame was received and answered, or it answers ours
    local,        \* m_local_close_code
    remote,       \* m_remote_close_code
    out,          \* frames queued for writing
    completing,   \* the frame whose write completes next is terminal
    timer,        \* m_handshake_timer is set
    stray,        \* timers that run although m_handshake_timer was replaced
    reading,      \* handle_read_frame will be called again
    sock,         \* "up", "shutting" or "down"
    to,           \* to[e]: what TCP still has to deliver to e
    calls, data, big, resets,  \* counters for the bounds
    sent,         \* history: the close frames written
    closes        \* history: calls of the close handler

epVars == <<has_timer, m_state, m_was_clean, local, remote, timer, stray,
            reading>>
vars == <<epVars, out, completing, sock, to, calls, data, big, resets, sent,
          closes>>

-----------------------------------------------------------------------------
(***************************************************************************)
(* Close codes.                                                            *)
(***************************************************************************)
blank == 0
normal == 1000
protocol_error == 1002
no_status == 1005
abnormal_close == 1006
message_too_big == 1009

reserved(code) == code \in 1016 .. 2999 \cup {1004}

invalid(code) == code <= 999 \/ code >= 5000 \/ code \in {1005, 1006, 1015}

terminal(code) == code \in {1002, 1007, 1008, 1009, 1011}

\* close() cuts a reason after 123 bytes, which may be inside a character.
Truncated(reason) ==
    CASE reason = "long" -> "short"
      [] reason = "long_cut" -> "cut"
      [] OTHER -> reason

\* Mutant: codes that may not be on the wire are let through.
Preparable_Any(code, reason) == TRUE

\* prepare_close makes a frame.
Preparable(code, reason) ==
    /\ ~reserved(code)
    /\ invalid(code) => code = no_status
    /\ code = no_status => reason = "none"

\* extract_code and extract_reason accept what they get.
Acceptable(f) ==
    /\ f.code = no_status \/ ~(invalid(f.code) \/ reserved(f.code))
    /\ f.reason # "cut"

-----------------------------------------------------------------------------
Frame(kind, code, reason, term) ==
    [kind |-> kind, code |-> code, reason |-> reason, terminal |-> term]

Item(kind) == Frame(kind, blank, "none", FALSE)

Init ==
    /\ has_timer \in Timers
    /\ m_state = [e \in Endpoints |-> "open"]
    /\ m_was_clean = [e \in Endpoints |-> FALSE]
    /\ local = [e \in Endpoints |-> abnormal_close]
    /\ remote = [e \in Endpoints |-> abnormal_close]
    /\ out = [e \in Endpoints |-> <<>>]
    /\ completing = [e \in Endpoints |-> FALSE]
    /\ timer = [e \in Endpoints |-> FALSE]
    /\ stray = [e \in Endpoints |-> 0]
    /\ reading = [e \in Endpoints |-> TRUE]
    /\ sock = [e \in Endpoints |-> "up"]
    /\ to = [e \in Endpoints |-> <<>>]
    /\ calls = [e \in Endpoints |-> 0]
    /\ data = 0
    /\ big = 0
    /\ resets = 0
    /\ sent = [e \in Endpoints |-> <<>>]
    /\ closes = [e \in Endpoints |-> 0]

\* terminate(): failed says whether it is given an error.
Terminate(e, failed) ==
    /\ timer' = [timer EXCEPT ![e] = FALSE]
    /\ local' = [local EXCEPT ![e] = IF failed THEN abnormal_close ELSE @]
    /\ m_state' = [m_state EXCEPT ![e] = "closed"]
    /\ sock' = [sock EXCEPT ![e] = IF m_state[e] = "closed" THEN @ ELSE "shutting"]

\* The code that send_close_frame picks for e, whose m_remote_close_code may
\* just have been set.
Chosen(e, code, ack) ==
    IF code # blank THEN code
    ELSE IF ~ack THEN no_status
    ELSE IF remote'[e] = no_status THEN normal
    ELSE remote'[e]

\* Mutant: no acknowledgement is terminal.
AckTerminal_None(e) == FALSE

\* The acknowledgement of a server is terminal.
AckTerminal(e) == e = "server"

\* send_close_frame() for e.
SendClose(e, code, reason, ack, term) ==
    LET c == Chosen(e, code, ack) IN
    /\ local' = [local EXCEPT ![e] = c]
    /\ IF Preparable(c, reason)
       THEN /\ m_state' = [m_state EXCEPT ![e] = "closing"]
            /\ m_was_clean' = [m_was_clean EXCEPT ![e] = @ \/ ack]
            /\ timer' = [timer EXCEPT ![e] = has_timer]
            /\ stray' = [stray EXCEPT ![e] = IF timer[e] THEN @ + 1 ELSE @]
            /\ out' = [out EXCEPT ![e] = Append(@, Frame("close", c, reason, term))]
       ELSE UNCHANGED <<m_state, m_was_clean, timer, stray, out>>

-----------------------------------------------------------------------------
(***************************************************************************)
(* The applications.                                                       *)
(***************************************************************************)

\* close(code, reason)
Close(e, code, reason) ==
    /\ m_state[e] = "open"
    /\ calls[e] < MaxCalls
    /\ calls' = [calls EXCEPT ![e] = @ + 1]
    /\ UNCHANGED remote
    /\ SendClose(e, code, IF code = blank THEN "none" ELSE Truncated(reason),
                 FALSE, terminal(code))
    /\ UNCHANGED <<has_timer, reading, completing, sock, to, data, big,
                   resets, sent, closes>>

\* send() of a message.
Send(e) ==
    /\ m_state[e] = "open"
    /\ data < MaxData
    /\ data' = data + 1
    /\ out' = [out EXCEPT ![e] = Append(@, Item("data"))]
    /\ UNCHANGED <<epVars, completing, sock, to, calls, big, resets, sent,
                   closes>>

\* send() of a message above the other endpoint's maximum message size.
SendBig(e) ==
    /\ m_state[e] = "open"
    /\ big + resets < MaxFaults
    /\ big' = big + 1
    /\ out' = [out EXCEPT ![e] = Append(@, Item("big"))]
    /\ UNCHANGED <<epVars, completing, sock, to, calls, data, resets, sent,
                   closes>>

-----------------------------------------------------------------------------
(***************************************************************************)
(* Writing.                                                                *)
(***************************************************************************)

\* A frame is written; write_pop and write_frame stop at a terminal one.
Write(e) ==
    /\ out[e] # <<>>
    /\ ~completing[e]
    /\ sock[e] # "down"
    /\ LET f == Head(out[e]) IN
       /\ out' = [out EXCEPT ![e] = Tail(@)]
       /\ to' = [to EXCEPT ![Other(e)] = Append(@, f)]
       /\ completing' = [completing EXCEPT ![e] = f.terminal]
       /\ sent' = [sent EXCEPT ![e] = IF f.kind = "close" THEN Append(@, f) ELSE @]
    /\ UNCHANGED <<epVars, sock, calls, data, big, resets, closes>>

\* handle_write_frame after a terminal frame; the write flag stays set.
TerminalWritten(e) ==
    /\ completing[e]
    /\ completing' = [completing EXCEPT ![e] = FALSE]
    /\ out' = [out EXCEPT ![e] = <<>>]
    /\ Terminate(e, FALSE)
    /\ UNCHANGED <<has_timer, m_was_clean, remote, stray, reading, to,
                   calls, data, big,
                   resets, sent, closes>>

\* The shutdown of the socket completes: handle_terminate.
HandleTerminate(e) ==
    /\ sock[e] = "shutting"
    /\ sock' = [sock EXCEPT ![e] = "down"]
    /\ out' = [out EXCEPT ![e] = <<>>]
    /\ to' = [to EXCEPT ![Other(e)] = Append(@, Item("eof"))]
    /\ closes' = [closes EXCEPT ![e] = @ + 1]
    /\ UNCHANGED <<epVars, completing, calls, data, big, resets, sent>>

\* handle_close_handshake_timeout
Timeout(e) ==
    /\ timer[e]
    /\ Terminate(e, TRUE)
    /\ UNCHANGED <<has_timer, m_was_clean, remote, stray, reading, out,
                   completing, to, calls,
                   data, big, resets, sent, closes>>

\* The same, of a timer that a second close frame has replaced.
StrayTimeout(e) ==
    /\ stray[e] > 0
    /\ stray' = [stray EXCEPT ![e] = @ - 1]
    /\ Terminate(e, TRUE)
    /\ UNCHANGED <<has_timer, m_was_clean, remote, reading, out, completing,
                   to, calls, data, big,
                   resets, sent, closes>>

-----------------------------------------------------------------------------
(***************************************************************************)
(* Reading.                                                                *)
(***************************************************************************)

\* TCP delivers the next item for e, which is of this kind.
Delivers(e, kind) ==
    /\ reading[e]
    /\ to[e] # <<>>
    /\ Head(to[e]).kind = kind
    /\ to' = [to EXCEPT ![e] = Tail(@)]

\* A message is dispatched, or discarded if this endpoint is closing; a closed
\* one ignores everything.
RecvIgnored(e) ==
    /\ \/ Delivers(e, "data")
       \/ /\ m_state[e] = "closed"
          /\ \E kind \in {"close", "big", "eof"} : Delivers(e, kind)
    /\ UNCHANGED <<epVars, out, completing, sock, calls, data, big, resets,
                   sent, closes>>

\* A close frame with an invalid code or reason is acknowledged with
\* protocol_error, whether or not a close frame was sent before.
RecvBadClose(e) ==
    /\ m_state[e] # "closed"
    /\ Delivers(e, "close")
    /\ ~Acceptable(Head(to[e]))
    /\ remote' = [remote EXCEPT ![e] = Head(to[e]).code]
    /\ SendClose(e, protocol_error, "short", TRUE, AckTerminal(e))
    /\ UNCHANGED <<has_timer, reading, completing, sock, calls, data, big,
                   resets, sent, closes>>

\* A close frame that this endpoint acknowledges.
RecvClose(e) ==
    /\ m_state[e] = "open"
    /\ Delivers(e, "close")
    /\ LET f == Head(to[e]) IN
       /\ Acceptable(f)
       /\ remote' = [remote EXCEPT ![e] = f.code]
       /\ SendClose(e, blank, IF f.code = no_status THEN "none" ELSE f.reason,
                    TRUE, AckTerminal(e))
    /\ UNCHANGED <<has_timer, reading, completing, sock, calls, data, big,
                   resets, sent, closes>>

\* Mutant: the code of an acknowledgement is not recorded.
RecvAck_CodeLost(e) ==
    /\ m_state[e] = "closing"
    /\ Delivers(e, "close")
    /\ Acceptable(Head(to[e]))
    /\ m_was_clean' = [m_was_clean EXCEPT ![e] = TRUE]
    /\ IF e = "server" /\ ~m_was_clean[e]
       THEN Terminate(e, FALSE)
       ELSE UNCHANGED <<m_state, local, timer, sock>>
    /\ UNCHANGED <<has_timer, remote, stray, reading, out, completing,
                   calls, data, big, resets,
                   sent, closes>>

\* A close frame that answers ours, or crosses it: a server drops the TCP
\* connection, a client leaves that to the server.
RecvAck(e) ==
    /\ m_state[e] = "closing"
    /\ Delivers(e, "close")
    /\ Acceptable(Head(to[e]))
    /\ remote' = [remote EXCEPT ![e] = Head(to[e]).code]
    /\ m_was_clean' = [m_was_clean EXCEPT ![e] = TRUE]
    /\ IF e = "server" /\ ~m_was_clean[e]
       THEN Terminate(e, FALSE)
       ELSE UNCHANGED <<m_state, local, timer, sock>>
    /\ UNCHANGED <<has_timer, stray, reading, out, completing, calls, data,
                   big, resets,
                   sent, closes>>

\* A message that is too big: close() with the code of to_ws, which is
\* terminal, and no further read; an endpoint that is closing terminates.
RecvBig(e) ==
    /\ m_state[e] # "closed"
    /\ Delivers(e, "big")
    /\ reading' = [reading EXCEPT ![e] = FALSE]
    /\ UNCHANGED remote
    /\ IF m_state[e] = "open"
       THEN /\ SendClose(e, message_too_big, "short", FALSE,
                         terminal(message_too_big))
            /\ UNCHANGED sock
       ELSE Terminate(e, TRUE) /\ UNCHANGED <<m_was_clean, stray, out>>
    /\ UNCHANGED <<has_timer, completing, calls, data, big, resets, sent,
                   closes>>

\* The other endpoint closed its socket; only a client that is closing expects
\* that.
RecvEof(e) ==
    /\ m_state[e] # "closed"
    /\ Delivers(e, "eof")
    /\ Terminate(e, ~(m_state[e] = "closing" /\ e = "client"))
    /\ reading' = [reading EXCEPT ![e] = FALSE]
    /\ UNCHANGED <<has_timer, m_was_clean, remote, stray, out, completing,
                   calls, data, big,
                   resets, sent, closes>>

\* The TCP connection is reset under e: its read or write fails.
Reset(e) ==
    /\ big + resets < MaxFaults
    /\ sock[e] = "up"
    /\ resets' = resets + 1
    /\ Terminate(e, TRUE)
    /\ reading' = [reading EXCEPT ![e] = FALSE]
    /\ out' = [out EXCEPT ![e] = <<>>]
    /\ completing' = [completing EXCEPT ![e] = FALSE]
    /\ UNCHANGED <<has_timer, m_was_clean, remote, stray, to, calls, data,
                   big, sent, closes>>

-----------------------------------------------------------------------------
Recv(e) == RecvIgnored(e) \/ RecvBadClose(e) \/ RecvClose(e) \/ RecvAck(e)
           \/ RecvBig(e) \/ RecvEof(e)

Next ==
    \E e \in Endpoints :
       \/ \E code \in AppCodes, reason \in AppReasons : Close(e, code, reason)
       \/ Send(e) \/ SendBig(e)
       \/ Write(e) \/ TerminalWritten(e) \/ HandleTerminate(e)
       \/ Timeout(e) \/ StrayTimeout(e)
       \/ Recv(e) \/ Reset(e)

Spec == Init /\ [][Next]_vars

(***************************************************************************)
(* Fairness: each endpoint goes on running handlers as long as it has any, *)
(* and TCP delivers.  Nothing is assumed of the timers.                    *)
(***************************************************************************)
Progress(e) ==
    Write(e) \/ TerminalWritten(e) \/ HandleTerminate(e) \/ Recv(e)

Fairness == \A e \in Endpoints : WF_vars(Progress(e))

FairSpec == Spec /\ Fairness

-----------------------------------------------------------------------------
(***************************************************************************)
(* Properties.                                                             *)
(***************************************************************************)
Items ==
    [kind : {"close", "data", "big", "eof"}, code : Codes,
     reason : {"none", "short", "cut"}, terminal : BOOLEAN]

\* Types of the variables.
TypeOK ==
    /\ has_timer \in BOOLEAN
    /\ data \in Nat /\ big \in Nat /\ resets \in Nat
    /\ m_state \in [Endpoints -> {"open", "closing", "closed"}]
    /\ m_was_clean \in [Endpoints -> BOOLEAN]
    /\ timer \in [Endpoints -> BOOLEAN]
    /\ reading \in [Endpoints -> BOOLEAN]
    /\ completing \in [Endpoints -> BOOLEAN]
    /\ local \in [Endpoints -> Codes] /\ remote \in [Endpoints -> Codes]
    /\ stray \in [Endpoints -> Nat]
    /\ calls \in [Endpoints -> Nat] /\ closes \in [Endpoints -> Nat]
    /\ sock \in [Endpoints -> {"up", "shutting", "down"}]
    /\ out \in [Endpoints -> Seq(Items)] /\ to \in [Endpoints -> Seq(Items)]
    /\ sent \in [Endpoints -> Seq(Items)]

Ended == \A e \in Endpoints : sock[e] = "down"

\* No timer, reset, message that is too big, unrecoverable code or reason that
\* is not UTF-8 played a part.
Undisturbed ==
    /\ ~has_timer
    /\ big = 0 /\ resets = 0
    /\ \A e \in Endpoints : \A i \in DOMAIN sent[e] :
          ~terminal(sent[e][i].code) /\ Acceptable(sent[e][i])

\* An undisturbed end that was closed cleanly knows the code that the other one
\* used, whichever of them began and also when both did.  The server is always
\* closed cleanly, and the client unless both applications called close().
Agreement ==
    Ended /\ Undisturbed =>
       /\ \A e \in Endpoints : m_was_clean[e] => remote[e] = local[Other(e)]
       /\ m_was_clean["server"]
       /\ m_was_clean["client"] \/ \A e \in Endpoints : calls[e] > 0

\* An endpoint writes at most one close frame, and a second one only to refuse
\* a close frame of the other endpoint whose reason is not UTF-8.
OneCloseFrame ==
    \A e \in Endpoints :
       /\ Len(sent[e]) <= 2
       /\ Len(sent[e]) = 2 =>
             \E i \in DOMAIN sent[Other(e)] : ~Acceptable(sent[Other(e)][i])

\* Every close frame on the wire has a code that may be there.
WireCodesValid ==
    \A e \in Endpoints : \A i \in DOMAIN sent[e] :
       LET code == sent[e][i].code
       IN code = no_status \/ ~(invalid(code) \/ reserved(code))

\* Each endpoint writes one close frame, and a second one only in answer to an
\* invalid one, and no code that may not be on the wire.
WireSound == TypeOK /\ OneCloseFrame /\ WireCodesValid

\* Once one endpoint is closing, both connections end, even without the close
\* handshake timers.
HandshakeEnds == \A e \in Endpoints : m_state[e] # "open" ~> Ended

-----------------------------------------------------------------------------
\* Frames that an endpoint may write: a close frame has a code that is valid.
Sendable ==
    {f \in Items :
       f.kind = "close" =>
          f.code = no_status \/ ~(invalid(f.code) \/ reserved(f.code))}

CloseFrames == {f \in Sendable : f.kind = "close"}

\* Close frames that the other endpoint refuses.
BadFrames == {f \in CloseFrames : ~Acceptable(f)}

\* The invariants of CloseHandshake_proofs.  What is queued, what TCP carries and
\* what was written is sendable, and an acknowledgement may repeat its code.
WireInv ==
    /\ out \in [Endpoints -> Seq(Sendable)]
    /\ sent \in [Endpoints -> Seq(CloseFrames)]
    /\ to \in [Endpoints -> Seq(Sendable)]
    /\ remote \in [Endpoints -> Codes]

=============================================================================
