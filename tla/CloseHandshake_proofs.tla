------------------------ MODULE CloseHandshake_proofs ------------------------
(***************************************************************************)
(* No endpoint writes a close code that may not be on the wire, whatever   *)
(* codes and reasons the applications pass to close(), and however the two *)
(* ends answer each other.                                                 *)
(***************************************************************************)
EXTENDS CloseHandshake, Counting

Reasons == {"none", "short", "cut"}

LEMMA OtherIsEndpoint == \A e \in Endpoints : Other(e) \in Endpoints
BY DEF Endpoints, Other

\* The codes that the library uses by itself.
LEMMA OwnCodes ==
    /\ blank \in Codes /\ normal \in Codes /\ protocol_error \in Codes
    /\ no_status \in Codes /\ abnormal_close \in Codes
    /\ message_too_big \in Codes
BY DEF blank, normal, protocol_error, no_status, abnormal_close,
       message_too_big, Codes

LEMMA AppTypes ==
    ASSUME CloseAssumption
    PROVE  /\ AppCodes \subseteq Codes
           /\ AppReasons \subseteq {"none", "short", "long", "long_cut"}
BY DEF CloseAssumption

LEMMA TruncatedTypes ==
    ASSUME NEW reason \in {"none", "short", "long", "long_cut"}
    PROVE  Truncated(reason) \in Reasons
<1>1. reason = "none" => Truncated(reason) = "none"
  BY DEF Truncated
<1>2. reason = "short" => Truncated(reason) = "short"
  BY DEF Truncated
<1>3. reason = "long" => Truncated(reason) = "short"
  BY DEF Truncated
<1>4. reason = "long_cut" => Truncated(reason) = "cut"
  BY DEF Truncated
<1> QED
  BY <1>1, <1>2, <1>3, <1>4 DEF Reasons

\* The end of the connection, and what is not a close frame, may be sent.
LEMMA ItemsSendable ==
    /\ Item("data") \in Sendable /\ Item("big") \in Sendable
    /\ Item("eof") \in Sendable
BY OwnCodes DEF Item, Frame, Items, Sendable

\* A close frame of e is queued, with the code that is the local one from now on.
QueuesClose(e, f, ack) ==
    /\ out' = [out EXCEPT ![e] = Append(@, f)]
    /\ m_state' = [m_state EXCEPT ![e] = "closing"]
    /\ m_was_clean' = [m_was_clean EXCEPT ![e] = @ \/ ack]
    /\ local' = [local EXCEPT ![e] = f.code]

\* send_close_frame queues a sendable frame or none: prepare_close refuses the
\* codes that may not be on the wire.
LEMMA SendCloseQueues ==
    ASSUME WireInv, NEW e \in Endpoints, NEW code \in Codes,
           NEW reason \in Reasons, NEW ack \in BOOLEAN, NEW term \in BOOLEAN,
           remote' \in [Endpoints -> Codes],
           SendClose(e, code, reason, ack, term)
    PROVE  \/ UNCHANGED <<out, m_state, m_was_clean>>
           \/ \E f \in CloseFrames :
                 /\ f.code = Chosen(e, code, ack)
                 /\ f.reason = reason /\ f.terminal = term
                 /\ QueuesClose(e, f, ack)
<1> DEFINE c == Chosen(e, code, ack)
           f == Frame("close", c, reason, term)
<1>1. c \in Codes
  <2>1. remote'[e] \in Codes
    OBVIOUS
  <2>2. no_status \in Codes /\ normal \in Codes
    BY OwnCodes
  <2> QED
    BY <2>1, <2>2 DEF Chosen
<1>2. CASE Preparable(c, reason)
  <2>1. f \in Items
    BY <1>1 DEF Frame, Items, Reasons
  <2>2. f.kind = "close" /\ f.code = c
    BY DEF Frame
  <2>3. c = no_status \/ ~(invalid(c) \/ reserved(c))
    BY <1>2 DEF Preparable
  <2>4. f \in CloseFrames
    BY <2>1, <2>2, <2>3 DEF Sendable, CloseFrames
  <2>5. QueuesClose(e, f, ack)
    BY <1>2 DEF SendClose, QueuesClose, Frame
  <2>6. f.reason = reason /\ f.terminal = term
    BY DEF Frame
  <2> QED
    BY <2>2, <2>4, <2>5, <2>6
<1>3. CASE ~Preparable(c, reason)
  BY <1>3 DEF SendClose
<1> QED
  BY <1>2, <1>3

LEMMA SendCloseIsSendable ==
    ASSUME WireInv, NEW e \in Endpoints, NEW code \in Codes,
           NEW reason \in Reasons, NEW ack \in BOOLEAN, NEW term \in BOOLEAN,
           remote' \in [Endpoints -> Codes],
           SendClose(e, code, reason, ack, term)
    PROVE  out' \in [Endpoints -> Seq(Sendable)]
<1>1. CASE UNCHANGED out
  BY <1>1 DEF WireInv
<1>2. ASSUME NEW f \in CloseFrames, QueuesClose(e, f, ack)
      PROVE  out' \in [Endpoints -> Seq(Sendable)]
  <2>1. f \in Sendable
    BY DEF CloseFrames
  <2>2. Append(out[e], f) \in Seq(Sendable)
    BY <2>1 DEF WireInv
  <2> QED
    BY <1>2, <2>2 DEF WireInv, QueuesClose
<1> QED
  BY <1>1, <1>2, SendCloseQueues

\* What TCP delivers is an item, and the rest of what it carries stays.
LEMMA DeliversTypes ==
    ASSUME WireInv, NEW e \in Endpoints, NEW kind, Delivers(e, kind)
    PROVE  /\ Head(to[e]) \in Sendable
           /\ to' \in [Endpoints -> Seq(Sendable)]
<1>1. to[e] \in Seq(Sendable) /\ to[e] # <<>>
  BY DEF WireInv, Delivers
<1>2. Head(to[e]) \in Sendable /\ Tail(to[e]) \in Seq(Sendable)
  BY <1>1
<1>3. to' = [to EXCEPT ![e] = Tail(@)]
  BY DEF Delivers
<1> QED
  BY <1>2, <1>3 DEF WireInv

\* An action that drops what is queued.
LEMMA Drops ==
    ASSUME WireInv, NEW e \in Endpoints, out' = [out EXCEPT ![e] = <<>>]
    PROVE  out' \in [Endpoints -> Seq(Sendable)]
<1>1. <<>> \in Seq(Sendable)
  OBVIOUS
<1> QED
  BY <1>1 DEF WireInv

-----------------------------------------------------------------------------
LEMMA WireInit == Init => WireInv
<1> SUFFICES ASSUME Init PROVE WireInv
  OBVIOUS
<1>1. <<>> \in Seq(Sendable) /\ <<>> \in Seq(CloseFrames)
  OBVIOUS
<1>2. abnormal_close \in Codes
  BY OwnCodes
<1> QED
  BY <1>1, <1>2 DEF Init, WireInv

\* The calls of the applications.
LEMMA CallStep ==
    ASSUME CloseAssumption, WireInv, NEW e \in Endpoints,
           \/ \E code \in AppCodes, reason \in AppReasons : Close(e, code, reason)
           \/ Send(e)
           \/ SendBig(e)
    PROVE  WireInv'
<1>1. ASSUME NEW code \in AppCodes, NEW reason \in AppReasons,
             Close(e, code, reason)
      PROVE  WireInv'
  <2> DEFINE r == IF code = blank THEN "none" ELSE Truncated(reason)
  <2>1. code \in Codes /\ reason \in {"none", "short", "long", "long_cut"}
    BY AppTypes
  <2>2. r \in Reasons
    BY <2>1, TruncatedTypes DEF Reasons
  <2>3. terminal(code) \in BOOLEAN
    BY DEF terminal
  <2>4. SendClose(e, code, r, FALSE, terminal(code))
    BY <1>1 DEF Close
  <2>5. UNCHANGED <<remote, to, sent>>
    BY <1>1 DEF Close
  <2>6. remote' \in [Endpoints -> Codes]
    BY <2>5 DEF WireInv
  <2> HIDE DEF r
  <2>7. out' \in [Endpoints -> Seq(Sendable)]
    BY <2>1, <2>2, <2>3, <2>4, <2>6, SendCloseIsSendable
  <2> QED
    BY <2>5, <2>7 DEF WireInv
<1>2. ASSUME NEW f \in Sendable, out' = [out EXCEPT ![e] = Append(@, f)],
             UNCHANGED <<remote, to, sent>>
      PROVE  WireInv'
  <2>1. Append(out[e], f) \in Seq(Sendable)
    BY DEF WireInv
  <2> QED
    BY <1>2, <2>1 DEF WireInv
<1>3. CASE Send(e)
  BY <1>2, <1>3, ItemsSendable DEF Send, epVars
<1>4. CASE SendBig(e)
  BY <1>2, <1>4, ItemsSendable DEF SendBig, epVars
<1> QED
  BY <1>1, <1>3, <1>4

\* A frame goes from the queue to TCP, and a close frame into the history.
LEMMA WriteStep ==
    ASSUME WireInv, NEW e \in Endpoints, Write(e)
    PROVE  WireInv'
<1> DEFINE f == Head(out[e])
<1>1. out[e] \in Seq(Sendable) /\ out[e] # <<>>
  BY DEF WireInv, Write
<1>2. f \in Sendable /\ Tail(out[e]) \in Seq(Sendable)
  BY <1>1
<1>3. /\ out' = [out EXCEPT ![e] = Tail(@)]
      /\ to' = [to EXCEPT ![Other(e)] = Append(@, f)]
      /\ sent' = [sent EXCEPT ![e] = IF f.kind = "close" THEN Append(@, f) ELSE @]
      /\ remote' = remote
  BY DEF Write, epVars
<1> HIDE DEF f
<1>5. out' \in [Endpoints -> Seq(Sendable)]
  BY <1>2, <1>3 DEF WireInv
<1>6. to' \in [Endpoints -> Seq(Sendable)]
  <2>1. Append(to[Other(e)], f) \in Seq(Sendable)
    BY <1>2, OtherIsEndpoint DEF WireInv
  <2> QED
    BY <1>3, <2>1 DEF WireInv
<1>7. sent' \in [Endpoints -> Seq(CloseFrames)]
  <2>1. sent \in [Endpoints -> Seq(CloseFrames)]
    BY DEF WireInv
  <2>2. CASE f.kind = "close"
    <3>1. f \in CloseFrames
      BY <1>2, <2>2 DEF CloseFrames
    <3>2. Append(sent[e], f) \in Seq(CloseFrames)
      BY <2>1, <3>1
    <3> QED
      BY <1>3, <2>1, <2>2, <3>2
  <2>3. CASE f.kind # "close"
    <3>1. sent' = sent
      BY <1>3, <2>1, <2>3
    <3> QED
      BY <2>1, <3>1
  <2> QED
    BY <2>2, <2>3
<1> QED
  BY <1>3, <1>5, <1>6, <1>7 DEF WireInv

\* The timers, the shutdown of the socket and a reset.
LEMMA EndStep ==
    ASSUME WireInv, NEW e \in Endpoints,
           \/ TerminalWritten(e) \/ HandleTerminate(e)
           \/ Timeout(e) \/ StrayTimeout(e) \/ Reset(e)
    PROVE  WireInv'
<1>1. CASE TerminalWritten(e)
  <2>1. out' = [out EXCEPT ![e] = <<>>] /\ UNCHANGED <<sent, to, remote>>
    BY <1>1 DEF TerminalWritten
  <2> QED
    BY <2>1, Drops DEF WireInv
<1>2. CASE HandleTerminate(e)
  <2>1. /\ out' = [out EXCEPT ![e] = <<>>] /\ UNCHANGED <<sent, remote>>
        /\ to' = [to EXCEPT ![Other(e)] = Append(@, Item("eof"))]
    BY <1>2 DEF HandleTerminate, epVars
  <2>2. Append(to[Other(e)], Item("eof")) \in Seq(Sendable)
    BY ItemsSendable, OtherIsEndpoint DEF WireInv
  <2>3. to' \in [Endpoints -> Seq(Sendable)]
    BY <2>1, <2>2 DEF WireInv
  <2> QED
    BY <2>1, <2>3, Drops DEF WireInv
<1>3. CASE Timeout(e) \/ StrayTimeout(e)
  BY <1>3 DEF Timeout, StrayTimeout, WireInv
<1>4. CASE Reset(e)
  <2>1. out' = [out EXCEPT ![e] = <<>>] /\ UNCHANGED <<sent, to, remote>>
    BY <1>4 DEF Reset
  <2> QED
    BY <2>1, Drops DEF WireInv
<1> QED
  BY <1>1, <1>2, <1>3, <1>4

\* What an endpoint receives.
LEMMA RecvStep ==
    ASSUME WireInv, NEW e \in Endpoints, Recv(e)
    PROVE  WireInv'
<1>a. /\ TRUE \in BOOLEAN /\ FALSE \in BOOLEAN
      /\ AckTerminal(e) \in BOOLEAN /\ terminal(message_too_big) \in BOOLEAN
  BY DEF AckTerminal, terminal
<1>c. /\ protocol_error \in Codes /\ message_too_big \in Codes
      /\ blank \in Codes
  BY OwnCodes
<1>r. "short" \in Reasons /\ "none" \in Reasons
  BY DEF Reasons
<1>f. ASSUME NEW f \in Sendable, remote' = [remote EXCEPT ![e] = f.code]
      PROVE  /\ remote' \in [Endpoints -> Codes]
             /\ f.reason \in Reasons
  BY <1>f DEF WireInv, Sendable, Items, Reasons
<1>1. CASE RecvIgnored(e)
  <2>1. PICK kind \in {"data", "close", "big", "eof"} : Delivers(e, kind)
    BY <1>1 DEF RecvIgnored
  <2>2. UNCHANGED <<out, sent, remote>>
    BY <1>1 DEF RecvIgnored, epVars
  <2> QED
    BY <2>1, <2>2, DeliversTypes DEF WireInv
<1>2. CASE RecvBadClose(e)
  <2>1. /\ Delivers(e, "close")
        /\ remote' = [remote EXCEPT ![e] = Head(to[e]).code]
        /\ SendClose(e, protocol_error, "short", TRUE, AckTerminal(e))
        /\ sent' = sent
    BY <1>2 DEF RecvBadClose
  <2>2. Head(to[e]) \in Sendable /\ to' \in [Endpoints -> Seq(Sendable)]
    BY <2>1, DeliversTypes
  <2>3. /\ remote' \in [Endpoints -> Codes]
    BY <1>f, <2>1, <2>2
  <2>4. out' \in [Endpoints -> Seq(Sendable)]
    <3>1. PICK ack \in BOOLEAN, term \in BOOLEAN :
             SendClose(e, protocol_error, "short", ack, term)
      BY <1>a, <2>1
    <3> QED
      BY <1>c, <1>r, <2>3, <3>1, SendCloseIsSendable
  <2> QED
    BY <2>1, <2>2, <2>3, <2>4 DEF WireInv
<1>3. CASE RecvClose(e)
  <2> DEFINE f == Head(to[e])
             r == IF f.code = no_status THEN "none" ELSE f.reason
  <2>1. /\ Delivers(e, "close")
        /\ remote' = [remote EXCEPT ![e] = f.code]
        /\ SendClose(e, blank, r, TRUE, AckTerminal(e))
        /\ sent' = sent
    BY <1>3 DEF RecvClose
  <2>2. f \in Sendable /\ to' \in [Endpoints -> Seq(Sendable)]
    BY <2>1, DeliversTypes
  <2>3. /\ remote' \in [Endpoints -> Codes]
        /\ r \in Reasons
    BY <1>f, <1>r, <2>1, <2>2
  <2> HIDE DEF r
  <2>4. out' \in [Endpoints -> Seq(Sendable)]
    <3>1. PICK ack \in BOOLEAN, term \in BOOLEAN :
             SendClose(e, blank, r, ack, term)
      BY <1>a, <2>1
    <3> QED
      BY <1>c, <2>3, <3>1, SendCloseIsSendable
  <2> QED
    BY <2>1, <2>2, <2>3, <2>4 DEF WireInv
<1>4. CASE RecvAck(e)
  <2>1. /\ Delivers(e, "close")
        /\ remote' = [remote EXCEPT ![e] = Head(to[e]).code]
        /\ UNCHANGED <<sent, out>>
    BY <1>4 DEF RecvAck
  <2>2. Head(to[e]) \in Sendable /\ to' \in [Endpoints -> Seq(Sendable)]
    BY <2>1, DeliversTypes
  <2>3. remote' \in [Endpoints -> Codes]
    BY <1>f, <2>1, <2>2
  <2> QED
    BY <2>1, <2>2, <2>3 DEF WireInv
<1>5. CASE RecvBig(e)
  <2>1. Delivers(e, "big") /\ UNCHANGED <<remote, sent>>
    BY <1>5 DEF RecvBig
  <2>2. to' \in [Endpoints -> Seq(Sendable)]
    BY <2>1, DeliversTypes
  <2>3. out' \in [Endpoints -> Seq(Sendable)]
    <3>1. CASE m_state[e] = "open"
      <4>1. SendClose(e, message_too_big, "short", FALSE,
                      terminal(message_too_big))
        BY <1>5, <3>1 DEF RecvBig
      <4>2. remote' \in [Endpoints -> Codes]
        BY <2>1 DEF WireInv
      <4> QED
        BY <1>a, <1>c, <1>r, <4>1, <4>2, SendCloseIsSendable
    <3>2. CASE m_state[e] # "open"
      <4>1. out' = out
        BY <1>5, <3>2 DEF RecvBig
      <4> QED
        BY <4>1 DEF WireInv
    <3> QED
      BY <3>1, <3>2
  <2> QED
    BY <2>1, <2>2, <2>3 DEF WireInv
<1>6. CASE RecvEof(e)
  <2>1. Delivers(e, "eof") /\ UNCHANGED <<remote, sent, out>>
    BY <1>6 DEF RecvEof
  <2> QED
    BY <2>1, DeliversTypes DEF WireInv
<1> QED
  BY <1>1, <1>2, <1>3, <1>4, <1>5, <1>6 DEF Recv

LEMMA WireStep ==
    ASSUME CloseAssumption, WireInv, [Next]_vars
    PROVE  WireInv'
<1>1. CASE Next
  <2>1. PICK e \in Endpoints :
           \/ \E code \in AppCodes, reason \in AppReasons :
                 Close(e, code, reason)
           \/ Send(e) \/ SendBig(e)
           \/ Write(e) \/ TerminalWritten(e) \/ HandleTerminate(e)
           \/ Timeout(e) \/ StrayTimeout(e)
           \/ Recv(e) \/ Reset(e)
    BY <1>1 DEF Next
  <2> QED
    BY <2>1, CallStep, WriteStep, EndStep, RecvStep
<1>2. CASE UNCHANGED vars
  BY <1>2 DEF vars, epVars, WireInv
<1> QED
  BY <1>1, <1>2

\* What is sendable has a code that may be on the wire.
LEMMA WireCodesFollow == WireInv => WireCodesValid
<1> SUFFICES ASSUME WireInv, NEW e \in Endpoints, NEW i \in DOMAIN sent[e]
             PROVE  \/ sent[e][i].code = no_status
                    \/ ~(invalid(sent[e][i].code) \/ reserved(sent[e][i].code))
  BY DEF WireCodesValid
<1>1. sent[e] \in Seq(CloseFrames)
  BY DEF WireInv
<1>2. sent[e][i] \in Sendable /\ sent[e][i].kind = "close"
  BY <1>1 DEF CloseFrames
<1> QED
  BY <1>2 DEF Sendable

\* No close frame that an endpoint of the library writes has a reserved or an
\* invalid code: close(), the acknowledgement of a close frame, the answer to an
\* invalid one and the end after a message that is too big all go through
\* prepare_close, and the code that an acknowledgement repeats was accepted.
THEOREM WireCodesValidAlways == Spec => []WireCodesValid
<1>1. WireInv /\ [Next]_vars => WireInv'
  BY CloseAssumption, WireStep
<1> QED
  BY <1>1, WireCodesFollow, WireInit, PTL DEF Spec

-----------------------------------------------------------------------------
(***************************************************************************)
(* Types.                                                                  *)
(***************************************************************************)
\* The variables that hold no frames.
StateTypes ==
    /\ has_timer \in BOOLEAN
    /\ data \in Nat /\ big \in Nat /\ resets \in Nat
    /\ m_state \in [Endpoints -> {"open", "closing", "closed"}]
    /\ m_was_clean \in [Endpoints -> BOOLEAN]
    /\ timer \in [Endpoints -> BOOLEAN]
    /\ reading \in [Endpoints -> BOOLEAN]
    /\ completing \in [Endpoints -> BOOLEAN]
    /\ local \in [Endpoints -> Codes]
    /\ stray \in [Endpoints -> Nat]
    /\ calls \in [Endpoints -> Nat] /\ closes \in [Endpoints -> Nat]
    /\ sock \in [Endpoints -> {"up", "shutting", "down"}]

\* Frames that may be sent are items.
LEMMA TypesFollow == StateTypes /\ WireInv => TypeOK
<1>1. Sendable \subseteq Items /\ CloseFrames \subseteq Items
  BY DEF Sendable, CloseFrames
<1>2. Seq(Sendable) \subseteq Seq(Items) /\ Seq(CloseFrames) \subseteq Seq(Items)
  BY <1>1
<1> QED
  BY <1>2 DEF StateTypes, WireInv, TypeOK

LEMMA StateTypesInit == CloseAssumption /\ Init => StateTypes
BY OwnCodes DEF Init, StateTypes, CloseAssumption

\* terminate() and send_close_frame() change their endpoint's state only.
LEMMA TerminateTypes ==
    ASSUME StateTypes, NEW e \in Endpoints, NEW failed \in BOOLEAN,
           Terminate(e, failed)
    PROVE  /\ timer' \in [Endpoints -> BOOLEAN]
           /\ local' \in [Endpoints -> Codes]
           /\ m_state' \in [Endpoints -> {"open", "closing", "closed"}]
           /\ sock' \in [Endpoints -> {"up", "shutting", "down"}]
BY OwnCodes DEF Terminate, StateTypes

LEMMA SendCloseTypes ==
    ASSUME StateTypes, NEW e \in Endpoints, NEW code \in Codes,
           NEW reason, NEW ack \in BOOLEAN, NEW term \in BOOLEAN,
           remote' \in [Endpoints -> Codes],
           SendClose(e, code, reason, ack, term)
    PROVE  /\ local' \in [Endpoints -> Codes]
           /\ m_state' \in [Endpoints -> {"open", "closing", "closed"}]
           /\ m_was_clean' \in [Endpoints -> BOOLEAN]
           /\ timer' \in [Endpoints -> BOOLEAN]
           /\ stray' \in [Endpoints -> Nat]
<1>1. Chosen(e, code, ack) \in Codes
  <2>1. remote'[e] \in Codes
    OBVIOUS
  <2> QED
    BY <2>1, OwnCodes DEF Chosen
<1>2. local' \in [Endpoints -> Codes]
  BY <1>1 DEF SendClose, StateTypes
<1>3. CASE Preparable(Chosen(e, code, ack), reason)
  <2>1. /\ m_state' = [m_state EXCEPT ![e] = "closing"]
        /\ m_was_clean' = [m_was_clean EXCEPT ![e] = @ \/ ack]
        /\ timer' = [timer EXCEPT ![e] = has_timer]
        /\ stray' = [stray EXCEPT ![e] = IF timer[e] THEN @ + 1 ELSE @]
    BY <1>3 DEF SendClose
  <2>2. m_was_clean' \in [Endpoints -> BOOLEAN]
    BY <2>1 DEF StateTypes
  <2>3. /\ m_state' \in [Endpoints -> {"open", "closing", "closed"}]
        /\ timer' \in [Endpoints -> BOOLEAN]
    BY <2>1 DEF StateTypes
  <2>4. stray' \in [Endpoints -> Nat]
    BY <2>1 DEF StateTypes
  <2> QED
    BY <1>2, <2>2, <2>3, <2>4
<1>4. CASE ~Preparable(Chosen(e, code, ack), reason)
  BY <1>2, <1>4 DEF SendClose, StateTypes
<1> QED
  BY <1>3, <1>4

LEMMA StateTypesStep ==
    ASSUME CloseAssumption, StateTypes, WireInv, WireInv', [Next]_vars
    PROVE  StateTypes'
<1>r. remote' \in [Endpoints -> Codes]
  BY DEF WireInv
<1>b. /\ terminal(message_too_big) \in BOOLEAN
      /\ \A e : AckTerminal(e) \in BOOLEAN
      /\ \A code : terminal(code) \in BOOLEAN
  BY DEF terminal, AckTerminal
<1>1. CASE UNCHANGED vars
  BY <1>1 DEF vars, epVars, StateTypes
<1>2. CASE Next
  <2>1. PICK e \in Endpoints :
           \/ \E code \in AppCodes, reason \in AppReasons :
                 Close(e, code, reason)
           \/ Send(e) \/ SendBig(e)
           \/ Write(e) \/ TerminalWritten(e) \/ HandleTerminate(e)
           \/ Timeout(e) \/ StrayTimeout(e)
           \/ Recv(e) \/ Reset(e)
    BY <1>2 DEF Next
  <2>2. ASSUME NEW code \in AppCodes, NEW reason \in AppReasons,
               Close(e, code, reason)
        PROVE  StateTypes'
    <3>1. code \in Codes
      BY AppTypes
    <3>2. PICK term \in BOOLEAN :
             SendClose(e, code, IF code = blank THEN "none" ELSE Truncated(reason),
                       FALSE, term)
      BY <1>b, <2>2 DEF Close
    <3>3. /\ calls' = [calls EXCEPT ![e] = @ + 1]
          /\ UNCHANGED <<has_timer, reading, completing, sock, data, big, resets,
                         closes>>
      BY <2>2 DEF Close
    <3>4. /\ local' \in [Endpoints -> Codes]
          /\ m_state' \in [Endpoints -> {"open", "closing", "closed"}]
          /\ m_was_clean' \in [Endpoints -> BOOLEAN]
          /\ timer' \in [Endpoints -> BOOLEAN]
          /\ stray' \in [Endpoints -> Nat]
      BY <1>r, <3>1, <3>2, SendCloseTypes
    <3>5. calls' \in [Endpoints -> Nat]
      BY <3>3 DEF StateTypes
    <3> QED
      BY <3>3, <3>4, <3>5 DEF StateTypes
  <2>3. CASE Send(e) \/ SendBig(e)
    BY <2>3 DEF Send, SendBig, epVars, StateTypes
  <2>4. CASE Write(e)
    <3>1. Head(out[e]).terminal \in BOOLEAN
      <4>1. Head(out[e]) \in Sendable
        BY <2>4 DEF Write, WireInv
      <4> QED
        BY <4>1 DEF Sendable, Items
    <3>2. /\ completing' = [completing EXCEPT ![e] = Head(out[e]).terminal]
          /\ UNCHANGED <<epVars, sock, calls, data, big, resets, closes>>
      BY <2>4 DEF Write
    <3> QED
      BY <3>1, <3>2 DEF StateTypes, epVars
  <2>5. CASE TerminalWritten(e)
    <3>1. Terminate(e, FALSE)
      BY <2>5 DEF TerminalWritten
    <3> QED
      BY <2>5, <3>1, TerminateTypes DEF TerminalWritten, StateTypes
  <2>6. CASE HandleTerminate(e)
    BY <2>6 DEF HandleTerminate, epVars, StateTypes
  <2>7. CASE Timeout(e) \/ StrayTimeout(e) \/ Reset(e)
    <3>1. Terminate(e, TRUE)
      BY <2>7 DEF Timeout, StrayTimeout, Reset
    <3>2. UNCHANGED <<has_timer, m_was_clean, calls, data, big, closes>>
      BY <2>7 DEF Timeout, StrayTimeout, Reset
    <3>3. stray' \in [Endpoints -> Nat]
      <4>1. CASE StrayTimeout(e)
        BY <4>1 DEF StrayTimeout, StateTypes
      <4>2. CASE Timeout(e) \/ Reset(e)
        BY <4>2 DEF Timeout, Reset, StateTypes
      <4> QED
        BY <2>7, <4>1, <4>2
    <3>4. /\ reading' \in [Endpoints -> BOOLEAN]
          /\ completing' \in [Endpoints -> BOOLEAN]
          /\ resets' \in Nat
      <4>1. CASE Reset(e)
        BY <4>1 DEF Reset, StateTypes
      <4>2. CASE Timeout(e) \/ StrayTimeout(e)
        BY <4>2 DEF Timeout, StrayTimeout, StateTypes
      <4> QED
        BY <2>7, <4>1, <4>2
    <3> QED
      BY <3>1, <3>2, <3>3, <3>4, TerminateTypes DEF StateTypes
  <2>8. CASE Recv(e)
    <3>1. CASE RecvIgnored(e)
      BY <3>1 DEF RecvIgnored, epVars, StateTypes
    <3>2. ASSUME NEW code \in Codes, NEW reason, NEW ack \in BOOLEAN,
                 NEW term \in BOOLEAN, SendClose(e, code, reason, ack, term),
                 reading' \in [Endpoints -> BOOLEAN],
                 UNCHANGED <<has_timer, completing, sock, calls, data, big,
                             resets, closes>>
          PROVE  StateTypes'
      <4>1. /\ local' \in [Endpoints -> Codes]
            /\ m_state' \in [Endpoints -> {"open", "closing", "closed"}]
            /\ m_was_clean' \in [Endpoints -> BOOLEAN]
            /\ timer' \in [Endpoints -> BOOLEAN]
            /\ stray' \in [Endpoints -> Nat]
        BY <1>r, <3>2, SendCloseTypes
      <4> QED
        BY <3>2, <4>1 DEF StateTypes
    <3>3. CASE RecvBadClose(e)
      <4>1. PICK term \in BOOLEAN :
               SendClose(e, protocol_error, "short", TRUE, term)
        BY <1>b, <3>3 DEF RecvBadClose
      <4>2. reading' \in [Endpoints -> BOOLEAN]
        BY <3>3 DEF RecvBadClose, StateTypes
      <4>3. UNCHANGED <<has_timer, completing, sock, calls, data, big, resets, closes>>
        BY <3>3 DEF RecvBadClose
      <4> QED
        BY <3>2, <4>1, <4>2, <4>3, OwnCodes
    <3>4. CASE RecvClose(e)
      <4>1. PICK term \in BOOLEAN :
               SendClose(e, blank, IF Head(to[e]).code = no_status THEN "none"
                                   ELSE Head(to[e]).reason, TRUE, term)
        BY <1>b, <3>4 DEF RecvClose
      <4>2. reading' \in [Endpoints -> BOOLEAN]
        BY <3>4 DEF RecvClose, StateTypes
      <4>3. UNCHANGED <<has_timer, completing, sock, calls, data, big, resets, closes>>
        BY <3>4 DEF RecvClose
      <4> QED
        BY <3>2, <4>1, <4>2, <4>3, OwnCodes
    <3>5. CASE RecvAck(e)
      <4>1. /\ m_was_clean' = [m_was_clean EXCEPT ![e] = TRUE]
            /\ \/ Terminate(e, FALSE)
               \/ UNCHANGED <<m_state, local, timer, sock>>
            /\ UNCHANGED <<has_timer, stray, reading, completing, calls, data,
                           big, resets, closes>>
        BY <3>5 DEF RecvAck
      <4> QED
        BY <4>1, TerminateTypes DEF StateTypes
    <3>6. CASE RecvBig(e)
      <4>1. reading' \in [Endpoints -> BOOLEAN]
        BY <3>6 DEF RecvBig, StateTypes
      <4>2. UNCHANGED <<has_timer, completing, calls, data, big, resets, closes>>
        BY <3>6 DEF RecvBig
      <4>3. CASE m_state[e] = "open"
        <5>1. PICK term \in BOOLEAN :
                 SendClose(e, message_too_big, "short", FALSE, term)
          BY <1>b, <3>6, <4>3 DEF RecvBig
        <5>2. UNCHANGED sock
          BY <3>6, <4>3 DEF RecvBig
        <5> QED
          BY <3>2, <4>1, <4>2, <5>1, <5>2, OwnCodes
      <4>4. CASE m_state[e] # "open"
        <5>1. Terminate(e, TRUE) /\ UNCHANGED <<m_was_clean, stray>>
          BY <3>6, <4>4 DEF RecvBig
        <5> QED
          BY <4>1, <4>2, <5>1, TerminateTypes DEF StateTypes
      <4> QED
        BY <4>3, <4>4
    <3>7. CASE RecvEof(e)
      <4>1. PICK failed \in BOOLEAN : Terminate(e, failed)
        BY <3>7 DEF RecvEof
      <4>2. reading' \in [Endpoints -> BOOLEAN]
        BY <3>7 DEF RecvEof, StateTypes
      <4>3. UNCHANGED <<has_timer, m_was_clean, stray, completing, calls, data,
                        big, resets, closes>>
        BY <3>7 DEF RecvEof
      <4> QED
        BY <4>1, <4>2, <4>3, TerminateTypes DEF StateTypes
    <3> QED
      BY <2>8, <3>1, <3>3, <3>4, <3>5, <3>6, <3>7 DEF Recv
  <2> QED
    BY <2>1, <2>2, <2>3, <2>4, <2>5, <2>6, <2>7, <2>8
<1> QED
  BY <1>1, <1>2

-----------------------------------------------------------------------------
(***************************************************************************)
(* How many close frames an endpoint makes.                                *)
(***************************************************************************)
Queued(e) == CountIn(out[e], CloseFrames)
QueuedBad(e) == CountIn(out[e], BadFrames)
SentBad(e) == CountIn(sent[e], BadFrames)
ComingBad(e) == CountIn(to[e], BadFrames)

\* One close frame ends state open, and only close() makes one that is refused;
\* each further one answers one that was refused.
CountInv ==
    \A e \in Endpoints :
       /\ m_state[e] = "open" => Queued(e) = 0 /\ sent[e] = <<>>
       /\ QueuedBad(e) + SentBad(e) <= 1
       /\ ComingBad(e) <= SentBad(Other(e))
       /\ Queued(e) + Len(sent[e]) + ComingBad(e) <= 1 + SentBad(Other(e))

LEMMA CountTypes ==
    ASSUME WireInv, NEW e \in Endpoints
    PROVE  /\ Queued(e) \in Nat /\ QueuedBad(e) \in Nat /\ SentBad(e) \in Nat
           /\ ComingBad(e) \in Nat /\ Len(sent[e]) \in Nat
           /\ QueuedBad(e) <= Queued(e)
<1>1. /\ out[e] \in Seq(Sendable) /\ to[e] \in Seq(Sendable)
      /\ sent[e] \in Seq(CloseFrames)
  BY DEF WireInv
<1>2. BadFrames \subseteq CloseFrames
  BY DEF BadFrames
<1> QED
  BY <1>1, <1>2, PositionsFinite, CountSubset
     DEF Queued, QueuedBad, SentBad, ComingBad

\* A step that makes no close frame.
LEMMA CountShrinks ==
    ASSUME WireInv, WireInv', CountInv, UNCHANGED sent,
           \A e \in Endpoints :
              /\ Queued(e)' <= Queued(e) /\ QueuedBad(e)' <= QueuedBad(e)
              /\ ComingBad(e)' <= ComingBad(e)
              /\ m_state'[e] = "open" => m_state[e] = "open"
    PROVE  CountInv'
<1> SUFFICES ASSUME NEW e \in Endpoints
             PROVE  /\ m_state'[e] = "open" => Queued(e)' = 0 /\ sent'[e] = <<>>
                    /\ QueuedBad(e)' + SentBad(e)' <= 1
                    /\ ComingBad(e)' <= SentBad(Other(e))'
                    /\ Queued(e)' + Len(sent'[e]) + ComingBad(e)'
                         <= 1 + SentBad(Other(e))'
  BY DEF CountInv
<1>1. SentBad(e)' = SentBad(e) /\ SentBad(Other(e))' = SentBad(Other(e))
  BY DEF SentBad
<1>2. /\ Queued(e) \in Nat /\ QueuedBad(e) \in Nat /\ SentBad(e) \in Nat
      /\ ComingBad(e) \in Nat /\ Len(sent[e]) \in Nat
      /\ SentBad(Other(e)) \in Nat
      /\ Queued(e)' \in Nat /\ QueuedBad(e)' \in Nat /\ ComingBad(e)' \in Nat
  <2>1. /\ Queued(e) \in Nat /\ QueuedBad(e) \in Nat /\ SentBad(e) \in Nat
        /\ ComingBad(e) \in Nat /\ Len(sent[e]) \in Nat
        /\ SentBad(Other(e)) \in Nat
    BY CountTypes, OtherIsEndpoint
  <2>2. /\ out'[e] \in Seq(Sendable) /\ to'[e] \in Seq(Sendable)
    BY DEF WireInv
  <2> QED
    BY <2>1, <2>2, PositionsFinite DEF Queued, QueuedBad, ComingBad
<1>3. /\ m_state[e] = "open" => Queued(e) = 0 /\ sent[e] = <<>>
      /\ QueuedBad(e) + SentBad(e) <= 1
      /\ ComingBad(e) <= SentBad(Other(e))
      /\ Queued(e) + Len(sent[e]) + ComingBad(e) <= 1 + SentBad(Other(e))
  BY DEF CountInv
<1>4. /\ Queued(e)' <= Queued(e) /\ QueuedBad(e)' <= QueuedBad(e)
      /\ ComingBad(e)' <= ComingBad(e)
      /\ m_state'[e] = "open" => m_state[e] = "open"
  OBVIOUS
<1>5. sent'[e] = sent[e]
  OBVIOUS
<1>6. m_state'[e] = "open" => Queued(e)' = 0 /\ sent'[e] = <<>>
  BY <1>2, <1>3, <1>4, <1>5
<1>7. QueuedBad(e)' + SentBad(e)' <= 1
  BY <1>1, <1>2, <1>3, <1>4
<1>8. ComingBad(e)' <= SentBad(Other(e))'
  BY <1>1, <1>2, <1>3, <1>4
<1>9. Queued(e)' + Len(sent'[e]) + ComingBad(e)' <= 1 + SentBad(Other(e))'
  <2>1. Len(sent'[e]) = Len(sent[e]) /\ Len(sent[e]) \in Nat
    BY <1>2, <1>5
  <2>2. /\ Queued(e) \in Nat /\ ComingBad(e) \in Nat /\ SentBad(Other(e)) \in Nat
        /\ Queued(e)' \in Nat /\ ComingBad(e)' \in Nat
    BY <1>2
  <2>3. /\ Queued(e)' <= Queued(e) /\ ComingBad(e)' <= ComingBad(e)
        /\ SentBad(Other(e))' = SentBad(Other(e))
    BY <1>1, <1>4
  <2>4. Queued(e) + Len(sent[e]) + ComingBad(e) <= 1 + SentBad(Other(e))
    BY <1>3
  <2> QED
    BY ONLY <2>1, <2>2, <2>3, <2>4
<1> QED
  BY <1>6, <1>7, <1>8, <1>9

\* A queue or a stream that loses frames, or one at its front, or gets one that
\* is no close frame, holds no more of them.
LEMMA QueueShrinks ==
    ASSUME WireInv, NEW e \in Endpoints, NEW S, S \subseteq CloseFrames,
           NEW s \in Seq(Sendable)
    PROVE  /\ CountIn(<<>>, S) <= CountIn(s, S)
           /\ s # <<>> => CountIn(Tail(s), S) <= CountIn(s, S)
           /\ \A f \in Sendable : f.kind # "close" =>
                 CountIn(Append(s, f), S) = CountIn(s, S)
<1>1. CountIn(s, S) \in Nat /\ CountIn(<<>>, S) = 0
  BY PositionsFinite, CountEmpty
<1>2. ASSUME s # <<>> PROVE CountIn(Tail(s), S) <= CountIn(s, S)
  <2>1. Tail(s) \in Seq(Sendable)
    BY <1>2
  <2>2. CountIn(Tail(s), S) \in Nat
    BY <2>1, PositionsFinite
  <2>3. CountIn(s, S) = CountIn(Tail(s), S) + (IF Head(s) \in S THEN 1 ELSE 0)
    BY <1>2, CountTail
  <2> QED
    BY <2>2, <2>3
<1>3. ASSUME NEW f \in Sendable, f.kind # "close"
      PROVE  CountIn(Append(s, f), S) = CountIn(s, S)
  <2>1. f \notin S
    BY <1>3 DEF CloseFrames
  <2>2. CountIn(Append(s, f), S) = CountIn(s, S) + (IF f \in S THEN 1 ELSE 0)
    BY CountAppend
  <2> QED
    BY <1>1, <2>1, <2>2
<1> QED
  BY <1>1, <1>2, <1>3

LEMMA Opposite ==
    \A e \in Endpoints :
       /\ Other(e) # e /\ Other(Other(e)) = e
       /\ \A x \in Endpoints : x = e \/ x = Other(e)
BY DEF Endpoints, Other

\* A close frame is refused for its reason only.
LEMMA BadIsCut == \A f \in CloseFrames : f \in BadFrames <=> f.reason = "cut"
BY DEF BadFrames, CloseFrames, Sendable, Acceptable

\* An endpoint queues a close frame: it was open, or it answers one that it
\* refuses, which no longer comes.
LEMMA CountQueues ==
    ASSUME WireInv, WireInv', StateTypes, CountInv, UNCHANGED sent,
           NEW e \in Endpoints, NEW f \in CloseFrames, NEW ack,
           QueuesClose(e, f, ack),
           ComingBad(Other(e))' = ComingBad(Other(e)),
           \/ m_state[e] = "open" /\ ComingBad(e)' <= ComingBad(e)
           \/ f.reason # "cut" /\ ComingBad(e)' = ComingBad(e) - 1
    PROVE  CountInv'
<1> DEFINE o == Other(e)
<1>o. o \in Endpoints /\ o # e /\ Other(o) = e /\ \A x \in Endpoints : x = e \/ x = o
  BY OtherIsEndpoint, Opposite
<1>1. /\ out[e] \in Seq(Sendable) /\ f \in Sendable
      /\ out' = [out EXCEPT ![e] = Append(@, f)] /\ out \in [Endpoints -> Seq(Sendable)]
  BY DEF QueuesClose, WireInv, CloseFrames
<1>2. out'[e] = Append(out[e], f) /\ out'[o] = out[o]
  BY <1>1, <1>o
<1>3. /\ Queued(e)' = Queued(e) + 1
      /\ QueuedBad(e)' = QueuedBad(e) + (IF f \in BadFrames THEN 1 ELSE 0)
      /\ Queued(o)' = Queued(o) /\ QueuedBad(o)' = QueuedBad(o)
  <2>1. /\ CountIn(Append(out[e], f), CloseFrames)
             = CountIn(out[e], CloseFrames) + (IF f \in CloseFrames THEN 1 ELSE 0)
        /\ CountIn(Append(out[e], f), BadFrames)
             = CountIn(out[e], BadFrames) + (IF f \in BadFrames THEN 1 ELSE 0)
    BY <1>1, CountAppend
  <2> QED
    BY <1>2, <2>1 DEF Queued, QueuedBad
<1>4. /\ SentBad(e)' = SentBad(e) /\ SentBad(o)' = SentBad(o)
      /\ sent'[e] = sent[e] /\ sent'[o] = sent[o]
  BY DEF SentBad
<1>5. /\ Queued(e) \in Nat /\ QueuedBad(e) \in Nat /\ SentBad(e) \in Nat
      /\ ComingBad(e) \in Nat /\ Len(sent[e]) \in Nat
      /\ QueuedBad(e) <= Queued(e)
      /\ Queued(o) \in Nat /\ QueuedBad(o) \in Nat /\ SentBad(o) \in Nat
      /\ ComingBad(o) \in Nat /\ Len(sent[o]) \in Nat
  BY <1>o, CountTypes
<1>6. ComingBad(e)' \in Nat
  <2>1. to'[e] \in Seq(Sendable)
    BY DEF WireInv
  <2> QED
    BY <2>1, PositionsFinite DEF ComingBad
<1>7. /\ m_state[e] = "open" => Queued(e) = 0 /\ sent[e] = <<>>
      /\ QueuedBad(e) + SentBad(e) <= 1
      /\ ComingBad(e) <= SentBad(o)
      /\ Queued(e) + Len(sent[e]) + ComingBad(e) <= 1 + SentBad(o)
      /\ m_state[o] = "open" => Queued(o) = 0 /\ sent[o] = <<>>
      /\ QueuedBad(o) + SentBad(o) <= 1
      /\ ComingBad(o) <= SentBad(e)
      /\ Queued(o) + Len(sent[o]) + ComingBad(o) <= 1 + SentBad(e)
  BY <1>o DEF CountInv
<1>8. m_state'[e] # "open" /\ m_state'[o] = m_state[o]
  BY <1>o DEF QueuesClose, StateTypes
<1>9. sent[e] = <<>> => Len(sent[e]) = 0 /\ SentBad(e) = 0
  BY CountEmpty DEF SentBad
<1>b. f \in BadFrames <=> f.reason = "cut"
  BY BadIsCut
<1>c. ComingBad(o)' = ComingBad(o)
  OBVIOUS
<1> HIDE DEF o
<1>10. \/ m_state[e] = "open" /\ ComingBad(e)' <= ComingBad(e)
       \/ f.reason # "cut" /\ ComingBad(e)' = ComingBad(e) - 1
  OBVIOUS
<1>q. Queued(e)' = Queued(e) + 1 /\ Len(sent'[e]) = Len(sent[e])
  BY <1>3, <1>4
<1>11. ASSUME m_state[e] = "open" /\ ComingBad(e)' <= ComingBad(e)
       PROVE  /\ QueuedBad(e)' + SentBad(e)' <= 1
              /\ ComingBad(e)' <= SentBad(o)'
              /\ Queued(e)' + Len(sent'[e]) + ComingBad(e)' <= 1 + SentBad(o)'
  <2>1. Queued(e) = 0 /\ QueuedBad(e) = 0 /\ Len(sent[e]) = 0 /\ SentBad(e) = 0
    BY <1>5, <1>7, <1>9, <1>11
  <2>2. ComingBad(e)' <= ComingBad(e)
    BY <1>11
  <2>3. QueuedBad(e)' <= 1 /\ QueuedBad(e)' \in Nat
    BY <1>3, <2>1
  <2>4. QueuedBad(e)' + SentBad(e)' <= 1
    BY <1>4, <2>1, <2>3
  <2>5. ComingBad(e)' <= SentBad(o)'
    BY <1>4, <1>5, <1>6, <1>7, <2>2
  <2>6. Queued(e)' + Len(sent'[e]) + ComingBad(e)' <= 1 + SentBad(o)'
    BY <1>3, <1>4, <1>5, <1>6, <1>7, <2>1, <2>2
  <2> QED
    BY <2>4, <2>5, <2>6
<1>12. ASSUME f.reason # "cut" /\ ComingBad(e)' = ComingBad(e) - 1
       PROVE  /\ QueuedBad(e)' + SentBad(e)' <= 1
              /\ ComingBad(e)' <= SentBad(o)'
              /\ Queued(e)' + Len(sent'[e]) + ComingBad(e)' <= 1 + SentBad(o)'
  <2>1. QueuedBad(e)' = QueuedBad(e)
    BY <1>3, <1>5, <1>12, <1>b
  <2>2. ComingBad(e)' = ComingBad(e) - 1
    BY <1>12
  <2>3. QueuedBad(e)' + SentBad(e)' <= 1
    BY <1>4, <1>7, <2>1
  <2>4. ComingBad(e)' <= SentBad(o)'
    BY <1>4, <1>5, <1>6, <1>7, <2>2
  <2>5. Queued(e)' + Len(sent'[e]) + ComingBad(e)' <= 1 + SentBad(o)'
    <3>1. /\ Queued(e) \in Nat /\ ComingBad(e) \in Nat /\ SentBad(o) \in Nat
          /\ Len(sent[e]) \in Nat
      BY <1>5
    <3>2. SentBad(o)' = SentBad(o)
      BY <1>4
    <3>3. Queued(e) + Len(sent[e]) + ComingBad(e) <= 1 + SentBad(o)
      BY <1>7
    <3> QED
      BY ONLY <1>q, <2>2, <3>1, <3>2, <3>3
  <2> QED
    BY <2>3, <2>4, <2>5
<1>13. /\ QueuedBad(e)' + SentBad(e)' <= 1
       /\ ComingBad(e)' <= SentBad(o)'
       /\ Queued(e)' + Len(sent'[e]) + ComingBad(e)' <= 1 + SentBad(o)'
  BY <1>10, <1>11, <1>12
<1>14. /\ m_state'[o] = "open" => Queued(o)' = 0 /\ sent'[o] = <<>>
       /\ QueuedBad(o)' + SentBad(o)' <= 1
       /\ ComingBad(o)' <= SentBad(e)'
       /\ Queued(o)' + Len(sent'[o]) + ComingBad(o)' <= 1 + SentBad(e)'
  BY <1>3, <1>4, <1>7, <1>8, <1>c
<1> QED
  <2> SUFFICES ASSUME NEW x \in Endpoints
               PROVE  /\ m_state'[x] = "open" => Queued(x)' = 0 /\ sent'[x] = <<>>
                      /\ QueuedBad(x)' + SentBad(x)' <= 1
                      /\ ComingBad(x)' <= SentBad(Other(x))'
                      /\ Queued(x)' + Len(sent'[x]) + ComingBad(x)'
                           <= 1 + SentBad(Other(x))'
    BY DEF CountInv
  <2>1. CASE x = e
    BY <1>8, <1>13, <2>1 DEF o
  <2>2. CASE x = o
    BY <1>o, <1>14, <2>2
  <2> QED
    BY <1>o, <2>1, <2>2

\* A frame is written: it leaves the queue for the history and for TCP.
LEMMA CountWrite ==
    ASSUME WireInv, WireInv', StateTypes, CountInv, NEW e \in Endpoints, Write(e)
    PROVE  CountInv'
<1> DEFINE o == Other(e)
           f == Head(out[e])
<1>o. o \in Endpoints /\ o # e /\ Other(o) = e /\ \A x \in Endpoints : x = e \/ x = o
  BY OtherIsEndpoint, Opposite
<1>t. /\ out \in [Endpoints -> Seq(Sendable)] /\ to \in [Endpoints -> Seq(Sendable)]
      /\ sent \in [Endpoints -> Seq(CloseFrames)]
  BY DEF WireInv
<1>1. /\ out[e] # <<>> /\ f \in Sendable /\ Tail(out[e]) \in Seq(Sendable)
      /\ out' = [out EXCEPT ![e] = Tail(@)]
      /\ to' = [to EXCEPT ![o] = Append(@, f)]
      /\ sent' = [sent EXCEPT ![e] = IF f.kind = "close" THEN Append(@, f) ELSE @]
      /\ m_state' = m_state
  BY <1>t DEF Write, epVars
<1> HIDE DEF f
<1>2. /\ out'[e] = Tail(out[e]) /\ out'[o] = out[o]
      /\ to'[o] = Append(to[o], f) /\ to'[e] = to[e]
      /\ sent'[e] = IF f.kind = "close" THEN Append(sent[e], f) ELSE sent[e]
      /\ sent'[o] = sent[o]
  BY <1>1, <1>o, <1>t
<1>f. f.kind = "close" <=> f \in CloseFrames
  BY <1>1 DEF CloseFrames
<1>n. /\ Queued(e) \in Nat /\ QueuedBad(e) \in Nat /\ SentBad(e) \in Nat
      /\ ComingBad(e) \in Nat /\ Len(sent[e]) \in Nat
      /\ QueuedBad(e) <= Queued(e)
      /\ Queued(o) \in Nat /\ QueuedBad(o) \in Nat /\ SentBad(o) \in Nat
      /\ ComingBad(o) \in Nat /\ Len(sent[o]) \in Nat
      /\ Queued(e)' \in Nat /\ QueuedBad(e)' \in Nat
  <2>1. CountIn(Tail(out[e]), CloseFrames) \in Nat
        /\ CountIn(Tail(out[e]), BadFrames) \in Nat
    BY <1>1, PositionsFinite
  <2> QED
    BY <1>o, <1>2, <2>1, CountTypes DEF Queued, QueuedBad
<1>3. /\ m_state[e] = "open" => Queued(e) = 0 /\ sent[e] = <<>>
      /\ QueuedBad(e) + SentBad(e) <= 1
      /\ ComingBad(e) <= SentBad(o)
      /\ Queued(e) + Len(sent[e]) + ComingBad(e) <= 1 + SentBad(o)
      /\ m_state[o] = "open" => Queued(o) = 0 /\ sent[o] = <<>>
      /\ QueuedBad(o) + SentBad(o) <= 1
      /\ ComingBad(o) <= SentBad(e)
      /\ Queued(o) + Len(sent[o]) + ComingBad(o) <= 1 + SentBad(e)
  BY <1>o DEF CountInv
\* The numbers after the step.
<1>4. /\ Queued(e) = Queued(e)' + (IF f \in CloseFrames THEN 1 ELSE 0)
      /\ QueuedBad(e) = QueuedBad(e)' + (IF f \in BadFrames THEN 1 ELSE 0)
      /\ ComingBad(o)' = ComingBad(o) + (IF f \in BadFrames THEN 1 ELSE 0)
  <2>1. /\ CountIn(out[e], CloseFrames)
             = CountIn(Tail(out[e]), CloseFrames) + (IF f \in CloseFrames THEN 1 ELSE 0)
        /\ CountIn(out[e], BadFrames)
             = CountIn(Tail(out[e]), BadFrames) + (IF f \in BadFrames THEN 1 ELSE 0)
    BY <1>t, <1>1, CountTail DEF f
  <2>2. CountIn(Append(to[o], f), BadFrames)
          = CountIn(to[o], BadFrames) + (IF f \in BadFrames THEN 1 ELSE 0)
    BY <1>o, <1>t, <1>1, CountAppend
  <2> QED
    BY <1>2, <2>1, <2>2 DEF Queued, QueuedBad, ComingBad
<1>5. /\ Queued(o)' = Queued(o) /\ QueuedBad(o)' = QueuedBad(o)
      /\ ComingBad(e)' = ComingBad(e) /\ SentBad(o)' = SentBad(o)
  BY <1>2 DEF Queued, QueuedBad, ComingBad, SentBad
<1>6. /\ Len(sent'[e]) = Len(sent[e]) + (IF f \in CloseFrames THEN 1 ELSE 0)
      /\ SentBad(e)' = SentBad(e) + (IF f \in BadFrames THEN 1 ELSE 0)
  <2>1. CASE f \in CloseFrames
    <3>1. sent'[e] = Append(sent[e], f) /\ sent[e] \in Seq(CloseFrames)
      BY <1>t, <1>2, <1>f, <2>1
    <3>2. Len(Append(sent[e], f)) = Len(sent[e]) + 1
      BY <3>1
    <3>3. CountIn(Append(sent[e], f), BadFrames)
            = CountIn(sent[e], BadFrames) + (IF f \in BadFrames THEN 1 ELSE 0)
      BY <2>1, <3>1, CountAppend
    <3> QED
      BY <2>1, <3>1, <3>2, <3>3 DEF SentBad
  <2>2. CASE f \notin CloseFrames
    <3>1. sent'[e] = sent[e] /\ f \notin BadFrames
      BY <1>2, <1>f, <2>2 DEF BadFrames
    <3> QED
      BY <1>n, <2>2, <3>1 DEF SentBad
  <2> QED
    BY <2>1, <2>2
<1>7. f \in BadFrames => f \in CloseFrames
  BY DEF BadFrames
<1> DEFINE c == IF f \in CloseFrames THEN 1 ELSE 0
           b == IF f \in BadFrames THEN 1 ELSE 0
<1>8. c \in {0, 1} /\ b \in {0, 1} /\ b <= c
  BY <1>7
<1>9. /\ Queued(e) = Queued(e)' + c /\ QueuedBad(e) = QueuedBad(e)' + b
      /\ ComingBad(o)' = ComingBad(o) + b
      /\ Len(sent'[e]) = Len(sent[e]) + c /\ SentBad(e)' = SentBad(e) + b
  BY <1>4, <1>6
<1> HIDE DEF b, c
<1>10. m_state'[e] = "open" => Queued(e)' = 0 /\ sent'[e] = <<>>
  <2> SUFFICES ASSUME m_state'[e] = "open"
               PROVE  Queued(e)' = 0 /\ sent'[e] = <<>>
    OBVIOUS
  <2>1. Queued(e) = 0 /\ sent[e] = <<>>
    BY <1>1, <1>3
  <2>2. c = 0 /\ Queued(e)' = 0
    BY <1>8, <1>9, <1>n, <2>1, SMTT(60)
  <2>3. f.kind # "close"
    BY <1>f, <2>2 DEF c
  <2> QED
    BY <1>2, <2>1, <2>2, <2>3
<1>11. /\ QueuedBad(e)' + SentBad(e)' <= 1
       /\ ComingBad(e)' <= SentBad(o)'
       /\ Queued(e)' + Len(sent'[e]) + ComingBad(e)' <= 1 + SentBad(o)'
  <2>1. QueuedBad(e)' + SentBad(e)' <= 1
    BY <1>n, <1>3, <1>8, <1>9
  <2>2. ComingBad(e)' <= SentBad(o)'
    BY <1>3, <1>5
  <2>3. Queued(e)' + Len(sent'[e]) = Queued(e) + Len(sent[e])
    BY <1>n, <1>8, <1>9, SMTT(60)
  <2>4. Queued(e)' + Len(sent'[e]) + ComingBad(e)' <= 1 + SentBad(o)'
    BY <1>3, <1>5, <2>3
  <2> QED
    BY <2>1, <2>2, <2>4
<1>12. /\ m_state'[o] = "open" => Queued(o)' = 0 /\ sent'[o] = <<>>
       /\ QueuedBad(o)' + SentBad(o)' <= 1
       /\ ComingBad(o)' <= SentBad(e)'
       /\ Queued(o)' + Len(sent'[o]) + ComingBad(o)' <= 1 + SentBad(e)'
  <2>1. m_state'[o] = "open" => Queued(o)' = 0 /\ sent'[o] = <<>>
    BY <1>1, <1>2, <1>3, <1>5
  <2>2. QueuedBad(o)' + SentBad(o)' <= 1
    BY <1>3, <1>5
  <2>3. ComingBad(o)' <= SentBad(e)'
    BY <1>n, <1>3, <1>8, <1>9
  <2>4. Queued(o)' + Len(sent'[o]) = Queued(o) + Len(sent[o])
    BY <1>2, <1>5
  <2>5. Queued(o)' + Len(sent'[o]) + ComingBad(o)' <= 1 + SentBad(e)'
    <3>1. /\ Queued(o)' = Queued(o) /\ Len(sent'[o]) = Len(sent[o])
          /\ ComingBad(o)' = ComingBad(o) + b /\ SentBad(e)' = SentBad(e) + b
          /\ b \in Nat
      BY <1>2, <1>5, <1>8, <1>9
    <3>2. Queued(o) + Len(sent[o]) + ComingBad(o) <= 1 + SentBad(e)
      BY <1>3
    <3>3. Queued(o)' + Len(sent'[o]) + ComingBad(o)'
            = (Queued(o) + Len(sent[o]) + ComingBad(o)) + b
      BY <1>n, <3>1, SMTT(60)
    <3>4. 1 + SentBad(e)' = (1 + SentBad(e)) + b
      BY <1>n, <3>1
    <3>5. Queued(o) + Len(sent[o]) + ComingBad(o) \in Nat /\ 1 + SentBad(e) \in Nat
      <4>1. Queued(o) \in Nat
        BY <1>n
      <4>2. Len(sent[o]) \in Nat
        BY <1>n
      <4>3. ComingBad(o) \in Nat
        BY <1>n
      <4>4. 1 + SentBad(e) \in Nat
        BY <1>n
      <4> QED
        BY <4>1, <4>2, <4>3, <4>4
    <3> QED
      BY <3>1, <3>2, <3>3, <3>4, <3>5
  <2> QED
    BY <2>1, <2>2, <2>3, <2>5
<1> QED
  <2> SUFFICES ASSUME NEW x \in Endpoints
               PROVE  /\ m_state'[x] = "open" => Queued(x)' = 0 /\ sent'[x] = <<>>
                      /\ QueuedBad(x)' + SentBad(x)' <= 1
                      /\ ComingBad(x)' <= SentBad(Other(x))'
                      /\ Queued(x)' + Len(sent'[x]) + ComingBad(x)'
                           <= 1 + SentBad(Other(x))'
    BY DEF CountInv
  <2>1. CASE x = e
    BY <1>10, <1>11, <2>1
  <2>2. CASE x = o
    BY <1>o, <1>12, <2>2
  <2> QED
    BY <1>o, <2>1, <2>2

\* What TCP delivers is no longer on its way.
LEMMA CountDelivers ==
    ASSUME WireInv, NEW e \in Endpoints, NEW kind, Delivers(e, kind)
    PROVE  /\ ComingBad(e)' <= ComingBad(e)
           /\ ComingBad(Other(e))' = ComingBad(Other(e))
           /\ Head(to[e]) \in BadFrames => ComingBad(e)' = ComingBad(e) - 1
<1> DEFINE s == to[e]
<1>1. /\ s \in Seq(Sendable) /\ s # <<>> /\ to \in [Endpoints -> Seq(Sendable)]
      /\ to' = [to EXCEPT ![e] = Tail(@)]
  BY DEF WireInv, Delivers
<1>2. to'[e] = Tail(s) /\ to'[Other(e)] = to[Other(e)]
  BY <1>1, OtherIsEndpoint, Opposite
<1> HIDE DEF s
<1>3. CountIn(s, BadFrames)
        = CountIn(Tail(s), BadFrames) + (IF Head(s) \in BadFrames THEN 1 ELSE 0)
  BY <1>1, CountTail
<1>4. Tail(s) \in Seq(Sendable) /\ CountIn(Tail(s), BadFrames) \in Nat
  <2>1. Tail(s) \in Seq(Sendable)
    BY <1>1
  <2> QED
    BY <2>1, PositionsFinite
<1>5. /\ ComingBad(e) = CountIn(s, BadFrames)
      /\ ComingBad(e)' = CountIn(Tail(s), BadFrames)
      /\ ComingBad(Other(e))' = ComingBad(Other(e))
  BY <1>2 DEF ComingBad, s
<1>6. CASE Head(s) \in BadFrames
  <2>1. CountIn(s, BadFrames) = CountIn(Tail(s), BadFrames) + 1
    BY <1>3, <1>6
  <2> QED
    BY <1>4, <1>5, <2>1
<1>7. CASE Head(s) \notin BadFrames
  <2>1. CountIn(s, BadFrames) = CountIn(Tail(s), BadFrames)
    BY <1>3, <1>4, <1>7
  <2> QED
    BY <1>4, <1>5, <1>7, <2>1 DEF s
<1> QED
  BY <1>6, <1>7

LEMMA CountInit == Init => CountInv
<1> SUFFICES ASSUME Init, NEW e \in Endpoints
             PROVE  /\ Queued(e) = 0 /\ sent[e] = <<>>
                    /\ QueuedBad(e) + SentBad(e) <= 1
                    /\ ComingBad(e) <= SentBad(Other(e))
                    /\ Queued(e) + Len(sent[e]) + ComingBad(e)
                         <= 1 + SentBad(Other(e))
  BY DEF CountInv
<1>1. out[e] = <<>> /\ to[e] = <<>> /\ sent[e] = <<>> /\ sent[Other(e)] = <<>>
  BY OtherIsEndpoint DEF Init
<1>2. Queued(e) = 0 /\ QueuedBad(e) = 0 /\ SentBad(e) = 0 /\ ComingBad(e) = 0
      /\ SentBad(Other(e)) = 0
  BY <1>1, CountEmpty DEF Queued, QueuedBad, SentBad, ComingBad
<1> QED
  BY <1>1, <1>2

\* A step at e that leaves the other endpoint's queue alone and makes no close
\* frame.
LEMMA CountQuiet ==
    ASSUME WireInv, WireInv', StateTypes, CountInv, NEW e \in Endpoints,
           UNCHANGED sent,
           \/ UNCHANGED out
           \/ out' = [out EXCEPT ![e] = <<>>]
           \/ \E f \in Sendable : f.kind # "close"
                                  /\ out' = [out EXCEPT ![e] = Append(@, f)],
           \/ UNCHANGED to
           \/ \E kind : Delivers(e, kind)
           \/ \E f \in Sendable : f.kind # "close"
                  /\ to' = [to EXCEPT ![Other(e)] = Append(@, f)],
           UNCHANGED m_state \/ m_state' = [m_state EXCEPT ![e] = "closed"]
    PROVE  CountInv'
<1>s. CloseFrames \subseteq CloseFrames /\ BadFrames \subseteq CloseFrames
  BY DEF BadFrames
<1>t. /\ out \in [Endpoints -> Seq(Sendable)] /\ to \in [Endpoints -> Seq(Sendable)]
  BY DEF WireInv
<1>1. ASSUME NEW x \in Endpoints
      PROVE  Queued(x)' <= Queued(x) /\ QueuedBad(x)' <= QueuedBad(x)
  <2>1. out'[x] = out[x] \/ out'[x] = <<>>
        \/ \E f \in Sendable : f.kind # "close" /\ out'[x] = Append(out[x], f)
    BY <1>t
  <2>2. Queued(x) \in Nat /\ QueuedBad(x) \in Nat
    BY CountTypes
  <2>3. out[x] \in Seq(Sendable)
    BY <1>t
  <2>4. ASSUME NEW S, S \subseteq CloseFrames
        PROVE  CountIn(out'[x], S) <= CountIn(out[x], S)
    <3>1. CountIn(out[x], S) \in Nat
      BY <2>3, PositionsFinite
    <3>2. /\ CountIn(<<>>, S) <= CountIn(out[x], S)
          /\ \A f \in Sendable : f.kind # "close" =>
                CountIn(Append(out[x], f), S) = CountIn(out[x], S)
      BY <2>3, <2>4, QueueShrinks
    <3>3. CASE out'[x] = out[x]
      BY <3>1, <3>3
    <3>4. CASE out'[x] = <<>>
      BY <3>2, <3>4
    <3>5. ASSUME NEW f \in Sendable, f.kind # "close", out'[x] = Append(out[x], f)
          PROVE  CountIn(out'[x], S) <= CountIn(out[x], S)
      <4>1. CountIn(Append(out[x], f), S) = CountIn(out[x], S)
        BY <3>2, <3>5
      <4> QED
        BY <3>1, <3>5, <4>1
    <3> QED
      BY <2>1, <3>3, <3>4, <3>5
  <2>5. /\ CountIn(out'[x], CloseFrames) <= CountIn(out[x], CloseFrames)
        /\ CountIn(out'[x], BadFrames) <= CountIn(out[x], BadFrames)
    BY <1>s, <2>4
  <2> QED
    BY <2>5 DEF Queued, QueuedBad
<1>2. ASSUME NEW x \in Endpoints
      PROVE  ComingBad(x)' <= ComingBad(x)
  <2>1. ComingBad(x) \in Nat /\ to[x] \in Seq(Sendable)
    BY CountTypes DEF WireInv
  <2>2. CASE UNCHANGED to
    BY <2>1, <2>2 DEF ComingBad
  <2>3. ASSUME NEW kind, Delivers(e, kind) PROVE ComingBad(x)' <= ComingBad(x)
    <3>1. x = e \/ x = Other(e)
      BY Opposite
    <3>2. ComingBad(e)' <= ComingBad(e) /\ ComingBad(Other(e))' = ComingBad(Other(e))
      BY <2>3, CountDelivers
    <3> QED
      BY <2>1, <3>1, <3>2
  <2>4. ASSUME NEW f \in Sendable, f.kind # "close",
               to' = [to EXCEPT ![Other(e)] = Append(@, f)]
        PROVE  ComingBad(x)' <= ComingBad(x)
    <3>1. to'[x] = to[x] \/ to'[x] = Append(to[x], f)
      BY <1>t, <2>4
    <3>2. CountIn(Append(to[x], f), BadFrames) = CountIn(to[x], BadFrames)
      BY <1>s, <2>1, <2>4, QueueShrinks
    <3>3. CountIn(to'[x], BadFrames) = CountIn(to[x], BadFrames)
      BY <3>1, <3>2
    <3> QED
      BY <2>1, <3>3 DEF ComingBad
  <2> QED
    BY <2>2, <2>3, <2>4
<1>3. \A x \in Endpoints : m_state'[x] = "open" => m_state[x] = "open"
  BY DEF StateTypes
<1> QED
  BY <1>1, <1>2, <1>3, CountShrinks

\* send_close_frame() in a step of e that writes nothing.
LEMMA CountSends ==
    ASSUME WireInv, WireInv', StateTypes, CountInv, UNCHANGED sent,
           NEW e \in Endpoints, NEW code \in Codes, NEW reason \in Reasons,
           NEW ack \in BOOLEAN, NEW term \in BOOLEAN,
           SendClose(e, code, reason, ack, term),
           ComingBad(Other(e))' = ComingBad(Other(e)),
           ComingBad(e)' <= ComingBad(e),
           UNCHANGED to \/ \E kind : Delivers(e, kind),
           \/ m_state[e] = "open"
           \/ reason # "cut" /\ ComingBad(e)' = ComingBad(e) - 1
    PROVE  CountInv'
<1>1. remote' \in [Endpoints -> Codes]
  BY DEF WireInv
<1>2. CASE UNCHANGED <<out, m_state>>
  BY <1>2, CountQuiet
<1>3. ASSUME NEW f \in CloseFrames, f.reason = reason, QueuesClose(e, f, ack)
      PROVE  CountInv'
  BY <1>3, CountQueues
<1> QED
  BY <1>1, <1>2, <1>3, SendCloseQueues

LEMMA CountStep ==
    ASSUME CloseAssumption, WireInv, WireInv', StateTypes, CountInv, [Next]_vars
    PROVE  CountInv'
<1>b. /\ terminal(message_too_big) \in BOOLEAN
      /\ \A e : AckTerminal(e) \in BOOLEAN
      /\ \A code : terminal(code) \in BOOLEAN
  BY DEF terminal, AckTerminal
<1>1. CASE UNCHANGED vars
  BY <1>1 DEF vars, epVars, CountInv, Queued, QueuedBad, SentBad, ComingBad
<1>2. CASE Next
  <2>1. PICK e \in Endpoints :
           \/ \E code \in AppCodes, reason \in AppReasons :
                 Close(e, code, reason)
           \/ Send(e) \/ SendBig(e)
           \/ Write(e) \/ TerminalWritten(e) \/ HandleTerminate(e)
           \/ Timeout(e) \/ StrayTimeout(e)
           \/ Recv(e) \/ Reset(e)
    BY <1>2 DEF Next
  <2>n. ComingBad(e) \in Nat
    BY CountTypes
  <2>2. ASSUME NEW code \in AppCodes, NEW reason \in AppReasons,
               Close(e, code, reason)
        PROVE  CountInv'
    <3> DEFINE r == IF code = blank THEN "none" ELSE Truncated(reason)
    <3>1. code \in Codes /\ reason \in {"none", "short", "long", "long_cut"}
      BY AppTypes
    <3>2. r \in Reasons
      BY <3>1, TruncatedTypes DEF Reasons
    <3>3. PICK term \in BOOLEAN : SendClose(e, code, r, FALSE, term)
      BY <1>b, <2>2 DEF Close
    <3>4. UNCHANGED <<to, sent>> /\ m_state[e] = "open"
      BY <2>2 DEF Close
    <3>5. /\ ComingBad(Other(e))' = ComingBad(Other(e))
          /\ ComingBad(e)' <= ComingBad(e)
      BY <2>n, <3>4 DEF ComingBad
    <3> HIDE DEF r
    <3> QED
      BY <3>1, <3>2, <3>3, <3>4, <3>5, CountSends
  <2>3. CASE Send(e) \/ SendBig(e)
    <3>1. UNCHANGED <<to, sent, m_state>>
      BY <2>3 DEF Send, SendBig, epVars
    <3>2. \E f \in Sendable : f.kind # "close"
                              /\ out' = [out EXCEPT ![e] = Append(@, f)]
      BY <2>3, ItemsSendable DEF Send, SendBig, Item, Frame
    <3> QED
      BY <3>1, <3>2, CountQuiet
  <2>4. CASE Write(e)
    BY <2>4, CountWrite
  <2>5. CASE TerminalWritten(e) \/ Timeout(e) \/ StrayTimeout(e) \/ Reset(e)
    <3>1. /\ UNCHANGED <<to, sent>>
          /\ UNCHANGED out \/ out' = [out EXCEPT ![e] = <<>>]
          /\ m_state' = [m_state EXCEPT ![e] = "closed"]
      BY <2>5 DEF TerminalWritten, Timeout, StrayTimeout, Reset, Terminate
    <3> QED
      BY <3>1, CountQuiet
  <2>6. CASE HandleTerminate(e)
    <3>1. /\ UNCHANGED <<sent, m_state>>
          /\ out' = [out EXCEPT ![e] = <<>>]
          /\ to' = [to EXCEPT ![Other(e)] = Append(@, Item("eof"))]
      BY <2>6 DEF HandleTerminate, epVars
    <3>2. Item("eof") \in Sendable /\ Item("eof").kind # "close"
      BY ItemsSendable DEF Item, Frame
    <3> QED
      BY <3>1, <3>2, CountQuiet
  <2>7. CASE Recv(e)
    <3>1. CASE RecvIgnored(e)
      <4>1. \E kind : Delivers(e, kind)
        BY <3>1 DEF RecvIgnored
      <4>2. UNCHANGED <<out, sent, m_state>>
        BY <3>1 DEF RecvIgnored, epVars
      <4> QED
        BY <4>1, <4>2, CountQuiet
    <3>2. CASE RecvBadClose(e)
      <4>1. PICK term \in BOOLEAN :
               SendClose(e, protocol_error, "short", TRUE, term)
        BY <1>b, <3>2 DEF RecvBadClose
      <4>2. Delivers(e, "close") /\ ~Acceptable(Head(to[e])) /\ UNCHANGED sent
        BY <3>2 DEF RecvBadClose
      <4>3. Head(to[e]) \in BadFrames
        <5>1. Head(to[e]).kind = "close"
          BY <4>2 DEF Delivers
        <5>2. Head(to[e]) \in Sendable
          BY <4>2, DeliversTypes
        <5> QED
          BY <4>2, <5>1, <5>2 DEF BadFrames, CloseFrames
      <4>4. /\ ComingBad(Other(e))' = ComingBad(Other(e))
            /\ ComingBad(e)' = ComingBad(e) - 1
            /\ ComingBad(e)' <= ComingBad(e)
        BY <4>2, <4>3, CountDelivers
      <4>5. "short" \in Reasons /\ protocol_error \in Codes
        BY OwnCodes DEF Reasons
      <4> QED
        BY <4>1, <4>2, <4>4, <4>5, CountSends
    <3>3. ASSUME m_state[e] = "open", NEW kind, Delivers(e, kind),
                 UNCHANGED sent, NEW code \in Codes, NEW reason \in Reasons,
                 NEW ack \in BOOLEAN, NEW term \in BOOLEAN,
                 SendClose(e, code, reason, ack, term)
          PROVE  CountInv'
      <4>1. /\ ComingBad(Other(e))' = ComingBad(Other(e))
            /\ ComingBad(e)' <= ComingBad(e)
        BY <3>3, CountDelivers
      <4> QED
        BY <3>3, <4>1, CountSends
    <3>4. CASE RecvClose(e)
      <4> DEFINE r == IF Head(to[e]).code = no_status THEN "none"
                      ELSE Head(to[e]).reason
      <4>1. PICK term \in BOOLEAN : SendClose(e, blank, r, TRUE, term)
        BY <1>b, <3>4 DEF RecvClose
      <4>2. Delivers(e, "close") /\ m_state[e] = "open" /\ UNCHANGED sent
        BY <3>4 DEF RecvClose
      <4>3. Head(to[e]) \in Sendable
        BY <4>2, DeliversTypes
      <4>4. r \in Reasons /\ blank \in Codes
        BY <4>3, OwnCodes DEF Reasons, Sendable, Items
      <4> HIDE DEF r
      <4> QED
        BY <3>3, <4>1, <4>2, <4>4
    <3>5. CASE RecvAck(e)
      <4>1. /\ Delivers(e, "close") /\ UNCHANGED <<sent, out>>
            /\ UNCHANGED m_state \/ m_state' = [m_state EXCEPT ![e] = "closed"]
        BY <3>5 DEF RecvAck, Terminate
      <4> QED
        BY <4>1, CountQuiet
    <3>6. CASE RecvBig(e)
      <4>1. Delivers(e, "big") /\ UNCHANGED sent
        BY <3>6 DEF RecvBig
      <4>2. CASE m_state[e] = "open"
        <5>1. PICK term \in BOOLEAN :
                 SendClose(e, message_too_big, "short", FALSE, term)
          BY <1>b, <3>6, <4>2 DEF RecvBig
        <5>2. "short" \in Reasons /\ message_too_big \in Codes
          BY OwnCodes DEF Reasons
        <5> QED
          BY <3>3, <4>1, <4>2, <5>1, <5>2
      <4>3. CASE m_state[e] # "open"
        <5>1. UNCHANGED out /\ m_state' = [m_state EXCEPT ![e] = "closed"]
          BY <3>6, <4>3 DEF RecvBig, Terminate
        <5> QED
          BY <4>1, <5>1, CountQuiet
      <4> QED
        BY <4>2, <4>3
    <3>7. CASE RecvEof(e)
      <4>1. /\ Delivers(e, "eof") /\ UNCHANGED <<sent, out>>
            /\ m_state' = [m_state EXCEPT ![e] = "closed"]
        BY <3>7 DEF RecvEof, Terminate
      <4> QED
        BY <4>1, CountQuiet
    <3> QED
      BY <2>7, <3>1, <3>2, <3>4, <3>5, <3>6, <3>7 DEF Recv
  <2> QED
    BY <2>1, <2>2, <2>3, <2>4, <2>5, <2>6, <2>7
<1> QED
  BY <1>1, <1>2

\* A second close frame answers one that was refused, and there is no third.
LEMMA OneFollows == WireInv /\ CountInv => OneCloseFrame
<1> SUFFICES ASSUME WireInv, CountInv, NEW e \in Endpoints
             PROVE  /\ Len(sent[e]) <= 2
                    /\ Len(sent[e]) = 2 =>
                          \E i \in DOMAIN sent[Other(e)] :
                             ~Acceptable(sent[Other(e)][i])
  BY DEF OneCloseFrame
<1> DEFINE o == Other(e)
<1>1. o \in Endpoints
  BY OtherIsEndpoint
<1>2. /\ Queued(e) \in Nat /\ ComingBad(e) \in Nat /\ Len(sent[e]) \in Nat
      /\ SentBad(o) \in Nat /\ QueuedBad(o) \in Nat
  BY <1>1, CountTypes
<1>3. /\ Queued(e) + Len(sent[e]) + ComingBad(e) <= 1 + SentBad(o)
      /\ QueuedBad(o) + SentBad(o) <= 1
  BY <1>1 DEF CountInv
<1>4. Len(sent[e]) <= 1 + SentBad(o) /\ SentBad(o) <= 1
  BY <1>2, <1>3
<1>5. sent[o] \in Seq(CloseFrames)
  BY <1>1 DEF WireInv
<1>6. ASSUME Len(sent[e]) = 2
      PROVE  \E i \in DOMAIN sent[o] : ~Acceptable(sent[o][i])
  <2>1. SentBad(o) > 0
    BY <1>2, <1>4, <1>6
  <2>2. \E i \in DOMAIN sent[o] : sent[o][i] \in BadFrames
    BY <1>5, <2>1, CountZero DEF SentBad
  <2> QED
    BY <2>2 DEF BadFrames
<1>7. Len(sent[e]) <= 2
  BY <1>2, <1>4
<1> QED
  BY <1>6, <1>7

\* Each endpoint writes one close frame, whoever calls close() and whatever
\* arrives; a second one only answers a close frame whose reason is not UTF-8,
\* and the other endpoint sends at most one of these.
THEOREM WireSoundAlways == Spec => []WireSound
<1> DEFINE Inv == StateTypes /\ WireInv /\ CountInv
<1>1. Init => Inv
  BY CloseAssumption, StateTypesInit, WireInit, CountInit
<1>2. Inv /\ [Next]_vars => Inv'
  BY CloseAssumption, WireStep, StateTypesStep, CountStep
<1>3. Inv => WireSound
  BY TypesFollow, OneFollows, WireCodesFollow DEF WireSound
<1> QED
  BY <1>1, <1>2, <1>3, PTL DEF Spec

-----------------------------------------------------------------------------
(***************************************************************************)
(* When nothing disturbs a closing handshake, both ends know how it ended, *)
(* whichever of them began and also when both did.                         *)
(***************************************************************************)

\* The frames that are queued, on their way to e, and written.
Queue(e) == ToSet(out[e])
Coming(e) == ToSet(to[e])
Written(e) == ToSet(sent[e])

LEMMA SetOfEmpty == ToSet(<<>>) = {}
BY DEF ToSet

LEMMA SetOfAppend ==
    ASSUME NEW T, NEW s \in Seq(T), NEW x \in T
    PROVE  ToSet(Append(s, x)) = ToSet(s) \cup {x}
<1> DEFINE a == Append(s, x)
           n == Len(s) + 1
<1>1. /\ DOMAIN a = 1 .. n /\ DOMAIN s = 1 .. Len(s) /\ a[n] = x
      /\ \A i \in 1 .. Len(s) : a[i] = s[i]
      /\ Len(s) \in Nat
  OBVIOUS
<1> HIDE DEF a
<1>2. n \in DOMAIN a /\ \A i \in DOMAIN a : i = n \/ i \in DOMAIN s
  BY <1>1
<1>3. DOMAIN s \subseteq DOMAIN a /\ \A i \in DOMAIN s : a[i] = s[i]
  BY <1>1
<1> HIDE DEF n
<1>4. ToSet(a) \subseteq ToSet(s) \cup {x}
  BY <1>1, <1>2, <1>3 DEF ToSet
<1>5. ToSet(s) \cup {x} \subseteq ToSet(a)
  BY <1>1, <1>2, <1>3 DEF ToSet
<1> QED
  BY <1>4, <1>5 DEF a

LEMMA SetOfTail ==
    ASSUME NEW T, NEW s \in Seq(T), s # <<>>
    PROVE  /\ ToSet(Tail(s)) \subseteq ToSet(s)
           /\ Head(s) \in ToSet(s)
<1>1. /\ DOMAIN Tail(s) = 1 .. (Len(s) - 1) /\ DOMAIN s = 1 .. Len(s)
      /\ Len(s) \in Nat /\ Len(s) > 0 /\ Head(s) = s[1]
      /\ \A i \in 1 .. (Len(s) - 1) : Tail(s)[i] = s[i + 1]
  OBVIOUS
<1>2. 1 \in DOMAIN s
  BY <1>1
<1>3. ASSUME NEW i \in DOMAIN Tail(s)
      PROVE  Tail(s)[i] \in ToSet(s)
  <2>1. i + 1 \in DOMAIN s /\ Tail(s)[i] = s[i + 1]
    BY <1>1
  <2> QED
    BY <2>1 DEF ToSet
<1> QED
  BY <1>1, <1>2, <1>3 DEF ToSet

LEMMA SetOfType ==
    ASSUME NEW T, NEW s \in Seq(T)
    PROVE  /\ ToSet(s) \subseteq T
           /\ ToSet(s) = {} <=> s = <<>>
<1>1. DOMAIN s = 1 .. Len(s) /\ Len(s) \in Nat /\ \A i \in DOMAIN s : s[i] \in T
  OBVIOUS
<1>2. s # <<>> => 1 \in DOMAIN s
  BY <1>1
<1> QED
  BY <1>1, <1>2 DEF ToSet

-----------------------------------------------------------------------------
(***************************************************************************)
(* The invariants.                                                         *)
(***************************************************************************)
\* The answer of a server is terminal, and so is a frame with a terminal code.
MayEnd(e, f) == terminal(f.code) \/ (e = "server" /\ m_was_clean[e])

\* What holds of every handshake.
TimersOff == ~has_timer => \A e \in Endpoints : ~timer[e] /\ stray[e] = 0

NoneBig ==
    big = 0 => \A e \in Endpoints : \A f \in Queue(e) \cup Coming(e) : f.kind # "big"

TerminalFrames ==
    \A e \in Endpoints :
       /\ \A f \in Queue(e) : f.terminal => f.kind = "close" /\ MayEnd(e, f)
       /\ completing[e] => \E f \in Written(e) : MayEnd(e, f)

WrittenFirst ==
    \A e \in Endpoints : \A f \in Coming(e) :
       f.kind = "close" => f \in Written(Other(e))

SocketsFollow ==
    \A e \in Endpoints :
       /\ m_state[e] = "closed" <=> sock[e] # "up"
       /\ \A f \in Coming(e) : f.kind = "eof" => sock[Other(e)] = "down"
       /\ \A f \in Queue(e) : f.kind # "eof"

\* A close frame reaches the client before the end of the connection does.
CloseComesFirst ==
    \E i \in DOMAIN to["client"] :
       /\ to["client"][i].kind = "close"
       /\ \A j \in 1 .. i : to["client"][j].kind # "eof"

\* What holds of one that nothing disturbed.  Each end keeps the code of its close
\* frame, and one that was closed cleanly knows the other's.
EndKnows(e) ==
    /\ \A f \in Queue(e) \cup Written(e) : f.kind = "close" => local[e] = f.code
    /\ m_was_clean[e] => \E f \in Written(Other(e)) : remote[e] = f.code
    /\ m_state[e] # "open" => calls[e] > 0 \/ m_was_clean[e]

\* The server ends the connection, when it has answered or was answered.
ServerEnds ==
    /\ m_state["client"] = "closed" => sock["server"] = "down"
    /\ m_state["server"] = "closed" =>
         m_was_clean["server"] /\ (sent["server"] # <<>> \/ calls["server"] > 0)

\* The client knows, or will know before it sees that end.
ClientTold ==
    sent["server"] # <<>> =>
       \/ m_was_clean["client"]
       \/ m_state["client"] # "closed" /\ CloseComesFirst

Knows == (\A e \in Endpoints : EndKnows(e)) /\ ServerEnds /\ ClientTold

-----------------------------------------------------------------------------
(***************************************************************************)
(* What a step may do to an endpoint x.                                    *)
(***************************************************************************)
\* What was written, closed and shut down stays so.
Keeps(x) ==
    /\ m_was_clean[x] => m_was_clean'[x]
    /\ Written(x) \subseteq Written(x)'
    /\ sock[x] = "down" => sock'[x] = "down"
    /\ m_state[x] = "closed" => m_state'[x] = "closed"

\* A message or a close frame is queued.
QueueEffect(x) ==
    \A f \in Queue(x)' :
       \/ f \in Queue(x)
       \/ f = Item("data")
       \/ f = Item("big") /\ big' # 0
       \/ f \in CloseFrames /\ (f.terminal => MayEnd(x, f)')

\* The other endpoint writes a frame or closes its socket.
ComingEffect(x) ==
    \A f \in Coming(x)' :
       \/ f \in Coming(x)
       \/ f \in Queue(Other(x)) /\ (f.kind = "close" => f \in Written(Other(x))')
       \/ f = Item("eof") /\ sock'[Other(x)] = "down"

\* A terminal frame is written.
CompletingEffect(x) ==
    completing'[x] =>
       \/ completing[x]
       \/ \E f \in Queue(x) :
             f.terminal /\ (f.kind = "close" => f \in Written(x)')

\* An endpoint is closed when it begins to shut its socket down.
ClosedEffect(x) ==
    (m_state[x] = "closed" <=> sock[x] # "up")
       => (m_state'[x] = "closed" <=> sock'[x] # "up")

Effects ==
    \A x \in Endpoints : Keeps(x) /\ QueueEffect(x) /\ ComingEffect(x)
                         /\ CompletingEffect(x) /\ ClosedEffect(x)

\* The sets of frames that do not change.
LEMMA SameSets ==
    ASSUME NEW x \in Endpoints
    PROVE  /\ out'[x] = out[x] => Queue(x)' = Queue(x)
           /\ to'[x] = to[x] => Coming(x)' = Coming(x)
           /\ sent'[x] = sent[x] => Written(x)' = Written(x)
BY DEF Queue, Coming, Written

\* A frame is queued, or all are dropped.
LEMMA QueueSets ==
    ASSUME WireInv, NEW e \in Endpoints
    PROVE  /\ \A f \in Sendable : out' = [out EXCEPT ![e] = Append(@, f)] =>
                 Queue(e)' = Queue(e) \cup {f} /\ out'[Other(e)] = out[Other(e)]
           /\ out' = [out EXCEPT ![e] = <<>>] =>
                 Queue(e)' = {} /\ out'[Other(e)] = out[Other(e)]
<1>1. out \in [Endpoints -> Seq(Sendable)] /\ out[e] \in Seq(Sendable)
      /\ Other(e) \in Endpoints /\ Other(e) # e
  BY OtherIsEndpoint, Opposite DEF WireInv
<1>2. ASSUME NEW f \in Sendable, out' = [out EXCEPT ![e] = Append(@, f)]
      PROVE  Queue(e)' = Queue(e) \cup {f} /\ out'[Other(e)] = out[Other(e)]
  <2>1. out'[e] = Append(out[e], f) /\ out'[Other(e)] = out[Other(e)]
    BY <1>1, <1>2
  <2>2. ToSet(Append(out[e], f)) = ToSet(out[e]) \cup {f}
    BY <1>1, SetOfAppend
  <2> QED
    BY <2>1, <2>2 DEF Queue
<1>3. ASSUME out' = [out EXCEPT ![e] = <<>>]
      PROVE  Queue(e)' = {} /\ out'[Other(e)] = out[Other(e)]
  <2>1. out'[e] = <<>> /\ out'[Other(e)] = out[Other(e)]
    BY <1>1, <1>3
  <2> QED
    BY <2>1, SetOfEmpty DEF Queue
<1> QED
  BY <1>2, <1>3

\* TCP delivers a frame to e.
LEMMA DeliversSets ==
    ASSUME WireInv, NEW e \in Endpoints, NEW kind, Delivers(e, kind)
    PROVE  /\ Coming(e)' \subseteq Coming(e)
           /\ Coming(Other(e))' = Coming(Other(e))
           /\ Head(to[e]) \in Coming(e) /\ Head(to[e]).kind = kind
<1>1. /\ to \in [Endpoints -> Seq(Sendable)] /\ to[e] \in Seq(Sendable)
      /\ to[e] # <<>> /\ to' = [to EXCEPT ![e] = Tail(@)]
      /\ Other(e) \in Endpoints /\ Other(e) # e /\ Head(to[e]).kind = kind
  BY OtherIsEndpoint, Opposite DEF WireInv, Delivers
<1>2. to'[e] = Tail(to[e]) /\ to'[Other(e)] = to[Other(e)]
  BY <1>1
<1>3. ToSet(Tail(to[e])) \subseteq ToSet(to[e]) /\ Head(to[e]) \in ToSet(to[e])
  BY <1>1, SetOfTail
<1> QED
  BY <1>1, <1>2, <1>3 DEF Coming

\* A frame leaves the queue of e for TCP.
LEMMA WriteSets ==
    ASSUME WireInv, NEW e \in Endpoints, Write(e)
    PROVE  LET f == Head(out[e]) IN
           /\ f \in Queue(e) /\ f \in Sendable
           /\ Queue(e)' \subseteq Queue(e) /\ Queue(Other(e))' = Queue(Other(e))
           /\ Coming(Other(e))' = Coming(Other(e)) \cup {f} /\ Coming(e)' = Coming(e)
           /\ Written(e)' = Written(e) \cup (IF f.kind = "close" THEN {f} ELSE {})
           /\ Written(Other(e))' = Written(Other(e))
<1> DEFINE f == Head(out[e])
<1>1. /\ out \in [Endpoints -> Seq(Sendable)] /\ to \in [Endpoints -> Seq(Sendable)]
      /\ sent \in [Endpoints -> Seq(CloseFrames)]
      /\ Other(e) \in Endpoints /\ Other(e) # e
  BY OtherIsEndpoint, Opposite DEF WireInv
<1>2. /\ out[e] \in Seq(Sendable) /\ out[e] # <<>>
      /\ out' = [out EXCEPT ![e] = Tail(@)]
      /\ to' = [to EXCEPT ![Other(e)] = Append(@, f)]
      /\ sent' = [sent EXCEPT ![e] = IF f.kind = "close" THEN Append(@, f) ELSE @]
  BY <1>1 DEF Write
<1>3. f \in Sendable /\ f \in ToSet(out[e]) /\ ToSet(Tail(out[e])) \subseteq ToSet(out[e])
  BY <1>2, SetOfTail
<1> HIDE DEF f
<1>4. /\ out'[e] = Tail(out[e]) /\ out'[Other(e)] = out[Other(e)]
      /\ to'[Other(e)] = Append(to[Other(e)], f) /\ to'[e] = to[e]
      /\ sent'[Other(e)] = sent[Other(e)]
      /\ sent'[e] = IF f.kind = "close" THEN Append(sent[e], f) ELSE sent[e]
  BY <1>1, <1>2
<1>5. ToSet(Append(to[Other(e)], f)) = ToSet(to[Other(e)]) \cup {f}
  <2>1. to[Other(e)] \in Seq(Sendable)
    BY <1>1
  <2> QED
    BY <2>1, <1>3, SetOfAppend
<1>6. Written(e)' = Written(e) \cup (IF f.kind = "close" THEN {f} ELSE {})
  <2>1. CASE f.kind = "close"
    <3>1. sent'[e] = Append(sent[e], f)
      BY <1>4, <2>1
    <3>2. f \in CloseFrames /\ sent[e] \in Seq(CloseFrames)
      BY <1>1, <1>3, <2>1 DEF CloseFrames
    <3>3. ToSet(Append(sent[e], f)) = ToSet(sent[e]) \cup {f}
      BY <3>2, SetOfAppend
    <3> QED
      BY <2>1, <3>1, <3>3 DEF Written
  <2>2. CASE f.kind # "close"
    BY <1>4, <2>2 DEF Written
  <2> QED
    BY <2>1, <2>2
<1> QED
  BY <1>3, <1>4, <1>5, <1>6 DEF Queue, Coming, Written, f

\* An endpoint that did not take the step, but for what TCP brings it.
LEMMA OtherEffect ==
    ASSUME NEW o \in Endpoints,
           /\ m_was_clean'[o] = m_was_clean[o] /\ sent'[o] = sent[o]
           /\ sock'[o] = sock[o] /\ m_state'[o] = m_state[o]
           /\ out'[o] = out[o] /\ completing'[o] = completing[o],
           ComingEffect(o)
    PROVE  Keeps(o) /\ QueueEffect(o) /\ ComingEffect(o) /\ CompletingEffect(o)
           /\ ClosedEffect(o)
<1>1. Written(o)' = Written(o) /\ Queue(o)' = Queue(o)
  BY SameSets
<1> QED
  BY <1>1 DEF Keeps, QueueEffect, CompletingEffect, ClosedEffect

LEMMA ComingSame ==
    \A x \in Endpoints : Coming(x)' \subseteq Coming(x) => ComingEffect(x)
BY DEF ComingEffect

\* send_close_frame() of e, after a call or a delivery.
LEMMA SendEffects ==
    ASSUME WireInv, WireInv', StateTypes, NEW e \in Endpoints, NEW code \in Codes,
           NEW reason \in Reasons, NEW ack \in BOOLEAN, NEW term \in BOOLEAN,
           SendClose(e, code, reason, ack, term), m_state[e] # "closed",
           term => terminal(Chosen(e, code, ack)) \/ (e = "server" /\ ack),
           UNCHANGED <<sent, sock, completing>>,
           UNCHANGED to \/ \E kind : Delivers(e, kind)
    PROVE  Effects
<1> DEFINE o == Other(e)
<1>o. o \in Endpoints /\ o # e /\ \A x \in Endpoints : x = e \/ x = o
  BY OtherIsEndpoint, Opposite
<1>r. remote' \in [Endpoints -> Codes]
  BY DEF WireInv
<1>1. Coming(e)' \subseteq Coming(e) /\ Coming(o)' \subseteq Coming(o)
  BY <1>o, SameSets, DeliversSets
<1>2. ComingEffect(e) /\ ComingEffect(o)
  BY <1>1, <1>o, ComingSame
<1>3. CASE UNCHANGED <<out, m_state, m_was_clean>>
  <2>1. \A x \in Endpoints :
           /\ m_was_clean'[x] = m_was_clean[x] /\ sent'[x] = sent[x]
           /\ sock'[x] = sock[x] /\ m_state'[x] = m_state[x]
           /\ out'[x] = out[x] /\ completing'[x] = completing[x]
    BY <1>3
  <2> QED
    BY <1>2, <1>o, <2>1, OtherEffect DEF Effects
<1>4. ASSUME NEW f \in CloseFrames, f.code = Chosen(e, code, ack), f.terminal = term,
             QueuesClose(e, f, ack)
      PROVE  Effects
  <2>1. /\ out' = [out EXCEPT ![e] = Append(@, f)]
        /\ m_state' = [m_state EXCEPT ![e] = "closing"]
        /\ m_was_clean' = [m_was_clean EXCEPT ![e] = @ \/ ack]
    BY <1>4 DEF QueuesClose
  <2>2. f \in Sendable
    BY DEF CloseFrames
  <2>3. Queue(e)' = Queue(e) \cup {f} /\ out'[o] = out[o]
    BY <2>1, <2>2, QueueSets
  <2>4. /\ m_was_clean'[o] = m_was_clean[o] /\ m_state'[o] = m_state[o]
        /\ m_state'[e] = "closing" /\ m_was_clean'[e] = (m_was_clean[e] \/ ack)
    BY <2>1, <1>o DEF StateTypes
  <2>5. f.terminal => MayEnd(e, f)'
    BY <1>4, <2>4 DEF MayEnd
  <2>6. Keeps(e)
    BY <2>4, SameSets DEF Keeps
  <2>7. QueueEffect(e)
    BY <2>3, <2>5 DEF QueueEffect
  <2>8. CompletingEffect(e)
    BY DEF CompletingEffect
  <2>9. ClosedEffect(e)
    BY <2>4 DEF ClosedEffect
  <2>10. Keeps(o) /\ QueueEffect(o) /\ CompletingEffect(o) /\ ClosedEffect(o)
    BY <1>2, <1>o, <2>3, <2>4, OtherEffect
  <2> QED
    BY <1>2, <1>o, <2>6, <2>7, <2>8, <2>9, <2>10 DEF Effects
<1> QED
  BY <1>r, <1>3, <1>4, SendCloseQueues

\* terminate() of e, and what leaves its state alone.
LEMMA EndEffects ==
    ASSUME WireInv, StateTypes, SocketsFollow, NEW e \in Endpoints,
           \/ \E failed : Terminate(e, failed)
           \/ UNCHANGED <<m_state, sock>>,
           m_was_clean' = m_was_clean \/ m_was_clean' = [m_was_clean EXCEPT ![e] = TRUE],
           out' = out \/ out' = [out EXCEPT ![e] = <<>>],
           completing' = completing \/ completing' = [completing EXCEPT ![e] = FALSE],
           UNCHANGED sent,
           UNCHANGED to \/ \E kind : Delivers(e, kind)
    PROVE  Effects
<1> DEFINE o == Other(e)
<1>o. o \in Endpoints /\ o # e /\ \A x \in Endpoints : x = e \/ x = o
  BY OtherIsEndpoint, Opposite
<1>1. Coming(e)' \subseteq Coming(e) /\ Coming(o)' \subseteq Coming(o)
  BY <1>o, SameSets, DeliversSets
<1>2. ComingEffect(e) /\ ComingEffect(o)
  BY <1>1, <1>o, ComingSame
<1>3. Queue(e)' \subseteq Queue(e) /\ out'[o] = out[o]
  BY QueueSets, SameSets
<1>4. /\ m_was_clean[e] => m_was_clean'[e]
      /\ m_was_clean'[o] = m_was_clean[o]
  BY <1>o DEF StateTypes
<1>5. completing'[o] = completing[o] /\ (completing'[e] => completing[e])
  BY <1>o DEF StateTypes
<1>6. sock'[o] = sock[o] /\ m_state'[o] = m_state[o]
  BY <1>o DEF Terminate, StateTypes
<1>7. m_state[e] = "closed" <=> sock[e] # "up"
  BY DEF SocketsFollow
<1>8. \/ m_state'[e] = m_state[e] /\ sock'[e] = sock[e]
      \/ m_state[e] # "closed" /\ m_state'[e] = "closed" /\ sock'[e] = "shutting"
  BY DEF Terminate, StateTypes
<1>9. Keeps(e)
  BY <1>4, <1>7, <1>8, SameSets DEF Keeps
<1>10. QueueEffect(e) /\ CompletingEffect(e) /\ ClosedEffect(e)
  BY <1>3, <1>5, <1>7, <1>8 DEF QueueEffect, CompletingEffect, ClosedEffect
<1>11. Keeps(o) /\ QueueEffect(o) /\ CompletingEffect(o) /\ ClosedEffect(o)
  BY <1>2, <1>3, <1>4, <1>5, <1>6, <1>o, OtherEffect
<1> QED
  BY <1>2, <1>9, <1>10, <1>11, <1>o DEF Effects

\* send() of e.
LEMMA MessageEffects ==
    ASSUME WireInv, StateTypes, NEW e \in Endpoints, Send(e) \/ SendBig(e)
    PROVE  Effects
<1> DEFINE o == Other(e)
<1>o. o \in Endpoints /\ o # e /\ \A x \in Endpoints : x = e \/ x = o
  BY OtherIsEndpoint, Opposite
<1>1. UNCHANGED <<m_was_clean, sent, sock, m_state, completing, to>>
  BY DEF Send, SendBig, epVars
<1>2. ComingEffect(e) /\ ComingEffect(o)
  BY <1>o, <1>1, SameSets, ComingSame
<1>3. PICK f \in Sendable : /\ f = Item("data") \/ (f = Item("big") /\ big' # 0)
                            /\ out' = [out EXCEPT ![e] = Append(@, f)]
  <2>1. CASE Send(e)
    BY <2>1, ItemsSendable DEF Send
  <2>2. CASE SendBig(e)
    <3>1. big' # 0 /\ out' = [out EXCEPT ![e] = Append(@, Item("big"))]
      BY <2>2 DEF SendBig, StateTypes
    <3> QED
      BY <3>1, ItemsSendable
  <2> QED
    BY <2>1, <2>2
<1>4. Queue(e)' = Queue(e) \cup {f} /\ out'[o] = out[o]
  BY <1>3, QueueSets
<1>5. QueueEffect(e)
  BY <1>3, <1>4 DEF QueueEffect
<1>6. Keeps(e) /\ CompletingEffect(e) /\ ClosedEffect(e)
  BY <1>1, SameSets DEF Keeps, CompletingEffect, ClosedEffect
<1>7. Keeps(o) /\ QueueEffect(o) /\ CompletingEffect(o) /\ ClosedEffect(o)
  BY <1>1, <1>2, <1>4, <1>o, OtherEffect
<1> QED
  BY <1>2, <1>5, <1>6, <1>7, <1>o DEF Effects

\* A frame of e is written.
LEMMA WriteEffects ==
    ASSUME WireInv, StateTypes, NEW e \in Endpoints, Write(e)
    PROVE  Effects
<1> DEFINE o == Other(e)
           f == Head(out[e])
<1>o. o \in Endpoints /\ o # e /\ Other(o) = e /\ \A x \in Endpoints : x = e \/ x = o
  BY OtherIsEndpoint, Opposite
<1>1. /\ f \in Queue(e) /\ f \in Sendable
      /\ Queue(e)' \subseteq Queue(e) /\ Queue(o)' = Queue(o)
      /\ Coming(o)' = Coming(o) \cup {f} /\ Coming(e)' = Coming(e)
      /\ Written(e)' = Written(e) \cup (IF f.kind = "close" THEN {f} ELSE {})
      /\ Written(o)' = Written(o)
  BY WriteSets
<1>2. /\ UNCHANGED <<m_was_clean, sock, m_state>>
      /\ completing' = [completing EXCEPT ![e] = f.terminal]
  BY DEF Write, epVars
<1>3. completing'[e] = f.terminal /\ completing'[o] = completing[o]
  BY <1>2, <1>o DEF StateTypes
<1> HIDE DEF f
<1>4. ComingEffect(e) /\ ComingEffect(o)
  BY <1>1, <1>o DEF ComingEffect
<1>5. QueueEffect(e) /\ QueueEffect(o)
  BY <1>1 DEF QueueEffect
<1>6. CompletingEffect(e) /\ CompletingEffect(o)
  BY <1>1, <1>3 DEF CompletingEffect
<1>7. Keeps(e) /\ Keeps(o) /\ ClosedEffect(e) /\ ClosedEffect(o)
  BY <1>1, <1>2 DEF Keeps, ClosedEffect
<1> QED
  BY <1>4, <1>5, <1>6, <1>7, <1>o DEF Effects

\* The socket of e is closed.
LEMMA ShutEffects ==
    ASSUME WireInv, StateTypes, NEW e \in Endpoints, HandleTerminate(e)
    PROVE  Effects
<1> DEFINE o == Other(e)
<1>o. o \in Endpoints /\ o # e /\ Other(o) = e /\ \A x \in Endpoints : x = e \/ x = o
  BY OtherIsEndpoint, Opposite
<1>1. /\ sock[e] = "shutting" /\ sock' = [sock EXCEPT ![e] = "down"]
      /\ out' = [out EXCEPT ![e] = <<>>]
      /\ to' = [to EXCEPT ![o] = Append(@, Item("eof"))]
      /\ UNCHANGED <<m_was_clean, sent, m_state, completing>>
  BY DEF HandleTerminate, epVars
<1>2. sock'[e] = "down" /\ sock'[o] = sock[o]
  BY <1>1, <1>o DEF StateTypes
<1>3. Coming(e)' = Coming(e) /\ Coming(o)' = Coming(o) \cup {Item("eof")}
  <2>1. to'[e] = to[e] /\ to'[o] = Append(to[o], Item("eof")) /\ to[o] \in Seq(Sendable)
    BY <1>1, <1>o DEF WireInv
  <2>2. ToSet(Append(to[o], Item("eof"))) = ToSet(to[o]) \cup {Item("eof")}
    BY <2>1, ItemsSendable, SetOfAppend
  <2> QED
    BY <2>1, <2>2 DEF Coming
<1>4. ComingEffect(e) /\ ComingEffect(o)
  BY <1>2, <1>3, <1>o DEF ComingEffect
<1>5. Queue(e)' = {} /\ out'[o] = out[o]
  BY <1>1, QueueSets
<1>6. Keeps(e) /\ QueueEffect(e) /\ CompletingEffect(e) /\ ClosedEffect(e)
  BY <1>1, <1>2, <1>5, SameSets DEF Keeps, QueueEffect, CompletingEffect, ClosedEffect
<1>7. Keeps(o) /\ QueueEffect(o) /\ CompletingEffect(o) /\ ClosedEffect(o)
  BY <1>1, <1>2, <1>4, <1>5, <1>o, OtherEffect
<1> QED
  BY <1>4, <1>6, <1>7, <1>o DEF Effects

LEMMA StepEffects ==
    ASSUME CloseAssumption, WireInv, WireInv', StateTypes, SocketsFollow, [Next]_vars
    PROVE  Effects
<1>b. /\ \A code : terminal(code) \in BOOLEAN
      /\ \A x : AckTerminal(x) \in BOOLEAN
      /\ ~terminal(blank)
  BY DEF terminal, AckTerminal, blank
<1>r. "short" \in Reasons /\ "none" \in Reasons
  BY DEF Reasons
<1>1. CASE UNCHANGED vars
  BY <1>1 DEF vars, epVars, Effects, Keeps, QueueEffect, ComingEffect,
              CompletingEffect, ClosedEffect, Queue, Coming, Written
<1>2. CASE Next
  <2>1. PICK e \in Endpoints :
           \/ \E code \in AppCodes, reason \in AppReasons :
                 Close(e, code, reason)
           \/ Send(e) \/ SendBig(e)
           \/ Write(e) \/ TerminalWritten(e) \/ HandleTerminate(e)
           \/ Timeout(e) \/ StrayTimeout(e)
           \/ Recv(e) \/ Reset(e)
    BY <1>2 DEF Next
  <2>2. ASSUME NEW code \in AppCodes, NEW reason \in AppReasons,
               Close(e, code, reason)
        PROVE  Effects
    <3> DEFINE r == IF code = blank THEN "none" ELSE Truncated(reason)
               term == terminal(code)
    <3>1. code \in Codes /\ reason \in {"none", "short", "long", "long_cut"}
      BY AppTypes
    <3>2. r \in Reasons /\ term \in BOOLEAN
      BY <1>b, <3>1, TruncatedTypes DEF Reasons
    <3>3. SendClose(e, code, r, FALSE, term) /\ m_state[e] # "closed"
      BY <2>2 DEF Close
    <3>4. UNCHANGED <<to, sent, sock, completing>>
      BY <2>2 DEF Close
    <3>5. term => terminal(Chosen(e, code, FALSE))
      BY <1>b DEF Chosen
    <3> HIDE DEF r, term
    <3> QED
      BY <3>1, <3>2, <3>3, <3>4, <3>5, SendEffects
  <2>3. CASE Send(e) \/ SendBig(e) \/ Write(e) \/ HandleTerminate(e)
    BY <2>3, MessageEffects, WriteEffects, ShutEffects
  <2>4. CASE TerminalWritten(e) \/ Timeout(e) \/ StrayTimeout(e) \/ Reset(e)
    <3>1. /\ \E failed : Terminate(e, failed)
          /\ UNCHANGED <<m_was_clean, sent, to>>
          /\ out' = out \/ out' = [out EXCEPT ![e] = <<>>]
          /\ completing' = completing \/ completing' = [completing EXCEPT ![e] = FALSE]
      BY <2>4 DEF TerminalWritten, Timeout, StrayTimeout, Reset
    <3> QED
      BY <3>1, EndEffects
  <2>5. CASE RecvIgnored(e)
    <3>1. /\ \E kind : Delivers(e, kind)
          /\ UNCHANGED <<m_state, sock, m_was_clean, out, completing, sent>>
      BY <2>5 DEF RecvIgnored, epVars
    <3> QED
      BY <3>1, EndEffects
  <2>6. CASE RecvBadClose(e)
    <3> DEFINE term == AckTerminal(e)
    <3>1. /\ SendClose(e, protocol_error, "short", TRUE, term)
          /\ Delivers(e, "close") /\ m_state[e] # "closed"
          /\ UNCHANGED <<sent, sock, completing>>
      BY <2>6 DEF RecvBadClose
    <3>2. term \in BOOLEAN /\ (term => e = "server")
      BY DEF AckTerminal
    <3> HIDE DEF term
    <3> QED
      BY <1>r, <3>1, <3>2, OwnCodes, SendEffects
  <2>7. CASE RecvClose(e)
    <3> DEFINE term == AckTerminal(e)
               r == IF Head(to[e]).code = no_status THEN "none"
                    ELSE Head(to[e]).reason
    <3>1. /\ SendClose(e, blank, r, TRUE, term)
          /\ Delivers(e, "close") /\ m_state[e] # "closed"
          /\ UNCHANGED <<sent, sock, completing>>
      BY <2>7 DEF RecvClose
    <3>2. term \in BOOLEAN /\ (term => e = "server")
      BY DEF AckTerminal
    <3>3. Head(to[e]) \in Sendable
      BY <3>1, DeliversTypes
    <3>4. r \in Reasons
      BY <3>3 DEF Reasons, Sendable, Items
    <3> HIDE DEF term, r
    <3> QED
      BY <3>1, <3>2, <3>4, OwnCodes, SendEffects
  <2>8. CASE RecvAck(e) \/ RecvEof(e)
    <3>1. /\ \E kind : Delivers(e, kind)
          /\ \/ \E failed : Terminate(e, failed)
             \/ UNCHANGED <<m_state, sock>>
          /\ m_was_clean' = m_was_clean \/ m_was_clean' = [m_was_clean EXCEPT ![e] = TRUE]
          /\ UNCHANGED <<out, completing, sent>>
      BY <2>8 DEF RecvAck, RecvEof
    <3> QED
      BY <3>1, EndEffects
  <2>9. CASE RecvBig(e)
    <3>1. /\ Delivers(e, "big") /\ m_state[e] # "closed"
          /\ UNCHANGED <<sent, completing>>
      BY <2>9 DEF RecvBig
    <3>2. CASE m_state[e] = "open"
      <4> DEFINE term == terminal(message_too_big)
      <4>1. /\ SendClose(e, message_too_big, "short", FALSE, term)
            /\ UNCHANGED sock
        BY <2>9, <3>2 DEF RecvBig
      <4>2. term \in BOOLEAN /\ Chosen(e, message_too_big, FALSE) = message_too_big
        BY <1>b DEF Chosen, message_too_big, blank
      <4>3. term => terminal(Chosen(e, message_too_big, FALSE))
        BY <4>2
      <4> HIDE DEF term
      <4> QED
        BY <1>r, <3>1, <4>1, <4>2, <4>3, OwnCodes, SendEffects
    <3>3. CASE m_state[e] # "open"
      <4>1. Terminate(e, TRUE) /\ UNCHANGED <<m_was_clean, out>>
        BY <2>9, <3>3 DEF RecvBig
      <4> QED
        BY <3>1, <4>1, EndEffects
    <3> QED
      BY <3>2, <3>3
  <2> QED
    BY <2>1, <2>2, <2>3, <2>4, <2>5, <2>6, <2>7, <2>8, <2>9 DEF Recv
<1> QED
  BY <1>1, <1>2

-----------------------------------------------------------------------------
(***************************************************************************)
(* What holds of every handshake.                                          *)
(***************************************************************************)
BaseInv == TimersOff /\ NoneBig /\ TerminalFrames /\ WrittenFirst /\ SocketsFollow

LEMMA BaseInit == Init => BaseInv
<1> SUFFICES ASSUME Init PROVE BaseInv
  OBVIOUS
<1>1. \A e \in Endpoints : Queue(e) = {} /\ Coming(e) = {}
  BY SetOfEmpty DEF Init, Queue, Coming
<1>2. \A e \in Endpoints : /\ ~timer[e] /\ stray[e] = 0 /\ ~completing[e]
                           /\ m_state[e] = "open" /\ sock[e] = "up"
  BY DEF Init
<1> QED
  BY <1>1, <1>2 DEF BaseInv, TimersOff, NoneBig, TerminalFrames, WrittenFirst,
                    SocketsFollow

\* The counters and the timers.
LEMMA TimersStep ==
    ASSUME StateTypes, TimersOff, [Next]_vars
    PROVE  TimersOff' /\ (big' = 0 => big = 0)
<1> DEFINE Off == \A x \in Endpoints : ~timer[x] /\ stray[x] = 0
           Same == /\ has_timer' = has_timer
                   /\ big' = 0 => big = 0
                   /\ ~has_timer /\ Off => Off'
<1>1. SUFFICES Same
  BY DEF TimersOff
<1>s. ASSUME NEW e \in Endpoints, NEW code, NEW reason, NEW ack, NEW term,
             SendClose(e, code, reason, ack, term)
      PROVE  ~has_timer /\ Off => Off'
  <2>1. CASE UNCHANGED <<timer, stray>>
    BY <2>1
  <2>2. CASE /\ timer' = [timer EXCEPT ![e] = has_timer]
             /\ stray' = [stray EXCEPT ![e] = IF timer[e] THEN @ + 1 ELSE @]
    BY <2>2 DEF StateTypes
  <2> QED
    BY <1>s, <2>1, <2>2 DEF SendClose
<1>t. ASSUME NEW e \in Endpoints, NEW failed, Terminate(e, failed), UNCHANGED stray
      PROVE  Off => Off'
  BY <1>t DEF Terminate, StateTypes
<1>2. CASE UNCHANGED vars
  BY <1>2 DEF vars, epVars
<1>3. CASE Next
  <2>1. PICK e \in Endpoints :
           \/ \E code \in AppCodes, reason \in AppReasons :
                 Close(e, code, reason)
           \/ Send(e) \/ SendBig(e)
           \/ Write(e) \/ TerminalWritten(e) \/ HandleTerminate(e)
           \/ Timeout(e) \/ StrayTimeout(e)
           \/ Recv(e) \/ Reset(e)
    BY <1>3 DEF Next
  <2>2. CASE Send(e) \/ SendBig(e) \/ Write(e) \/ HandleTerminate(e) \/ RecvIgnored(e)
    <3>1. UNCHANGED <<has_timer, timer, stray>>
      BY <2>2 DEF Send, SendBig, Write, HandleTerminate, RecvIgnored, epVars
    <3>2. big' = 0 => big = 0
      BY <2>2 DEF Send, SendBig, Write, HandleTerminate, RecvIgnored, StateTypes
    <3> QED
      BY <3>1, <3>2
  <2>3. CASE TerminalWritten(e) \/ Timeout(e) \/ Reset(e) \/ RecvEof(e)
    <3>1. /\ UNCHANGED <<has_timer, big, stray>>
          /\ \E failed : Terminate(e, failed)
      BY <2>3 DEF TerminalWritten, Timeout, Reset, RecvEof
    <3> QED
      BY <1>t, <3>1
  <2>4. CASE StrayTimeout(e)
    <3>1. UNCHANGED <<has_timer, big>> /\ ~Off
      BY <2>4 DEF StrayTimeout
    <3> QED
      BY <3>1
  <2>5. CASE (\E code, reason : Close(e, code, reason)) \/ RecvBadClose(e) \/ RecvClose(e)
    <3>1. /\ UNCHANGED <<has_timer, big>>
          /\ \E code, reason, ack, term : SendClose(e, code, reason, ack, term)
      BY <2>5 DEF Close, RecvBadClose, RecvClose
    <3> QED
      BY <1>s, <3>1
  <2>6. CASE RecvAck(e)
    <3>1. /\ UNCHANGED <<has_timer, big, stray>>
          /\ Terminate(e, FALSE) \/ UNCHANGED timer
      BY <2>6 DEF RecvAck
    <3> QED
      BY <1>t, <3>1
  <2>7. CASE RecvBig(e)
    <3>1. UNCHANGED <<has_timer, big>>
      BY <2>7 DEF RecvBig
    <3>2. \/ \E code, reason, ack, term : SendClose(e, code, reason, ack, term)
          \/ Terminate(e, TRUE) /\ UNCHANGED stray
      BY <2>7 DEF RecvBig
    <3> QED
      BY <1>s, <1>t, <3>1, <3>2
  <2> QED
    BY <2>1, <2>2, <2>3, <2>4, <2>5, <2>6, <2>7 DEF Recv
<1> QED
  BY <1>2, <1>3

LEMMA BaseStep ==
    ASSUME CloseAssumption, WireInv, WireInv', StateTypes, BaseInv, [Next]_vars
    PROVE  BaseInv'
<1>1. Effects
  BY StepEffects DEF BaseInv
<1>2. TimersOff' /\ (big' = 0 => big = 0)
  BY TimersStep DEF BaseInv
<1>o. \A x \in Endpoints : Other(x) \in Endpoints /\ Other(Other(x)) = x
  BY OtherIsEndpoint, Opposite
<1>i. /\ Item("data").kind = "data" /\ ~Item("data").terminal
      /\ Item("big").kind = "big" /\ ~Item("big").terminal
      /\ Item("eof").kind = "eof"
      /\ \A f \in CloseFrames : f.kind = "close"
  BY DEF Item, Frame, CloseFrames
<1>3. NoneBig'
  <2> SUFFICES ASSUME big' = 0, NEW x \in Endpoints,
                      NEW f \in Queue(x)' \cup Coming(x)'
               PROVE  f.kind # "big"
    BY DEF NoneBig
  <2>1. \A y \in Endpoints : \A g \in Queue(y) \cup Coming(y) : g.kind # "big"
    BY <1>2 DEF BaseInv, NoneBig
  <2>2. QueueEffect(x) /\ ComingEffect(x)
    BY <1>1 DEF Effects
  <2> QED
    BY <1>i, <1>o, <2>1, <2>2 DEF QueueEffect, ComingEffect
<1>4. WrittenFirst'
  <2> SUFFICES ASSUME NEW x \in Endpoints, NEW f \in Coming(x)', f.kind = "close"
               PROVE  f \in Written(Other(x))'
    BY DEF WrittenFirst
  <2>1. f \in Coming(x) => f \in Written(Other(x))
    BY DEF BaseInv, WrittenFirst
  <2>2. ComingEffect(x) /\ Written(Other(x)) \subseteq Written(Other(x))'
    BY <1>1, <1>o DEF Effects, Keeps
  <2> QED
    BY <1>i, <2>1, <2>2 DEF ComingEffect
<1>5. SocketsFollow'
  <2> SUFFICES ASSUME NEW x \in Endpoints
               PROVE  /\ m_state'[x] = "closed" <=> sock'[x] # "up"
                      /\ \A f \in Coming(x)' :
                            f.kind = "eof" => sock'[Other(x)] = "down"
                      /\ \A f \in Queue(x)' : f.kind # "eof"
    BY DEF SocketsFollow
  <2>1. \A y \in Endpoints :
           /\ m_state[y] = "closed" <=> sock[y] # "up"
           /\ \A f \in Coming(y) : f.kind = "eof" => sock[Other(y)] = "down"
           /\ \A f \in Queue(y) : f.kind # "eof"
    BY DEF BaseInv, SocketsFollow
  <2>2. ClosedEffect(x) /\ ComingEffect(x) /\ QueueEffect(x) /\ Keeps(Other(x))
    BY <1>1, <1>o DEF Effects
  <2>3. m_state'[x] = "closed" <=> sock'[x] # "up"
    BY <2>1, <2>2 DEF ClosedEffect
  <2>4. ASSUME NEW f \in Coming(x)', f.kind = "eof" PROVE sock'[Other(x)] = "down"
    BY <1>o, <2>1, <2>2, <2>4 DEF ComingEffect, Keeps
  <2>5. \A f \in Queue(x)' : f.kind # "eof"
    BY <1>i, <2>1, <2>2 DEF QueueEffect
  <2> QED
    BY <2>3, <2>4, <2>5
<1>6. TerminalFrames'
  <2> SUFFICES ASSUME NEW x \in Endpoints
               PROVE  /\ \A f \in Queue(x)' :
                            f.terminal => f.kind = "close" /\ MayEnd(x, f)'
                      /\ completing'[x] => \E f \in Written(x)' : MayEnd(x, f)'
    BY DEF TerminalFrames
  <2>1. /\ \A f \in Queue(x) : f.terminal => f.kind = "close" /\ MayEnd(x, f)
        /\ completing[x] => \E f \in Written(x) : MayEnd(x, f)
    BY DEF BaseInv, TerminalFrames
  <2>2. Keeps(x) /\ QueueEffect(x) /\ CompletingEffect(x)
    BY <1>1 DEF Effects
  <2>3. \A f : MayEnd(x, f) => MayEnd(x, f)'
    BY <2>2 DEF MayEnd, Keeps
  <2>4. \A f \in Queue(x)' : f.terminal => f.kind = "close" /\ MayEnd(x, f)'
    BY <1>i, <2>1, <2>2, <2>3 DEF QueueEffect
  <2>5. completing'[x] => \E f \in Written(x)' : MayEnd(x, f)'
    BY <2>1, <2>2, <2>3 DEF CompletingEffect, Keeps
  <2> QED
    BY <2>4, <2>5
<1> QED
  BY <1>2, <1>3, <1>4, <1>5, <1>6 DEF BaseInv

-----------------------------------------------------------------------------
(***************************************************************************)
(* A handshake that nothing disturbed.                                     *)
(***************************************************************************)
\* Undisturbed, as a condition on what was written.
LEMMA UndisturbedMeans ==
    Undisturbed <=>
       /\ ~has_timer /\ big = 0 /\ resets = 0
       /\ \A e \in Endpoints : \A f \in Written(e) : ~terminal(f.code) /\ Acceptable(f)
BY DEF Undisturbed, Written, ToSet

\* What was disturbed stays so.
LEMMA StaysDisturbed ==
    ASSUME StateTypes, Effects, [Next]_vars, Undisturbed'
    PROVE  Undisturbed
<1>1. has_timer' = has_timer /\ (big' = 0 => big = 0) /\ (resets' = 0 => resets = 0)
  <2>1. CASE UNCHANGED vars
    BY <2>1 DEF vars, epVars
  <2>2. CASE Next
    <3>1. PICK e \in Endpoints :
             \/ \E code \in AppCodes, reason \in AppReasons :
                   Close(e, code, reason)
             \/ Send(e) \/ SendBig(e)
             \/ Write(e) \/ TerminalWritten(e) \/ HandleTerminate(e)
             \/ Timeout(e) \/ StrayTimeout(e)
             \/ Recv(e) \/ Reset(e)
      BY <2>2 DEF Next
    <3>2. CASE SendBig(e) \/ Reset(e)
      <4>1. CASE SendBig(e)
        BY <4>1 DEF SendBig, epVars, StateTypes
      <4>2. CASE Reset(e)
        BY <4>2 DEF Reset, StateTypes
      <4> QED
        BY <3>2, <4>1, <4>2
    <3>3. CASE ~(SendBig(e) \/ Reset(e))
      <4>1. UNCHANGED <<has_timer, big, resets>>
        BY <3>1, <3>3 DEF Close, Send, Write, TerminalWritten, HandleTerminate,
              Timeout, StrayTimeout, Recv, RecvIgnored, RecvBadClose, RecvClose,
              RecvAck, RecvBig, RecvEof, epVars
      <4> QED
        BY <4>1
    <3> QED
      BY <3>2, <3>3
  <2> QED
    BY <2>1, <2>2
<1>2. /\ ~has_timer' /\ big' = 0 /\ resets' = 0
      /\ \A e \in Endpoints : \A f \in Written(e)' : ~terminal(f.code) /\ Acceptable(f)
  BY DEF Undisturbed, Written, ToSet
<1>3. \A e \in Endpoints : Written(e) \subseteq Written(e)'
  BY DEF Effects, Keeps
<1> QED
  BY <1>1, <1>2, <1>3, UndisturbedMeans

\* An open endpoint has made no close frame.
LEMMA OpenIsSilent ==
    ASSUME WireInv, CountInv, NEW e \in Endpoints, m_state[e] = "open"
    PROVE  /\ \A f \in Queue(e) : f.kind # "close"
           /\ sent[e] = <<>> /\ Written(e) = {}
<1>1. CountIn(out[e], CloseFrames) = 0 /\ sent[e] = <<>>
  BY DEF CountInv, Queued
<1>2. out[e] \in Seq(Sendable)
  BY DEF WireInv
<1>3. \A i \in DOMAIN out[e] : out[e][i] \notin CloseFrames
  BY <1>1, <1>2, CountZero
<1>4. ToSet(out[e]) \subseteq Sendable
  BY <1>2, SetOfType
<1>5. \A f \in Queue(e) : f \in Sendable /\ f \notin CloseFrames
  BY <1>3, <1>4 DEF Queue, ToSet
<1> QED
  BY <1>1, <1>5, SetOfEmpty DEF CloseFrames, Written

\* The close frame that comes first stays first behind what is sent later, and
\* when something else is received.
LEMMA FirstBehind ==
    ASSUME NEW T, to["client"] \in Seq(T), NEW f \in T,
           to'["client"] = Append(to["client"], f),
           \/ CloseComesFirst
           \/ f.kind = "close" /\ \A g \in Coming("client") : g.kind # "eof"
    PROVE  CloseComesFirst'
<1> DEFINE s == to["client"]
           n == Len(s) + 1
           t == Append(s, f)
<1>1. /\ DOMAIN s = 1 .. Len(s) /\ DOMAIN t = 1 .. n /\ t[n] = f /\ Len(s) \in Nat
      /\ \A i \in 1 .. Len(s) : t[i] = s[i]
  OBVIOUS
<1>2. to'["client"] = t
  OBVIOUS
<1>3. CASE CloseComesFirst
  <2>1. PICK i \in DOMAIN s : s[i].kind = "close" /\ \A j \in 1 .. i : s[j].kind # "eof"
    BY <1>3 DEF CloseComesFirst
  <2>2. i \in DOMAIN t /\ t[i] = s[i] /\ \A j \in 1 .. i : t[j] = s[j]
    BY <1>1
  <2> HIDE DEF t
  <2>3. i \in DOMAIN t /\ t[i].kind = "close" /\ \A j \in 1 .. i : t[j].kind # "eof"
    BY <2>1, <2>2
  <2> QED
    BY <1>2, <2>3 DEF CloseComesFirst
<1>4. CASE f.kind = "close" /\ \A g \in Coming("client") : g.kind # "eof"
  <2>1. \A j \in 1 .. Len(s) : s[j].kind # "eof"
    BY <1>1, <1>4 DEF Coming, ToSet
  <2> HIDE DEF t
  <2>2. n \in DOMAIN t /\ t[n].kind = "close" /\ \A j \in 1 .. n : t[j].kind # "eof"
    <3>1. \A j \in 1 .. n : j = n \/ j \in 1 .. Len(s)
      BY <1>1
    <3> QED
      BY <1>1, <1>4, <2>1, <3>1
  <2> HIDE DEF n
  <2> QED
    BY <1>2, <2>2 DEF CloseComesFirst
<1> QED
  BY <1>3, <1>4

LEMMA FirstReceived ==
    ASSUME NEW T, to["client"] \in Seq(T), to["client"] # <<>>, CloseComesFirst
    PROVE  /\ Head(to["client"]).kind # "eof"
           /\ Head(to["client"]).kind # "close" /\ to'["client"] = Tail(to["client"])
                 => CloseComesFirst'
<1> DEFINE s == to["client"]
           t == Tail(s)
<1>1. PICK i \in DOMAIN s : s[i].kind = "close" /\ \A j \in 1 .. i : s[j].kind # "eof"
  BY DEF CloseComesFirst
<1>2. /\ DOMAIN s = 1 .. Len(s) /\ Len(s) \in Nat /\ Head(s) = s[1]
      /\ DOMAIN t = 1 .. (Len(s) - 1)
      /\ \A j \in 1 .. (Len(s) - 1) : t[j] = s[j + 1]
  OBVIOUS
<1>3. Head(s).kind # "eof"
  BY <1>1, <1>2
<1>4. ASSUME Head(s).kind # "close", to'["client"] = t PROVE CloseComesFirst'
  <2>1. i # 1
    BY <1>1, <1>2, <1>4
  <2>2. i - 1 \in DOMAIN t /\ t[i - 1] = s[i]
    BY <1>2, <2>1
  <2>3. \A j \in 1 .. (i - 1) : j + 1 \in 1 .. i /\ t[j] = s[j + 1]
    BY <1>2
  <2> HIDE DEF t
  <2>4. \A j \in 1 .. (i - 1) : t[j].kind # "eof"
    BY <1>1, <2>3
  <2> DEFINE k == i - 1
  <2>5. k \in DOMAIN t /\ t[k].kind = "close" /\ \A j \in 1 .. k : t[j].kind # "eof"
    BY <1>1, <2>2, <2>4
  <2> HIDE DEF k
  <2> QED
    BY <1>4, <2>5 DEF CloseComesFirst
<1> QED
  BY <1>3, <1>4

\* The inductive invariant, in an undisturbed handshake.
Calm == /\ StateTypes /\ WireInv /\ CountInv /\ BaseInv
        /\ Undisturbed /\ Knows

LEMMA BothEnds == "client" \in Endpoints /\ "server" \in Endpoints
                  /\ Other("client") = "server" /\ Other("server") = "client"
                  /\ \A e \in Endpoints : e = "client" \/ e = "server"
BY DEF Endpoints, Other

\* Nothing that a calm handshake delivers is refused; the server alone completes
\* a terminal frame, its answer; and only a client that is closing sees the end
\* of the connection.
LEMMA CalmFacts ==
    ASSUME Calm, NEW e \in Endpoints
    PROVE  /\ ~timer[e] /\ stray[e] = 0
           /\ \A f \in Queue(e) \cup Coming(e) : f.kind # "big"
           /\ \A f \in Coming(e) : f.kind = "close" =>
                 f \in Written(Other(e)) /\ Acceptable(f)
           /\ completing[e] => /\ e = "server" /\ m_was_clean["server"]
                               /\ sent["server"] # <<>>
           /\ \A f \in Coming(e) : f.kind = "eof" /\ m_state[e] # "closed" =>
                 e = "client" /\ m_state["client"] = "closing"
<1>c. Other(e) \in Endpoints
  BY OtherIsEndpoint
<1>u. /\ ~has_timer /\ big = 0 /\ resets = 0
      /\ \A x \in Endpoints : \A f \in Written(x) : ~terminal(f.code) /\ Acceptable(f)
  BY UndisturbedMeans DEF Calm
<1>1. ~timer[e] /\ stray[e] = 0
  BY <1>u DEF Calm, BaseInv, TimersOff
<1>2. \A f \in Queue(e) \cup Coming(e) : f.kind # "big"
  BY <1>u DEF Calm, BaseInv, NoneBig
<1>3. \A f \in Coming(e) : f.kind = "close" =>
         f \in Written(Other(e)) /\ Acceptable(f)
  BY <1>c, <1>u DEF Calm, BaseInv, WrittenFirst
<1>4. ASSUME completing[e]
      PROVE  e = "server" /\ m_was_clean["server"] /\ sent["server"] # <<>>
  <2>1. PICK f \in Written(e) : MayEnd(e, f)
    BY <1>4 DEF Calm, BaseInv, TerminalFrames
  <2>2. e = "server" /\ m_was_clean["server"]
    BY <1>u, <2>1 DEF MayEnd
  <2>3. sent[e] # <<>>
    BY <2>1, SetOfEmpty DEF Written
  <2> QED
    BY <2>2, <2>3
<1>5. ASSUME NEW f \in Coming(e), f.kind = "eof", m_state[e] # "closed"
      PROVE  e = "client" /\ m_state["client"] = "closing"
  <2>1. sock[Other(e)] = "down"
    BY <1>5 DEF Calm, BaseInv, SocketsFollow
  <2>2. m_state[Other(e)] = "closed"
    BY <1>c, <2>1 DEF Calm, BaseInv, SocketsFollow
  <2>3. e = "client"
    <3> SUFFICES ASSUME e = "server" PROVE FALSE
      BY BothEnds
    <3>1. sock["server"] = "down"
      BY <2>2, BothEnds DEF Calm, Knows, ServerEnds
    <3> QED
      BY <1>5, <3>1, BothEnds DEF Calm, BaseInv, SocketsFollow
  <2>4. m_was_clean["server"]
    BY <2>2, <2>3, BothEnds DEF Calm, Knows, ServerEnds
  <2>5. Written("client") # {}
    BY <2>4, BothEnds DEF Calm, Knows, EndKnows
  <2>6. m_state["client"] # "open"
    BY <2>5, BothEnds, OpenIsSilent DEF Calm
  <2>7. m_state["client"] \in {"open", "closing", "closed"}
    BY BothEnds DEF Calm, StateTypes
  <2> QED
    BY <1>5, <2>3, <2>6, <2>7
<1> QED
  BY <1>1, <1>2, <1>3, <1>4, <1>5

\* An endpoint whose state a step leaves alone, but that may lose or write what it
\* queued, or queue what is no close frame.
LEMMA EndSame ==
    ASSUME Calm, Effects, NEW x \in Endpoints,
           /\ m_state'[x] = m_state[x] /\ m_was_clean'[x] = m_was_clean[x]
           /\ local'[x] = local[x] /\ remote'[x] = remote[x] /\ calls'[x] = calls[x],
           \A f \in Queue(x)' \cup Written(x)' :
              f \in Queue(x) \cup Written(x) \/ f.kind # "close"
    PROVE  EndKnows(x)'
<1>1. EndKnows(x)
  BY DEF Calm, Knows
<1>2. Written(Other(x)) \subseteq Written(Other(x))'
  BY OtherIsEndpoint DEF Effects, Keeps
<1> QED
  BY <1>1, <1>2 DEF EndKnows

\* The end of the connection, where no endpoint becomes closed.
LEMMA EndsSame ==
    ASSUME Calm, Effects,
           \A x \in Endpoints : m_state'[x] = "closed" => m_state[x] = "closed",
           \A x \in Endpoints : calls[x] > 0 => calls'[x] > 0
    PROVE  ServerEnds'
<1>1. /\ Keeps("server") /\ Keeps("client")
      /\ m_state'["client"] = "closed" => m_state["client"] = "closed"
      /\ m_state'["server"] = "closed" => m_state["server"] = "closed"
      /\ calls["server"] > 0 => calls'["server"] > 0
  BY BothEnds DEF Effects
<1>2. sent["server"] # <<>> => sent'["server"] # <<>>
  <2> SUFFICES ASSUME sent["server"] # <<>> PROVE sent'["server"] # <<>>
    OBVIOUS
  <2>1. sent["server"] \in Seq(CloseFrames)
    BY BothEnds DEF Calm, WireInv
  <2>2. Written("server") # {}
    BY <2>1, SetOfType DEF Written
  <2>3. Written("server")' # {}
    BY <1>1, <2>2 DEF Keeps
  <2> QED
    BY <2>3, SetOfEmpty DEF Written
<1>3. ServerEnds
  BY DEF Calm, Knows
<1> QED
  BY <1>1, <1>2, <1>3 DEF ServerEnds, Keeps

\* What the client knows, where the server writes no close frame and TCP brings
\* the client something that is none.
LEMMA ToldSame ==
    ASSUME Calm, Effects, sent'["server"] = sent["server"],
           m_state'["client"] = "closed" => m_state["client"] = "closed",
           \/ to'["client"] = to["client"]
           \/ \E f \in Sendable : to'["client"] = Append(to["client"], f)
           \/ /\ to["client"] # <<>> /\ to'["client"] = Tail(to["client"])
              /\ m_state["client"] = "closed" \/ Head(to["client"]).kind # "close"
    PROVE  ClientTold'
<1> SUFFICES ASSUME sent["server"] # <<>>, ~m_was_clean["client"]
             PROVE  m_state'["client"] # "closed" /\ CloseComesFirst'
  BY BothEnds DEF ClientTold, Effects, Keeps
<1>1. m_state["client"] # "closed" /\ CloseComesFirst
  BY DEF Calm, Knows, ClientTold
<1>2. to["client"] \in Seq(Sendable)
  BY BothEnds DEF Calm, WireInv
<1>3. CloseComesFirst'
  <2>1. CASE to'["client"] = to["client"]
    BY <1>1, <2>1 DEF CloseComesFirst
  <2>2. CASE \E f \in Sendable : to'["client"] = Append(to["client"], f)
    BY <1>1, <1>2, <2>2, FirstBehind
  <2>3. CASE /\ to["client"] # <<>> /\ to'["client"] = Tail(to["client"])
             /\ m_state["client"] = "closed" \/ Head(to["client"]).kind # "close"
    BY <1>1, <1>2, <2>3, FirstReceived
  <2> QED
    BY <2>1, <2>2, <2>3
<1> QED
  BY <1>1, <1>3

\* Messages, what a closed endpoint ignores, and the end of the socket.
LEMMA QuietKnows ==
    ASSUME Calm, Effects, NEW e \in Endpoints,
           Send(e) \/ RecvIgnored(e) \/ HandleTerminate(e)
    PROVE  Knows'
<1>t. to \in [Endpoints -> Seq(Sendable)]
  BY DEF Calm, WireInv
<1>1. UNCHANGED <<m_state, m_was_clean, local, remote, calls, sent>>
  BY DEF Send, RecvIgnored, HandleTerminate, epVars
<1>2. ASSUME NEW x \in Endpoints
      PROVE  \A f \in Queue(x)' : f \in Queue(x) \/ f.kind # "close"
  <2>1. Other(e) \in Endpoints /\ (x = e \/ x = Other(e))
    BY OtherIsEndpoint, Opposite
  <2>2. CASE Send(e)
    <3>1. Queue(e)' = Queue(e) \cup {Item("data")} /\ out'[Other(e)] = out[Other(e)]
      BY <2>2, ItemsSendable, QueueSets DEF Send, Calm
    <3> QED
      BY <2>1, <3>1, SameSets DEF Item, Frame
  <2>3. CASE RecvIgnored(e)
    BY <2>3 DEF RecvIgnored, Queue
  <2>4. CASE HandleTerminate(e)
    <3>1. Queue(e)' = {} /\ out'[Other(e)] = out[Other(e)]
      BY <2>4, QueueSets DEF HandleTerminate, Calm
    <3> QED
      BY <2>1, <3>1, SameSets
  <2> QED
    BY <2>2, <2>3, <2>4
<1>3. \A x \in Endpoints : EndKnows(x)'
  BY <1>1, <1>2, SameSets, EndSame
<1>4. ServerEnds'
  BY <1>1, EndsSame
<1>5. ClientTold'
  <2>1. CASE Send(e)
    BY <1>1, <2>1, ToldSame DEF Send
  <2>2. CASE HandleTerminate(e)
    <3>1. to'["client"] = to["client"]
          \/ to'["client"] = Append(to["client"], Item("eof"))
      BY <1>t, <2>2, BothEnds DEF HandleTerminate
    <3> QED
      BY <1>1, <3>1, ItemsSendable, ToldSame
  <2>3. CASE RecvIgnored(e)
    <3>1. PICK kind : Delivers(e, kind) /\ (kind = "data" \/ m_state[e] = "closed")
      BY <2>3 DEF RecvIgnored
    <3>2. CASE e = "client"
      <4>1. /\ to["client"] # <<>> /\ to'["client"] = Tail(to["client"])
            /\ m_state["client"] = "closed" \/ Head(to["client"]).kind # "close"
        BY <1>t, <3>1, <3>2, BothEnds DEF Delivers
      <4> QED
        BY <1>1, <4>1, ToldSame
    <3>3. CASE e # "client"
      <4>1. to'["client"] = to["client"]
        BY <1>t, <3>1, <3>3, BothEnds DEF Delivers
      <4> QED
        BY <1>1, <4>1, ToldSame
    <3> QED
      BY <3>2, <3>3
  <2> QED
    BY <2>1, <2>2, <2>3
<1> QED
  BY <1>3, <1>4, <1>5 DEF Knows

\* A close frame is written: the endpoint keeps its code, and the client will see
\* it before the end of the connection.
LEMMA WriteKnows ==
    ASSUME Calm, Effects, NEW e \in Endpoints, Write(e)
    PROVE  Knows'
<1> DEFINE o == Other(e)
           f == Head(out[e])
<1>o. o \in Endpoints /\ o # e /\ \A x \in Endpoints : x = e \/ x = o
  BY OtherIsEndpoint, Opposite
<1>1. UNCHANGED <<m_state, m_was_clean, local, remote, calls, sock>>
  BY DEF Write, epVars
<1>2. /\ f \in Queue(e) /\ f \in Sendable
      /\ Queue(e)' \subseteq Queue(e) /\ Queue(o)' = Queue(o)
      /\ Written(e)' = Written(e) \cup (IF f.kind = "close" THEN {f} ELSE {})
      /\ Written(o)' = Written(o)
  BY WriteSets DEF Calm
<1>3. to' = [to EXCEPT ![o] = Append(@, f)] /\ to \in [Endpoints -> Seq(Sendable)]
      /\ sent' = [sent EXCEPT ![e] = IF f.kind = "close" THEN Append(@, f) ELSE @]
      /\ sent \in [Endpoints -> Seq(CloseFrames)]
  BY DEF Calm, WireInv, Write
<1> HIDE DEF f
<1>4. \A x \in Endpoints : \A g \in Queue(x)' \cup Written(x)' :
         g \in Queue(x) \cup Written(x)
  BY <1>o, <1>2
<1>5. \A x \in Endpoints : EndKnows(x)'
  BY <1>1, <1>4, EndSame
<1>6. ServerEnds'
  BY <1>1, EndsSame
<1>7. ClientTold'
  <2>1. CASE e = "client"
    <3>1. to'["client"] = to["client"] /\ sent'["server"] = sent["server"]
      BY <1>3, <1>o, <2>1, BothEnds
    <3> QED
      BY <1>1, <3>1, ToldSame
  <2>2. CASE e = "server"
    <3>1. to'["client"] = Append(to["client"], f) /\ to["client"] \in Seq(Sendable)
      BY <1>3, <2>2, BothEnds
    <3>2. CASE f.kind # "close"
      <4>1. sent'["server"] = sent["server"]
        BY <1>3, <2>2, <3>2
      <4> QED
        BY <1>1, <1>2, <3>1, <4>1, ToldSame
    <3>3. CASE f.kind = "close"
      <4>1. sock["server"] # "down"
        BY <2>2 DEF Write
      <4>2. \A g \in Coming("client") : g.kind # "eof"
        BY <4>1, BothEnds DEF Calm, BaseInv, SocketsFollow
      <4>3. CloseComesFirst'
        BY <1>2, <3>1, <3>3, <4>2, FirstBehind
      <4>4. m_state["client"] # "closed"
        BY <4>1 DEF Calm, Knows, ServerEnds
      <4> QED
        BY <1>1, <4>3, <4>4 DEF ClientTold
    <3> QED
      BY <3>2, <3>3
  <2> QED
    BY <2>1, <2>2, BothEnds
<1> QED
  BY <1>5, <1>6, <1>7 DEF Knows

\* The server's terminal frame, its answer, is written: it ends the connection.
LEMMA TerminalKnows ==
    ASSUME Calm, Effects, NEW e \in Endpoints, TerminalWritten(e)
    PROVE  Knows'
<1>1. e = "server" /\ m_was_clean["server"] /\ sent["server"] # <<>>
  BY CalmFacts DEF TerminalWritten
<1>2. /\ UNCHANGED <<m_was_clean, remote, calls, sent, to>>
      /\ out' = [out EXCEPT ![e] = <<>>]
      /\ local' = local /\ m_state' = [m_state EXCEPT ![e] = "closed"]
  BY DEF TerminalWritten, Terminate, Calm, StateTypes
<1>3. m_state'["client"] = m_state["client"] /\ local'["client"] = local["client"]
  BY <1>1, <1>2, BothEnds DEF Calm, StateTypes
<1>4. \A x \in Endpoints : \A g \in Queue(x)' \cup Written(x)' :
         g \in Queue(x) \cup Written(x)
  <2>1. \A x \in Endpoints : Written(x)' = Written(x)
    BY <1>2, SameSets
  <2>2. Queue(e)' = {} /\ out'[Other(e)] = out[Other(e)]
    BY <1>2, QueueSets DEF Calm
  <2> QED
    BY <2>1, <2>2, Opposite, SameSets
<1>5. EndKnows("client")'
  BY <1>2, <1>3, <1>4, BothEnds, EndSame
<1>6. EndKnows("server")'
  <2>1. EndKnows("server")
    BY BothEnds DEF Calm, Knows
  <2>2. Written("client")' = Written("client")
    BY <1>2, SameSets, BothEnds
  <2> QED
    BY <1>1, <1>2, <1>4, <2>1, <2>2, BothEnds DEF EndKnows
<1>7. ServerEnds'
  <2>1. m_state["client"] = "closed" => sock["server"] = "down"
    BY DEF Calm, Knows, ServerEnds
  <2>2. sock["server"] = "down" => sock'["server"] = "down"
    BY BothEnds DEF Effects, Keeps
  <2> QED
    BY <1>1, <1>2, <1>3, <2>1, <2>2 DEF ServerEnds
<1>8. ClientTold'
  BY <1>2, <1>3, ToldSame
<1> QED
  BY <1>5, <1>6, <1>7, <1>8, BothEnds DEF Knows

\* What the applications and TCP do to disturb a handshake, and what follows from
\* it only, do not happen in a calm one.
LEMMA CalmExcludes ==
    ASSUME Calm, Undisturbed', NEW e \in Endpoints
    PROVE  ~(\/ SendBig(e) \/ Reset(e) \/ Timeout(e) \/ StrayTimeout(e)
             \/ RecvBig(e) \/ RecvBadClose(e))
<1>1. big \in Nat /\ resets \in Nat /\ big' = 0 /\ resets' = 0
  BY DEF Calm, StateTypes, Undisturbed
<1>2. ~SendBig(e) /\ ~Reset(e)
  <2>1. big' # big + 1 /\ resets' # resets + 1
    BY <1>1
  <2> QED
    BY <2>1 DEF SendBig, Reset
<1>3. ~Timeout(e) /\ ~StrayTimeout(e)
  <2>1. ~timer[e] /\ ~(stray[e] > 0)
    BY CalmFacts
  <2> QED
    BY <2>1 DEF Timeout, StrayTimeout
<1>4. \A kind : Delivers(e, kind) => Head(to[e]) \in Coming(e) /\ Head(to[e]).kind = kind
  BY DeliversSets DEF Calm
<1>5. ~RecvBig(e)
  BY <1>4, CalmFacts, ZenonT(60) DEF RecvBig
<1>6. ~RecvBadClose(e)
  BY <1>4, CalmFacts DEF RecvBadClose
<1> QED
  BY <1>2, <1>3, <1>5, <1>6

\* An endpoint that was open queues a close frame.
LEMMA SendKnows ==
    ASSUME Calm, Effects, NEW e \in Endpoints, m_state[e] = "open",
           NEW f \in CloseFrames, NEW ack \in BOOLEAN, QueuesClose(e, f, ack),
           UNCHANGED sent,
           \A x \in Endpoints : calls[x] > 0 => calls'[x] > 0,
           /\ ~ack /\ UNCHANGED <<remote, to>> /\ calls'[e] > 0
           \/ /\ ack
              /\ Head(to[e]) \in Written(Other(e))
              /\ \E kind : Delivers(e, kind)
              /\ remote' = [remote EXCEPT ![e] = Head(to[e]).code]
    PROVE  Knows'
<1> DEFINE o == Other(e)
<1>o. o \in Endpoints /\ o # e /\ \A x \in Endpoints : x = e \/ x = o
  BY OtherIsEndpoint, Opposite
<1>1. /\ out' = [out EXCEPT ![e] = Append(@, f)]
      /\ m_state' = [m_state EXCEPT ![e] = "closing"]
      /\ m_was_clean' = [m_was_clean EXCEPT ![e] = @ \/ ack]
      /\ local' = [local EXCEPT ![e] = f.code]
  BY DEF QueuesClose
<1>2. /\ m_state'[e] = "closing" /\ m_was_clean'[e] = (m_was_clean[e] \/ ack)
      /\ local'[e] = f.code
      /\ m_state'[o] = m_state[o] /\ m_was_clean'[o] = m_was_clean[o]
      /\ local'[o] = local[o] /\ remote'[o] = remote[o]
  BY <1>1, <1>o DEF Calm, StateTypes, WireInv
<1>3. Queue(e)' = Queue(e) \cup {f} /\ out'[o] = out[o]
  BY <1>1, QueueSets DEF Calm, CloseFrames
<1>4. Written(e)' = {} /\ Written(o)' = Written(o) /\ \A g \in Queue(e) : g.kind # "close"
  BY OpenIsSilent, SameSets, <1>o DEF Calm
<1>5. EndKnows(e)'
  <2>1. \A g \in Queue(e)' \cup Written(e)' : g.kind = "close" => local'[e] = g.code
    BY <1>2, <1>3, <1>4
  <2>2. m_was_clean'[e] => \E g \in Written(o)' : remote'[e] = g.code
    <3>1. m_was_clean[e] => \E g \in Written(o) : remote[e] = g.code
      BY DEF Calm, Knows, EndKnows
    <3>2. CASE ~ack
      BY <1>2, <1>4, <3>1, <3>2
    <3>3. CASE ack
      <4>1. remote'[e] = Head(to[e]).code /\ Head(to[e]) \in Written(o)
        BY <3>3 DEF Calm, WireInv
      <4> QED
        BY <1>4, <4>1
    <3> QED
      BY <3>2, <3>3
  <2>3. calls'[e] > 0 \/ m_was_clean'[e]
    BY <1>2
  <2> QED
    BY <2>1, <2>2, <2>3 DEF EndKnows
<1>6. EndKnows(o)'
  <2>1. EndKnows(o)
    BY <1>o DEF Calm, Knows
  <2>2. Written(e) = {} /\ Queue(o)' = Queue(o)
    BY <1>3, <1>o, OpenIsSilent, SameSets DEF Calm
  <2>3. Other(o) = e
    BY Opposite
  <2>4. calls[o] > 0 => calls'[o] > 0
    BY <1>o
  <2> QED
    BY <1>2, <1>4, <2>1, <2>2, <2>3, <2>4 DEF EndKnows
<1>7. ServerEnds'
  BY <1>2, <1>o, EndsSame
<1>8. ClientTold'
  <2>0. \A x \in Endpoints : m_state'[x] = "closed" => m_state[x] = "closed"
    BY <1>2, <1>o
  <2>t. to \in [Endpoints -> Seq(Sendable)]
    BY DEF Calm, WireInv
  <2>1. CASE e = "client" /\ ack
    BY <1>2, <2>1 DEF ClientTold
  <2>2. CASE ~(e = "client" /\ ack)
    <3>1. to'["client"] = to["client"]
      BY <2>2, <2>t, BothEnds DEF Delivers
    <3> QED
      BY <2>0, <3>1, BothEnds, ToldSame
  <2> QED
    BY <2>1, <2>2
<1> QED
  BY <1>5, <1>6, <1>7, <1>8, <1>o DEF Knows

\* close(): a code that prepare_close refuses changes the local code only, which
\* no frame has yet.
LEMMA CloseKnows ==
    ASSUME CloseAssumption, Calm, Effects, NEW e \in Endpoints,
           NEW code \in AppCodes, NEW reason \in AppReasons, Close(e, code, reason)
    PROVE  Knows'
<1> DEFINE r == IF code = blank THEN "none" ELSE Truncated(reason)
           term == terminal(code)
           ack == FALSE
<1>o. Other(e) \in Endpoints /\ Other(e) # e
      /\ \A x \in Endpoints : x = e \/ x = Other(e)
  BY OtherIsEndpoint, Opposite
<1>1. /\ m_state[e] = "open" /\ calls' = [calls EXCEPT ![e] = @ + 1]
      /\ UNCHANGED <<remote, sent, to>> /\ SendClose(e, code, r, ack, term)
  BY DEF Close
<1>2. code \in Codes /\ r \in Reasons /\ term \in BOOLEAN
  BY AppTypes, TruncatedTypes DEF Reasons, terminal
<1>3. calls \in [Endpoints -> Nat] /\ calls[e] \in Nat
  BY DEF Calm, StateTypes
<1>4. calls'[e] > 0 /\ calls'[Other(e)] = calls[Other(e)]
  BY <1>1, <1>3, <1>o
<1>5. \A x \in Endpoints : calls[x] > 0 => calls'[x] > 0
  BY <1>4, <1>o
<1>6. CASE UNCHANGED <<out, m_state, m_was_clean>>
  <2>1. local' = [local EXCEPT ![e] = Chosen(e, code, ack)]
    BY <1>1 DEF SendClose
  <2>2. local'[Other(e)] = local[Other(e)]
    BY <2>1, <1>o DEF Calm, StateTypes
  <2>3. \A x \in Endpoints : Queue(x)' = Queue(x) /\ Written(x)' = Written(x)
    BY <1>1, <1>6, SameSets
  <2>4. \A g \in Queue(e) \cup Written(e) : g.kind # "close"
    BY <1>1, OpenIsSilent DEF Calm
  <2>5. EndKnows(e) /\ EndKnows(Other(e))
    BY <1>o DEF Calm, Knows
  <2>6. EndKnows(e)' /\ EndKnows(Other(e))'
    BY <1>1, <1>4, <1>6, <1>o, <2>2, <2>3, <2>4, <2>5, Opposite DEF EndKnows
  <2>7. ServerEnds'
    BY <1>5, <1>6, EndsSame
  <2>8. ClientTold'
    BY <1>1, <1>6, ToldSame
  <2> QED
    BY <1>o, <2>6, <2>7, <2>8 DEF Knows
<1>7. CASE \E f \in CloseFrames : QueuesClose(e, f, ack)
  BY <1>1, <1>4, <1>5, <1>7, SendKnows
<1>8. remote' \in [Endpoints -> Codes]
  BY <1>1 DEF Calm, WireInv
<1>9. WireInv /\ ack \in BOOLEAN /\ ~ack
  BY DEF Calm
<1> HIDE DEF r, term, ack
<1>10. \/ UNCHANGED <<out, m_state, m_was_clean>>
       \/ \E f \in CloseFrames : QueuesClose(e, f, ack)
  BY <1>1, <1>2, <1>8, <1>9, SendCloseQueues
<1> QED
  BY <1>6, <1>7, <1>10

\* The answer to a close frame: prepare_close makes it always, for the code comes
\* from a frame that was accepted.
LEMMA ReplyKnows ==
    ASSUME Calm, Effects, WireInv', NEW e \in Endpoints, RecvClose(e)
    PROVE  Knows'
<1> DEFINE f == Head(to[e])
           r == IF f.code = no_status THEN "none" ELSE f.reason
           term == AckTerminal(e)
           ack == TRUE
<1>1. /\ m_state[e] = "open" /\ Delivers(e, "close") /\ Acceptable(f)
      /\ remote' = [remote EXCEPT ![e] = f.code]
      /\ SendClose(e, blank, r, ack, term)
      /\ UNCHANGED <<sent, calls>>
  BY DEF RecvClose
<1>2. f \in Coming(e) /\ f.kind = "close" /\ f \in Sendable
  BY <1>1, DeliversSets, DeliversTypes DEF Calm
<1>3. f \in Written(Other(e))
  BY <1>2, CalmFacts
<1>4. r \in Reasons /\ f.code \in Codes /\ f.reason \in Reasons
  BY <1>2 DEF Sendable, Items, Reasons
<1>5. remote'[e] = f.code
  BY <1>1 DEF Calm, WireInv
<1> DEFINE c == Chosen(e, blank, ack)
<1>6. Preparable(c, r)
  <2>1. c = IF f.code = no_status THEN normal ELSE f.code
    BY <1>5 DEF Chosen, blank
  <2> HIDE DEF c
  <2>2. CASE f.code = no_status
    <3>1. c = normal
      BY <2>1, <2>2
    <3> QED
      BY <3>1 DEF Preparable, normal, reserved, invalid, no_status
  <2>3. CASE f.code # no_status
    <3>1. c = f.code /\ ~(invalid(f.code) \/ reserved(f.code))
      BY <2>1, <2>3, <1>1 DEF Acceptable
    <3> QED
      BY <2>3, <3>1 DEF Preparable
  <2> QED
    BY <2>2, <2>3
<1>7. m_state' = [m_state EXCEPT ![e] = "closing"]
  BY <1>1, <1>6 DEF SendClose
<1>8. m_state'[e] # m_state[e]
  BY <1>1, <1>7 DEF Calm, StateTypes
<1>a. ack
  OBVIOUS
<1>9. WireInv /\ blank \in Codes /\ ack \in BOOLEAN /\ term \in BOOLEAN
      /\ remote' \in [Endpoints -> Codes]
  BY OwnCodes DEF Calm, WireInv, AckTerminal
<1>s. SendClose(e, blank, r, ack, term) /\ r \in Reasons
  BY <1>1, <1>4
<1> HIDE DEF r, term, ack
<1>10. \/ UNCHANGED <<out, m_state, m_was_clean>>
       \/ \E g \in CloseFrames : QueuesClose(e, g, ack)
  BY <1>9, <1>s, SendCloseQueues
<1>11. PICK g \in CloseFrames : QueuesClose(e, g, ack)
  BY <1>8, <1>10
<1> QED
  BY <1>1, <1>3, <1>9, <1>a, <1>11, SendKnows

\* The answer to this endpoint's close frame, or one that crossed it.
LEMMA AckKnows ==
    ASSUME Calm, Effects, NEW e \in Endpoints, RecvAck(e)
    PROVE  Knows'
<1> DEFINE o == Other(e)
           f == Head(to[e])
           Ends == e = "server" /\ ~m_was_clean[e]
<1>o. o \in Endpoints /\ o # e /\ \A x \in Endpoints : x = e \/ x = o
  BY OtherIsEndpoint, Opposite
<1>1. /\ m_state[e] = "closing" /\ Delivers(e, "close")
      /\ remote' = [remote EXCEPT ![e] = f.code]
      /\ m_was_clean' = [m_was_clean EXCEPT ![e] = TRUE]
      /\ UNCHANGED <<out, sent, calls>>
  BY DEF RecvAck
<1>2. /\ ~Ends => UNCHANGED <<m_state, local>>
      /\ Ends => m_state' = [m_state EXCEPT ![e] = "closed"] /\ local' = local
  BY DEF RecvAck, Terminate, Calm, StateTypes
<1>3. f \in Coming(e) /\ f.kind = "close"
  BY <1>1, DeliversSets DEF Calm
<1>4. f \in Written(o)
  BY <1>3, CalmFacts
<1>5. /\ m_was_clean'[e] /\ remote'[e] = f.code /\ m_was_clean'[o] = m_was_clean[o]
      /\ remote'[o] = remote[o] /\ local' = local
  BY <1>1, <1>2, <1>o DEF Calm, StateTypes, WireInv
<1>6. /\ m_state'[o] = m_state[o] /\ m_state'[e] \in {"closing", "closed"}
      /\ m_state'[e] = "closed" => Ends
  <2>1. CASE Ends
    BY <1>1, <1>2, <1>o, <2>1 DEF Calm, StateTypes
  <2>2. CASE ~Ends
    BY <1>1, <1>2, <2>2
  <2> QED
    BY <2>1, <2>2
<1>7. \A x \in Endpoints : Queue(x)' = Queue(x) /\ Written(x)' = Written(x)
  BY <1>1, SameSets
<1>8. EndKnows(e) /\ EndKnows(o)
  BY <1>o DEF Calm, Knows
<1>9. EndKnows(e)'
  BY <1>1, <1>4, <1>5, <1>7, <1>8, <1>o DEF EndKnows
<1>10. EndKnows(o)'
  BY <1>1, <1>5, <1>6, <1>7, <1>8, <1>o, Opposite DEF EndKnows
<1>11. ServerEnds'
  <2>1. CASE ~Ends
    <3>1. m_state' = m_state
      BY <1>2, <2>1
    <3> QED
      BY <1>1, <3>1, EndsSame
  <2>2. CASE Ends
    <3>1. calls["server"] > 0
      BY <1>1, <1>8, <2>2 DEF EndKnows
    <3>2. m_state["client"] = "closed" => sock["server"] = "down"
      BY DEF Calm, Knows, ServerEnds
    <3>3. sock["server"] = "down" => sock'["server"] = "down"
      BY BothEnds DEF Effects, Keeps
    <3>4. m_state'["client"] = m_state["client"]
      BY <1>6, <2>2, BothEnds
    <3> QED
      BY <1>1, <1>5, <2>2, <3>1, <3>2, <3>3, <3>4 DEF ServerEnds
  <2> QED
    BY <2>1, <2>2
<1>12. ClientTold'
  <2>1. CASE e = "client"
    BY <1>5, <2>1 DEF ClientTold
  <2>2. CASE e = "server"
    <3>1. to'["client"] = to["client"]
      BY <1>1, <2>2, BothEnds DEF Delivers, Calm, WireInv
    <3>2. m_state'["client"] = m_state["client"]
      BY <1>6, <2>2, BothEnds
    <3> QED
      BY <1>1, <3>1, <3>2, ToldSame
  <2> QED
    BY <2>1, <2>2, BothEnds
<1> QED
  BY <1>9, <1>10, <1>11, <1>12, <1>o DEF Knows

\* The end of the connection: the client is closing, and the server's close frame,
\* if it wrote one, has come.
LEMMA EofKnows ==
    ASSUME Calm, Effects, NEW e \in Endpoints, RecvEof(e)
    PROVE  Knows'
<1>1. /\ m_state[e] # "closed" /\ Delivers(e, "eof")
      /\ Terminate(e, ~(m_state[e] = "closing" /\ e = "client"))
      /\ UNCHANGED <<m_was_clean, remote, out, calls, sent>>
  BY DEF RecvEof
<1>2. Head(to[e]) \in Coming(e) /\ Head(to[e]).kind = "eof"
  BY <1>1, DeliversSets DEF Calm
<1>3. e = "client" /\ m_state["client"] = "closing"
  BY <1>1, <1>2, CalmFacts
<1>4. /\ m_state' = [m_state EXCEPT ![e] = "closed"]
      /\ local' = [local EXCEPT ![e] = IF FALSE THEN abnormal_close ELSE @]
  BY <1>1, <1>3 DEF Terminate
<1>5. /\ local' = local /\ m_state'["client"] = "closed"
      /\ m_state'["server"] = m_state["server"]
  BY <1>3, <1>4, BothEnds DEF Calm, StateTypes
<1>6. \A x \in Endpoints : Queue(x)' = Queue(x) /\ Written(x)' = Written(x)
  BY <1>1, SameSets
<1>7. \A x \in Endpoints : EndKnows(x)'
  <2> SUFFICES ASSUME NEW x \in Endpoints PROVE EndKnows(x)'
    OBVIOUS
  <2>1. EndKnows(x) /\ (x = "client" \/ x = "server") /\ Other(x) \in Endpoints
    BY BothEnds DEF Calm, Knows
  <2>2. m_state[x] # "open" <=> m_state'[x] # "open"
    BY <1>3, <1>5, <2>1
  <2> QED
    BY <1>1, <1>5, <1>6, <2>1, <2>2 DEF EndKnows
<1>8. ServerEnds'
  <2>1. sock["server"] = "down"
    BY <1>2, <1>3, BothEnds DEF Calm, BaseInv, SocketsFollow
  <2>2. sock'["server"] = "down"
    BY <2>1, BothEnds DEF Effects, Keeps
  <2>3. ServerEnds
    BY DEF Calm, Knows
  <2> QED
    BY <1>1, <1>5, <2>2, <2>3 DEF ServerEnds
<1>9. ClientTold'
  <2>1. to["client"] \in Seq(Sendable) /\ to["client"] # <<>>
    BY <1>1, <1>3, BothEnds DEF Calm, WireInv, Delivers
  <2>2. ~CloseComesFirst
    BY <1>2, <1>3, <2>1, FirstReceived
  <2>3. ClientTold
    BY DEF Calm, Knows
  <2> QED
    BY <1>1, <2>2, <2>3 DEF ClientTold
<1> QED
  BY <1>7, <1>8, <1>9 DEF Knows

-----------------------------------------------------------------------------
LEMMA KnowsInit == Init => Knows
<1> SUFFICES ASSUME Init PROVE Knows
  OBVIOUS
<1>1. \A e \in Endpoints : Queue(e) = {} /\ Written(e) = {}
  BY SetOfEmpty DEF Init, Queue, Written
<1>2. \A e \in Endpoints : m_state[e] = "open" /\ ~m_was_clean[e] /\ sent[e] = <<>>
  BY DEF Init
<1> QED
  BY <1>1, <1>2, BothEnds DEF Knows, EndKnows, ServerEnds, ClientTold

LEMMA KnowsStep ==
    ASSUME CloseAssumption, Calm, Effects, WireInv', [Next]_vars, Undisturbed'
    PROVE  Knows'
<1>1. CASE UNCHANGED vars
  BY <1>1 DEF Calm, Knows, EndKnows, ServerEnds, ClientTold, CloseComesFirst,
              Queue, Written, vars, epVars
<1>2. CASE Next
  <2>1. PICK e \in Endpoints :
           \/ \E code \in AppCodes, reason \in AppReasons :
                 Close(e, code, reason)
           \/ Send(e) \/ SendBig(e)
           \/ Write(e) \/ TerminalWritten(e) \/ HandleTerminate(e)
           \/ Timeout(e) \/ StrayTimeout(e)
           \/ Recv(e) \/ Reset(e)
    BY <1>2 DEF Next
  <2>2. CASE \E code \in AppCodes, reason \in AppReasons : Close(e, code, reason)
    BY <2>2, CloseKnows
  <2>3. CASE Send(e) \/ RecvIgnored(e) \/ HandleTerminate(e)
    BY <2>3, QuietKnows
  <2>4. CASE Write(e)
    BY <2>4, WriteKnows
  <2>5. CASE TerminalWritten(e)
    BY <2>5, TerminalKnows
  <2>6. CASE RecvClose(e)
    BY <2>6, ReplyKnows
  <2>7. CASE RecvAck(e)
    BY <2>7, AckKnows
  <2>8. CASE RecvEof(e)
    BY <2>8, EofKnows
  <2> QED
    BY <2>1, <2>2, <2>3, <2>4, <2>5, <2>6, <2>7, <2>8, CalmExcludes DEF Recv
<1> QED
  BY <1>1, <1>2

\* The inductive invariant.
AgreementInv ==
    /\ StateTypes /\ WireInv /\ CountInv /\ BaseInv
    /\ Undisturbed => Knows

LEMMA AgreementInvInit == CloseAssumption /\ Init => AgreementInv
BY StateTypesInit, WireInit, CountInit, BaseInit, KnowsInit DEF AgreementInv

LEMMA AgreementInvStep ==
    ASSUME CloseAssumption, AgreementInv, [Next]_vars
    PROVE  AgreementInv'
<1>1. StateTypes /\ WireInv /\ CountInv /\ BaseInv
  BY DEF AgreementInv
<1>2. WireInv'
  BY <1>1, WireStep
<1>3. StateTypes' /\ CountInv' /\ BaseInv'
  BY <1>1, <1>2, StateTypesStep, CountStep, BaseStep
<1>4. Effects
  BY <1>1, <1>2, StepEffects DEF BaseInv
<1>5. ASSUME Undisturbed' PROVE Knows'
  <2>1. Undisturbed
    BY <1>1, <1>4, <1>5, StaysDisturbed
  <2>2. Calm
    BY <1>1, <2>1 DEF AgreementInv, Calm
  <2> QED
    BY <1>2, <1>4, <1>5, <2>2, KnowsStep
<1> QED
  BY <1>2, <1>3, <1>5 DEF AgreementInv

LEMMA AgreementFollows == AgreementInv => Agreement
<1> SUFFICES ASSUME AgreementInv, Ended, Undisturbed
             PROVE  /\ \A e \in Endpoints : m_was_clean[e] => remote[e] = local[Other(e)]
                    /\ m_was_clean["server"]
                    /\ m_was_clean["client"] \/ \A e \in Endpoints : calls[e] > 0
  BY DEF Agreement
<1>1. Knows /\ WireInv
  BY DEF AgreementInv
<1>2. \A e \in Endpoints : m_state[e] = "closed"
  BY DEF AgreementInv, BaseInv, SocketsFollow, Ended
<1>3. ASSUME NEW e \in Endpoints, m_was_clean[e] PROVE remote[e] = local[Other(e)]
  <2>1. PICK f \in Written(Other(e)) : remote[e] = f.code
    BY <1>1, <1>3 DEF Knows, EndKnows
  <2>2. sent[Other(e)] \in Seq(CloseFrames) /\ Other(e) \in Endpoints
    BY <1>1, OtherIsEndpoint DEF WireInv
  <2>3. f.kind = "close"
    BY <2>1, <2>2, SetOfType DEF Written, CloseFrames
  <2> QED
    BY <1>1, <2>1, <2>2, <2>3 DEF Knows, EndKnows
<1>4. m_was_clean["server"] /\ (sent["server"] # <<>> \/ calls["server"] > 0)
  BY <1>1, <1>2, BothEnds DEF Knows, ServerEnds
<1>5. sent["server"] # <<>> => m_was_clean["client"]
  BY <1>1, <1>2, BothEnds DEF Knows, ClientTold
<1>6. calls["client"] > 0 \/ m_was_clean["client"]
  BY <1>1, <1>2, BothEnds DEF Knows, EndKnows
<1> QED
  BY <1>3, <1>4, <1>5, <1>6, BothEnds

\* When a closing handshake ends that no timer, reset, message above the limit,
\* terminal code or reason that is not UTF-8 disturbed, each end that was closed
\* cleanly has the code of the other one's close frame (m_remote_close_code), the
\* server was closed cleanly, and so was the client unless both applications called
\* close(): whatever codes they pass, however many messages are in flight, and also
\* when the two close frames cross.
THEOREM AgreementAlways == Spec => []Agreement
<1>1. Init => AgreementInv
  BY CloseAssumption, AgreementInvInit
<1>2. AgreementInv /\ [Next]_vars => AgreementInv'
  BY CloseAssumption, AgreementInvStep
<1> QED
  BY <1>1, <1>2, AgreementFollows, PTL DEF Spec

=============================================================================
