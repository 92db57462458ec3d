------------------------------- MODULE Hybi00 -------------------------------
(***************************************************************************)
(* processors/hybi00.hpp: how a server of the oldest draft takes messages  *)
(* from the bytes it reads, in the loop of connection::handle_read_frame,  *)
(* and the frames it writes.  A frame is a byte 0x00, text, and a byte     *)
(* 0xff.  Of the bytes of text only those are told apart that matter.      *)
(***************************************************************************)
EXTENDS Integers, Sequences, SequencesExt, FiniteSetsExt

CONSTANTS
    Streams,     \* what clients send
    BufferSize   \* config::connection_read_buffer_size

msg_hdr == "00"
msg_ftr == "ff"
NullMsg == <<"none">>

\* No byte stands for the null message.
Hybi00Assumption ==
    /\ BufferSize \in Nat \ {0}
    /\ Streams \subseteq Seq(STRING \ {"none"})

VARIABLES
    stream,     \* bytes that were not read yet
    buf,        \* bytes of the last read that were not consumed
    m_state,    \* of the processor
    m_msg,      \* the payload of m_msg_ptr, or NullMsg
    reading,    \* the connection waits for the transport
    delivered,  \* messages given to the message handler
    closing,    \* an error made the connection send its close frame
    taken       \* history: the bytes that were consumed

vars == <<stream, buf, m_state, m_msg, reading, delivered, closing, taken>>

Init ==
    /\ stream \in Streams
    /\ buf = <<>> /\ m_state = "HEADER" /\ m_msg = NullMsg
    /\ reading = TRUE /\ delivered = <<>> /\ closing = FALSE /\ taken = <<>>

\* The transport completes a read with the next n bytes.
ReadSome(n) ==
    /\ reading
    /\ reading' = FALSE
    /\ buf' = SubSeq(stream, 1, n)
    /\ stream' = SubSeq(stream, n + 1, Len(stream))
    /\ UNCHANGED <<m_state, m_msg, delivered, closing, taken>>

Took(n) == /\ taken' = taken \o SubSeq(buf, 1, n)
           /\ buf' = SubSeq(buf, n + 1, Len(buf))

\* consume() in state HEADER.
ConsumeHeader ==
    /\ ~reading /\ ~closing /\ buf # <<>> /\ m_state = "HEADER"
    /\ Head(buf) = msg_hdr
    /\ m_msg' = <<>>
    /\ m_state' = "PAYLOAD"
    /\ Took(1)
    /\ UNCHANGED <<stream, reading, delivered, closing>>

\* Any other byte ends the processor; handle_read_frame closes and reads no
\* more.
ConsumeOther ==
    /\ ~reading /\ ~closing /\ buf # <<>> /\ m_state = "HEADER"
    /\ Head(buf) # msg_hdr
    /\ m_state' = "FATAL_ERROR"
    /\ closing' = TRUE
    /\ UNCHANGED <<stream, buf, m_msg, reading, delivered, taken>>

\* Mutant: the payload begins anew with every piece.
ConsumePayload_Replaces ==
    LET ends == {i \in DOMAIN buf : buf[i] = msg_ftr}
        l == IF ends = {} THEN Len(buf) ELSE Min(ends) - 1
    IN  /\ ~reading /\ ~closing /\ buf # <<>> /\ m_state = "PAYLOAD"
        /\ m_msg' = SubSeq(buf, 1, l)
        /\ m_state' = IF ends = {} THEN "PAYLOAD" ELSE "READY"
        /\ Took(IF ends = {} THEN l ELSE l + 1)
        /\ UNCHANGED <<stream, reading, delivered, closing>>

\* consume() in state PAYLOAD: up to the first 0xff in the buffer.
ConsumePayload ==
    LET ends == {i \in DOMAIN buf : buf[i] = msg_ftr}
        l == IF ends = {} THEN Len(buf) ELSE Min(ends) - 1
    IN  /\ ~reading /\ ~closing /\ buf # <<>> /\ m_state = "PAYLOAD"
        /\ m_msg' = m_msg \o SubSeq(buf, 1, l)
        /\ m_state' = IF ends = {} THEN "PAYLOAD" ELSE "READY"
        /\ Took(IF ends = {} THEN l ELSE l + 1)
        /\ UNCHANGED <<stream, reading, delivered, closing>>

\* ready() after consume(): get_message, and the message handler.
Dispatch ==
    /\ m_state = "READY"
    /\ delivered' = Append(delivered, m_msg)
    /\ m_msg' = NullMsg
    /\ m_state' = "HEADER"
    /\ UNCHANGED <<stream, buf, reading, closing, taken>>

\* Nothing is left in the buffer: read_frame.
ReadFrame ==
    /\ ~reading /\ ~closing /\ buf = <<>> /\ m_state # "READY"
    /\ reading' = TRUE
    /\ UNCHANGED <<stream, buf, m_state, m_msg, delivered, closing, taken>>

Next ==
    \/ \E n \in 1 .. BufferSize : n <= Len(stream) /\ ReadSome(n)
    \/ ConsumeHeader \/ ConsumeOther \/ ConsumePayload \/ Dispatch \/ ReadFrame

Spec == Init /\ [][Next]_vars

-----------------------------------------------------------------------------
\* prepare_data_frame: text that is not UTF-8 is refused; no byte of UTF-8 is
\* 0xff.
NotUtf8 == {"ff", "bad"}
prepare_data_frame(payload) ==
    IF ToSet(payload) \cap NotUtf8 # {} THEN <<>>
    ELSE <<msg_hdr>> \o payload \o <<msg_ftr>>

prepare_close == <<msg_ftr, msg_hdr>>

-----------------------------------------------------------------------------
(***************************************************************************)
(* Properties.                                                             *)
(***************************************************************************)

\* The messages that the bytes are, and what is there of the next one: NullMsg
\* between two messages.  The byte behind a message begins another.
Nothing == [whole |-> <<>>, rest |-> NullMsg]

WithByte(m, byte) ==
    IF m.rest = NullMsg THEN [m EXCEPT !.rest = <<>>]
    ELSE IF byte = msg_ftr
    THEN [whole |-> Append(m.whole, m.rest), rest |-> NullMsg]
    ELSE [m EXCEPT !.rest = Append(@, byte)]

MessagesOf(s) ==
    LET first[n \in 0 .. Len(s)] ==
            IF n = 0 THEN Nothing ELSE WithByte(first[n - 1], s[n])
    IN  first[Len(s)]

\* The messages delivered are those in the bytes consumed, whatever pieces
\* they came in and wherever a piece ends; a header byte inside a message is
\* part of it; and behind a message only a header byte goes on, so that a
\* client that sends its close frame gets an error.
MessagesWhole ==
    LET m == MessagesOf(taken)
    IN  /\ (IF m_state = "READY" THEN Append(delivered, m_msg) ELSE delivered) = m.whole
        /\ m_state # "READY" => m_msg = m.rest
        /\ closing <=> m_state = "FATAL_ERROR"
        /\ closing => m.rest = NullMsg /\ Head(buf) # msg_hdr

=============================================================================
