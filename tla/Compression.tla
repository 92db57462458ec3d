----------------------------- MODULE Compression -----------------------------
(***************************************************************************)
(* permessage-deflate on an open connection: the threads in                *)
(* connection::send, hybi13::prepare_data_frame and enabled::compress on   *)
(* one side; process_payload_bytes, finalize_message and                   *)
(* enabled::decompress on the other.  Each side keeps one zlib stream for  *)
(* all messages, so that what a message compresses to depends on the       *)
(* messages before it: the two streams must go through the same data.      *)
(*                                                                         *)
(* zlib is modelled by what it does: a compressed byte can be decompressed *)
(* where the data before it is the data it was compressed after.  A flush  *)
(* ends with the header of an empty stored block and the bytes             *)
(* 00 00 ff ff.                                                            *)
(***************************************************************************)
EXTENDS Integers, SequencesExt

CONSTANTS
    Threads,     \* threads that call send(), or a handler that sends a pong
    NoThread,    \* nobody
    Messages,    \* [op, compressed, payload] that may be sent
    MaxSends,    \* bound: calls of send()
    Window,      \* how much of the data before it a byte depends on
    BufferSize   \* m_compress_buffer_size

CompressionAssumption ==
    /\ MaxSends \in Nat /\ Window \in Nat /\ BufferSize \in Nat /\ BufferSize > 6
    /\ NoThread \notin Threads
    /\ Messages \subseteq [op : {"TEXT", "BINARY", "CLOSE", "PING", "PONG"},
                           compressed : BOOLEAN, payload : Seq(STRING)]

VARIABLES
    m_flush,       \* how messages are flushed, as negotiated
    pc, msg,       \* where a thread is in send(), and its message or its frame
    m_write_lock,  \* who has the lock
    m_dstate,      \* the window of the stream that compresses
    m_send_queue,  \* frames that are sent and not yet received
    accepted,      \* history: the messages that send() accepted
    sends,         \* how many calls there were
    m_istate,      \* [window, owed]: the stream that decompresses, and the
                   \* bytes it needs to end a stored block
    frame,         \* the frame that is being received, or NoFrame
    m_data_msg,    \* the data message being received, or NoFrame
    delivered,     \* the messages delivered
    err            \* the error that ended the connection, or "none"

sendVars == <<pc, msg, m_write_lock, m_dstate, accepted, sends>>
recvVars == <<m_istate, frame, m_data_msg, delivered, err>>
vars == <<m_flush, sendVars, m_send_queue, recvVars>>

NoFrame == [op |-> "none", fin |-> TRUE, rsv1 |-> FALSE, payload |-> <<>>]

Init ==
    /\ m_flush \in {"Z_SYNC_FLUSH", "Z_FULL_FLUSH"}
    /\ pc = [t \in Threads |-> "idle"]
    /\ msg = [t \in Threads |-> NoFrame]
    /\ m_write_lock = NoThread
    /\ m_dstate = <<>>
    /\ m_send_queue = <<>>
    /\ accepted = <<>>
    /\ sends = 0
    /\ m_istate = [window |-> <<>>, owed |-> 0]
    /\ frame = NoFrame
    /\ m_data_msg = NoFrame
    /\ delivered = <<>>
    /\ err = "none"

-----------------------------------------------------------------------------
(***************************************************************************)
(* zlib.                                                                   *)
(***************************************************************************)
Last_(s, n) == SubSeq(s, IF Len(s) > n THEN Len(s) - n + 1 ELSE 1, Len(s))

\* A byte is what it says, and for data the symbol and what was before it.
Trailer == <<<<"00">>, <<"00">>, <<"ff">>, <<"ff">>>>
FlushMarker == <<<<"stored">>>> \o Trailer

\* The bytes for the symbols of in, after a window.
Deflated(window, in) ==
    [i \in DOMAIN in |->
        <<"data", Last_(window \o SubSeq(in, 1, i - 1), Window), in[i]>>]

\* One byte read by inflate: a stored block announced must follow whole, and
\* data must have been compressed after what is here before it.
InflateByte(z, byte) ==
    CASE z.owed > 0 /\ byte = Trailer[5 - z.owed] -> [z EXCEPT !.owed = @ - 1]
      [] z.owed = 0 /\ byte[1] = "stored" -> [z EXCEPT !.owed = 4]
      [] z.owed = 0 /\ byte[1] = "fixed" -> z
      [] z.owed = 0 /\ byte[1] = "data" /\ IsSuffix(byte[2], z.window) ->
           [z EXCEPT !.window = Append(@, byte[3]), !.out = Append(@, byte[3])]
      [] OTHER -> [z EXCEPT !.bad = TRUE]

-----------------------------------------------------------------------------
(***************************************************************************)
(* permessage_deflate::enabled.                                            *)
(***************************************************************************)

\* compress: an empty string has a fixed result, and does not touch the
\* stream.  Otherwise deflate fills the buffer until it leaves room in it; if
\* the flush ended exactly with the buffer, another marker follows.
compress(window, in) ==
    IF in = <<>> THEN [out |-> <<<<"fixed">>>> \o FlushMarker, window |-> window]
    ELSE LET all == Deflated(window, in) \o FlushMarker
         IN [out |-> IF Len(all) % BufferSize = 0 THEN all \o FlushMarker
                     ELSE all,
             window |-> IF m_flush = "Z_FULL_FLUSH" THEN <<>>
                        ELSE Last_(window \o in, Window)]

\* decompress: inflate fills the buffer until it leaves room in it.
decompress(in) ==
    LET z[n \in 0 .. Len(in)] ==
            IF n = 0 THEN [window |-> m_istate.window, owed |-> m_istate.owed,
                           out |-> <<>>, bad |-> FALSE]
            ELSE InflateByte(z[n - 1], in[n])
    IN z[Len(in)]

\* The stream that z leaves.
Stream(z) == [window |-> Last_(z.window, Window), owed |-> z.owed]

-----------------------------------------------------------------------------
(***************************************************************************)
(* connection::send.                                                       *)
(***************************************************************************)

\* Symbol "x" is no part of UTF-8.
utf8(payload) == "x" \notin Range(payload)

\* send(m) has found the connection open and has a message to prepare.
Send(t, m) ==
    /\ pc[t] = "idle"
    /\ sends < MaxSends
    /\ pc' = [pc EXCEPT ![t] = "lock"]
    /\ msg' = [msg EXCEPT ![t] = m]
    /\ sends' = sends + 1
    /\ UNCHANGED <<m_flush, m_write_lock, m_dstate, accepted, m_send_queue,
                   recvVars>>

\* Mutant: send() prepares its message without the lock.
Acquire_Free(t) ==
    /\ pc[t] = "lock"
    /\ pc' = [pc EXCEPT ![t] = "prepare"]
    /\ UNCHANGED <<m_flush, m_write_lock, msg, m_dstate, accepted, sends,
                   m_send_queue, recvVars>>

Acquire(t) ==
    /\ pc[t] = "lock"
    /\ m_write_lock = NoThread
    /\ m_write_lock' = t
    /\ pc' = [pc EXCEPT ![t] = "prepare"]
    /\ UNCHANGED <<m_flush, msg, m_dstate, accepted, sends, m_send_queue,
                   recvVars>>

Release(t) == m_write_lock' = NoThread /\ pc' = [pc EXCEPT ![t] = "idle"]

\* prepare_data_frame validates the text before it compresses it.
Refused(m) == m.op = "TEXT" /\ ~utf8(m.payload)

\* prepare_data_frame: the compressed message without the four bytes at its
\* end, or a copy.  Control frames are never compressed.
Prepare(t) ==
    /\ pc[t] = "prepare"
    /\ LET m == msg[t]
           z == compress(m_dstate, m.payload)
           short == SubSeq(z.out, 1, Len(z.out) - 4)
       IN IF Refused(m)
          THEN /\ Release(t)
               /\ UNCHANGED <<msg, m_dstate, accepted>>
          ELSE /\ pc' = [pc EXCEPT ![t] = "push"]
               /\ IF m.compressed
                  THEN /\ msg' = [msg EXCEPT ![t] =
                              [op |-> m.op, fin |-> TRUE, rsv1 |-> TRUE,
                               payload |-> short]]
                       /\ m_dstate' = z.window
                  ELSE /\ msg' = [msg EXCEPT ![t] =
                              [op |-> m.op, fin |-> TRUE, rsv1 |-> FALSE,
                               payload |-> m.payload]]
                       /\ UNCHANGED m_dstate
               /\ accepted' = Append(accepted, [op |-> m.op,
                                                payload |-> m.payload])
               /\ UNCHANGED m_write_lock
    /\ UNCHANGED <<m_flush, sends, m_send_queue, recvVars>>

\* write_push
Push(t) ==
    /\ pc[t] = "push"
    /\ m_send_queue' = Append(m_send_queue, msg[t])
    /\ Release(t)
    /\ UNCHANGED <<m_flush, msg, m_dstate, accepted, sends, recvVars>>

\* An endpoint of another make may send a message in fragments: the first one
\* says whether the message is compressed, and they may be empty.
Fragment ==
    /\ m_send_queue # <<>>
    /\ frame = NoFrame /\ m_data_msg = NoFrame
    /\ LET f == Head(m_send_queue)
       IN /\ f.op \in {"TEXT", "BINARY"} /\ f.fin
          /\ \E n \in {0, 1, Len(f.payload)} \cap 0 .. Len(f.payload) :
                m_send_queue' =
                   <<[f EXCEPT !.fin = FALSE, !.payload = SubSeq(@, 1, n)],
                     [op |-> "CONTINUATION", fin |-> TRUE, rsv1 |-> FALSE,
                      payload |-> SubSeq(f.payload, n + 1, Len(f.payload))]>>
                   \o Tail(m_send_queue)
    /\ UNCHANGED <<m_flush, sendVars, recvVars>>

-----------------------------------------------------------------------------
(***************************************************************************)
(* The receiver.                                                           *)
(***************************************************************************)

\* The header of a data frame: the first one says whether the message is
\* compressed.
Header ==
    /\ err = "none"
    /\ frame = NoFrame
    /\ m_send_queue # <<>>
    /\ frame' = Head(m_send_queue)
    /\ m_send_queue' = Tail(m_send_queue)
    /\ m_data_msg' = IF frame'.op = "CONTINUATION" THEN m_data_msg
                     ELSE [frame' EXCEPT !.payload = <<>>]
    /\ UNCHANGED <<m_flush, sendVars, m_istate, delivered, err>>

Received(bytes, z) ==
    IF m_data_msg.rsv1 THEN z.out ELSE bytes

\* process_payload_bytes with n bytes of the frame.
ProcessPayload(n) ==
    /\ err = "none"
    /\ frame # NoFrame /\ n <= Len(frame.payload)
    /\ LET bytes == SubSeq(frame.payload, 1, n)
           z     == decompress(bytes)
           new   == Received(bytes, z)
       IN /\ frame' = [frame EXCEPT !.payload = SubSeq(@, n + 1, Len(@))]
          /\ m_istate' = IF m_data_msg.rsv1 THEN Stream(z) ELSE m_istate
          /\ m_data_msg' = [m_data_msg EXCEPT !.payload = @ \o new]
          /\ err' = IF m_data_msg.rsv1 /\ z.bad THEN "zlib_error"
                    ELSE IF m_data_msg.op = "TEXT" /\ ~utf8(new) THEN "invalid_utf8"
                    ELSE "none"
    /\ UNCHANGED <<m_flush, sendVars, m_send_queue, delivered>>

\* The frame ends.  After the last one finalize_message puts back the four
\* bytes that the sender took off.
EndFrame ==
    /\ err = "none"
    /\ frame # NoFrame /\ frame.payload = <<>>
    /\ frame' = NoFrame
    /\ IF ~frame.fin
       THEN UNCHANGED <<m_istate, m_data_msg, delivered, err>>
       ELSE LET z == decompress(Trailer)
                whole == m_data_msg.payload \o Received(<<>>, z)
            IN /\ m_istate' = IF m_data_msg.rsv1 THEN Stream(z) ELSE m_istate
               /\ m_data_msg' = NoFrame
               /\ IF m_data_msg.rsv1 /\ z.bad
                  THEN err' = "zlib_error" /\ UNCHANGED delivered
                  ELSE /\ delivered' = Append(delivered,
                              [op |-> m_data_msg.op, payload |-> whole])
                       /\ UNCHANGED err
    /\ UNCHANGED <<m_flush, sendVars, m_send_queue>>

Next ==
    \/ \E t \in Threads :
          \/ \E m \in Messages : Send(t, m)
          \/ Acquire(t) \/ Prepare(t) \/ Push(t)
    \/ Fragment
    \/ Header
    \/ \E n \in 1 .. BufferSize + 4 : ProcessPayload(n)
    \/ EndFrame

Spec == Init /\ [][Next]_vars

-----------------------------------------------------------------------------
(***************************************************************************)
(* Properties.                                                             *)
(***************************************************************************)

\* The other side gets the messages that send() accepted, whole and in the
\* order in which they were compressed, whatever threads sent them and however
\* the bytes are cut; a message that send() refuses leaves no trace.  If
\* m_write_lock did not cover both prepare_data_frame() and write_push(), two
\* threads could compress in one order and queue in the other; text that was
\* compressed before it was refused would be missing on the other side.
StreamsAgree == err = "none" /\ IsPrefix(delivered, accepted)

=============================================================================
