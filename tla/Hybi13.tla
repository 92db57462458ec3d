------------------------------- MODULE Hybi13 -------------------------------
(***************************************************************************)
(* processor::hybi13: the incremental frame parser consume(), driven by    *)
(* the loop of connection::handle_read_frame, and the frames that          *)
(* prepare_data_frame and prepare_control make.                            *)
(*                                                                         *)
(* The transport delivers the bytes of the remote endpoint's frames in     *)
(* pieces of any size.  One action is one turn of the loop in consume(),   *)
(* with the processor in one of its states; nothing comes between them.    *)
(* Compression is not enabled.                                             *)
(***************************************************************************)
EXTENDS Frame

CONSTANTS
    Roles,           \* the values m_server may have
    MaxMessageSize,  \* base::m_max_message_size
    NoMsg,           \* a null message pointer
    Frames(_),       \* frames that the other end of a server may send, and
                     \* of a client
    MaxFrames,       \* bound: frames sent
    BufferSize       \* config::connection_read_buffer_size

ASSUME SizeAssumption ==
    /\ Roles \subseteq BOOLEAN
    /\ MaxMessageSize \in Nat /\ MaxFrames \in Nat
    /\ BufferSize \in Nat /\ BufferSize > 0

VARIABLES
    m_server,           \* this endpoint is a server
    m_state,            \* state of the processor
    m_bytes_needed,     \* bytes needed to complete the current operation
    m_basic_header,     \* the bytes b0 and b1 read so far
    m_extended_header,  \* the extended header bytes read so far
    m_data_msg,         \* message, key and validator of the data message
    m_control_msg,      \* the same of the control message
    m_current_msg,      \* which of the two the frame being read belongs to
    wire,               \* bytes sent and not yet consumed
    len,                \* how many of them are in the read buffer
    reading,            \* the connection waits for the transport
    frames,             \* frames not yet dealt with, the current one first
    sent,               \* frames sent so far
    honest,             \* history: they all are what a processor prepares
    last,               \* the message given to the connection last
    delivered,          \* how many were given to it
    err                 \* the error of consume(), or "none"

sentVars == <<sent, honest>>
procVars == <<m_state, m_bytes_needed, m_basic_header, m_extended_header>>
msgVars  == <<m_data_msg, m_control_msg, m_current_msg>>
bufVars  == <<wire, len>>
outVars  == <<last, delivered>>

vars == <<m_server, procVars, msgVars, bufVars, reading, frames, sentVars,
          outVars, err>>

\* The values of a size_t, which is as wide as the longest size field.
SizeT == Radix * Radix * Radix * Radix * Radix * Radix * Radix * Radix

Init ==
    /\ m_server \in Roles
    /\ m_state = "HEADER_BASIC"
    /\ m_bytes_needed = 2
    /\ m_basic_header = <<>>
    /\ m_extended_header = <<>>
    /\ m_data_msg = NoMsg
    /\ m_control_msg = NoMsg
    /\ m_current_msg = "none"
    /\ wire = <<>>
    /\ len = 0
    /\ reading = TRUE
    /\ frames = <<>>
    /\ sent = 0
    /\ honest = TRUE
    /\ last = NoMsg
    /\ delivered = 0
    /\ err = "none"

-----------------------------------------------------------------------------
(***************************************************************************)
(* The writing side.                                                       *)
(***************************************************************************)

\* A frame with the header that basic_header and extended_header make.
Prepared(server, op, payload, fin, key) ==
    [fin |-> fin, rsv |-> FALSE, op |-> op, masked |-> ~server,
     enc |-> BasicSize(Len(payload)), size |-> Len(payload),
     payload |-> payload, key |-> IF server THEN <<>> ELSE key]

\* prepare_data_frame: it refuses control opcodes and text that is not UTF-8.
prepare_data_frame(server, op, payload, fin, key) ==
    IF is_control(op) \/ (op = "TEXT" /\ Validate("accept", payload) # "accept")
    THEN {}
    ELSE {Prepared(server, op, payload, fin, key)}

\* prepare_control: it refuses other opcodes and payloads that are too long.
prepare_control(server, op, payload, key) ==
    IF ~is_control(op) \/ Len(payload) > BasicLimit
    THEN {}
    ELSE {Prepared(server, op, payload, TRUE, key)}

\* The bytes of a frame: prepare_header, then the payload.
Wire(f) ==
    <<[fin |-> f.fin, rsv |-> f.rsv, op |-> f.op],
      [masked |-> f.masked, size |-> f.enc]>>
    \o Digits(f.size, get_masking_key_offset(f.enc))
    \o f.key
    \o (IF f.masked THEN Masked(f.payload, f.key) ELSE f.payload)

\* What the other end sends, well formed or not, is frames: a payload, and a
\* size of it in one of the three encodings.
IsFrame(f) ==
    /\ f \in [fin : BOOLEAN, rsv : BOOLEAN, op : Opcodes, masked : BOOLEAN,
              enc : 0 .. payload_size_code_64bit, size : 0 .. SizeT - 1,
              payload : Seq(PlainBytes), key : Seq(STRING)]
    /\ Len(f.payload) = f.size
    /\ Len(f.key) = IF f.masked THEN 4 ELSE 0
    /\ f.enc <= BasicLimit => f.size = f.enc
    /\ f.enc = payload_size_code_16bit => f.size <= payload_size_extended

ASSUME FramesAssumption ==
    \A server \in Roles : \A f \in Frames(server) : IsFrame(f)

ASSUME NoMsgAssumption ==
    /\ NoMsg \notin [op : Opcodes, payload : Seq(PlainBytes)]
    /\ NoMsg \notin [op : Opcodes, payload : Seq(PlainBytes),
                     prepared_key : Seq(STRING),
                     validator : {"accept", "partial", "reject"}]

\* What the processor of the other end makes of messages that are sent whole.
FromProcessor(f) ==
    \/ /\ f.op \in {"TEXT", "BINARY"}
       /\ f \in prepare_data_frame(~m_server, f.op, f.payload, TRUE, f.key)
    \/ /\ f.op \in ControlOpcodes  \* prepare_ping, prepare_pong, prepare_close
       /\ f \in prepare_control(~m_server, f.op, f.payload, f.key)

-----------------------------------------------------------------------------
(***************************************************************************)
(* The transport.                                                          *)
(***************************************************************************)

\* The remote endpoint sends a frame.
Arrive(f) ==
    /\ reading
    /\ err = "none"
    /\ sent < MaxFrames
    /\ Len(wire) < BufferSize
    /\ sent' = sent + 1
    /\ honest' = (honest /\ FromProcessor(f))
    /\ wire' = wire \o Wire(f)
    /\ frames' = Append(frames, f)
    /\ UNCHANGED <<m_server, procVars, msgVars, len, reading, outVars, err>>

\* async_read_at_least(1, ...) completes with n bytes.
Read(n) ==
    /\ reading
    /\ err = "none"
    /\ n <= Len(wire)
    /\ len' = n
    /\ reading' = FALSE
    /\ UNCHANGED <<m_server, procVars, msgVars, wire, frames, sentVars,
                   outVars, err>>

-----------------------------------------------------------------------------
(***************************************************************************)
(* The loop of consume().                                                  *)
(***************************************************************************)

\* The condition of the loop.
Consuming ==
    /\ ~reading /\ err = "none"
    /\ m_state # "READY"
    /\ len > 0 \/ m_bytes_needed = 0

\* n bytes are taken from the buffer.
TakeBytes(n) ==
    /\ wire' = SubSeq(wire, n + 1, Len(wire))
    /\ len' = len - n

Bytes(n) == SubSeq(wire, 1, n)

\* consume() returns an error and the connection reads no more.
Fail(ec) ==
    /\ err' = ec
    /\ frames' = Tail(frames)

Fine == UNCHANGED <<err, frames>>

\* How many bytes this turn of the loop takes.
Chunk == IF m_bytes_needed < len THEN m_bytes_needed ELSE len

\* validate_incoming_basic_header
ValidBasicHeader(b0, b1, new_msg) ==
    /\ ~(is_control(b0.op) /\ b1.size > BasicLimit)
    /\ ~b0.rsv
    /\ ~reserved(b0.op)
    /\ ~(is_control(b0.op) /\ ~b0.fin)
    /\ ~(new_msg /\ b0.op = "CONTINUATION")
    /\ ~(~new_msg /\ ~is_control(b0.op) /\ b0.op # "CONTINUATION")
    /\ b1.masked = m_server

\* HEADER_BASIC: copy_basic_header_bytes.
ConsumeBasicHeader ==
    /\ Consuming
    /\ m_state = "HEADER_BASIC"
    /\ LET header == m_basic_header \o Bytes(Chunk)
           valid == ValidBasicHeader(header[1], header[2], m_data_msg = NoMsg)
       IN /\ m_basic_header' = header
          /\ TakeBytes(Chunk)
          /\ CASE m_bytes_needed > Chunk ->
                    /\ m_bytes_needed' = m_bytes_needed - Chunk
                    /\ UNCHANGED <<m_state, m_extended_header>>
                    /\ Fine
               [] m_bytes_needed = Chunk /\ ~valid ->
                    /\ m_bytes_needed' = 0
                    /\ UNCHANGED <<m_state, m_extended_header>>
                    /\ Fail("protocol")
               [] OTHER ->
                    /\ m_state' = "HEADER_EXTENDED"
                    /\ m_extended_header' = <<>>
                    /\ m_bytes_needed' = ExtendedLength(header[2])
                    /\ Fine
    /\ UNCHANGED <<m_server, msgVars, reading, sentVars, outVars>>

\* validate_incoming_extended_header on a system with 64 bits.
ValidExtendedHeader(b1, size) ==
    /\ ~(b1.size = payload_size_code_16bit /\ size <= BasicLimit)
    /\ ~(b1.size = payload_size_code_64bit /\ size <= payload_size_extended)

\* Mutant: the size of a fragment is compared with the limit by itself.
TooBig_PerFrame(size) == size > MaxMessageSize

\* The size of the data message with a frame of this size, as a size_t, is
\* above the limit.
TooBig(size) ==
    IF m_data_msg = NoMsg
    THEN size > MaxMessageSize
    ELSE (Len(m_data_msg.payload) + size) % SizeT > MaxMessageSize

\* msg_metadata of a new message.
Metadata(op, key) ==
    [op |-> op, payload |-> <<>>, prepared_key |-> key, validator |-> "accept"]

\* Mutant: a continuation frame goes on with the key of the frame before.
NextFragment_OldKey(key) == m_data_msg

\* The data message at a continuation frame: the key is a new one, all other
\* state stays.
NextFragment(key) == [m_data_msg EXCEPT !.prepared_key = key]

\* HEADER_EXTENDED: copy_extended_header_bytes; then the message is set up.
ConsumeExtendedHeader ==
    /\ Consuming
    /\ m_state = "HEADER_EXTENDED"
    /\ LET ext  == m_extended_header \o Bytes(Chunk)
           op   == m_basic_header[1].op
           size == get_payload_size(m_basic_header[2], ext)
           key  == get_masking_key(m_basic_header[2], ext)
       IN /\ m_extended_header' = ext
          /\ TakeBytes(Chunk)
          /\ IF m_bytes_needed > Chunk
             THEN /\ m_bytes_needed' = m_bytes_needed - Chunk
                  /\ UNCHANGED <<m_state, msgVars>>
                  /\ Fine
             ELSE IF ~ValidExtendedHeader(m_basic_header[2], size)
             THEN /\ m_bytes_needed' = 0
                  /\ UNCHANGED <<m_state, msgVars>>
                  /\ Fail("protocol")
             ELSE /\ m_state' = "APPLICATION"
                  /\ m_bytes_needed' = size
                  /\ CASE is_control(op) ->
                            /\ m_control_msg' = Metadata(op, key)
                            /\ m_current_msg' = "control"
                            /\ UNCHANGED m_data_msg
                            /\ Fine
                       [] ~is_control(op) /\ TooBig(size) ->
                            /\ UNCHANGED msgVars
                            /\ Fail("too_big")
                       [] OTHER ->
                            /\ m_data_msg' = IF m_data_msg = NoMsg
                                             THEN Metadata(op, key)
                                             ELSE NextFragment(key)
                            /\ m_current_msg' = "data"
                            /\ UNCHANGED m_control_msg
                            /\ Fine
    /\ UNCHANGED <<m_server, m_basic_header, reading, sentVars, outVars>>

CurrentMsg == IF m_current_msg = "data" THEN m_data_msg ELSE m_control_msg

\* process_payload_bytes: message m with n more bytes, unmasked and validated.
ProcessPayload(m, n) ==
    LET in    == Bytes(n)
        plain == IF m_basic_header[2].masked
                 THEN byte_mask_circ(in, m.prepared_key) ELSE in
    IN [op |-> m.op,
        payload |-> m.payload \o plain,
        prepared_key |-> IF m_basic_header[2].masked
                         THEN circshift_prepared_key(m.prepared_key, n % 4)
                         ELSE m.prepared_key,
        validator |-> IF m.op = "TEXT" THEN Validate(m.validator, plain)
                      ELSE m.validator]

SetCurrentMsg(m) ==
    IF m_current_msg = "data"
    THEN m_data_msg' = m /\ UNCHANGED m_control_msg
    ELSE m_control_msg' = m /\ UNCHANGED m_data_msg

ResetHeaders ==
    /\ m_state' = "HEADER_BASIC"
    /\ m_bytes_needed' = 2
    /\ m_basic_header' = <<>>
    /\ m_extended_header' = <<>>

\* finalize_message looks at the opcode of the last frame.
Finalizable(m) == m_basic_header[1].op = "TEXT" => m.validator = "accept"

\* APPLICATION: process_payload_bytes, then finalize_message or the next frame.
ConsumePayload ==
    /\ Consuming
    /\ m_state = "APPLICATION"
    /\ LET m == ProcessPayload(CurrentMsg, Chunk)
       IN /\ SetCurrentMsg(m)
          /\ IF m.validator = "reject" THEN UNCHANGED bufVars ELSE TakeBytes(Chunk)
          /\ CASE m.validator = "reject" ->
                    /\ UNCHANGED procVars
                    /\ Fail("invalid_utf8")
               [] m.validator # "reject" /\ m_bytes_needed > Chunk ->
                    /\ m_bytes_needed' = m_bytes_needed - Chunk
                    /\ UNCHANGED <<m_state, m_basic_header,
                                   m_extended_header>>
                    /\ Fine
               [] OTHER ->
                    IF ~m_basic_header[1].fin
                    THEN ResetHeaders /\ frames' = Tail(frames) /\ UNCHANGED err
                    ELSE /\ m_bytes_needed' = 0
                         /\ UNCHANGED <<m_basic_header, m_extended_header>>
                         /\ IF Finalizable(m)
                            THEN m_state' = "READY" /\ Fine
                            ELSE UNCHANGED m_state /\ Fail("invalid_utf8")
    /\ UNCHANGED <<m_server, m_current_msg, reading, sentVars, outVars>>

-----------------------------------------------------------------------------
(***************************************************************************)
(* The loop of handle_read_frame.                                          *)
(***************************************************************************)

\* get_message() forgets the message it returns.
GetMessage ==
    /\ IF m_current_msg = "data"
       THEN m_data_msg' = NoMsg /\ UNCHANGED m_control_msg
       ELSE m_control_msg' = NoMsg /\ UNCHANGED m_data_msg
    /\ UNCHANGED m_current_msg

\* consume() has a message ready: it is dispatched.
Dispatch ==
    /\ ~reading /\ err = "none"
    /\ m_state = "READY"
    /\ last' = [op |-> CurrentMsg.op, payload |-> CurrentMsg.payload]
    /\ delivered' = delivered + 1
    /\ frames' = Tail(frames)
    /\ GetMessage
    /\ ResetHeaders
    /\ reading' = (len = 0)
    /\ UNCHANGED <<m_server, bufVars, sentVars, err>>

\* The buffer is used up: read_frame().
ReadMore ==
    /\ ~reading /\ err = "none"
    /\ ~Consuming
    /\ m_state # "READY"
    /\ len = 0
    /\ reading' = TRUE
    /\ UNCHANGED <<m_server, procVars, msgVars, bufVars, frames, sentVars,
                   outVars, err>>

Next ==
    \/ \E f \in Frames(m_server) : Arrive(f)
    \/ \E n \in 1 .. BufferSize : Read(n)
    \/ ConsumeBasicHeader \/ ConsumeExtendedHeader \/ ConsumePayload
    \/ Dispatch \/ ReadMore

Spec == Init /\ [][Next]_vars

-----------------------------------------------------------------------------
(***************************************************************************)
(* Properties.                                                             *)
(***************************************************************************)

\* Types of the variables.
TypeOK ==
    /\ m_server \in BOOLEAN
    /\ m_state \in {"HEADER_BASIC", "HEADER_EXTENDED", "APPLICATION", "READY"}
    /\ m_bytes_needed \in 0 .. SizeT - 1
    /\ Len(m_basic_header) <= 2
    /\ Len(m_extended_header) <= 12
    /\ m_current_msg \in {"none", "data", "control"}
    /\ len \in 0 .. BufferSize
    /\ len <= Len(wire)
    /\ reading \in BOOLEAN
    /\ frames \in Seq(Frames(m_server))
    /\ sent \in 0 .. MaxFrames
    /\ honest \in BOOLEAN
    /\ delivered \in 0 .. MaxFrames
    /\ err \in {"none", "protocol", "too_big", "invalid_utf8"}

\* The data message as it was before the frame that is being read.
Committed ==
    IF err # "none" \/ m_data_msg = NoMsg THEN NoMsg
    ELSE LET whole == [op |-> m_data_msg.op, payload |-> m_data_msg.payload]
             size == get_payload_size(m_basic_header[2], m_extended_header)
             done == size - m_bytes_needed
         IN IF ~(m_current_msg = "data" /\ m_state \in {"APPLICATION", "READY"})
            THEN whole
            ELSE IF m_basic_header[1].op # "CONTINUATION" THEN NoMsg
            ELSE [whole EXCEPT !.payload =
                     SubSeq(@, 1, Len(@) - done)]

Stream == INSTANCE MessageStream WITH server <- m_server, msg <- Committed

\* The parser implements MessageStream: however the bytes are cut into reads,
\* the same messages are delivered in the same order, and the same frames are
\* rejected for the same reason, as if every frame were taken whole.
ParsesFrames == Stream!Spec

\* A frame is dealt with as soon as its last byte is read: the connection never
\* waits for more bytes with a complete frame in its hands.
Prompt ==
    reading /\ err = "none" /\ wire = <<>> =>
       \A i \in DOMAIN frames : Len(frames[i].payload) < frames[i].size

\* A data message never grows beyond the maximum message size.
WithinMaxSize ==
    m_data_msg # NoMsg => Len(m_data_msg.payload) <= MaxMessageSize

\* What prepare_data_frame and prepare_control of the remote endpoint let
\* through, this endpoint reads without an error, unless it is too big.
PeerUnderstood == honest => err \in {"none", "too_big"}

\* A text message that is delivered is UTF-8 to its end (hybi13.hpp: "ensure
\* that text messages end on a valid UTF8 code point").
TextIsUtf8 ==
    last # NoMsg /\ last.op = "TEXT" => Validate("accept", last.payload) = "accept"

=============================================================================
