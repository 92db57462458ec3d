------------------------------ MODULE MCParsing ------------------------------
(***************************************************************************)
(* What reads and writes bytes: frames, UTF-8, HTTP messages, the frames   *)
(* of the older draft and compressed messages.  The machines do not share  *)
(* state; part says which of them a behaviour is about, and the others     *)
(* stay as they began.                                                     *)
(***************************************************************************)
EXTENDS MCHybi13

CONSTANTS
    Octets,                                                 \* Utf8Validator
    Heads, Trailing, HttpBufferSize, max_header_size, max_body_size,
    Streams, Hybi00BufferSize,                             \* Hybi00
    Threads, NoThread, Messages, MaxSends, Window, CompressBufferSize

VARIABLES
    part,
    utf8_state, m_codepoint, pending, bad, value,
    request, lines, trailing, next, m_buf, m_header_bytes, needed, http_len,
    mode, fed, consumed, pauses,
    stream, buf, hybi00_state, m_msg, hybi00_reading, hybi00_delivered, closing,
    taken,
    m_flush, pc, msg, m_write_lock, m_dstate, m_send_queue, accepted, sends,
    m_istate, frame, inflated_msg, inflated, zlib_err

V == INSTANCE Utf8Validator WITH m_state <- utf8_state
H == INSTANCE HttpParser WITH len <- http_len, BufferSize <- HttpBufferSize
Y == INSTANCE Hybi00 WITH
        BufferSize <- Hybi00BufferSize, m_state <- hybi00_state,
        reading <- hybi00_reading, delivered <- hybi00_delivered
Z == INSTANCE Compression WITH
        BufferSize <- CompressBufferSize, m_data_msg <- inflated_msg,
        delivered <- inflated, err <- zlib_err

-----------------------------------------------------------------------------
Tried == INSTANCE MCHybi00 WITH Streams <- {}
MCStreams == Tried!MCStreams

\* The bytes around every boundary in the table and in the definition of
\* UTF-8, and one in the middle of every longer range.
BoundaryBytes ==
    {0, 65, 127, 128, 143, 144, 159, 160, 176, 191, 192, 193, 194, 208, 223,
     224, 225, 236, 237, 238, 239, 240, 241, 243, 244, 245, 247, 248, 255}

Line(kind, size) == [kind |-> kind, size |-> size, value |-> 0]
ContentLengthIs(n) == [kind |-> "length", size |-> 2, value |-> n]

\* Good and bad heads, with and without a body, of lines of different sizes,
\* and two that are above the limit.
MCHeads ==
    {<<>>, <<Line("bad", 2)>>, <<Line("start", 1)>>,
     <<Line("start", 1), Line("host", 2)>>,
     <<Line("host", 1), Line("start", 1)>>,
     <<Line("start", 2), Line("bad", 1)>>,
     <<Line("start", 1), Line("host", 1), Line("junk_length", 1)>>,
     <<Line("start", 1), ContentLengthIs(0), Line("host", 1)>>,
     <<Line("start", 1), Line("host", 1), ContentLengthIs(2)>>,
     <<Line("start", 1), Line("host", 1), ContentLengthIs(3)>>,
     <<Line("start", 1), Line("host", 2), Line("plain", 14)>>,
     <<Line("start", 1), Line("plain", 32)>>, <<Line("start", 1), Line("plain", 1)>>}

Sent(op, compressed, payload) ==
    [op |-> op, compressed |-> compressed, payload |-> payload]

\* Text that is refused, an empty message, one that is not compressed, and
\* sizes below, at and above the zlib buffer.
MCMessages ==
    {Sent("TEXT", TRUE, <<"a">>), Sent("BINARY", TRUE, <<"b", "b">>),
     Sent("TEXT", TRUE, <<"b", "x">>), Sent("BINARY", TRUE, <<>>),
     Sent("TEXT", FALSE, <<"c">>),
     Sent("BINARY", TRUE, [i \in 1 .. 8 |-> "a"])}
-----------------------------------------------------------------------------

ASSUME InputsAssumption ==
    /\ V!BytesAssumption /\ H!HeadsAssumption /\ H!LimitsAssumption
    /\ Y!Hybi00Assumption /\ Z!CompressionAssumption

utf8Vars == <<utf8_state, m_codepoint, pending, bad, value>>
httpVars == <<request, lines, trailing, next, m_buf, m_header_bytes, needed,
              http_len, mode, fed, consumed, pauses>>
hybi00Vars == <<stream, buf, hybi00_state, m_msg, hybi00_reading,
                hybi00_delivered, closing, taken>>
zlibVars == <<m_flush, pc, msg, m_write_lock, m_dstate, m_send_queue, accepted,
              sends, m_istate, frame, inflated_msg, inflated, zlib_err>>
allVars == <<part, vars, utf8Vars, httpVars, hybi00Vars, zlibVars>>

Unused(x) == x = "unused"
NoHttp ==
    /\ Unused(request) /\ Unused(lines) /\ Unused(trailing) /\ Unused(next)
    /\ Unused(m_buf) /\ Unused(m_header_bytes) /\ Unused(needed)
    /\ Unused(http_len) /\ Unused(mode) /\ Unused(fed) /\ Unused(consumed)
    /\ Unused(pauses)
NoHybi00 ==
    /\ Unused(stream) /\ Unused(buf) /\ Unused(hybi00_state) /\ Unused(m_msg)
    /\ Unused(hybi00_reading) /\ Unused(hybi00_delivered) /\ Unused(closing)
    /\ Unused(taken)
NoCompression ==
    /\ Unused(m_flush) /\ Unused(pc) /\ Unused(msg) /\ Unused(m_write_lock)
    /\ Unused(m_dstate) /\ Unused(m_send_queue) /\ Unused(accepted)
    /\ Unused(sends) /\ Unused(m_istate) /\ Unused(frame)
    /\ Unused(inflated_msg) /\ Unused(inflated) /\ Unused(zlib_err)

AnyRole == CHOOSE server \in Roles : TRUE

MCInit ==
    /\ part \in {"frames", "utf8", "http", "hybi00", "compression", "text"}
       \* "text" is for MCReading: nothing of this module moves.
    /\ Init /\ (part = "frames" \/ m_server = AnyRole)
    /\ V!Init
    /\ IF part = "http" THEN H!Init ELSE NoHttp
    /\ IF part = "hybi00" THEN Y!Init ELSE NoHybi00
    /\ IF part = "compression" THEN Z!Init ELSE NoCompression

FramesNext ==
    /\ part = "frames" /\ Next
    /\ UNCHANGED <<part, utf8Vars, httpVars, hybi00Vars, zlibVars>>
Utf8Next ==
    /\ part = "utf8" /\ V!Next
    /\ UNCHANGED <<part, vars, httpVars, hybi00Vars, zlibVars>>
HttpNext ==
    /\ part = "http" /\ H!Next
    /\ UNCHANGED <<part, vars, utf8Vars, hybi00Vars, zlibVars>>
Hybi00Next ==
    /\ part = "hybi00" /\ Y!Next
    /\ UNCHANGED <<part, vars, utf8Vars, httpVars, zlibVars>>
CompressionNext ==
    /\ part = "compression" /\ Z!Next
    /\ UNCHANGED <<part, vars, utf8Vars, httpVars, hybi00Vars>>

MCNext ==
    \/ FramesNext \/ Utf8Next \/ HttpNext \/ Hybi00Next \/ CompressionNext

MCSpec == MCInit /\ [][MCNext]_allVars

-----------------------------------------------------------------------------
(***************************************************************************)
(* Properties, besides ParsesFrames: those of the modules, each of its own *)
(* part.                                                                   *)
(***************************************************************************)

\* A data message never grows beyond the maximum message size, and a frame is
\* dealt with as soon as its last byte is read.
FramesBounded == TypeOK /\ WithinMaxSize /\ Prompt

\* The validator reports an error at the very byte after which no input is
\* UTF-8 any more, and is complete exactly between characters.
Utf8Agrees == V!Agrees

\* The HTTP parser's verdict does not depend on how the message is cut; it
\* keeps the limit of the head, stops exactly behind the message and decides
\* with the last byte that it needs.
HttpRead ==
    part = "http" =>
       H!TypeOK /\ H!CutsDoNotMatter /\ H!SizeLimit /\ H!ExactEnd /\ H!Prompt

\* The processor of draft 00 delivers the messages between the frame bytes,
\* whole and in order, however they are cut.
Hybi00Messages == part = "hybi00" => Y!MessagesWhole

\* The other side inflates the messages that send() accepted, in order,
\* whatever threads sent them.
StreamsAgree == part = "compression" => Z!StreamsAgree

=============================================================================
