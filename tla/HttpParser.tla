------------------------------ MODULE HttpParser ------------------------------
(***************************************************************************)
(* http::parser: how request::consume and response::consume take an HTTP   *)
(* head from the pieces in which the transport delivers it, line by line,  *)
(* with the limits on its size, and where they stop: what follows the      *)
(* message belongs to the WebSocket connection.                            *)
(*                                                                         *)
(* A line is reduced to what the parser finds in it and to its size in     *)
(* bytes without the delimiter of two bytes; bytes are counted.  A head    *)
(* ends with a line of size 0.  The connection calls consume once for each *)
(* read, until the message is ready or an exception is thrown.             *)
(***************************************************************************)
EXTENDS Integers, SequencesExt, FiniteSetsExt

CONSTANTS
    Heads,           \* the lines that precede the empty line: see HeadsAssumption
    Trailing,        \* bound: bytes that may follow the head
    BufferSize,      \* config::connection_read_buffer_size
    max_header_size, \* limit of the head
    max_body_size    \* limit of Content-Length

\* What a line is for the parser: a request or status line, a Host or another
\* header, a Content-Length with its value (junk is no number), or a line that
\* is neither a valid first line nor a valid header.
Kinds == {"start", "host", "plain", "length", "junk_length", "bad"}

HeadsAssumption ==
    Heads \subseteq Seq([kind : Kinds, size : Nat \ {0}, value : Nat])

LimitsAssumption ==
    {Trailing, BufferSize, max_header_size, max_body_size} \subseteq Nat

VARIABLES
    request,         \* the parser is a request, otherwise a response
    lines,           \* the head that is being sent, the empty line included
    trailing,        \* the bytes that follow it
    next,            \* the line that the parser looks for
    m_buf,           \* bytes in the parser's buffer from that line on
    m_header_bytes,  \* what the parser counted
    needed,          \* m_body_bytes_needed of a request, m_read of a response
    len,             \* the size of the piece consume was called with, or 0
    mode,            \* "first", "headers", "body", "ready" or an HTTP error
    fed,             \* history: bytes given to consume
    consumed,        \* history: what the calls of consume returned
    pauses           \* history: calls that ended inside the head

vars == <<request, lines, trailing, next, m_buf, m_header_bytes, needed, len,
          mode, fed, consumed, pauses>>

given == <<request, lines, trailing>>

Failures == {"bad_request", "header_too_large", "entity_too_large"}

\* The bytes of the first n lines.
Bytes[n \in 0 .. Len(lines)] ==
    IF n = 0 THEN 0 ELSE Bytes[n - 1] + lines[n].size + 2

HeadBytes == Bytes[Len(lines)]

Init ==
    /\ request \in BOOLEAN
    /\ \E h \in Heads :
          lines = Append(h, [kind |-> "empty", size |-> 0, value |-> 0])
    /\ trailing \in 0 .. Trailing
    /\ next = 1
    /\ m_buf = 0 /\ m_header_bytes = 0
    /\ needed = 0
    /\ len = 0
    /\ mode = "first"
    /\ fed = 0 /\ consumed = 0 /\ pauses = 0

-----------------------------------------------------------------------------
\* consume(buf, n) is called on the next bytes of the head.
Consume(n) ==
    /\ len = 0
    /\ mode \in {"first", "headers"}
    /\ fed + n <= HeadBytes + trailing
    /\ len' = n
    /\ fed' = fed + n
    /\ m_buf' = m_buf + n
    /\ UNCHANGED <<given, next, m_header_bytes, needed, mode, consumed, pauses>>

\* The delimiter of the next line is in the buffer.
Complete == m_buf >= lines[next].size + 2

\* An exception is thrown; the connection reads no more.
Throw(error) ==
    /\ mode' = error
    /\ len' = 0
    /\ UNCHANGED <<given, next, m_buf, needed, fed, consumed, pauses>>

\* What the parser counts for the bytes it looked at: the size of the array
\* header_delimiter is 3.
Counted == IF Complete THEN lines[next].size + 3 ELSE m_buf + 3

\* m_header_bytes > max_header_size
TooLarge == m_header_bytes + Counted > max_header_size

HeaderTooLarge ==
    /\ len > 0
    /\ TooLarge
    /\ m_header_bytes' = m_header_bytes + Counted
    /\ Throw("header_too_large")

\* No delimiter is left: keep the beginning of the line and return len.
OutOfBytes ==
    /\ len > 0
    /\ ~Complete /\ ~TooLarge
    /\ m_header_bytes' = m_header_bytes + Counted - m_buf
    /\ consumed' = consumed + len
    /\ len' = 0
    /\ pauses' = pauses + 1
    /\ UNCHANGED <<given, next, m_buf, needed, mode, fed>>

-----------------------------------------------------------------------------
\* process and process_header
Valid(line) ==
    IF mode = "first" THEN line.kind = "start" ELSE line.kind \notin {"start", "bad"}

\* The first line or a header.
TakeLine ==
    /\ len > 0
    /\ Complete /\ ~TooLarge
    /\ lines[next].size > 0
    /\ Valid(lines[next])
    /\ mode' = "headers"
    /\ next' = next + 1
    /\ m_buf' = m_buf - lines[next].size - 2
    /\ m_header_bytes' = m_header_bytes + Counted
    /\ UNCHANGED <<given, needed, len, fed, consumed, pauses>>

BadLine ==
    /\ len > 0
    /\ Complete /\ ~TooLarge
    /\ lines[next].size > 0
    /\ ~Valid(lines[next])
    /\ m_header_bytes' = m_header_bytes + Counted
    /\ Throw("bad_request")

-----------------------------------------------------------------------------
(***************************************************************************)
(* The empty line.                                                         *)
(***************************************************************************)
Has(kind) == \E i \in DOMAIN lines : lines[i].kind = kind

\* The Content-Length; a request reads a value that is no number as 0.
ContentLength ==
    IF Has("length")
    THEN lines[CHOOSE i \in DOMAIN lines : lines[i].kind = "length"].value
    ELSE 0

\* Mutant: the Host of a request is missed only if there is no header at all.
HeadError_NoHost ==
    IF \/ mode = "first"
       \/ request /\ next = 2
       \/ ~request /\ Has("junk_length")
    THEN "bad_request"
    ELSE IF request /\ ContentLength > max_body_size THEN "entity_too_large"
    ELSE "none"

\* What the empty line leads to: a request needs a Host and must not be too
\* large, a response a Content-Length that is a number.
HeadError ==
    IF \/ mode = "first"
       \/ request /\ ~Has("host")
       \/ ~request /\ Has("junk_length")
    THEN "bad_request"
    ELSE IF request /\ ContentLength > max_body_size THEN "entity_too_large"
    ELSE "none"

BadHead ==
    /\ len > 0
    /\ Complete /\ ~TooLarge
    /\ lines[next].size = 0
    /\ HeadError # "none"
    /\ m_header_bytes' = m_header_bytes + Counted
    /\ Throw(HeadError)

\* The bytes of this piece that belong to the head.
Processed == len - m_buf + 2

\* process_body: the bytes of the body that it takes of n.
Body(n) == Min({IF mode = "body" THEN needed ELSE ContentLength, n})

\* response::process_body is not called again: what it leaves of a body is
\* taken for the first frames.
ResponseBody(n) == IF ContentLength = 0 THEN 0 ELSE Body(n)

\* The head is complete and what is there of the body is taken.  A request is
\* ready with its body, a response with its head.
EndHead ==
    /\ len > 0
    /\ Complete /\ ~TooLarge
    /\ lines[next].size = 0
    /\ HeadError = "none"
    /\ m_header_bytes' = m_header_bytes + Counted
    /\ LET body == IF request THEN Body(len - Processed)
                   ELSE ResponseBody(len - Processed)
       IN /\ needed' = ContentLength - body
          /\ consumed' = consumed + Processed + body
          /\ mode' = IF request /\ ContentLength > body THEN "body" ELSE "ready"
    /\ m_buf' = 0
    /\ len' = 0
    /\ UNCHANGED <<given, next, fed, pauses>>

\* process_body of a later piece.
ConsumeBody(n) ==
    /\ mode = "body"
    /\ fed + n <= HeadBytes + trailing
    /\ fed' = fed + n
    /\ LET body == Body(n)
       IN /\ needed' = needed - body
          /\ consumed' = consumed + body
          /\ mode' = IF needed = body THEN "ready" ELSE mode
    /\ UNCHANGED <<given, next, m_buf, m_header_bytes, len, pauses>>

-----------------------------------------------------------------------------
Next ==
    \/ \E n \in 1 .. BufferSize : Consume(n) \/ ConsumeBody(n)
    \/ HeaderTooLarge \/ OutOfBytes
    \/ TakeLine \/ BadLine
    \/ BadHead \/ EndHead

Spec == Init /\ [][Next]_vars

-----------------------------------------------------------------------------
(***************************************************************************)
(* Properties.                                                             *)
(***************************************************************************)

\* Types, and the most that the parser keeps of a head it may yet refuse.
TypeOK ==
    /\ request \in BOOLEAN
    /\ next \in DOMAIN lines
    /\ m_buf \in 0 .. max_header_size + BufferSize
    /\ {m_header_bytes, needed, len, fed, consumed, pauses} \subseteq Nat
    /\ mode \in {"first", "headers", "body", "ready"} \cup Failures

\* What the whole message amounts to, limits of the head aside: the first line
\* that is wrong, or else the empty line, decides.
Verdict ==
    IF \/ lines[1].kind # "start"
       \/ \E i \in 2 .. Len(lines) : lines[i].kind \in {"start", "bad"}
       \/ request /\ ~Has("host")
       \/ ~request /\ Has("junk_length")
    THEN "bad_request"
    ELSE IF request /\ ContentLength > max_body_size
    THEN "entity_too_large"
    ELSE "ready"

\* What is said of a message does not depend on how the transport cuts it,
\* the limit on the head's size aside.
CutsDoNotMatter ==
    mode \in {"ready", "bad_request", "entity_too_large"} => mode = Verdict

\* A head above max_header_size is never accepted, however it is cut; one is
\* refused only if its bytes, with one more for each line and three more for
\* each read that does not end it, are above the limit.
SizeLimit ==
    /\ mode \in {"body", "ready"} => HeadBytes <= max_header_size
    /\ mode = "header_too_large" =>
          HeadBytes + Len(lines) + 3 * (pauses + 1) > max_header_size

\* consume() stops exactly behind the message, wherever that is in the piece:
\* the rest is left for the WebSocket connection.  Until then it takes every
\* byte that it is given.
ExactEnd ==
    /\ mode = "ready" =>
          consumed = HeadBytes + (IF request THEN ContentLength
                                  ELSE Min({ContentLength, fed - HeadBytes}))
    /\ len = 0 /\ mode \in {"first", "headers", "body"} => consumed = fed

\* The parser decides with the last byte that it needs and asks for no more.
Prompt ==
    len = 0 /\ fed >= HeadBytes + (IF request THEN ContentLength ELSE 0) =>
       mode \in {"ready"} \cup Failures

===============================================================================
