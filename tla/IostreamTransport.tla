-------------------------- MODULE IostreamTransport --------------------------
(***************************************************************************)
(* transport/iostream/connection.hpp: the application supplies bytes       *)
(* (operator>>, read_some, read_all, eof, fatal_error) and the library asks *)
(* for them with async_read_at_least, mostly from within the handler of    *)
(* the read before, while the call that supplies bytes still holds the     *)
(* lock.  Bytes are counted; their order is that of the cursor.            *)
(***************************************************************************)
EXTENDS Integers

CONSTANTS
    Supplies,  \* the numbers of bytes that a call may supply
    Lengths,   \* the buffer sizes that the library may ask with
    MaxCalls,  \* bound: calls of the application
    MaxBuffers \* bound: buffers in a vectored write

SizesAssumption ==
    /\ Supplies \subseteq Nat /\ Lengths \subseteq Nat
    /\ MaxCalls \in Nat /\ MaxBuffers \in Nat

VARIABLES
    m_reading, m_len, m_bytes_needed, m_cursor,
    call,      \* the call that holds m_read_mutex: its kind, the bytes it has
               \* left, and whether it goes round once more
    handler,   \* the read handler that runs: its error code and byte count
    failed,    \* the connection has met an error and will not read or write again
    taken,     \* history: bytes that callers were told were read
    delivered, \* history: bytes given to handlers
    calls,     \* calls so far
    output     \* the last async_write: its error code, buffers written and given

readVars == <<m_reading, m_len, m_bytes_needed, m_cursor>>
vars == <<readVars, call, handler, failed, taken, delivered, calls, output>>

NoCall == [kind |-> "none", left |-> 0, more |-> FALSE]
NoHandler == [ec |-> "none", n |-> 0]

Init ==
    /\ m_reading = FALSE /\ m_len = 0 /\ m_bytes_needed = 0 /\ m_cursor = 0
    /\ call = NoCall
    /\ handler = NoHandler
    /\ failed = FALSE
    /\ taken = 0 /\ delivered = 0 /\ calls = 0
    /\ output = [ec |-> "ok", written |-> 0, of |-> 0]

-----------------------------------------------------------------------------
\* Mutant: a refused read takes the place of the one in progress.
AsyncReadAtLeast_Replaces(num, len) ==
    IF num > len \/ num = 0
    THEN handler' = [ec |-> "invalid_num_bytes", n |-> 0] /\ UNCHANGED readVars
    ELSE /\ m_reading' = TRUE /\ m_len' = len /\ m_bytes_needed' = num
         /\ m_cursor' = 0
         /\ handler' = NoHandler

\* async_read_at_least(num, buf, len): a refusal, and success for no bytes, are
\* reported at once, by a handler within the call.
AsyncReadAtLeast(num, len) ==
    \/ /\ num > len \/ m_reading \/ num = 0
       /\ handler' = [ec |-> IF num > len THEN "invalid_num_bytes"
                             ELSE IF m_reading THEN "double_read" ELSE "ok",
                      n |-> 0]
       /\ UNCHANGED readVars
    \/ /\ ~(num > len \/ m_reading \/ num = 0)
       /\ m_reading' = TRUE /\ m_len' = len /\ m_bytes_needed' = num
       /\ m_cursor' = 0
       /\ handler' = NoHandler

\* The library reads: when it starts or resumes, or as the last thing that the
\* handler of a read does.  A handler that got an error ends the connection.
LibraryReads ==
    /\ ~failed
    /\ handler.ec = "ok" \/ (handler = NoHandler /\ call = NoCall)
    /\ \E len \in Lengths, num \in Lengths \cup {0} : AsyncReadAtLeast(num, len)
    /\ UNCHANGED <<call, failed, taken, delivered, calls, output>>

\* A handler returns without another read: reading is paused, or it failed.
HandlerReturns ==
    /\ handler # NoHandler
    /\ failed' = (failed \/ handler.ec # "ok")
    /\ handler' = NoHandler
    /\ UNCHANGED <<readVars, call, taken, delivered, calls, output>>

\* complete_read(ec) when the cursor is at n.
CompleteRead(ec, n) ==
    /\ m_reading' = FALSE
    /\ handler' = [ec |-> ec, n |-> n]
    /\ delivered' = delivered + n

LessOf(a, b) == IF a < b THEN a ELSE b

\* What fits into the buffer.
Room == LessOf(call.left, m_len - m_cursor)

\* A read is complete once it has what it needs.
Complete(n) == n >= m_bytes_needed

\* read_some, read_all or operator>> takes the lock.
Supply(kind, n) ==
    /\ call = NoCall /\ handler = NoHandler /\ calls < MaxCalls
    /\ calls' = calls + 1
    /\ call' = [kind |-> kind, left |-> n, more |-> TRUE]
    /\ UNCHANGED <<readVars, handler, failed, taken, delivered, output>>

\* Mutant: read_all supplies once, as read_some does.
GoesRound_Once == call.kind = "stream" /\ call.left >= m_len - m_cursor

\* Whether the call goes round again after a round that takes Room bytes:
\* read_all unless it has nothing left or took nothing, operator>> while the
\* stream is good, which it is unless it had less than it was asked for.
GoesRound ==
    \/ (call.kind = "all" /\ Room # 0 /\ call.left > Room)
    \/ (call.kind = "stream" /\ call.left >= m_len - m_cursor)

\* One round: read_some_impl, or the body of the loop of read().
Copy ==
    /\ call # NoCall /\ handler = NoHandler /\ call.more /\ m_reading
    /\ call' = [call EXCEPT !.left = @ - Room, !.more = GoesRound]
    /\ m_cursor' = m_cursor + Room
    /\ taken' = taken + Room
    /\ IF Complete(m_cursor')
       THEN CompleteRead("ok", m_cursor')
       ELSE UNCHANGED <<m_reading, handler, delivered>>
    /\ UNCHANGED <<m_len, m_bytes_needed, failed, calls, output>>

\* The library is not reading, or the loop ended: the call returns.
Return ==
    /\ call # NoCall /\ handler = NoHandler
    /\ ~(call.more /\ m_reading)
    /\ call' = NoCall
    /\ UNCHANGED <<readVars, handler, failed, taken, delivered, calls, output>>

\* eof() and fatal_error(): a read in progress ends with what it has.
Ends ==
    /\ call = NoCall /\ handler = NoHandler /\ calls < MaxCalls
    /\ m_reading
    /\ calls' = calls + 1
    /\ \E ec \in {"eof", "pass_through"} : CompleteRead(ec, m_cursor)
    /\ UNCHANGED <<m_len, m_bytes_needed, m_cursor, call, failed, taken, output>>

\* async_write(bufs): the stream or the write handler gets one buffer after the
\* other until one fails, the vectored handler all of them at once; without any
\* of these there is nowhere to write to.
AsyncWrite(n) ==
    /\ ~failed /\ calls < MaxCalls
    /\ calls' = calls + 1
    /\ \/ output' = [ec |-> "ok", written |-> n, of |-> n]
       \/ \E i \in 1 .. n, ec \in {"bad_stream", "handler_error"} :
             output' = [ec |-> ec, written |-> i - 1, of |-> n]
       \/ output' = [ec |-> "output_stream_required", written |-> 0, of |-> n]
    /\ failed' = (output'.ec # "ok")
    /\ UNCHANGED <<readVars, call, handler, taken, delivered>>

Next ==
    \/ LibraryReads \/ HandlerReturns
    \/ \E n \in Supplies, kind \in {"some", "all", "stream"} : Supply(kind, n)
    \/ Copy \/ Return \/ Ends
    \/ \E n \in 1 .. MaxBuffers : AsyncWrite(n)

Spec == Init /\ [][Next]_vars

-----------------------------------------------------------------------------
(***************************************************************************)
(* Every byte that a call reported as read (read_some and read_all return  *)
(* the number, operator>> moves tellg) was given to exactly one handler or *)
(* waits in the buffer of the read in progress, however many rounds the    *)
(* call made and whatever reads were refused meanwhile; a read that        *)
(* succeeds has at least what was asked for and no more than its buffer    *)
(* holds (async_read_at_least).                                            *)
(***************************************************************************)
BytesAccounted ==
    /\ taken = delivered + (IF m_reading THEN m_cursor ELSE 0)
    /\ m_reading => m_cursor < m_bytes_needed /\ m_bytes_needed <= m_len
    /\ handler.ec = "ok" /\ handler.n > 0 => handler.n \in m_bytes_needed .. m_len

(***************************************************************************)
(* When read_all or operator>> returns, there is no outstanding read or    *)
(* nothing more to be read, even when the handlers that it calls start     *)
(* further reads.                                                          *)
(***************************************************************************)
ReadsAll ==
    [][call.kind \in {"all", "stream"} /\ call' = NoCall
         => ~m_reading \/ call.left = 0]_vars

\* The inductive invariant of Transport_proofs: a call that is not
\* going round again has used up its bytes.
ReadInv ==
    /\ {m_len, m_bytes_needed, m_cursor, taken, delivered} \subseteq Nat
    /\ call \in [kind : {"none", "some", "all", "stream"}, left : Nat,
                 more : BOOLEAN]
    /\ handler.n \in Nat
    /\ BytesAccounted
    /\ call.kind \in {"all", "stream"} /\ ~call.more => call.left = 0

=============================================================================
