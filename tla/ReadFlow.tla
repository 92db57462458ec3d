------------------------------ MODULE ReadFlow ------------------------------
(***************************************************************************)
(* Flow control of an established connection: pause_reading and            *)
(* resume_reading, called by any thread, against the read loop             *)
(* handle_read_frame / read_frame.  All reads go into the one buffer       *)
(* m_buf, so there should never be two of them; resume_reading starts one  *)
(* without asking whether one is outstanding.  Posted callbacks and        *)
(* completed reads wait in the io_service; one thread runs them in order,  *)
(* several threads hand them to the strand in any order.                   *)
(***************************************************************************)
EXTENDS Integers, SequencesExt

CONSTANTS
    Threading, \* the values one_thread may have
    MaxCalls,  \* bound: calls of pause_reading and resume_reading
    MaxReads   \* bound: reads that complete

BoundsAssumption ==
    /\ Threading \subseteq BOOLEAN
    /\ MaxCalls \in Nat /\ MaxReads \in Nat

VARIABLES
    one_thread,   \* one thread runs the io_service
    m_read_flag,  \* reading is not paused
    reading,      \* async_read_at_least operations waiting for bytes
    queue,        \* handlers ready to run on the strand
    processing,   \* handle_read_frame is running, message handlers included
    ended,        \* a read failed or a frame was invalid: no further read
    want,         \* history: the last call was resume_reading, or none was made
    allowed,      \* history: while want is FALSE, the reads that may still be
                  \* started since pause_reading was called
    calls,        \* pause_reading and resume_reading calls so far
    completed     \* reads completed so far

vars == <<one_thread, m_read_flag, reading, queue, processing, ended, want,
          allowed, calls, completed>>

\* The connection has just opened: handle_read_frame is called on the bytes
\* that followed the handshake.
Init ==
    /\ one_thread \in Threading
    /\ m_read_flag = TRUE
    /\ reading = 0
    /\ queue = <<>>
    /\ processing = TRUE
    /\ ended = FALSE
    /\ want = TRUE
    /\ allowed = 0
    /\ calls = 0
    /\ completed = 0

Queued(h) == \E i \in DOMAIN queue : queue[i] = h

\* Everything that is under way and may start a read: the reads themselves, one
\* of which may be with handle_read_frame, and the calls of resume_reading.
Starters == {i \in DOMAIN queue : queue[i] # "pause"}
UnderWay == reading + (IF processing THEN 1 ELSE 0) + Cardinality(Starters)

-----------------------------------------------------------------------------
\* pause_reading(), from an application thread or from a message handler.
PauseReading ==
    /\ calls < MaxCalls
    /\ calls' = calls + 1
    /\ queue' = Append(queue, "pause")
    /\ want' = FALSE
    /\ allowed' = UnderWay
    /\ UNCHANGED <<one_thread, m_read_flag, reading, processing, ended,
                   completed>>

\* resume_reading(), likewise: at any time, since nothing tells an application
\* whether reading has stopped.
ResumeReading ==
    /\ calls < MaxCalls
    /\ calls' = calls + 1
    /\ queue' = Append(queue, "resume")
    /\ want' = TRUE
    /\ allowed' = 0
    /\ UNCHANGED <<one_thread, m_read_flag, reading, processing, ended,
                   completed>>

\* Bytes arrive, or the read fails: its handler is queued.
ReadCompletes ==
    /\ reading > 0
    /\ completed < MaxReads
    /\ completed' = completed + 1
    /\ reading' = reading - 1
    /\ queue' = Append(queue, "read")
    /\ UNCHANGED <<one_thread, m_read_flag, processing, ended, want, allowed,
                   calls>>

\* The strand runs a ready handler h: in order if one thread runs the
\* io_service, and never two at a time.
Run(h) ==
    /\ ~processing
    /\ \E i \in DOMAIN queue :
          /\ one_thread => i = 1
          /\ queue[i] = h
          /\ queue' = RemoveAt(queue, i)

\* handle_pause_reading()
HandlePause ==
    /\ Run("pause")
    /\ m_read_flag' = FALSE
    /\ UNCHANGED <<one_thread, reading, processing, ended, want, allowed,
                   calls, completed>>

\* read_frame(), called when m_read_flag is flag.
ReadFrame(flag) ==
    IF flag THEN /\ reading' = reading + 1
                 /\ allowed' = IF want THEN 0 ELSE allowed - 1
    ELSE UNCHANGED <<reading, allowed>>

\* Mutant: handle_resume_reading leaves the next read to the read loop.
HandleResume_NoRead ==
    /\ Run("resume")
    /\ m_read_flag' = TRUE
    /\ UNCHANGED <<one_thread, reading, processing, ended, want, allowed,
                   calls, completed>>

\* handle_resume_reading()
HandleResume ==
    /\ Run("resume")
    /\ m_read_flag' = TRUE
    /\ ReadFrame(TRUE)
    /\ UNCHANGED <<one_thread, processing, ended, want, calls, completed>>

\* handle_read_frame() begins: the bytes are consumed and message handlers run.
HandleRead ==
    /\ Run("read")
    /\ processing' = TRUE
    /\ UNCHANGED <<one_thread, m_read_flag, reading, ended, want, allowed,
                   calls, completed>>

\* Its loop is done: the next read.
FinishRead ==
    /\ processing
    /\ processing' = FALSE
    /\ ReadFrame(m_read_flag)
    /\ UNCHANGED <<one_thread, m_read_flag, queue, ended, want, calls,
                   completed>>

\* It returns early, after a transport or protocol error.
AbandonRead ==
    /\ processing
    /\ processing' = FALSE
    /\ ended' = TRUE
    /\ UNCHANGED <<one_thread, m_read_flag, reading, queue, want, allowed,
                   calls, completed>>

Next ==
    \/ PauseReading \/ ResumeReading
    \/ ReadCompletes
    \/ HandlePause \/ HandleResume \/ HandleRead
    \/ FinishRead \/ AbandonRead

Spec == Init /\ [][Next]_vars

-----------------------------------------------------------------------------
\* Types of the variables.
TypeOK ==
    /\ one_thread \in BOOLEAN
    /\ m_read_flag \in BOOLEAN
    /\ reading \in Nat
    /\ queue \in Seq({"pause", "resume", "read"})
    /\ processing \in BOOLEAN
    /\ ended \in BOOLEAN
    /\ want \in BOOLEAN
    /\ allowed \in Int
    /\ calls \in Nat
    /\ completed \in Nat

\* m_buf belongs to one read at a time: there is never a second read while one
\* waits for bytes, is queued or is being processed.  That is what
\* connection.hpp:738 says of resume_reading: "If reading is not paused for this
\* connection already nothing is changed."
OneRead ==
    /\ reading <= 1
    /\ reading = 1 => ~processing /\ ~Queued("read")
    /\ processing => ~Queued("read")
    /\ \A i, j \in DOMAIN queue : queue[i] = "read" /\ queue[j] = "read" => i = j

\* A connection that is not paused never stops reading: a read is under way
\* until one ends in an error.
NeverStalls ==
    m_read_flag /\ ~ended => reading > 0 \/ processing \/ Queued("read")

\* With one thread, when the strand has run everything, the last call has its
\* way: reading is paused if that was pause_reading and not paused if it was
\* resume_reading.
LastCallWins == one_thread /\ queue = <<>> => (m_read_flag <=> want)

\* With one thread, pause_reading lets no more reads start than there are reads
\* and resumes under way when it is called, each of which may go ahead of the
\* posted handler once: "reading may not stop until the current read operation
\* completes" (connection.hpp:721), and not later.
PauseTakesEffect == one_thread /\ ~want => allowed >= 0

-----------------------------------------------------------------------------
\* What runs before the last pause in the queue.
Ahead ==
    {i \in Starters : \E j \in DOMAIN queue : j > i /\ queue[j] = "pause"}

\* What may still start a read before the pause is carried out is within what
\* was allowed.
Allowance ==
    ~want =>
       /\ allowed >= 0
       /\ Queued("pause") =>
             (IF processing THEN 1 ELSE 0) + Cardinality(Ahead) <= allowed

\* The last call is the last command in the queue, or has been carried out.
LastCommand ==
    /\ \A i \in DOMAIN queue :
          /\ queue[i] # "read"
          /\ \A j \in DOMAIN queue : j > i => queue[j] = "read"
          => (want <=> queue[i] = "resume")
    /\ (\A i \in DOMAIN queue : queue[i] = "read") => (want <=> m_read_flag)

\* The inductive invariant of Transport_proofs.
FlowInv ==
    /\ TypeOK
    /\ NeverStalls
    /\ one_thread => LastCommand /\ Allowance

=============================================================================
