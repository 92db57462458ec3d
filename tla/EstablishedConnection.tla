------------------------ MODULE EstablishedConnection ------------------------
(***************************************************************************)
(* One connection<config> after its opening handshake (internal state      *)
(* PROCESS_CONNECTION): the outgoing message queue, the write flag, the    *)
(* closing handshake and terminate(), driven by application threads that   *)
(* call send, ping and close through a connection_hdl and by the           *)
(* connection's strand, which runs one completion handler at a time.       *)
(*                                                                         *)
(* The step boundaries are the ones another thread can observe: the end of *)
(* a critical section of m_connection_state_lock or m_write_lock, and each *)
(* unlocked write of m_state or m_handshake_timer.  Payload bytes, close   *)
(* codes and logging are abstracted away.                                  *)
(***************************************************************************)
EXTENDS Integers, Sequences

CONSTANTS
    AppThreads,           \* application threads that hold a connection_hdl
    Strand,               \* the strand: all transport callbacks run on it
    NoThread,             \* m_connection_state_lock is free
    Senders,              \* the threads that call send() and ping()
    Closers,              \* the threads that call close()
    ApiOps,               \* which of the sending calls they make
    IsServer,             \* m_is_server
    DropOnProtocolError,  \* config::drop_on_protocol_error
    CloseTimeout,         \* m_close_handshake_timeout_dur > 0
    MaxCalls,             \* bound: API calls per thread
    MaxFrames             \* bound: frames received from the remote endpoint

Threads == AppThreads \cup {Strand}

ASSUME ThreadsAssumption ==
    /\ Strand \notin AppThreads
    /\ NoThread \notin Threads
    /\ Senders \subseteq Threads
    /\ Closers \subseteq Threads

ASSUME ConfigAssumption ==
    /\ ApiOps \subseteq {"data", "ping"}
    /\ IsServer \in BOOLEAN
    /\ DropOnProtocolError \in BOOLEAN
    /\ CloseTimeout \in BOOLEAN

ASSUME BoundsAssumption == MaxCalls \in Nat /\ MaxFrames \in Nat

VARIABLES
    m_state,         \* session::state, from open on
    state_lock,      \* the holder of m_connection_state_lock
    m_was_clean,     \* both close frames were seen
    m_send_queue,    \* messages waiting to be written
    m_write_flag,    \* a transport write is outstanding
    m_current_msgs,  \* the messages of that write
    writes,          \* async_write operations the transport has in progress
    posted,          \* write_frame calls posted to the strand
    timer,           \* m_handshake_timer is "none" or an "armed" timer
    stray,           \* armed timers m_handshake_timer no longer points to
    expired,         \* timeout handlers queued on the strand
    reading,         \* a transport read is in progress
    shutdowns,       \* async_shutdown operations in progress
    close_calls,     \* history: calls of the close handler
    pc,              \* where each thread is inside a library call
    msg,             \* the message that call is about to queue
    calls,           \* API calls each thread has made so far
    frames,          \* frames received so far
    pushed,          \* history: every message given to write_push
    wire,            \* history: messages the transport has written
    lost             \* history: messages of a write that failed

stateVars == <<m_state, state_lock, m_was_clean>>
writeVars == <<m_send_queue, m_write_flag, m_current_msgs, writes, posted>>
timerVars == <<timer, stray, expired>>
endVars   == <<shutdowns, close_calls>>
callVars  == <<pc, msg, calls>>
readVars  == <<reading, frames>>
history   == <<pushed, wire, lost>>

vars == <<stateVars, writeVars, timerVars, endVars, callVars, readVars, history>>

-----------------------------------------------------------------------------
(***************************************************************************)
(* Messages.  A close frame is terminal if the connection is dropped once  *)
(* it is written; ack distinguishes an acknowledgement from a first close. *)
(***************************************************************************)
Message(op, by, id, terminal, ack) ==
    [op |-> op, by |-> by, id |-> id, terminal |-> terminal, ack |-> ack]

Messages == [op : {"data", "ping", "pong", "close"}, by : Threads, id : Nat,
             terminal : BOOLEAN, ack : BOOLEAN]

NoMessage == Message("data", Strand, 0, FALSE, FALSE)

States  == {"open", "closing", "closed"}
Stages  == {"idle", "close_set", "close_timer", "push", "dispatch"}

Init ==
    /\ m_state = "open"
    /\ state_lock = NoThread
    /\ m_was_clean = FALSE
    /\ m_send_queue = <<>>
    /\ m_write_flag = FALSE
    /\ m_current_msgs = <<>>
    /\ writes = 0
    /\ posted = 0
    /\ timer = "none"
    /\ stray = 0
    /\ expired = 0
    /\ reading = TRUE
    /\ shutdowns = 0
    /\ close_calls = 0
    /\ pc = [t \in Threads |-> "idle"]
    /\ msg = [t \in Threads |-> NoMessage]
    /\ calls = [t \in Threads |-> 0]
    /\ frames = 0
    /\ pushed = <<>>
    /\ wire = <<>>
    /\ lost = <<>>

\* Thread t moves on to stage s of its call.
Goto(t, s) == pc' = [pc EXCEPT ![t] = s]

\* Leaving close() destroys its scoped lock.
Unlock(t) ==
    state_lock' = IF state_lock = t THEN NoThread ELSE state_lock

-----------------------------------------------------------------------------
(***************************************************************************)
(* The API calls, each made by any thread.                                 *)
(***************************************************************************)

\* send() and ping(): the state is checked inside one critical section; the
\* message is queued later, inside another.
CallSend(t, op) ==
    /\ t \in Senders
    /\ pc[t] = "idle"
    /\ calls[t] < MaxCalls
    /\ state_lock = NoThread
    /\ m_state = "open"
    /\ calls' = [calls EXCEPT ![t] = @ + 1]
    /\ msg' = [msg EXCEPT ![t] = Message(op, t, calls[t] + 1, FALSE, FALSE)]
    /\ Goto(t, "push")
    /\ UNCHANGED <<stateVars, writeVars, timerVars, endVars, readVars, history>>

\* prepare_data_frame or prepare_ping refuses the message: nothing is queued.
SendRejected(t) ==
    /\ pc[t] = "push"
    /\ msg[t].op \in {"data", "ping"}
    /\ Goto(t, "idle")
    /\ UNCHANGED <<stateVars, writeVars, timerVars, endVars, readVars, history,
                   msg, calls>>

\* The critical section of m_write_lock: write_push, and the decision whether
\* a write has to be started.
Push(t) ==
    /\ pc[t] = "push"
    /\ m_send_queue' = Append(m_send_queue, msg[t])
    /\ pushed' = Append(pushed, msg[t])
    /\ IF m_write_flag
       THEN Goto(t, "idle") /\ Unlock(t)
       ELSE Goto(t, "dispatch") /\ UNCHANGED state_lock
    /\ UNCHANGED <<m_state, m_was_clean, m_write_flag, m_current_msgs, writes,
                   posted, timerVars, endVars, readVars, msg, calls, wire, lost>>

\* needs_writing: post write_frame to the strand.
Dispatch(t) ==
    /\ pc[t] = "dispatch"
    /\ posted' = posted + 1
    /\ Goto(t, "idle")
    /\ Unlock(t)
    /\ UNCHANGED <<m_state, m_was_clean, m_send_queue, m_write_flag,
                   m_current_msgs, writes, timerVars, endVars, readVars, msg,
                   calls, history>>

\* close(): the state is checked and m_connection_state_lock is then held to
\* the end of the call.
CallClose(t, terminal) ==
    /\ t \in Closers
    /\ pc[t] = "idle"
    /\ calls[t] < MaxCalls
    /\ state_lock = NoThread
    /\ m_state = "open"
    /\ state_lock' = t
    /\ calls' = [calls EXCEPT ![t] = @ + 1]
    /\ msg' = [msg EXCEPT ![t] = Message("close", t, calls[t] + 1, terminal, FALSE)]
    /\ Goto(t, "close_set")
    /\ UNCHANGED <<m_state, m_was_clean, writeVars, timerVars, endVars,
                   readVars, history>>

\* prepare_close refuses the application's code or reason (the library's own
\* close frames, which have no call number, are well-formed).
CloseRejected(t) ==
    /\ pc[t] = "close_set"
    /\ msg[t].id > 0
    /\ Goto(t, "idle")
    /\ Unlock(t)
    /\ UNCHANGED <<m_state, m_was_clean, writeVars, timerVars, endVars,
                   readVars, msg, calls, history>>

\* send_close_frame: m_state = closing, whatever terminate() made of it since
\* it was checked.
CloseSetState(t) ==
    /\ pc[t] = "close_set"
    /\ m_state' = "closing"
    /\ m_was_clean' = (m_was_clean \/ msg[t].ack)
    /\ Goto(t, "close_timer")
    /\ UNCHANGED <<state_lock, writeVars, timerVars, endVars, readVars, msg,
                   calls, history>>

\* Mutant: no close handshake timer.
CloseSetTimer_NoTimer(t) ==
    /\ pc[t] = "close_timer"
    /\ Goto(t, "push")
    /\ UNCHANGED <<stateVars, writeVars, timerVars, endVars, readVars, msg,
                   calls, history>>

\* send_close_frame: the close handshake timer replaces the previous one,
\* which is not cancelled.
CloseSetTimer(t) ==
    /\ pc[t] = "close_timer"
    /\ IF CloseTimeout
       THEN /\ timer' = "armed"
            /\ stray' = IF timer = "armed" THEN stray + 1 ELSE stray
            /\ UNCHANGED expired
       ELSE UNCHANGED timerVars
    /\ Goto(t, "push")
    /\ UNCHANGED <<stateVars, writeVars, endVars, readVars, msg, calls, history>>

-----------------------------------------------------------------------------
(***************************************************************************)
(* Handlers on the strand.  Each starts when no other is running.          *)
(***************************************************************************)
StrandIdle == pc[Strand] = "idle"

\* Mutant: terminate() shuts down again on a connection that is closed already.
Terminate_Again ==
    /\ timer' = "none"
    /\ m_state' = "closed"
    /\ shutdowns' = shutdowns + 1

\* Mutant: terminate() forgets the shutdown of a closing connection.
Terminate_NoShutdown ==
    /\ timer' = "none"
    /\ m_state' = "closed"
    /\ shutdowns' = IF m_state = "open" THEN shutdowns + 1 ELSE shutdowns

\* terminate(): cancel the handshake timer; unless already closed, close and
\* shut the transport down.
Terminate ==
    /\ timer' = "none"
    /\ IF m_state = "closed"
       THEN UNCHANGED <<m_state, shutdowns>>
       ELSE m_state' = "closed" /\ shutdowns' = shutdowns + 1

\* Mutant: write_frame does not stop at a terminal message.
Batch_PastTerminal(q) == q

\* What write_pop takes off the queue: everything up to and including the
\* first terminal message.
Batch(q) ==
    IF \E i \in DOMAIN q : q[i].terminal
    THEN SubSeq(q, 1, CHOOSE i \in DOMAIN q :
                        /\ q[i].terminal
                        /\ \A j \in 1..(i - 1) : ~q[j].terminal)
    ELSE q

\* Mutant: write_frame ignores m_write_flag.
WriteFrame_NoFlagTest ==
    /\ StrandIdle
    /\ posted > 0
    /\ posted' = posted - 1
    /\ IF m_current_msgs = <<>> /\ m_send_queue = <<>>
       THEN UNCHANGED <<m_send_queue, m_write_flag, m_current_msgs, writes>>
       ELSE LET batch == Batch(m_send_queue) IN
            /\ m_current_msgs' = m_current_msgs \o batch
            /\ m_send_queue' = SubSeq(m_send_queue, Len(batch) + 1, Len(m_send_queue))
            /\ m_write_flag' = TRUE
            /\ writes' = writes + 1
    /\ UNCHANGED <<stateVars, timerVars, endVars, callVars, readVars, history>>

\* Mutant: write_frame leaves the last message it takes in the queue.
WriteFrame_OffByOne ==
    /\ StrandIdle
    /\ posted > 0
    /\ posted' = posted - 1
    /\ IF m_write_flag \/ (m_current_msgs = <<>> /\ m_send_queue = <<>>)
       THEN UNCHANGED <<m_send_queue, m_write_flag, m_current_msgs, writes>>
       ELSE LET batch == Batch(m_send_queue) IN
            /\ m_current_msgs' = m_current_msgs \o batch
            /\ m_send_queue' = SubSeq(m_send_queue, Len(batch), Len(m_send_queue))
            /\ m_write_flag' = TRUE
            /\ writes' = writes + 1
    /\ UNCHANGED <<stateVars, timerVars, endVars, callVars, readVars, history>>

\* write_frame()
WriteFrame ==
    /\ StrandIdle
    /\ posted > 0
    /\ posted' = posted - 1
    /\ IF m_write_flag \/ (m_current_msgs = <<>> /\ m_send_queue = <<>>)
       THEN UNCHANGED <<m_send_queue, m_write_flag, m_current_msgs, writes>>
       ELSE LET batch == Batch(m_send_queue) IN
            /\ m_current_msgs' = m_current_msgs \o batch
            /\ m_send_queue' = SubSeq(m_send_queue, Len(batch) + 1, Len(m_send_queue))
            /\ m_write_flag' = TRUE
            /\ writes' = writes + 1
    /\ UNCHANGED <<stateVars, timerVars, endVars, callVars, readVars, history>>

\* Mutant: handle_write_frame releases the write flag and forgets what was
\* queued in the meantime.
HandleWriteFrame_NoRestart ==
    /\ StrandIdle
    /\ writes > 0
    /\ writes' = writes - 1
    /\ wire' = wire \o m_current_msgs
    /\ m_current_msgs' = <<>>
    /\ IF m_current_msgs[Len(m_current_msgs)].terminal
       THEN Terminate /\ UNCHANGED m_write_flag
       ELSE m_write_flag' = FALSE /\ UNCHANGED <<timer, m_state, shutdowns>>
    /\ UNCHANGED <<state_lock, m_was_clean, m_send_queue, posted, stray,
                   expired, close_calls, callVars, readVars, pushed, lost>>

\* handle_write_frame() with no error: the messages are on the wire.  After a
\* terminal message the write flag is kept.
HandleWriteFrame ==
    /\ StrandIdle
    /\ writes > 0
    /\ writes' = writes - 1
    /\ wire' = wire \o m_current_msgs
    /\ m_current_msgs' = <<>>
    /\ IF m_current_msgs[Len(m_current_msgs)].terminal
       THEN /\ Terminate
            /\ UNCHANGED <<m_write_flag, pc>>
       ELSE /\ m_write_flag' = FALSE
            /\ IF m_send_queue # <<>> THEN Goto(Strand, "dispatch") ELSE UNCHANGED pc
            /\ UNCHANGED <<timer, m_state, shutdowns>>
    /\ UNCHANGED <<state_lock, m_was_clean, m_send_queue, posted, stray,
                   expired, close_calls, msg, calls, readVars, pushed, lost>>

\* handle_write_frame() with an error of the transport.
HandleWriteError ==
    /\ StrandIdle
    /\ writes > 0
    /\ writes' = writes - 1
    /\ lost' = lost \o m_current_msgs
    /\ m_current_msgs' = <<>>
    /\ Terminate
    /\ UNCHANGED <<state_lock, m_was_clean, m_send_queue, m_write_flag, posted,
                   stray, expired, close_calls, callVars, readVars, pushed, wire>>

\* handle_read_frame delivers a frame; afterwards the next read is issued.
Receive ==
    /\ StrandIdle
    /\ reading
    /\ frames < MaxFrames
    /\ frames' = frames + 1

\* The strand starts send_close_ack: no lock is taken.
StartAck(terminal) ==
    /\ msg' = [msg EXCEPT ![Strand] = Message("close", Strand, 0, terminal, TRUE)]
    /\ Goto(Strand, "close_set")

\* A ping while open, whose handler lets the library answer with pong().
RecvPing ==
    /\ Receive
    /\ state_lock = NoThread
    /\ m_state = "open"
    /\ msg' = [msg EXCEPT ![Strand] = Message("pong", Strand, 0, FALSE, FALSE)]
    /\ Goto(Strand, "push")
    /\ UNCHANGED <<stateVars, writeVars, timerVars, endVars, calls, reading, history>>

\* Mutant: a close frame is acknowledged in every state.
RecvClose_AnyState ==
    /\ Receive
    /\ StartAck(IsServer)
    /\ UNCHANGED <<stateVars, writeVars, timerVars, endVars, calls, reading,
                   history>>

\* A well-formed close frame: acknowledge it, take it as the acknowledgement
\* of ours, or ignore it.
RecvClose ==
    /\ Receive
    /\ \/ /\ m_state = "open"
          /\ StartAck(IsServer)
          /\ UNCHANGED <<m_state, m_was_clean, timer, shutdowns>>
       \/ /\ m_state = "closing"
          /\ ~m_was_clean
          /\ m_was_clean' = TRUE
          /\ IF IsServer THEN Terminate ELSE UNCHANGED <<m_state, timer, shutdowns>>
          /\ UNCHANGED <<msg, pc>>
       \/ /\ m_state = "closed" \/ (m_state = "closing" /\ m_was_clean)
          /\ UNCHANGED <<m_state, m_was_clean, timer, shutdowns, msg, pc>>
    /\ UNCHANGED <<state_lock, writeVars, stray, expired, close_calls, calls,
                   reading, history>>

\* A close frame with an invalid code or reason, in any state but closed.
RecvBadClose ==
    /\ Receive
    /\ m_state # "closed"
    /\ IF DropOnProtocolError
       THEN Terminate /\ UNCHANGED <<msg, pc>>
       ELSE StartAck(IsServer) /\ UNCHANGED <<m_state, timer, shutdowns>>
    /\ UNCHANGED <<state_lock, m_was_clean, writeVars, stray, expired,
                   close_calls, calls, reading, history>>

\* Bytes the processor rejects: drop the connection or close() it with a
\* terminal code.  No further read is issued.
RecvBadFrame ==
    /\ Receive
    /\ reading' = FALSE
    /\ \/ /\ DropOnProtocolError
          /\ Terminate
          /\ UNCHANGED <<state_lock, msg, pc>>
       \/ /\ ~DropOnProtocolError
          /\ state_lock = NoThread
          /\ IF m_state = "open"
             THEN /\ state_lock' = Strand
                  /\ msg' = [msg EXCEPT ![Strand] =
                                Message("close", Strand, 0, TRUE, FALSE)]
                  /\ Goto(Strand, "close_set")
                  /\ UNCHANGED <<m_state, timer, shutdowns>>
             ELSE /\ Terminate
                  /\ UNCHANGED <<state_lock, msg, pc>>
    /\ UNCHANGED <<m_was_clean, writeVars, stray, expired, close_calls, calls,
                   history>>

\* handle_read_frame with eof or another error: ignored only for an eof in
\* state closed.
RecvEof ==
    /\ StrandIdle
    /\ reading
    /\ reading' = FALSE
    /\ Terminate \/ (m_state = "closed" /\ UNCHANGED <<m_state, timer, shutdowns>>)
    /\ UNCHANGED <<state_lock, m_was_clean, writeVars, stray, expired,
                   close_calls, callVars, frames, history>>

\* handle_close_handshake_timeout, without operation_aborted.
HandleCloseTimeout ==
    /\ StrandIdle
    /\ expired > 0
    /\ expired' = expired - 1
    /\ Terminate
    /\ UNCHANGED <<state_lock, m_was_clean, writeVars, stray, close_calls,
                   callVars, readVars, history>>

\* handle_terminate with tstat = closed: the close handler, then the
\* endpoint's termination handler.
HandleTerminate ==
    /\ StrandIdle
    /\ shutdowns > 0
    /\ shutdowns' = shutdowns - 1
    /\ close_calls' = close_calls + 1
    /\ UNCHANGED <<stateVars, writeVars, timerVars, callVars, readVars, history>>

\* Mutant: a cancelled timer expires all the same.
TimerExpires_Cancelled ==
    /\ \/ timer = "armed" /\ timer' = "none" /\ UNCHANGED stray
       \/ stray' = stray - 1 /\ UNCHANGED timer
    /\ expired' = expired + 1
    /\ UNCHANGED <<stateVars, writeVars, endVars, callVars, readVars, history>>

\* The transport's clock: an armed timer expires and its handler is queued;
\* cancelling it from now on has no effect.
TimerExpires ==
    /\ \/ timer = "armed" /\ timer' = "none" /\ UNCHANGED stray
       \/ stray > 0 /\ stray' = stray - 1 /\ UNCHANGED timer
    /\ expired' = expired + 1
    /\ UNCHANGED <<stateVars, writeVars, endVars, callVars, readVars, history>>

-----------------------------------------------------------------------------
\* The steps by which a thread finishes the call it is in.
Continue(t) ==
    \/ SendRejected(t)
    \/ Push(t)
    \/ Dispatch(t)
    \/ CloseRejected(t)
    \/ CloseSetState(t)
    \/ CloseSetTimer(t)

Call(t) ==
    \/ \E op \in ApiOps : CallSend(t, op)
    \/ \E terminal \in BOOLEAN : CallClose(t, terminal)

Recv == RecvPing \/ RecvClose \/ RecvBadClose \/ RecvBadFrame \/ RecvEof

Handler == WriteFrame \/ HandleCloseTimeout \/ HandleTerminate

Next ==
    \/ \E t \in Threads : Call(t) \/ Continue(t)
    \/ Recv
    \/ Handler
    \/ HandleWriteFrame
    \/ HandleWriteError
    \/ TimerExpires

Spec == Init /\ [][Next]_vars

(***************************************************************************)
(* Fairness: io_service::run keeps executing queued handlers, a thread     *)
(* inside a library call keeps running, timers expire, and the transport   *)
(* completes a shutdown (its own timer sees to that).  The remote endpoint *)
(* owes us nothing, so reads and, with TCP flow control, writes may hang.  *)
(***************************************************************************)
Fairness ==
    /\ \A t \in Threads : WF_vars(Continue(t))
    /\ WF_vars(WriteFrame)
    /\ WF_vars(HandleCloseTimeout)
    /\ WF_vars(HandleTerminate)
    /\ WF_vars(TimerExpires)

FairSpec == Spec /\ Fairness

\* A transport that also completes every write, well or with an error.
WritesComplete == WF_vars(HandleWriteFrame \/ HandleWriteError)

-----------------------------------------------------------------------------
(***************************************************************************)
(* Properties.                                                             *)
(***************************************************************************)

\* Types of the variables of connection<config> and of the model's history.
TypeOK ==
    /\ m_state \in States
    /\ state_lock \in Threads \cup {NoThread}
    /\ m_was_clean \in BOOLEAN
    /\ m_send_queue \in Seq(Messages)
    /\ m_write_flag \in BOOLEAN
    /\ m_current_msgs \in Seq(Messages)
    /\ writes \in Nat
    /\ posted \in Nat
    /\ timer \in {"none", "armed"}
    /\ stray \in Nat
    /\ expired \in Nat
    /\ reading \in BOOLEAN
    /\ shutdowns \in Nat
    /\ close_calls \in Nat
    /\ pc \in [Threads -> Stages]
    /\ msg \in [Threads -> Messages]
    /\ calls \in [Threads -> Nat]
    /\ frames \in Nat
    /\ pushed \in Seq(Messages)
    /\ wire \in Seq(Messages)
    /\ lost \in Seq(Messages)

\* At most one transport write is outstanding, m_write_flag is held as long as
\* it is, and m_current_msgs.back() in handle_write_frame never meets an empty
\* vector, although any thread may ask for a write at any time.
OneWrite ==
    /\ writes <= 1
    /\ writes = 1 <=> m_current_msgs # <<>>
    /\ writes = 1 => m_write_flag

\* A queued message is never stranded: while m_send_queue is not empty and no
\* write is outstanding, a write_frame is posted or some thread is about to
\* post one (the needs_writing protocol of send, ping, pong, send_close_frame
\* and handle_write_frame).
NoLostWakeup ==
    m_send_queue # <<>> /\ ~m_write_flag =>
        posted > 0 \/ \E t \in Threads : pc[t] = "dispatch"

\* Messages are written in the order in which they were queued, none twice and
\* none skipped; a failed write loses its batch and ends all writing.
InOrder ==
    /\ wire \o lost \o m_current_msgs \o m_send_queue = pushed
    /\ lost # <<>> => m_write_flag /\ writes = 0

\* Once a terminal close frame is on the wire nothing else is ever written:
\* write_frame stops at it and handle_write_frame keeps the write flag.
NothingAfterTerminal ==
    \A i \in DOMAIN (wire \o m_current_msgs) :
        (wire \o m_current_msgs)[i].terminal => i = Len(wire \o m_current_msgs)

\* After a terminal message is on the wire the write flag is held for good: the
\* part that makes NothingAfterTerminal inductive.
TerminalHalts ==
    (\E i \in DOMAIN wire : wire[i].terminal) => m_write_flag /\ writes = 0

\* The inductive invariant of the write path.
WriteInv ==
    TypeOK /\ OneWrite /\ NoLostWakeup /\ InOrder /\ NothingAfterTerminal /\
    TerminalHalts

\* When only handlers close, a close frame under way belongs to the strand,
\* which cannot terminate the connection before it is done.
StrandCloses ==
    \A t \in Threads : pc[t] = "close_set" => t = Strand /\ m_state # "closed"

\* The close handler is called exactly once per established connection: there
\* is one shutdown in progress or done for a closed connection, none before.
CloseHandlerOnce ==
    close_calls + shutdowns = IF m_state = "closed" THEN 1 ELSE 0

\* The inductive invariant of the end of a connection.
CloseInv == TypeOK /\ StrandCloses /\ CloseHandlerOnce

\* The close handler is never called a second time (connection.hpp: "exactly
\* once for every connection for which the open handler was called").
CloseHandlerAtMostOnce == close_calls <= 1

\* m_state only moves forward: terminate() is final and a closing connection
\* does not become open again.
StateForward ==
    [][ /\ m_state = "closed" => m_state' = "closed"
        /\ m_state = "closing" => m_state' # "open" ]_vars

\* A closing handshake always ends, even if the remote endpoint never answers
\* and writes hang: the close handshake timer terminates the connection.
ClosingEnds == (m_state = "closing") ~> (m_state = "closed")

\* Every closed connection has its close handler run.
CloseHandlerRuns == (m_state = "closed") ~> (close_calls > 0)

\* On a transport that completes its writes every queued message leaves the
\* queue, or the connection is closed.
QueueDrains ==
    WritesComplete =>
       ((m_send_queue # <<>>) ~> (m_send_queue = <<>> \/ m_state = "closed"))

=============================================================================
