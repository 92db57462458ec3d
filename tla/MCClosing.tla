------------------------------ MODULE MCClosing ------------------------------
(***************************************************************************)
(* The end of a connection, at the two levels of detail: the closing       *)
(* handshake between two endpoints of the library (CloseHandshake), and    *)
(* the threads of one endpoint against any remote one                      *)
(* (EstablishedConnection).  They do not share state; part says which of   *)
(* them a behaviour is about, and the other stays as it began.             *)
(***************************************************************************)
EXTENDS CloseHandshake

CONSTANTS
    AppThreads, Strand, NoThread, Senders, Closers, ApiOps, IsServer,
    DropOnProtocolError, CloseTimeout, MaxApiCalls, MaxFrames

VARIABLES
    part,
    one_state, one_was_clean, one_timer, one_stray, one_reading, api_calls,
    state_lock, m_send_queue, m_write_flag, m_current_msgs, writes, posted,
    expired, shutdowns, close_calls, pc, msg, frames, pushed, wire, lost

L == INSTANCE EstablishedConnection
        WITH m_state <- one_state, m_was_clean <- one_was_clean,
             timer <- one_timer, stray <- one_stray, reading <- one_reading,
             calls <- api_calls, MaxCalls <- MaxApiCalls

oneVars == <<one_state, one_was_clean, one_timer, one_stray, one_reading,
             api_calls, state_lock, m_send_queue, m_write_flag,
             m_current_msgs, writes, posted, expired, shutdowns, close_calls,
             pc, msg, frames, pushed, wire, lost>>
allVars == <<part, vars, oneVars>>

\* One of the values of has_timer, for the behaviours that are not about it.
AnyTimer == CHOOSE t \in Timers : TRUE

MCInit ==
    /\ part \in {"pair", "one"}
    /\ Init /\ (part = "pair" \/ has_timer = AnyTimer)
    /\ L!Init

PairNext == part = "pair" /\ Next /\ UNCHANGED <<part, oneVars>>
OneNext == part = "one" /\ L!Next /\ UNCHANGED <<part, vars>>

MCNext == PairNext \/ OneNext

\* The fairness of the two modules.
MCSpec == MCInit /\ [][MCNext]_allVars /\ Fairness /\ L!Fairness

-----------------------------------------------------------------------------
(***************************************************************************)
(* Properties: WireSound, Agreement and HandshakeEnds of CloseHandshake,   *)
(* and those of EstablishedConnection that need its fairness.              *)
(***************************************************************************)

\* A closing handshake always ends, even if the remote endpoint never answers
\* and writes hang: the close handshake timer terminates the connection.
ClosingEnds == L!ClosingEnds

\* Every closed connection has its close handler run.
CloseHandlerRuns == L!CloseHandlerRuns

\* On a transport that completes its writes every queued message leaves the
\* queue, or the connection is closed.
QueueDrains == L!QueueDrains

=============================================================================
