----------------------------- MODULE MCTransport -----------------------------
(***************************************************************************)
(* The machines between a connection and what carries its bytes.  They do  *)
(* not share state; part says which of them a behaviour is about, and the  *)
(* others stay as they began.                                              *)
(***************************************************************************)
EXTENDS MCAsioTransport

CONSTANTS
    Threading, MaxPauses, MaxReads,                \* ReadFlow
    Supplies, Lengths, MaxSupplies, MaxBuffers,    \* IostreamTransport
    Slots, NoSlot, Patient, MaxListens, MaxConnects,  \* Endpoint
    Pingers, MaxPings, MaxStrays                   \* PingTimer

VARIABLES
    part,
    one_thread, m_read_flag, reading, queue, processing, ended, want, allowed,
    pauses, completed,
    m_reading, m_len, m_bytes_needed, m_cursor, call, handler, failed, taken,
    delivered, supplies, output,
    m_state, m_external_io_service, acceptor, m_work, stopped, running, con,
    pc, looping, listens, connects,
    open, m_ping_timer, ping_timer, pinging, mine, pings, wire, pongs, strays,
    excused, reported

F == INSTANCE ReadFlow WITH calls <- pauses, MaxCalls <- MaxPauses
I == INSTANCE IostreamTransport WITH calls <- supplies, MaxCalls <- MaxSupplies
E == INSTANCE Endpoint
P == INSTANCE PingTimer WITH timer <- ping_timer, pc <- pinging

ASSUME BoundsAssumption ==
    /\ F!BoundsAssumption /\ I!SizesAssumption /\ E!EndpointAssumption
    /\ P!BoundsAssumption

flowVars == <<one_thread, m_read_flag, reading, queue, processing, ended, want,
              allowed, pauses, completed>>
iostreamVars == <<m_reading, m_len, m_bytes_needed, m_cursor, call, handler,
                  failed, taken, delivered, supplies, output>>
endpointVars == <<m_state, m_external_io_service, acceptor, m_work, stopped,
                  running, con, pc, looping, listens, connects>>
pingVars == <<open, m_ping_timer, ping_timer, pinging, mine, pings, wire, pongs,
              strays, excused, reported>>
allVars == <<part, vars, flowVars, iostreamVars, endpointVars, pingVars>>

Unused(x) == x = "unused"
NoReadFlow ==
    /\ Unused(one_thread) /\ Unused(m_read_flag) /\ Unused(reading)
    /\ Unused(queue) /\ Unused(processing) /\ Unused(ended) /\ Unused(want)
    /\ Unused(allowed) /\ Unused(pauses) /\ Unused(completed)
NoPingTimer ==
    /\ Unused(open) /\ Unused(m_ping_timer) /\ Unused(ping_timer)
    /\ Unused(pinging) /\ Unused(mine) /\ Unused(pings) /\ Unused(wire)
    /\ Unused(pongs) /\ Unused(strays) /\ Unused(excused) /\ Unused(reported)

\* One of the configurations, for the behaviours that are not about it.
AnyConfiguration == CHOOSE c \in Configurations : TRUE

MCInit ==
    /\ part \in {"setup", "flow", "iostream", "endpoint", "ping"}
    /\ Init /\ (part = "setup" \/ config = AnyConfiguration)
    /\ IF part = "flow" THEN F!Init ELSE NoReadFlow
    /\ I!Init /\ E!Init
    /\ IF part = "ping" THEN P!Init ELSE NoPingTimer

SetupNext ==
    /\ part = "setup" /\ Next
    /\ UNCHANGED <<part, flowVars, iostreamVars, endpointVars, pingVars>>
FlowNext ==
    /\ part = "flow" /\ F!Next
    /\ UNCHANGED <<part, vars, iostreamVars, endpointVars, pingVars>>
IostreamNext ==
    /\ part = "iostream" /\ I!Next
    /\ UNCHANGED <<part, vars, flowVars, endpointVars, pingVars>>
EndpointNext ==
    /\ part = "endpoint" /\ E!Next
    /\ UNCHANGED <<part, vars, flowVars, iostreamVars, pingVars>>
PingNext ==
    /\ part = "ping" /\ P!Next
    /\ UNCHANGED <<part, vars, flowVars, iostreamVars, endpointVars>>

MCNext == SetupNext \/ FlowNext \/ IostreamNext \/ EndpointNext \/ PingNext

\* The fairness of AsioTransport and of Endpoint.
MCSpec ==
    /\ MCInit /\ [][MCNext]_allVars
    /\ WF_vars(part = "setup" /\ Runtime)
    /\ WF_endpointVars(part = "endpoint" /\ E!Progress)

-----------------------------------------------------------------------------
(***************************************************************************)
(* Properties: those of the modules, each of its own part.                 *)
(***************************************************************************)

\* With one thread every handler that the connection gave to async_connect,
\* init or async_shutdown is called at most once and nothing of the setup
\* survives it; with any number, no operation waits without a timer.
SetupClean == TypeOK /\ CalledOnce /\ NoLeftovers /\ Guarded

\* Every handler that the connection gave to the transport is called, whatever
\* the network does.
SetupAnswered == part = "setup" => Answered

\* pause_reading and resume_reading, called at any time by any thread: no read
\* is forgotten while the connection is not paused; with one thread the last
\* call has its way, and a pause lets no more reads start than were under way.
ReadingFollowsCalls ==
    part = "flow" =>
       F!TypeOK /\ F!NeverStalls /\ F!LastCallWins /\ F!PauseTakesEffect

\* The iostream transport tells its caller of exactly the bytes that it took,
\* and the read handler of as many as the library asked for.
BytesAccounted == I!BytesAccounted

\* read_all and operator>> return when there is nothing more to be read, or
\* nobody to read it, though handlers start further reads meanwhile.
ReadsAll == I!ReadsAll

\* A listening endpoint accepts with one loop, and as long as connections can
\* be created the loop goes on.
AcceptsOnce == E!OneLoop /\ E!LoopLives

\* stop_listening ends the loop.
AcceptingEnds == E!LoopEnds

\* pong_timeout is called for a ping only if no pong and no newer ping came
\* between the arming and the expiry of its timer.
PongTimeoutJustified == part = "ping" => P!TimeoutJustified

=============================================================================
