------------------------------ MODULE Endpoint ------------------------------
(***************************************************************************)
(* An endpoint over the asio transport (roles/server_endpoint.hpp,         *)
(* roles/client_endpoint.hpp, endpoint.hpp, transport/asio/endpoint.hpp):  *)
(* the accept loop of a server against an application thread that listens, *)
(* stops listening and stops the io_service, the connections that are      *)
(* created on the way, and run(), which returns when nothing is left to    *)
(* do.                                                                     *)
(***************************************************************************)
EXTENDS Naturals, FiniteSets

CONSTANTS
    Slots,        \* bound: connections that exist at a time
    NoSlot,       \* none of them
    Patient,      \* the application listens again only when the loop has ended
    MaxListens,   \* bound: calls of listen()
    MaxConnects   \* bound: calls of connect()

EndpointAssumption ==
    /\ IsFiniteSet(Slots) /\ NoSlot \notin Slots /\ Patient \in BOOLEAN
    /\ MaxListens \in Nat /\ MaxConnects \in Nat

VARIABLES
    m_state,      \* UNINITIALIZED, READY or LISTENING
    m_external_io_service,
    acceptor,     \* m_acceptor is open
    m_work,       \* start_perpetual was called
    stopped,      \* the io_service has stopped and was not reset
    running,      \* a thread is inside run()
    con,          \* what has become of the connection in each slot
    pc,           \* what each thread is doing: the application's and the io_service's
    looping,      \* history: the application's start_accept succeeded since
                  \* listen() and no connection failed to be created
    listens,      \* calls of listen() so far
    connects      \* calls of connect() so far

vars == <<m_state, m_external_io_service, acceptor, m_work, stopped, running,
          con, pc, looping, listens, connects>>
service == <<m_work, stopped, running>>
calls == <<listens, connects>>

Threads == {"app", "io"}
Doing(t, at) == pc[t].at = at
Goes(t, at, s) == pc' = [pc EXCEPT ![t] = [at |-> at, con |-> s]]
Idle(t) == Goes(t, "idle", NoSlot)

\* Connections whose accept is under way or was handed to the io_service.
Queued == {"accepted", "canceled", "refused"}
Accepting == {s \in Slots : con[s] \in Queued \cup {"waiting"}}

\* Threads that are about to start one.
Starting == {t \in Threads : pc[t].at \in {"start_accept", "async_accept"}}

Init ==
    /\ m_state = "UNINITIALIZED"
    /\ m_external_io_service = FALSE
    /\ acceptor = FALSE
    /\ m_work = FALSE /\ stopped = FALSE /\ running = FALSE
    /\ con = [s \in Slots |-> "none"]
    /\ pc = [t \in Threads |-> [at |-> "idle", con |-> NoSlot]]
    /\ looping = FALSE
    /\ listens = 0 /\ connects = 0

-----------------------------------------------------------------------------
\* init_asio(), with an io_service of the endpoint's own or an external one.
InitAsio ==
    /\ Doing("app", "idle")
    /\ m_state = "UNINITIALIZED"
    /\ m_state' = "READY"
    /\ m_external_io_service' \in BOOLEAN
    /\ UNCHANGED <<acceptor, service, con, pc, looping, calls>>

\* listen(): open, bind and listen; an error of any of them closes the
\* acceptor again.
Listen ==
    /\ Doing("app", "idle")
    /\ m_state = "READY" /\ listens < MaxListens
    /\ Patient => Accepting = {} /\ Doing("io", "idle")
    /\ listens' = listens + 1
    /\ \/ m_state' = "LISTENING" /\ acceptor' = TRUE
       \/ m_state' = "READY" /\ acceptor' = FALSE
    /\ looping' = FALSE
    /\ UNCHANGED <<m_external_io_service, service, con, pc, connects>>

\* Mutant: stop_listening() leaves the acceptor open.
StopListening_NoClose ==
    /\ Doing("app", "idle")
    /\ m_state = "LISTENING"
    /\ Goes("app", "stop", NoSlot)
    /\ UNCHANGED <<m_state, m_external_io_service, acceptor, service, con, looping,
                   calls>>

\* stop_listening() closes the acceptor: asynchronous accepts are cancelled.
StopListening ==
    /\ Doing("app", "idle")
    /\ m_state = "LISTENING"
    /\ acceptor' = FALSE
    /\ con' = [s \in Slots |->
                 IF con[s] = "waiting" THEN "canceled" ELSE con[s]]
    /\ Goes("app", "stop", NoSlot)
    /\ UNCHANGED <<m_state, m_external_io_service, service, looping, calls>>

\* ... and then sets the state.
StopListeningState ==
    /\ Doing("app", "stop")
    /\ m_state' = "READY"
    /\ looping' = FALSE
    /\ Idle("app")
    /\ UNCHANGED <<m_external_io_service, acceptor, service, con, calls>>

\* The application calls start_accept(), once for every listen().
StartAccept ==
    /\ Doing("app", "idle")
    /\ m_state = "LISTENING" /\ ~looping
    /\ Patient => Accepting = {}
    /\ Goes("app", "start_accept", NoSlot)
    /\ UNCHANGED <<m_state, m_external_io_service, acceptor, service, con,
                   looping, calls>>

\* start_accept() tests is_listening() and creates a connection, which fails
\* if the transport cannot be initialised.
CreateConnection(t) ==
    /\ Doing(t, "start_accept")
    /\ \/ /\ m_state = "LISTENING"
          /\ \E s \in Slots :
                /\ con[s] = "none"
                /\ con' = [con EXCEPT ![s] = "created"]
                /\ Goes(t, "async_accept", s)
          /\ looping' = TRUE
       \/ /\ m_state = "LISTENING"
          /\ looping' = FALSE
          /\ Idle(t)
          /\ UNCHANGED con
       \/ /\ m_state # "LISTENING"
          /\ Idle(t)
          /\ UNCHANGED <<con, looping>>
    /\ UNCHANGED <<m_state, m_external_io_service, acceptor, service, calls>>

\* async_accept() tests the state again; if the endpoint is not listening any
\* more the connection is terminated.  An acceptor that was closed meanwhile
\* answers with an error.
AsyncAccept(t) ==
    /\ Doing(t, "async_accept")
    /\ con' = [con EXCEPT ![pc[t].con] =
                  IF m_state # "LISTENING" THEN "none"
                  ELSE IF acceptor THEN "waiting" ELSE "refused"]
    /\ Idle(t)
    /\ UNCHANGED <<m_state, m_external_io_service, acceptor, service, looping,
                   calls>>

\* A remote endpoint connects, or accepting fails.
Arrives(s) ==
    /\ con[s] = "waiting"
    /\ con' = [con EXCEPT ![s] = "accepted"] \/ con' = [con EXCEPT ![s] = "refused"]
    /\ UNCHANGED <<m_state, m_external_io_service, acceptor, service, pc, looping,
                   calls>>

\* The io_service runs a handler.
Runs == running /\ ~stopped /\ Doing("io", "idle")

\* What the loop does with the connection of an accept that is over.
StartOrTerminate(s) ==
    con' = [con EXCEPT ![s] = IF con[s] = "accepted" THEN "started" ELSE "none"]

\* Mutant: start_accept() is called before the connection is started and after.
HandleAccept_Twice(s) ==
    /\ Runs
    /\ con[s] \in Queued
    /\ \/ \E f \in Slots \ {s} :
             /\ con[f] = "none"
             /\ con' = [con EXCEPT ![s] = "started", ![f] = "waiting"]
       \/ StartOrTerminate(s)
    /\ Goes("io", "start_accept", NoSlot)
    /\ UNCHANGED <<m_state, m_external_io_service, acceptor, service, looping,
                   calls>>

\* handle_accept(): the connection starts or is terminated, and in either case
\* start_accept() is called again.
HandleAccept(s) ==
    /\ Runs
    /\ con[s] \in Queued
    /\ StartOrTerminate(s)
    /\ Goes("io", "start_accept", NoSlot)
    /\ UNCHANGED <<m_state, m_external_io_service, acceptor, service, looping,
                   calls>>

\* A client: get_connection() creates a connection and connect() hands it to
\* the transport.
Connect(s) ==
    /\ Doing("app", "idle")
    /\ m_state # "UNINITIALIZED" /\ connects < MaxConnects
    /\ con[s] = "none"
    /\ connects' = connects + 1
    /\ con' = [con EXCEPT ![s] = "connecting"]
    /\ UNCHANGED <<m_state, m_external_io_service, acceptor, service, pc, looping,
                   listens>>

\* handle_connect() of the client role: start() or terminate().
HandleConnect(s) ==
    /\ Runs
    /\ con[s] = "connecting"
    /\ con' = [con EXCEPT ![s] = "started"] \/ con' = [con EXCEPT ![s] = "none"]
    /\ UNCHANGED <<m_state, m_external_io_service, acceptor, service, pc, looping,
                   calls>>

\* get_con_from_hdl() locks the weak pointer of a connection that exists.
Locks(s) == con[s] # "none"

\* A connection ends, by itself or because the application called close() with
\* a handle that can still be locked.
ConnectionEnds(s) ==
    /\ Runs
    /\ Locks(s) /\ con[s] = "started"
    /\ con' = [con EXCEPT ![s] = "none"]
    /\ UNCHANGED <<m_state, m_external_io_service, acceptor, service, pc, looping,
                   calls>>

-----------------------------------------------------------------------------
(***************************************************************************)
(* The io_service.                                                         *)
(***************************************************************************)

\* start_perpetual() and stop_perpetual()
Perpetual ==
    /\ Doing("app", "idle") /\ m_state # "UNINITIALIZED"
    /\ m_work' = ~m_work
    /\ UNCHANGED <<m_state, m_external_io_service, acceptor, stopped, running, con,
                   pc, looping, calls>>

\* A thread calls run(), after reset() if the io_service has stopped.
Run ==
    /\ m_state # "UNINITIALIZED" /\ ~running
    /\ running' = TRUE
    /\ stopped' = FALSE
    /\ UNCHANGED <<m_state, m_external_io_service, acceptor, m_work, con, pc,
                   looping, calls>>

\* stop()
Stop ==
    /\ Doing("app", "idle") /\ running
    /\ stopped' = TRUE
    /\ UNCHANGED <<m_state, m_external_io_service, acceptor, m_work, running, con,
                   pc, looping, calls>>

\* Nothing is left for the io_service.
OutOfWork == ~m_work /\ \A s \in Slots : con[s] \in {"none", "created"}

\* run() returns.
RunReturns ==
    /\ running /\ Doing("io", "idle")
    /\ stopped \/ OutOfWork
    /\ running' = FALSE
    /\ stopped' = TRUE
    /\ UNCHANGED <<m_state, m_external_io_service, acceptor, m_work, con, pc,
                   looping, calls>>

Next ==
    \/ InitAsio \/ Listen \/ StopListening \/ StopListeningState \/ StartAccept
    \/ \E t \in Threads : CreateConnection(t) \/ AsyncAccept(t)
    \/ \E s \in Slots :
          \/ Arrives(s) \/ HandleAccept(s)
          \/ Connect(s) \/ HandleConnect(s) \/ ConnectionEnds(s)
    \/ Perpetual \/ Run \/ Stop \/ RunReturns

\* The threads go on with what they do, and handlers run.
Progress ==
    \/ StopListeningState
    \/ \E t \in Threads : CreateConnection(t) \/ AsyncAccept(t)
    \/ \E s \in Slots : HandleAccept(s)

Spec == Init /\ [][Next]_vars
FairSpec == Spec /\ WF_vars(Progress)

-----------------------------------------------------------------------------
\* The accept loop is one: with an application that lets a loop end before it
\* listens again, at most one accept is outstanding, queued or being started
\* (handle_accept and start_accept of the server role).
OneLoop ==
    Patient =>
       Cardinality(Accepting) + Cardinality(Starting) <= 1

\* While the endpoint listens the loop never ends, whatever errors accepts
\* meet, unless a connection could not be created (start_accept gives up then);
\* and no connection is left behind that was created and neither started nor
\* terminated (get_connection: "must either be started or terminated").
LoopLives ==
    /\ m_state = "LISTENING" /\ looping =>
          Accepting # {} \/ Starting # {}
    /\ \A s \in Slots : con[s] = "created" => \E t \in Threads : pc[t].con = s

\* When the application stops listening the loop ends, if the io_service runs
\* on: the cancelled accept and the restart of the loop find the way out.
LoopEnds ==
    m_state = "READY" ~>
       \/ Accepting = {}
       \/ m_state = "LISTENING"
       \/ ~running \/ stopped

\* The inductive invariant of Transport_proofs: a thread has a connection in
\* hand only between creating it and handing it to the acceptor.
LoopInv ==
    /\ con \in [Slots -> {"none", "created", "waiting", "accepted", "canceled",
                          "refused", "connecting", "started"}]
    /\ pc \in [Threads -> [at : {"idle", "stop", "start_accept", "async_accept"},
                           con : Slots \cup {NoSlot}]]
    /\ \A t \in Threads : (pc[t].at = "async_accept") <=> (pc[t].con \in Slots)
    /\ LoopLives

\* What keeps the loop single: an accept and a thread that starts one are the
\* same token, and while the endpoint listens without a loop nobody but the
\* application's start_accept has it.
OneLoopInv ==
    Patient =>
       /\ \A s, r \in Accepting : s = r
       /\ \A t, u \in Starting : t = u
       /\ Accepting = {} \/ Starting = {}
       /\ m_state = "LISTENING" /\ ~looping =>
             /\ Accepting = {} /\ pc["io"].at # "start_accept"
             /\ \A t \in Threads : pc[t].at # "async_accept"

=============================================================================
