------------------------------ MODULE PingTimer ------------------------------
(***************************************************************************)
(* ping(), the pong timer and its handler (connection_impl.hpp).  A thread *)
(* of the application pings while the strand handles pongs and timers; the *)
(* peer may answer pings late, in part, or send pongs that nobody asked    *)
(* for.  EstablishedConnection has the queue that pings are written from.  *)
(***************************************************************************)
EXTENDS Integers, Sequences

CONSTANTS
    Pingers,   \* threads that call ping(); the timer pointer has no lock
    MaxPings,  \* bound: pings
    MaxStrays  \* bound: pongs without a ping

BoundsAssumption == MaxPings \in Nat /\ MaxStrays \in Nat

VARIABLES
    open,         \* m_state is open
    m_ping_timer, \* the ping whose timer is stored, 0 if none is
    timer,        \* of each ping: unset, armed, due (its handler is queued), cancelled, over
    pc, mine,     \* where each caller of ping() is, and its ping
    pings,        \* pings so far
    wire,         \* pings that the peer has not answered
    pongs,        \* pongs on their way, 0 for one that answers nothing
    strays,       \* pongs without a ping so far
    excused,      \* history: pings overtaken by a newer one or by a pong while armed
    reported      \* history: pings that pong_timeout was called for

vars == <<open, m_ping_timer, timer, pc, mine, pings, wire, pongs, strays, excused, reported>>

Ids == 1 .. MaxPings

Init ==
    /\ open = TRUE /\ m_ping_timer = 0
    /\ timer = [i \in Ids |-> "unset"]
    /\ pc = [t \in Pingers |-> "idle"] /\ mine = [t \in Pingers |-> 0]
    /\ pings = 0 /\ strays = 0
    /\ wire = {} /\ pongs = <<>>
    /\ excused = {} /\ reported = {}

\* cancel() of the stored timer: too late for one that is due.
CancelStored ==
    /\ timer' = [i \in Ids |-> IF i = m_ping_timer /\ timer[i] = "armed"
                               THEN "cancelled" ELSE timer[i]]
    /\ excused' = excused \cup {i \in Ids : i = m_ping_timer /\ timer[i] = "armed"}

\* ping(): the connection is open and the message is prepared.
PingStarts(t) ==
    /\ open /\ pc[t] = "idle" /\ pings < MaxPings
    /\ pings' = pings + 1
    /\ mine' = [mine EXCEPT ![t] = pings']
    /\ pc' = [pc EXCEPT ![t] = "cancel"]
    /\ UNCHANGED <<open, m_ping_timer, timer, wire, pongs, strays, excused, reported>>

\* Mutant: the timer of the ping before goes on.
PingCancels_Not(t) ==
    /\ pc[t] = "cancel"
    /\ excused' = excused \cup {i \in Ids : i = m_ping_timer /\ timer[i] = "armed"}
    /\ pc' = [pc EXCEPT ![t] = "set"]
    /\ UNCHANGED <<open, m_ping_timer, timer, mine, pings, wire, pongs, strays, reported>>

\* ... then the timer of the ping before is cancelled ...
PingCancels(t) ==
    /\ pc[t] = "cancel"
    /\ CancelStored
    /\ pc' = [pc EXCEPT ![t] = "set"]
    /\ UNCHANGED <<open, m_ping_timer, mine, pings, wire, pongs, strays, reported>>

\* ... the timer of this one is set, which the strand may do its part between ...
PingSets(t) ==
    /\ pc[t] = "set"
    /\ m_ping_timer' = mine[t]
    /\ timer' = [timer EXCEPT ![mine[t]] = "armed"]
    /\ pc' = [pc EXCEPT ![t] = "push"]
    /\ UNCHANGED <<open, mine, pings, wire, pongs, strays, excused, reported>>

\* ... and last the ping is queued and written.
PingPushes(t) ==
    /\ pc[t] = "push"
    /\ wire' = IF open THEN wire \cup {mine[t]} ELSE wire
    /\ pc' = [pc EXCEPT ![t] = "idle"]
    /\ UNCHANGED <<open, m_ping_timer, timer, mine, pings, pongs, strays, excused, reported>>

\* The peer answers a ping and may leave out the ones before, or sends a pong.
PeerPongs ==
    /\ \/ \E i \in wire :
             /\ pongs' = Append(pongs, i)
             /\ wire' = {j \in wire : j > i}
             /\ UNCHANGED strays
       \/ /\ strays < MaxStrays /\ strays' = strays + 1
          /\ pongs' = Append(pongs, 0)
          /\ UNCHANGED wire
    /\ UNCHANGED <<open, m_ping_timer, timer, pc, mine, pings, excused, reported>>

\* process_control_frame of a PONG, whichever ping it answers.
PongArrives ==
    /\ open /\ pongs # <<>>
    /\ pongs' = Tail(pongs)
    /\ CancelStored
    /\ UNCHANGED <<open, m_ping_timer, pc, mine, pings, wire, strays, reported>>

TimerExpires(i) ==
    /\ timer[i] = "armed"
    /\ timer' = [timer EXCEPT ![i] = "due"]
    /\ UNCHANGED <<open, m_ping_timer, pc, mine, pings, wire, pongs, strays, excused, reported>>

\* handle_pong_timeout: an aborted timer is ignored.
HandlePongTimeout(i) ==
    /\ timer[i] \in {"due", "cancelled"}
    /\ reported' = IF timer[i] = "due" THEN reported \cup {i} ELSE reported
    /\ timer' = [timer EXCEPT ![i] = "over"]
    /\ UNCHANGED <<open, m_ping_timer, pc, mine, pings, wire, pongs, strays, excused>>

\* terminate() leaves the timer alone, which keeps the connection alive.
Terminate ==
    /\ open /\ open' = FALSE
    /\ UNCHANGED <<m_ping_timer, timer, pc, mine, pings, wire, pongs, strays, excused, reported>>

Next ==
    \/ \E t \in Pingers : PingStarts(t) \/ PingCancels(t) \/ PingSets(t) \/ PingPushes(t)
    \/ PeerPongs \/ PongArrives \/ Terminate
    \/ \E i \in Ids : TimerExpires(i) \/ HandlePongTimeout(i)

Spec == Init /\ [][Next]_vars

(***************************************************************************)
(* pong_timeout is called for a ping only if no pong and no newer ping     *)
(* came while its timer was running, and apart from the stored timer none  *)
(* runs: a timer that nobody can cancel would report an answered ping.     *)
(* With one thread that pings (m_ping_timer).                              *)
(***************************************************************************)
TimeoutJustified ==
    /\ reported \cap excused = {}
    /\ \A i \in Ids : timer[i] = "armed" => i = m_ping_timer

\* What makes it inductive, with one thread: the timer of a new ping was never
\* set, a ping that was overtaken cannot be reported, and nothing is armed
\* between ping()'s cancelling the old timer and its setting the new one.
TimerInv ==
    /\ timer \in [Ids -> {"unset", "armed", "due", "cancelled", "over"}]
    /\ pc \in [Pingers -> {"idle", "cancel", "set", "push"}]
    /\ mine \in [Pingers -> Nat] /\ pings \in 0 .. MaxPings
    /\ reported \subseteq Ids /\ excused \subseteq Ids
    /\ \A i \in Ids :
          /\ timer[i] = "armed" => i = m_ping_timer
          /\ i > pings => timer[i] = "unset"
          /\ i \in excused => timer[i] \in {"cancelled", "over"}
          /\ i \in reported => timer[i] = "over" /\ i \notin excused
    /\ \A t \in Pingers :
          /\ pc[t] \in {"cancel", "set"} =>
                mine[t] \in Ids /\ mine[t] = pings /\ timer[mine[t]] = "unset"
          /\ pc[t] = "set" => \A i \in Ids : timer[i] # "armed"

=============================================================================
