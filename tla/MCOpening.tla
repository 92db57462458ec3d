------------------------------ MODULE MCOpening ------------------------------
(***************************************************************************)
(* The opening handshake: how a connection gets through it, OpenHandshake, *)
(* and what its two ends agree on, Negotiation.  They do not share state;  *)
(* part says which of them a behaviour is about, and the other stays as it *)
(* began.                                                                  *)
(***************************************************************************)
EXTENDS OpenHandshake

CONSTANTS ServerSettings, ClientSettings, Requests, Subprotocols

VARIABLES part, phase, library, request, response, server, client, validated

N == INSTANCE Negotiation

\* The applications configure what the setters of the extension take, the
\* clients as CompressionAgreed says.
ASSUME SettingsAssumption ==
    /\ ServerSettings \subseteq N!Configurations
    /\ ClientSettings \subseteq N!ClientConfigurations

Tried == INSTANCE MCNegotiation WITH
            ServerSettings <- {}, ClientSettings <- {}, Requests <- {}
MCServers == Tried!MCServers
MCClients == Tried!MCClients
MCRequests == Tried!MCRequests

negotiationVars == <<phase, library, request, response, server, client, validated>>
allVars == <<part, vars, negotiationVars>>

Unused(x) == x = "unused"

MCInit ==
    \/ part = "connection" /\ Init
       /\ Unused(phase) /\ Unused(library) /\ Unused(request) /\ Unused(response)
       /\ Unused(server) /\ Unused(client) /\ Unused(validated)
    \/ part = "negotiation" /\ N!Init
       /\ Init /\ m_is_server

MCNext ==
    \/ part = "connection" /\ Next /\ UNCHANGED <<part, negotiationVars>>
    \/ part = "negotiation" /\ N!Next /\ UNCHANGED <<part, vars>>

\* The fairness of OpenHandshake.
MCSpec ==
    /\ MCInit /\ [][MCNext]_allVars
    /\ WF_vars(part = "connection" /\ (Start \/ AcceptFails))
    /\ WF_vars(part = "connection" /\ TransportInit)
    /\ WF_vars(part = "connection" /\ TimerExpires)
    /\ WF_vars(part = "connection" /\ HandleOpenTimeout)
    /\ WF_vars(part = "connection" /\ HandleTerminate)

-----------------------------------------------------------------------------
(***************************************************************************)
(* Properties, besides RespondsOnce, KeepsContract and QuietAfterEnd.      *)
(***************************************************************************)

\* Every connection attempt is settled, even if the remote endpoint is mute: it
\* opens, or its termination handler is called, or the application has deferred
\* the response and with it the end.
Settles == part = "connection" => Settled

\* Two ends of this library that both go on agree whether to compress, and
\* then each inflates with a window that is large enough and flushes as
\* negotiated.
CompressionAgreed == part = "negotiation" => N!CompressionAgreed

\* A server and a client of this library understand each other, and the server
\* upgrades nobody without a valid handshake.
SpeaksToItself == part = "negotiation" => N!SpeaksToItself

\* The inductive invariants of the negotiation.
UnderstoodInv == part = "negotiation" => N!UnderstoodInv
SettledInv == part = "negotiation" => N!SettledInv

=============================================================================
