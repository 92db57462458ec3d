---------------------------- MODULE MCNegotiation ----------------------------
(* Negotiation with the settings and requests that TLC tries. *)
EXTENDS Negotiation, TLC

\* Servers that ask for a window or leave it, in every mode.
MCServers ==
    {Settings(sb, sm, cb, cm, sn, FALSE) :
        sb \in {12, 15}, cb \in {10, 15}, sm \in Modes, cm \in Modes, sn \in BOOLEAN}

\* Clients that keep the default of the server's window and decline nothing.
MCClients ==
    {Settings(15, "accept", cb, cm, FALSE, cn) :
        cb \in {9, 15}, cm \in Modes \ {"decline"}, cn \in BOOLEAN}

Offers ==
    {[n \in {} |-> Empty], generate_offer,
     "server_max_window_bits" :> 10,
     "server_max_window_bits" :> 265,
     "server_max_window_bits" :> 7,
     ("client_max_window_bits" :> 11) @@ ("unknown" :> Empty),
     ("server_no_context_takeover" :> Empty) @@ ("client_max_window_bits" :> 8),
     "server_no_context_takeover" :> 1}

Good == client_handshake_request(<<>>)

MCRequests ==
    {[Good EXCEPT !.extensions = <<o>>] : o \in Offers}
    \cup {[Good EXCEPT !.extensions = <<o, p>>] : o \in Offers, p \in Offers}
    \cup {[Good EXCEPT !.wsversion = v, !.keys00 = k, !.host = h, !.method = m] :
             v \in {Empty, -2, 7, 8, 14}, k \in BOOLEAN, h \in BOOLEAN, m \in {"GET", "POST"}}
    \cup {[Good EXCEPT !.upgrade = FALSE, !.host = h] : h \in BOOLEAN}
    \cup {[Good EXCEPT !.version = "HTTP/1.0"], [Good EXCEPT !.parses = FALSE],
          [Good EXCEPT !.subprotocols = <<"p", "q">>]}

\* Nobody configured anything.
Defaults == {DefaultSettings}

=============================================================================
