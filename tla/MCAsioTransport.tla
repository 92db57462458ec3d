--------------------------- MODULE MCAsioTransport ---------------------------
(* AsioTransport as TLC checks it. *)
EXTENDS AsioTransport

\* Servers and clients, plain and TLS, with one thread and with several,
\* clients behind a proxy, and a TLS client whose host name is refused.
AllConfigurations ==
    {c \in [server : BOOLEAN, tls : BOOLEAN, proxy : BOOLEAN,
            bad_host : BOOLEAN, one_thread : BOOLEAN] :
        /\ c.proxy => ~c.server
        /\ c.bad_host => c.tls /\ ~c.server /\ ~c.proxy /\ c.one_thread}

\* A TLS client whose host name is refused.
BadHost == {c \in AllConfigurations : c.bad_host}

=============================================================================
