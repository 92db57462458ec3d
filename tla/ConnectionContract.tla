------------------------- MODULE ConnectionContract -------------------------
(***************************************************************************)
(* What connection<config> promises the application about its handlers     *)
(* (the comments on open_handler, close_handler, fail_handler and          *)
(* http_handler): a connection opens or fails, never both; it closes once  *)
(* if and only if it opened; after its termination handler nothing follows.*)
(***************************************************************************)
EXTENDS Integers

VARIABLES
    opens,   \* calls of the open handler
    fails,   \* calls of the fail handler
    closes,  \* calls of the close handler
    ended    \* calls of the endpoint's termination handler

vars == <<opens, fails, closes, ended>>

Init == opens = 0 /\ fails = 0 /\ closes = 0 /\ ended = 0

\* The opening handshake succeeded.
Open ==
    /\ opens = 0
    /\ ended = 0
    /\ opens' = 1
    /\ UNCHANGED <<fails, closes, ended>>

\* The opening handshake failed.
Fail ==
    /\ opens = 0
    /\ ended = 0
    /\ fails' = 1
    /\ ended' = 1
    /\ UNCHANGED <<opens, closes>>

\* A plain HTTP request was answered: neither handler is called.
EndHttp ==
    /\ opens = 0
    /\ ended = 0
    /\ ended' = 1
    /\ UNCHANGED <<opens, fails, closes>>

\* An open connection is over.
Close ==
    /\ opens = 1
    /\ ended = 0
    /\ closes' = 1
    /\ ended' = 1
    /\ UNCHANGED <<opens, fails>>

Next == Open \/ Fail \/ EndHttp \/ Close

Spec == Init /\ [][Next]_vars

=============================================================================
