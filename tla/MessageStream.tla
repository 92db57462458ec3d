---------------------------- MODULE MessageStream ----------------------------
(***************************************************************************)
(* What a WebSocket endpoint promises about what it receives: frames are   *)
(* taken whole and in order, whatever pieces the transport delivers their  *)
(* bytes in.  A well formed frame extends or completes a message, control  *)
(* frames may come between the fragments of a data message, and the first  *)
(* frame that breaks the rules stops the stream with an error.             *)
(***************************************************************************)
EXTENDS Frame

CONSTANTS
    MaxMessageSize,  \* the largest data message that is accepted
    NoMsg,           \* no message
    Frames(_)        \* the frames that the remote endpoint of a server sends,
                     \* and of a client

VARIABLES
    server,     \* this endpoint is a server: frames must be masked
    frames,     \* frames not yet taken
    msg,        \* the fragmented data message so far, or NoMsg
    last,       \* the message delivered last, or NoMsg
    delivered,  \* how many were delivered
    err         \* why the stream stopped, or "none"

svars == <<server, frames, msg, last, delivered, err>>

Init ==
    /\ server \in BOOLEAN
    /\ frames = <<>>
    /\ msg = NoMsg
    /\ last = NoMsg
    /\ delivered = 0
    /\ err = "none"

\* The size of f is written with as few bytes as possible.
Minimal(f) == f.enc = BasicSize(f.size)

\* f may not follow what came before.
Malformed(f) ==
    \/ f.op \in ReservedOpcodes
    \/ f.rsv
    \/ f.masked # server
    \/ ~Minimal(f)
    \/ is_control(f.op) /\ (~f.fin \/ f.size > BasicLimit)
    \/ f.op = "CONTINUATION" /\ msg = NoMsg
    \/ f.op \in {"TEXT", "BINARY"} /\ msg # NoMsg

\* The data message with the payload of f.
Extended(f) ==
    IF msg = NoMsg THEN [op |-> f.op, payload |-> f.payload]
    ELSE [msg EXCEPT !.payload = @ \o f.payload]

\* Whether message m may stand after f: a text message is UTF-8 so far, and a
\* message that is one frame ends on a whole character.
ValidText(m, f) ==
    m.op = "TEXT" =>
       LET state == Validate("accept", m.payload)
       IN state # "reject" /\ (f.op = "TEXT" /\ f.fin => state = "accept")

Stop(reason) ==
    /\ err' = reason
    /\ msg' = NoMsg
    /\ UNCHANGED <<last, delivered>>

Deliver(m) ==
    /\ last' = m
    /\ delivered' = delivered + 1
    /\ UNCHANGED err

Arrive(f) ==
    /\ frames' = Append(frames, f)
    /\ UNCHANGED <<server, msg, last, delivered, err>>

TakeMalformed(f) == Malformed(f) /\ Stop("protocol")

TakeControl(f) ==
    /\ ~Malformed(f) /\ is_control(f.op)
    /\ Deliver([op |-> f.op, payload |-> f.payload])
    /\ UNCHANGED msg

TakeData(f) ==
    /\ ~Malformed(f) /\ ~is_control(f.op)
    /\ LET m == Extended(f)
           before == IF msg = NoMsg THEN 0 ELSE Len(msg.payload)
       IN IF before + f.size > MaxMessageSize THEN Stop("too_big")
          ELSE IF ~ValidText(m, f) THEN Stop("invalid_utf8")
          ELSE IF f.fin THEN Deliver(m) /\ msg' = NoMsg
          ELSE msg' = m /\ UNCHANGED <<last, delivered, err>>

Take ==
    /\ err = "none"
    /\ frames # <<>>
    /\ frames' = Tail(frames)
    /\ UNCHANGED server
    /\ LET f == Head(frames) IN TakeMalformed(f) \/ TakeControl(f) \/ TakeData(f)

Next == Take \/ \E f \in Frames(server) : Arrive(f)

Spec == Init /\ [][Next]_svars

=============================================================================
