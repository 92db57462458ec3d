------------------------------- MODULE Feeder -------------------------------
(***************************************************************************)
(* examples/print_client_tls: the market data feeder.  Its main thread     *)
(* asks the server for data, the thread that runs the endpoint handles the *)
(* messages and pushes prices into a bounded queue, and a publisher thread *)
(* takes them out and sends them on.                                       *)
(*                                                                         *)
(* Of all the prices two, "a" and then "b", are told apart; the others are *)
(* alike, so that the model goes on for ever in finitely many states.      *)
(* m_mutex is held by no thread but the publisher.                         *)
(***************************************************************************)
EXTENDS Integers, Sequences, SequencesExt, FiniteSets

CONSTANTS
    Capacity,   \* of q
    MaxTicks,   \* prices of one data message
    Acks,       \* acknowledgement counts the server may ask for
    MaxCounter  \* bound on counter where the server asks for none

ASSUME FeederAssumption ==
    /\ {Capacity, MaxTicks, MaxCounter} \subseteq Nat \ {0}
    /\ Acks \subseteq Nat

VARIABLES
    niftyUnreal, \* the feeder was started with this argument
    link,      \* the connection: "opening", "open" or "closed"
    main,      \* where the main thread is
    asked,     \* the requests that were sent, not those that send() refused
    answered,  \* the server answered the connection request
    ack,       \* data messages between two acknowledgements, 0 at first
    counter,   \* data messages since the last one
    handler,   \* on_message: [at, todo], todo the prices still to be pushed
    queue,     \* q
    ready,     \* the flag the condition variable stands for
    pub,       \* where the publisher is
    fate,      \* of "a" and "b": "none", "made", "dropped" or "sent"
    unacked    \* history: data messages since the last acknowledgement sent

vars == <<niftyUnreal, link, main, asked, answered, ack, counter, handler, queue,
          ready, pub, fate, unacked>>
session == <<niftyUnreal, link, main, asked, answered>>
ackVars == <<ack, counter, unacked>>
pipe == <<queue, ready, pub, fate>>

Marked == {"a", "b"}
Ticks == Marked \cup {"other"}
Requests == {"connection", "subscription", "second", "snapshot"}

TypeOK ==
    /\ niftyUnreal \in BOOLEAN
    /\ link \in {"opening", "open", "closed"}
    /\ main \in {"connected", "asked", "second", "join", "blocked"}
    /\ asked \subseteq Requests
    /\ answered \in BOOLEAN
    /\ ack \in Acks \cup {0} /\ counter \in 0 .. MaxCounter
    /\ unacked \in 0 .. MaxCounter
    /\ handler.at \in {"idle", "push", "flag", "notify"}
    /\ handler.todo \in SeqOf(Ticks, MaxTicks)
    /\ queue \in SeqOf(Ticks, Capacity)
    /\ ready \in BOOLEAN
    /\ pub \in {"test", "clear", "pop", "wait", "asleep"}
    /\ fate \in [Marked -> {"none", "made", "dropped", "sent"}]

Init ==
    /\ niftyUnreal \in BOOLEAN
    /\ link = "opening" /\ main = "connected" /\ asked = {} /\ answered = FALSE
    /\ ack = 0 /\ counter = 0 /\ unacked = 0
    /\ handler = [at |-> "idle", todo |-> <<>>]
    /\ queue = <<>> /\ ready = FALSE /\ pub = "test"
    /\ fate = [m \in Marked |-> "none"]

-----------------------------------------------------------------------------
\* The connection, external: it opens when the peer is ready, and may end.

Open == link = "opening" /\ link' = "open"
          /\ UNCHANGED <<niftyUnreal, main, asked, answered, ackVars, handler, pipe>>

Close ==
    /\ link # "closed" /\ link' = "closed"
    /\ UNCHANGED <<niftyUnreal, main, asked, answered, ackVars, handler, pipe>>

-----------------------------------------------------------------------------
\* The main thread.  It waits by the clock, not for the connection: a send()
\* before it is open, or after it ended, is refused.

Send(request) == asked' = IF link = "open" THEN asked \cup {request} ELSE asked

SendRequest ==
    /\ main = "connected" /\ main' = "asked"
    /\ Send("connection")
    /\ UNCHANGED <<niftyUnreal, link, answered, ackVars, handler, pipe>>

\* The subscriptions.  With niftyUnreal snapShots sends the same request each
\* minute, and the future of its thread, which never ends, is destroyed before
\* main reaches t1.join().
Subscribe ==
    /\ main = "asked"
    /\ main' = IF niftyUnreal THEN "blocked" ELSE "second"
    /\ Send("subscription")
    /\ UNCHANGED <<niftyUnreal, link, answered, ackVars, handler, pipe>>

\* An error of the second subscription ends main, which waits for the
\* publisher in the destructor of its future.
SubscribeAgain ==
    /\ main = "second"
    /\ main' = IF link = "open" THEN "join" ELSE "blocked"
    /\ Send("second")
    /\ UNCHANGED <<niftyUnreal, link, answered, ackVars, handler, pipe>>

\* run() returns when the connection has ended.
Join ==
    /\ main = "join" /\ link = "closed" /\ handler.at = "idle"
    /\ main' = "blocked"
    /\ UNCHANGED <<niftyUnreal, link, asked, answered, ackVars, handler, pipe>>

snapShots ==
    /\ niftyUnreal /\ main \in {"asked", "blocked"}
    /\ Send("snapshot")
    /\ UNCHANGED <<niftyUnreal, link, main, answered, ackVars, handler, pipe>>

-----------------------------------------------------------------------------
\* on_message, on the thread that runs the endpoint.  The server, external,
\* answers a connection request once and sends data to who subscribed.

HandleConnection ==
    /\ link = "open" /\ handler.at = "idle"
    /\ "connection" \in asked /\ ~answered /\ answered' = TRUE
    /\ ack' \in Acks
    /\ UNCHANGED <<niftyUnreal, link, main, asked, counter, unacked, handler, pipe>>

Subscribed == answered /\ asked \cap {"subscription", "second", "snapshot"} # {}

\* Mutant: the counter goes on after an acknowledgement.
Count_NoReset ==
    /\ counter' = counter + 1
    /\ unacked' = IF counter + 1 = ack THEN 0 ELSE unacked + 1

\* ++counter, and an acknowledgement if the count is reached.
Count ==
    /\ counter' = IF counter + 1 = ack THEN 0 ELSE counter + 1
    /\ unacked' = IF counter + 1 = ack THEN 0 ELSE unacked + 1

\* The next prices, "a" being the first of the two that is told apart.
NewTicks(ts) ==
    \A m \in Marked :
        /\ Cardinality({i \in DOMAIN ts : ts[i] = m}) <= 1
        /\ m \in ToSet(ts) => fate[m] = "none"
        /\ m = "b" /\ m \in ToSet(ts) =>
             \/ fate["a"] # "none"
             \/ \E i, j \in DOMAIN ts : i < j /\ ts[i] = "a" /\ ts[j] = "b"

\* The prices of the message are those parseData finds in it; parseDataUnreal
\* pushes none.
HandleData(ts) ==
    /\ link = "open" /\ handler.at = "idle" /\ Subscribed
    /\ counter < MaxCounter
    /\ niftyUnreal => ts = <<>>
    /\ NewTicks(ts)
    /\ Count
    /\ handler' = [at |-> IF ts = <<>> THEN "idle" ELSE "push", todo |-> ts]
    /\ fate' = [m \in Marked |-> IF m \in ToSet(ts) THEN "made" ELSE fate[m]]
    /\ UNCHANGED <<session, ack, queue, ready, pub>>

\* What became of a price; only the two that are told apart are followed.
Now(tick, what) == [m \in Marked |-> IF m = tick THEN what ELSE fate[m]]

\* q->push(str), whose result is not looked at.
Push ==
    LET tick == Head(handler.todo)
    IN  /\ handler.at = "push" /\ handler' = [handler EXCEPT !.at = "flag"]
        /\ IF Len(queue) < Capacity
           THEN queue' = Append(queue, tick) /\ UNCHANGED fate
           ELSE /\ fate' = Now(tick, "dropped")
                /\ UNCHANGED queue
        /\ UNCHANGED <<session, ackVars, ready, pub>>

\* ready = true, without m_mutex.
SetReady ==
    /\ handler.at = "flag" /\ handler' = [handler EXCEPT !.at = "notify"]
    /\ ready' = TRUE
    /\ UNCHANGED <<session, ackVars, queue, pub, fate>>

NextTick == [at |-> IF Len(handler.todo) = 1 THEN "idle" ELSE "push",
             todo |-> Tail(handler.todo)]

\* Mutant: the second branch of parseData forgets to notify.
Notify_Never ==
    /\ handler.at = "notify" /\ handler' = NextTick
    /\ UNCHANGED <<session, ackVars, queue, ready, pub, fate>>

\* cv.notify_one(): it wakes the publisher only if that waits already.
Notify ==
    /\ handler.at = "notify" /\ handler' = NextTick
    /\ pub' = IF pub = "asleep" THEN "test" ELSE pub
    /\ UNCHANGED <<session, ackVars, queue, ready, fate>>

-----------------------------------------------------------------------------
\* The publisher, connectTo.  Between its test of the flag and its waiting the
\* other thread may set the flag and notify.

Publisher(from, to) == pub = from /\ pub' = to

TestReady ==
    /\ Publisher("test", IF ready THEN "clear" ELSE "wait")
    /\ UNCHANGED <<session, ackVars, handler, queue, ready, fate>>

Wait ==
    /\ Publisher("wait", "asleep")
    /\ UNCHANGED <<session, ackVars, handler, queue, ready, fate>>

\* A wakeup without a notification, which the standard allows.
Spurious ==
    /\ Publisher("asleep", "test")
    /\ UNCHANGED <<session, ackVars, handler, queue, ready, fate>>

Clear ==
    /\ Publisher("clear", "pop") /\ ready' = FALSE
    /\ UNCHANGED <<session, ackVars, handler, queue, fate>>

\* Mutant: the newest price first.
Pop_Last ==
    /\ pub = "pop"
    /\ IF queue = <<>> THEN pub' = "test" /\ UNCHANGED <<queue, fate>>
       ELSE /\ queue' = Front(queue)
            /\ fate' = Now(Last(queue), "sent")
            /\ UNCHANGED pub
    /\ UNCHANGED <<session, ackVars, handler, ready>>

\* while (q->pop(s)) the price is sent behind its topic.
Pop ==
    /\ pub = "pop"
    /\ IF queue = <<>> THEN pub' = "test" /\ UNCHANGED <<queue, fate>>
       ELSE /\ queue' = Tail(queue)
            /\ fate' = Now(Head(queue), "sent")
            /\ UNCHANGED pub
    /\ UNCHANGED <<session, ackVars, handler, ready>>

-----------------------------------------------------------------------------
Main == SendRequest \/ Subscribe \/ SubscribeAgain \/ Join
Handling == Push \/ SetReady \/ Notify
Publishing == TestReady \/ Wait \/ Clear \/ Pop

Next ==
    \/ Open \/ Close \/ Main \/ snapShots
    \/ HandleConnection
    \/ \E ts \in SeqOf(Ticks, MaxTicks) : HandleData(ts)
    \/ Handling \/ Publishing \/ Spurious

\* A thread in the middle of its work goes on; the server and the network
\* need not do anything.
Fairness == WF_vars(Handling) /\ WF_vars(Publishing)

Spec == Init /\ [][Next]_vars
FairSpec == Spec /\ Fairness

-----------------------------------------------------------------------------
(***************************************************************************)
(* Properties.                                                             *)
(***************************************************************************)

\* The lock-free queue and the loops around it keep the prices in order and
\* lose none but those pushed into a full queue: one that was made and not
\* sent is in just one place, in order, and the later one is sent only after
\* the earlier was sent or dropped.
Waiting == queue \o (IF handler.at \in {"flag", "notify"} THEN Tail(handler.todo)
                     ELSE handler.todo)

OrderKept ==
    /\ \A m \in Marked :
         Cardinality({i \in DOMAIN Waiting : Waiting[i] = m})
           = IF fate[m] = "made" THEN 1 ELSE 0
    /\ fate["b"] = "sent" => fate["a"] \in {"sent", "dropped"}

\* on_message acknowledges every ack-th data message: the number of those
\* that were not acknowledged stays below the count the server asked for, if
\* it asked for one, although the two are compared for equality only.
AcksOnTime == ack > 0 => unacked < ack

\* What makes it inductive: the count is known before the first data message
\* comes, and only an acknowledgement sets the counter back.
AckInv ==
    /\ ack \in Nat /\ counter \in Nat
    /\ unacked = counter
    /\ ~answered => ack = 0 /\ counter = 0
    /\ ack > 0 => counter < ack

\* The flag is set without the mutex, so a notification can come between the
\* publisher's test and its wait and be lost; a price may then lie in the
\* queue.  It does so only until the next one comes: unless messages stop
\* coming, what is in the queue is sent.
SentWhileTicksCome ==
    \A m \in Marked :
        (m \in ToSet(queue)) ~> (fate[m] = "sent" \/ [](handler.at # "notify"))

=============================================================================
