---------------------------- MODULE AsioTransport ----------------------------
(***************************************************************************)
(* transport::asio: how a connection is resolved, connected, initialised   *)
(* (pre_init, proxy, post_init) and shut down, over a plain or a TLS       *)
(* socket.  Each stage is an asynchronous operation and a timer that races *)
(* it; whichever wins calls the connection back, and the loser must keep   *)
(* silent.                                                                 *)
(*                                                                         *)
(* All handlers of a connection run on its strand.  The calls that a       *)
(* handler makes one after the other are the steps of todo, so that the    *)
(* clock, the network and the other threads of the io_service may come     *)
(* between a handler's look at its timer and its cancelling it.            *)
(***************************************************************************)
EXTENDS Integers, SequencesExt

CONSTANT Configurations  \* the configurations of a connection

(***************************************************************************)
(* server:     it is a server's connection                                 *)
(* tls:        the socket policy is TLS                                    *)
(* proxy:      a client's connection goes through a proxy                  *)
(* bad_host:   SSL_set_tlsext_host_name refuses the host name that a       *)
(*             client connects to (without a proxy)                        *)
(* one_thread: one thread runs the io_service                              *)
(***************************************************************************)
ASSUME ConfigurationAssumption ==
    /\ Configurations \subseteq
          [server : BOOLEAN, tls : BOOLEAN, proxy : BOOLEAN,
           bad_host : BOOLEAN, one_thread : BOOLEAN]
    /\ \A c \in Configurations :
          /\ c.proxy => ~c.server
          /\ c.bad_host => c.tls /\ ~c.server /\ ~c.proxy

VARIABLES
    config,      \* the configuration of this connection
    istate,      \* m_internal_state: "USER_INIT", "TRANSPORT_INIT" or "LATER"
    closed,      \* m_state is closed
    op,          \* op[s]: the asynchronous operation of stage s
    timer,       \* timer[s]: the timer of stage s
    late,        \* late[s]: its expiry time has passed
    proxy_sent,  \* the request to the proxy is written
    todo,        \* what is left of the handler that runs on the strand
    asked,       \* asked[k]: operations of kind k that the connection started
    called       \* called[k]: calls of their handlers

vars == <<config, istate, closed, op, timer, late, proxy_sent, todo, asked,
          called>>

stageVars == <<op, timer, late, proxy_sent>>
coreVars == <<istate, closed, asked>>

\* post2 is a second post_init on the same socket.
Stages == {"resolve", "connect", "proxy", "post", "post2", "shutdown"}
SetupStages == Stages \ {"shutdown"}

Kinds == {"connect", "init", "shutdown"}

\* Which operation of the transport a stage belongs to.
Kind(s) ==
    CASE s \in {"resolve", "connect"} -> "connect"
      [] s \in {"proxy", "post", "post2"} -> "init"
      [] s = "shutdown" -> "shutdown"

Init ==
    /\ config \in Configurations
    /\ istate = "USER_INIT"
    /\ closed = FALSE
    /\ op = [s \in Stages |-> "idle"]
    /\ timer = [s \in Stages |-> "off"]
    /\ late = [s \in Stages |-> FALSE]
    /\ proxy_sent = FALSE
    /\ todo = <<>>
    /\ asked = [k \in Kinds |-> 0]
    /\ called = [k \in Kinds |-> 0]

-----------------------------------------------------------------------------
(***************************************************************************)
(* The strand.                                                             *)
(***************************************************************************)
Call(f, arg) == [f |-> f, arg |-> arg]
Callback(s, ec) == Call("callback", [kind |-> Kind(s), ec |-> ec])

\* The strand makes the call f of the handler that it runs; the handler goes
\* on with calls.
Runs(f) == todo # <<>> /\ Head(todo).f = f
Arg == Head(todo).arg
ThenCalls(calls) == todo' = calls \o Tail(todo)

\* The strand is free for the next handler.
Free == todo = <<>>

\* Mutant: a stage starts without its timer.
Begin_NoTimer(s) ==
    /\ op' = [op EXCEPT ![s] = "pending"]
    /\ UNCHANGED <<timer, late>>

\* set_timer(), then the asynchronous operation of stage s.
Begin(s) ==
    /\ op' = [op EXCEPT ![s] = "pending"]
    /\ timer' = [timer EXCEPT ![s] = "armed"]
    /\ late' = [late EXCEPT ![s] = FALSE]

-----------------------------------------------------------------------------
(***************************************************************************)
(* The connection and its endpoint.                                        *)
(***************************************************************************)

\* client::connect: async_connect starts the DNS resolver, or fails at once
\* because the proxy's URI is invalid.
AsyncConnect ==
    /\ Free /\ ~config.server
    /\ asked["connect"] = 0
    /\ asked' = [asked EXCEPT !["connect"] = 1]
    /\ \/ Begin("resolve") /\ UNCHANGED todo
       \/ /\ config.proxy
          /\ todo' = <<Callback("resolve", "error")>>
          /\ UNCHANGED <<op, timer, late>>
    /\ UNCHANGED <<config, istate, closed, proxy_sent, called>>

\* handle_accept: a server's connection is accepted, or accepting failed.
HandleAccept ==
    /\ Free /\ config.server
    /\ istate = "USER_INIT" /\ ~closed
    /\ todo' \in {<<Call("start", "")>>, <<Call("terminate", "")>>}
    /\ UNCHANGED <<config, coreVars, stageVars, called>>

\* connection::start()
Start ==
    /\ Runs("start")
    /\ IF istate # "USER_INIT"
       THEN ThenCalls(<<Call("terminate", "")>>) /\ UNCHANGED <<istate, asked>>
       ELSE /\ istate' = "TRANSPORT_INIT"
            /\ asked' = [asked EXCEPT !["init"] = @ + 1]
            /\ ThenCalls(<<Call("pre_init", "")>>)
    /\ UNCHANGED <<config, closed, stageVars, called>>

\* terminate(): only the first call has an effect.
Terminate ==
    /\ Runs("terminate")
    /\ closed' = TRUE
    /\ IF closed THEN ThenCalls(<<>>) /\ UNCHANGED asked
       ELSE /\ asked' = [asked EXCEPT !["shutdown"] = @ + 1]
            /\ ThenCalls(<<Call("async_shutdown", "")>>)
    /\ UNCHANGED <<config, istate, stageVars, called>>

\* A connection whose transport is ready ends for a reason of its own.
ConnectionEnds ==
    /\ Free
    /\ istate = "LATER" /\ ~closed
    /\ todo' = <<Call("terminate", "")>>
    /\ UNCHANGED <<config, coreVars, stageVars, called>>

\* The handlers: client::handle_connect, handle_transport_init and
\* handle_terminate.
RunCallback ==
    /\ Runs("callback")
    /\ called' = [called EXCEPT ![Arg.kind] = @ + 1]
    /\ CASE Arg.kind = "connect" ->
              /\ ThenCalls(IF Arg.ec = "none" THEN <<Call("start", "")>>
                           ELSE <<Call("terminate", "")>>)
              /\ UNCHANGED istate
         [] /\ Arg.kind = "init" /\ Arg.ec = "none"
            /\ istate = "TRANSPORT_INIT" ->
              /\ istate' = "LATER"
              /\ ThenCalls(<<>>)
         [] Arg.kind = "shutdown" ->
              /\ ThenCalls(<<>>)
              /\ UNCHANGED istate
         [] OTHER ->
              /\ ThenCalls(<<Call("terminate", "")>>)
              /\ UNCHANGED istate
    /\ UNCHANGED <<config, closed, asked, stageVars>>

-----------------------------------------------------------------------------
(***************************************************************************)
(* init()                                                                  *)
(***************************************************************************)

\* socket_con_type::pre_init.  If the host name is refused, the TLS policy
\* reports the error and then goes on to report success.
PreInit ==
    /\ Runs("pre_init")
    /\ ThenCalls((IF config.bad_host THEN <<Call("handle_pre_init", "error")>>
                  ELSE <<>>)
                 \o <<Call("handle_pre_init", "none")>>)
    /\ UNCHANGED <<config, coreVars, stageVars, called>>

\* handle_pre_init: it goes on after an error, too.
HandlePreInit ==
    /\ Runs("handle_pre_init")
    /\ ThenCalls((IF Arg = "none" THEN <<>> ELSE <<Callback("post", Arg)>>)
                 \o (IF config.proxy THEN <<Call("proxy_write", "")>>
                     ELSE <<Call("post_init", "")>>))
    /\ UNCHANGED <<config, coreVars, stageVars, called>>

\* proxy_write()
ProxyWrite ==
    /\ Runs("proxy_write")
    /\ Begin("proxy")
    /\ ThenCalls(<<>>)
    /\ UNCHANGED <<config, coreVars, proxy_sent, called>>

\* post_init(): a plain socket has nothing to do and calls handle_post_init at
\* once.
PostInit ==
    /\ Runs("post_init")
    /\ IF config.tls
       THEN /\ Begin(IF op["post"] = "idle" THEN "post" ELSE "post2")
            /\ ThenCalls(<<>>)
       ELSE /\ ThenCalls(<<Callback("post", "none")>>)
            /\ UNCHANGED <<op, timer, late>>
    /\ UNCHANGED <<config, coreVars, proxy_sent, called>>

\* async_shutdown(): a plain socket is shut down at once.
AsyncShutdown ==
    /\ Runs("async_shutdown")
    /\ IF config.tls
       THEN Begin("shutdown") /\ ThenCalls(<<>>)
       ELSE /\ \E ec \in {"none", "error"} :
                  ThenCalls(<<Callback("shutdown", ec)>>)
            /\ UNCHANGED <<op, timer, late>>
    /\ UNCHANGED <<config, coreVars, proxy_sent, called>>

-----------------------------------------------------------------------------
(***************************************************************************)
(* The network, the clock and the io_service.                              *)
(***************************************************************************)

\* The operation of stage s completes.
OpCompletes(s) ==
    /\ op[s] = "pending"
    /\ \E ec \in {"none", "error"} : op' = [op EXCEPT ![s] = ec]
    /\ UNCHANGED <<config, coreVars, timer, late, proxy_sent, todo, called>>

\* The dns_timer of another connection of the endpoint expires:
\* handle_resolve_timeout cancels the resolver that they share.
OtherResolveTimeout ==
    /\ op["resolve"] = "pending"
    /\ op' = [op EXCEPT !["resolve"] = "aborted"]
    /\ UNCHANGED <<config, coreVars, timer, late, proxy_sent, todo, called>>

\* The expiry time of a timer goes by.
TimePasses(s) ==
    /\ timer[s] = "armed" /\ ~late[s]
    /\ late' = [late EXCEPT ![s] = TRUE]
    /\ UNCHANGED <<config, coreVars, op, timer, proxy_sent, todo, called>>

\* The io_service queues the handler of a timer that expired; a single thread
\* does so between handlers.
TimerExpires(s) ==
    /\ timer[s] = "armed" /\ late[s]
    /\ config.one_thread => Free
    /\ timer' = [timer EXCEPT ![s] = "queued"]
    /\ UNCHANGED <<config, coreVars, op, late, proxy_sent, todo, called>>

-----------------------------------------------------------------------------
(***************************************************************************)
(* The handlers of the operations and of their timers.                     *)
(***************************************************************************)

\* Mutant: an operation that completes late does not look at its timer.
Superseded_AbortOnly(s) == op[s] = "aborted"

\* "Whatever aborted it will be issuing the callback": the operation was
\* cancelled, or its time is over.
Superseded(s) == op[s] = "aborted" \/ late[s]

\* The handler of stage s returns without a word.
Silent(s) ==
    /\ Free
    /\ op[s] \in {"none", "error", "aborted"}
    /\ Superseded(s)
    /\ op' = [op EXCEPT ![s] = "over"]
    /\ UNCHANGED <<config, coreVars, timer, late, proxy_sent, todo, called>>

\* It finds that it is in time.
InTime(s) ==
    /\ Free
    /\ op[s] \in {"none", "error"}
    /\ ~Superseded(s)
    /\ op' = [op EXCEPT ![s] = "over"]
    /\ todo' = <<Call("go_on", [stage |-> s, ec |-> op[s]])>>
    /\ UNCHANGED <<config, coreVars, timer, late, proxy_sent, called>>

\* timer->cancel(): a handler that is queued already runs all the same.
Cancel(s) ==
    timer' = [timer EXCEPT ![s] = IF @ = "armed" THEN "off" ELSE @]

\* A stage has failed, or it was the last one of its kind.
GoOnCallback ==
    /\ Runs("go_on")
    /\ Arg.ec = "error" \/ Arg.stage \notin {"resolve", "proxy"}
    /\ Cancel(Arg.stage)
    /\ ThenCalls(<<Callback(Arg.stage, Arg.ec)>>)
    /\ UNCHANGED <<config, coreVars, op, late, proxy_sent, called>>

\* handle_resolve starts the connect stage.
GoOnConnect ==
    /\ Runs("go_on")
    /\ Arg = [stage |-> "resolve", ec |-> "none"]
    /\ op' = [op EXCEPT !["connect"] = "pending"]
    /\ late' = [late EXCEPT !["connect"] = FALSE]
    /\ timer' = [timer EXCEPT !["resolve"] = IF @ = "armed" THEN "off" ELSE @,
                              !["connect"] = "armed"]
    /\ ThenCalls(<<>>)
    /\ UNCHANGED <<config, coreVars, proxy_sent, called>>

\* handle_proxy_write: the same timer goes on for the answer of the proxy.
GoOnProxyRead ==
    /\ Runs("go_on")
    /\ Arg = [stage |-> "proxy", ec |-> "none"]
    /\ ~proxy_sent
    /\ proxy_sent' = TRUE
    /\ op' = [op EXCEPT !["proxy"] = "pending"]
    /\ ThenCalls(<<>>)
    /\ UNCHANGED <<config, coreVars, timer, late, called>>

\* handle_proxy_read: the proxy lets the connection through, or not.
GoOnPostInit ==
    /\ Runs("go_on")
    /\ Arg = [stage |-> "proxy", ec |-> "none"]
    /\ proxy_sent
    /\ Cancel("proxy")
    /\ \/ ThenCalls(<<Call("post_init", "")>>)
       \/ ThenCalls(<<Callback("proxy", "error")>>)
    /\ UNCHANGED <<config, coreVars, op, late, proxy_sent, called>>

\* What cancelling the socket, or the resolver, makes of an operation.  The
\* TLS policy's handle_init reports every error as tls_handshake_failed.
Aborted(s) == IF s \in {"post", "post2"} THEN "error" ELSE "aborted"

\* The timer of stage s has expired: whatever is pending on the socket, or on
\* the resolver, is cancelled and the connection called back.
HandleTimeout(s) ==
    /\ Free
    /\ timer[s] = "queued"
    /\ timer' = [timer EXCEPT ![s] = "off"]
    /\ op' = [t \in Stages |->
                 IF op[t] = "pending" /\ ((s = "resolve") <=> (t = "resolve"))
                 THEN Aborted(t) ELSE op[t]]
    /\ todo' = <<Callback(s, "timeout")>>
    /\ UNCHANGED <<config, coreVars, late, proxy_sent, called>>

\* handle_resolve and its timer
HandleResolve == Silent("resolve") \/ InTime("resolve")
HandleResolveTimeout == HandleTimeout("resolve")

\* handle_connect and its timer
HandleConnect == Silent("connect") \/ InTime("connect")
HandleConnectTimeout == HandleTimeout("connect")

\* handle_proxy_write, handle_proxy_read and their timer
HandleProxyWrite == ~proxy_sent /\ (Silent("proxy") \/ InTime("proxy"))
HandleProxyRead == proxy_sent /\ (Silent("proxy") \/ InTime("proxy"))
HandleProxyTimeout == HandleTimeout("proxy")

\* handle_post_init and its timer
HandlePostInit == \E s \in {"post", "post2"} : Silent(s) \/ InTime(s)
HandlePostInitTimeout == \E s \in {"post", "post2"} : HandleTimeout(s)

\* handle_async_shutdown and its timer
HandleAsyncShutdown == Silent("shutdown") \/ InTime("shutdown")
HandleAsyncShutdownTimeout == HandleTimeout("shutdown")

-----------------------------------------------------------------------------
\* A handler that is ready runs on the strand.
Handler ==
    \/ HandleResolve \/ HandleResolveTimeout
    \/ HandleConnect \/ HandleConnectTimeout
    \/ HandleProxyWrite \/ HandleProxyRead \/ HandleProxyTimeout
    \/ HandlePostInit \/ HandlePostInitTimeout
    \/ HandleAsyncShutdown \/ HandleAsyncShutdownTimeout

\* The handler that runs goes on.
Strand ==
    \/ Start \/ Terminate \/ RunCallback
    \/ PreInit \/ HandlePreInit \/ ProxyWrite \/ PostInit \/ AsyncShutdown
    \/ GoOnCallback \/ GoOnConnect \/ GoOnProxyRead \/ GoOnPostInit

\* A step of the clock, of the io_service or of the strand.
Runtime ==
    \/ \E s \in Stages : TimePasses(s) \/ TimerExpires(s)
    \/ Handler
    \/ Strand

Next ==
    \/ AsyncConnect \/ HandleAccept \/ ConnectionEnds
    \/ OtherResolveTimeout
    \/ \E s \in Stages : OpCompletes(s)
    \/ Runtime

Spec == Init /\ [][Next]_vars

(***************************************************************************)
(* Fairness: while time can pass or a handler can run, one does.  Nothing  *)
(* is assumed of the network.                                              *)
(***************************************************************************)
FairSpec == Spec /\ WF_vars(Runtime)

-----------------------------------------------------------------------------
(***************************************************************************)
(* Properties.                                                             *)
(***************************************************************************)

\* Types of the variables.
TypeOK ==
    /\ config \in Configurations
    /\ istate \in {"USER_INIT", "TRANSPORT_INIT", "LATER"}
    /\ closed \in BOOLEAN
    /\ op \in [Stages -> {"idle", "pending", "none", "error", "aborted",
                          "over"}]
    /\ timer \in [Stages -> {"off", "armed", "queued"}]
    /\ late \in [Stages -> BOOLEAN]
    /\ proxy_sent \in BOOLEAN
    /\ \A i \in DOMAIN todo : todo[i].f \in
          {"start", "terminate", "callback", "pre_init", "handle_pre_init",
           "proxy_write", "post_init", "async_shutdown", "go_on"}
    /\ asked \in [Kinds -> Nat]
    /\ called \in [Kinds -> Nat]

\* One thread, and a host name that is accepted.
Orderly == config.one_thread /\ ~config.bad_host

\* If one thread runs the io_service, every handler that the connection gave to
\* async_connect, init or async_shutdown is called at most once, however the
\* operations and their timers race.
CalledOnce ==
    Orderly => \A k \in Kinds : called[k] <= asked[k] /\ asked[k] <= 1

\* Likewise, a connection whose transport is ready has left nothing of its
\* setup behind: no operation is under way and no timer can still end it.
NoLeftovers ==
    Orderly /\ istate = "LATER" =>
       \A s \in SetupStages : timer[s] = "off" /\ op[s] \in {"idle", "over"}

\* A connection never waits without a timer: whatever the network does, some
\* timer of the stage that it is in will run.
Guarded ==
    \A s \in Stages : op[s] = "pending" => timer[s] # "off"

\* Every handler that the connection gave to the transport is called, even if
\* the DNS server, the peer or the proxy never answers, and even if another
\* connection's timeout cancels the resolver.
Answered == \A k \in Kinds : asked[k] > 0 ~> called[k] > 0

\* The init handler is called once (transport/base/connection.hpp: "The
\* transport must call `handler` exactly once").
InitCalledOnce == called["init"] <= 1

=============================================================================
