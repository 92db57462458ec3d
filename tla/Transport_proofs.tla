--------------------------- MODULE Transport_proofs ---------------------------
(***************************************************************************)
(* The machines that MCTransport puts side by side, for any values of      *)
(* their constants: the setup and shutdown of a connection over the asio   *)
(* transport (no operation waits without a timer, and with one thread      *)
(* nothing is called twice and nothing of the setup survives it), flow     *)
(* control of reads, the iostream transport, the accept loop of an         *)
(* endpoint, and the pong timer.  Each is proved by itself, as the         *)
(* instance that MCTransport makes of its module; the last part carries    *)
(* the results over to MCSpec.                                             *)
(***************************************************************************)
EXTENDS MCTransport, Counting, SequenceTheorems

-----------------------------------------------------------------------------
(***************************************************************************)
(* With any number of threads: the types, and that no operation waits      *)
(* without a timer.                                                        *)
(***************************************************************************)

\* The calls that a handler on the strand makes.
Steps ==
    [f : {"start", "terminate", "pre_init", "proxy_write", "post_init",
          "async_shutdown"}, arg : {""}]
      \cup [f : {"handle_pre_init"}, arg : {"none", "error"}]
      \cup [f : {"callback"},
            arg : [kind : Kinds, ec : {"none", "error", "timeout"}]]
GoOns == [f : {"go_on"}, arg : [stage : Stages, ec : {"none", "error"}]]
Calls == Steps \cup GoOns

\* A timer's handler runs only after its time; an operation that is under way,
\* or has completed in time, has its timer.
StagesOK ==
    /\ op \in [Stages -> {"idle", "pending", "none", "error", "aborted", "over"}]
    /\ timer \in [Stages -> {"off", "armed", "queued"}]
    /\ late \in [Stages -> BOOLEAN]
    /\ \A s \in Stages :
         /\ timer[s] = "queued" => late[s]
         /\ op[s] = "pending" => timer[s] # "off"
         /\ op[s] \in {"none", "error"} /\ ~late[s] => timer[s] # "off"

\* The handler that found itself in time has nothing behind it on the strand.
GoOnAlone ==
    todo # <<>> /\ Head(todo).f = "go_on" =>
        /\ Len(todo) = 1
        /\ op[Arg.stage] = "over" /\ timer[Arg.stage] # "off"

TodoOK == todo \in Seq(Calls) /\ (todo = <<>> \/ Tail(todo) \in Seq(Steps))

GuardInv == TypeOK /\ StagesOK /\ TodoOK /\ GoOnAlone

LEMMA CallsFacts ==
    /\ \A c \in Steps : c.f \in {"start", "terminate", "callback", "pre_init",
                                 "handle_pre_init", "proxy_write", "post_init",
                                 "async_shutdown"}
    /\ \A c \in GoOns : /\ c.f = "go_on" /\ c.arg.stage \in Stages
                        /\ c.arg.ec \in {"none", "error"}
    /\ \A c \in Calls : c.f = "go_on" => c \in GoOns
    /\ \A c \in Steps : c \in Calls /\ c.f # "go_on"
    /\ \A c \in GoOns : c \in Calls
BY DEF Steps, GoOns, Calls

\* The calls the actions make.
LEMMA CallsMade ==
    /\ \A g \in {"start", "terminate", "pre_init", "proxy_write", "post_init",
                 "async_shutdown"} : Call(g, "") \in Steps
    /\ \A ec \in {"none", "error"} : Call("handle_pre_init", ec) \in Steps
    /\ \A s \in Stages, ec \in {"none", "error", "timeout"} : Callback(s, ec) \in Steps
    /\ \A s \in Stages, ec \in {"none", "error"} :
         Call("go_on", [stage |-> s, ec |-> ec]) \in GoOns
    /\ \A s \in Stages : Kind(s) \in Kinds
<1>1. \A s \in Stages : Kind(s) \in Kinds
  BY DEF Kind, Stages, Kinds
<1> QED
  BY <1>1 DEF Call, Callback, Steps, GoOns

\* One call on the strand, or none.
LEMMA TodoOne ==
    ASSUME NEW c \in Calls
    PROVE  /\ <<c>> \in Seq(Calls) /\ Tail(<<c>>) \in Seq(Steps)
           /\ <<c>> # <<>> /\ Head(<<c>>) = c /\ Len(<<c>>) = 1
OBVIOUS

\* What the calls of a handler leave on the strand.
LEMMA TodoThen ==
    ASSUME TodoOK, todo # <<>>, NEW calls \in Seq(Steps), ThenCalls(calls)
    PROVE  /\ todo' \in Seq(Steps) /\ TodoOK'
           /\ todo' # <<>> => Head(todo') \in Steps
<1> DEFINE t == Tail(todo)
<1>1. t \in Seq(Steps)
  BY DEF TodoOK
<1> HIDE DEF t
<1>2. todo' = calls \o t
  BY DEF ThenCalls, t
<1>3. todo' \in Seq(Steps)
  BY <1>1, <1>2
<1>4. todo' \in Seq(Calls)
  <2>1. Steps \subseteq Calls
    BY DEF Calls
  <2> QED
    BY <1>3, <2>1, SeqMonotonic
<1>5. todo' # <<>> => Tail(todo') \in Seq(Steps) /\ Head(todo') \in Steps
  BY <1>3
<1> QED
  BY <1>3, <1>4, <1>5 DEF TodoOK

\* The strand's types give those of TypeOK.
LEMMA TodoType ==
    ASSUME NEW t \in Seq(Calls)
    PROVE  \A i \in DOMAIN t : t[i].f \in
             {"start", "terminate", "callback", "pre_init", "handle_pre_init",
              "proxy_write", "post_init", "async_shutdown", "go_on"}
<1> TAKE i \in DOMAIN t
<1>1. t[i] \in Calls
  OBVIOUS
<1> QED
  BY <1>1, CallsFacts DEF Calls

LEMMA HeadCall ==
    ASSUME TodoOK, todo # <<>>
    PROVE  Head(todo) \in Calls
<1>1. todo \in Seq(Calls)
  BY DEF TodoOK
<1> QED
  BY <1>1

\* set_timer() and the start of an operation.
LEMMA BeginOK ==
    ASSUME StagesOK, NEW s \in Stages, Begin(s)
    PROVE  StagesOK'
BY DEF StagesOK, Begin

\* timer->cancel() for an operation that is over.
LEMMA CancelOK ==
    ASSUME StagesOK, NEW s \in Stages, op[s] = "over", Cancel(s), op' = op, late' = late
    PROVE  StagesOK'
BY DEF StagesOK, Cancel

LEMMA SameStages ==
    ASSUME StagesOK, op' = op, timer' = timer, late' = late
    PROVE  StagesOK'
BY DEF StagesOK

\* The handler that runs next, when it is not one that looked at its timer.
LEMMA NoGoOn ==
    ASSUME todo' # <<>> => Head(todo') \in Steps
    PROVE  GoOnAlone'
BY CallsFacts DEF GoOnAlone

LEMMA GuardInit == Init => GuardInv
<1> SUFFICES ASSUME Init PROVE GuardInv
  OBVIOUS
<1>1. /\ todo = <<>> /\ todo \in Seq(Calls)
      /\ \A i \in DOMAIN todo : FALSE
  BY DEF Init
<1>2. TypeOK
  BY <1>1 DEF Init, TypeOK
<1>3. StagesOK
  BY DEF Init, StagesOK
<1> QED
  BY <1>1, <1>2, <1>3 DEF GuardInv, TodoOK, GoOnAlone

\* The parts of GuardInv make the whole.
LEMMA GuardParts ==
    ASSUME StagesOK', TodoOK', GoOnAlone', config' \in Configurations,
           istate' \in {"USER_INIT", "TRANSPORT_INIT", "LATER"},
           closed' \in BOOLEAN, proxy_sent' \in BOOLEAN,
           asked' \in [Kinds -> Nat], called' \in [Kinds -> Nat]
    PROVE  GuardInv'
<1>1. \A i \in DOMAIN todo' : todo'[i].f \in
             {"start", "terminate", "callback", "pre_init", "handle_pre_init",
              "proxy_write", "post_init", "async_shutdown", "go_on"}
  BY TodoType DEF TodoOK
<1>2. TypeOK'
  BY <1>1 DEF TypeOK, StagesOK
<1> QED
  BY <1>2 DEF GuardInv

\* The calls that leave the timers and operations alone.
LEMMA GuardCalls ==
    ASSUME GuardInv, Start \/ Terminate \/ RunCallback \/ PreInit \/ HandlePreInit
    PROVE  GuardInv'
<1> DEFINE Made(calls) == calls \in Seq(Steps) /\ ThenCalls(calls)
<1>1. todo # <<>> /\ TodoOK /\ StagesOK /\ Arg = Head(todo).arg
  BY DEF Start, Terminate, RunCallback, PreInit, HandlePreInit, Runs, GuardInv, Arg
<1>2. <<>> \in Seq(Steps) /\ \A c \in Steps : <<c>> \in Seq(Steps)
  OBVIOUS
<1>3. \A g \in {"start", "terminate", "pre_init", "proxy_write", "post_init",
                "async_shutdown"} : <<Call(g, "")>> \in Seq(Steps)
  BY <1>2, CallsMade
<1>4. \E calls \in Seq(Steps) : ThenCalls(calls)
  <2>1. CASE Start
    BY <1>3, <2>1 DEF Start
  <2>2. CASE Terminate
    BY <1>2, <1>3, <2>2 DEF Terminate
  <2>3. CASE RunCallback
    BY <1>2, <1>3, <2>3 DEF RunCallback
  <2>4. CASE PreInit
    <3>1. \A ec \in {"none", "error"} : <<Call("handle_pre_init", ec)>> \in Seq(Steps)
      BY <1>2, CallsMade
    <3>2. (IF config.bad_host THEN <<Call("handle_pre_init", "error")>> ELSE <<>>)
            \o <<Call("handle_pre_init", "none")>> \in Seq(Steps)
      BY <1>2, <3>1
    <3> QED
      BY <2>4, <3>2 DEF PreInit
  <2>5. CASE HandlePreInit
    <3>1. Head(todo) \in Calls /\ Head(todo).f = "handle_pre_init"
      BY <1>1, <2>5, HeadCall DEF HandlePreInit, Runs
    <3>2. Arg \in {"none", "error"}
      BY <1>1, <3>1 DEF Calls, Steps, GoOns
    <3>3. <<Callback("post", Arg)>> \in Seq(Steps)
      BY <1>2, <3>2, CallsMade DEF Stages
    <3> DEFINE first == IF Arg = "none" THEN <<>> ELSE <<Callback("post", Arg)>>
               second == IF config.proxy THEN <<Call("proxy_write", "")>>
                         ELSE <<Call("post_init", "")>>
    <3>4. first \in Seq(Steps)
      BY <1>2, <3>3
    <3>5. second \in Seq(Steps)
      BY <1>3
    <3>6. ThenCalls(first \o second)
      BY <2>5 DEF HandlePreInit
    <3> HIDE DEF first, second
    <3>7. first \o second \in Seq(Steps)
      BY <3>4, <3>5
    <3> QED
      BY <3>6, <3>7
  <2> QED
    BY <2>1, <2>2, <2>3, <2>4, <2>5
<1>5. TodoOK' /\ (todo' # <<>> => Head(todo') \in Steps)
  BY <1>1, <1>4, TodoThen
<1>6. GoOnAlone'
  BY <1>5, NoGoOn
<1>7. UNCHANGED <<config, op, timer, late, proxy_sent>>
  BY DEF Start, Terminate, RunCallback, PreInit, HandlePreInit, stageVars
<1>8. StagesOK'
  BY <1>1, <1>7, SameStages
<1>9. TypeOK
  BY DEF GuardInv
<1>10. closed' \in BOOLEAN
  <2>1. closed' = closed \/ closed' = TRUE
    BY DEF Start, Terminate, RunCallback, PreInit, HandlePreInit, coreVars
  <2> QED
    BY <1>9, <2>1 DEF TypeOK
<1>11. istate' \in {"USER_INIT", "TRANSPORT_INIT", "LATER"}
  <2>1. istate' = istate \/ istate' = "TRANSPORT_INIT" \/ istate' = "LATER"
    <3>1. CASE RunCallback
      BY <3>1 DEF RunCallback
    <3>2. CASE ~RunCallback
      BY <3>2 DEF Start, Terminate, PreInit, HandlePreInit, coreVars
    <3> QED
      BY <3>1, <3>2
  <2> QED
    BY <1>9, <2>1 DEF TypeOK
<1>12. asked' \in [Kinds -> Nat]
  <2>1. asked' = asked \/ \E k \in Kinds : asked' = [asked EXCEPT ![k] = @ + 1]
    BY DEF Start, Terminate, RunCallback, PreInit, HandlePreInit, coreVars, Kinds
  <2> QED
    BY <1>9, <2>1 DEF TypeOK
<1>13. called' \in [Kinds -> Nat]
  <2>1. called' = called \/ called' = [called EXCEPT ![Arg.kind] = @ + 1]
    BY DEF Start, Terminate, RunCallback, PreInit, HandlePreInit
  <2> QED
    BY <1>9, <2>1 DEF TypeOK
<1> QED
  BY <1>5, <1>6, <1>7, <1>8, <1>9, <1>10, <1>11, <1>12, <1>13, GuardParts DEF TypeOK

\* The calls that start an operation, or would for another kind of socket.
LEMMA GuardBegins ==
    ASSUME GuardInv, ProxyWrite \/ PostInit \/ AsyncShutdown
    PROVE  GuardInv'
<1>1. todo # <<>> /\ TodoOK /\ StagesOK
  BY DEF ProxyWrite, PostInit, AsyncShutdown, Runs, GuardInv
<1>2. <<>> \in Seq(Steps) /\ \A c \in Steps : <<c>> \in Seq(Steps)
  OBVIOUS
<1>3. \A s \in Stages, ec \in {"none", "error"} : <<Callback(s, ec)>> \in Seq(Steps)
  BY <1>2, CallsMade
<1>4. \E calls \in Seq(Steps) : ThenCalls(calls)
  BY <1>2, <1>3 DEF ProxyWrite, PostInit, AsyncShutdown, Stages
<1>5. TodoOK' /\ (todo' # <<>> => Head(todo') \in Steps)
  BY <1>1, <1>4, TodoThen
<1>6. GoOnAlone'
  BY <1>5, NoGoOn
<1>7. (\E s \in Stages : Begin(s)) \/ UNCHANGED <<op, timer, late>>
  BY DEF ProxyWrite, PostInit, AsyncShutdown, Stages
<1>8. StagesOK'
  BY <1>1, <1>7, SameStages, BeginOK
<1>9. UNCHANGED <<config, istate, closed, asked, proxy_sent, called>>
  BY DEF ProxyWrite, PostInit, AsyncShutdown, coreVars
<1> QED
  BY <1>5, <1>6, <1>8, <1>9, GuardParts DEF GuardInv, TypeOK

\* A handler that found itself in time goes on: its timer is cancelled, but not
\* before its operation is over.
LEMMA GuardGoOn ==
    ASSUME GuardInv, GoOnCallback \/ GoOnConnect \/ GoOnProxyRead \/ GoOnPostInit
    PROVE  GuardInv'
<1>1. /\ todo # <<>> /\ TodoOK /\ StagesOK /\ Head(todo).f = "go_on"
      /\ Head(todo) \in Calls
  BY HeadCall DEF GoOnCallback, GoOnConnect, GoOnProxyRead, GoOnPostInit, Runs, GuardInv
<1>2. /\ Arg.stage \in Stages /\ Arg.ec \in {"none", "error"}
      /\ op[Arg.stage] = "over" /\ timer[Arg.stage] # "off"
  BY <1>1, CallsFacts DEF Arg, GuardInv, GoOnAlone
<1>3. <<>> \in Seq(Steps) /\ \A c \in Steps : <<c>> \in Seq(Steps)
  OBVIOUS
<1>4. /\ \A s \in Stages, ec \in {"none", "error"} : <<Callback(s, ec)>> \in Seq(Steps)
      /\ <<Call("post_init", "")>> \in Seq(Steps)
  BY <1>3, CallsMade
<1>5. \E calls \in Seq(Steps) : ThenCalls(calls)
  BY <1>2, <1>3, <1>4 DEF GoOnCallback, GoOnConnect, GoOnProxyRead, GoOnPostInit, Stages
<1>6. TodoOK' /\ (todo' # <<>> => Head(todo') \in Steps)
  BY <1>1, <1>5, TodoThen
<1>7. GoOnAlone'
  BY <1>6, NoGoOn
<1>8. StagesOK'
  <2>1. CASE GoOnCallback
    BY <1>1, <1>2, <2>1, CancelOK DEF GoOnCallback
  <2>2. CASE GoOnPostInit
    <3>1. Arg.stage = "proxy"
      BY <2>2 DEF GoOnPostInit
    <3> QED
      BY <1>1, <1>2, <2>2, <3>1, CancelOK DEF GoOnPostInit
  <2>3. CASE GoOnProxyRead
    <3>1. /\ Arg.stage = "proxy" /\ timer["proxy"] # "off"
          /\ op' = [op EXCEPT !["proxy"] = "pending"] /\ timer' = timer /\ late' = late
      BY <1>2, <2>3 DEF GoOnProxyRead
    <3> QED
      BY <1>1, <3>1 DEF StagesOK, Stages
  <2>4. CASE GoOnConnect
    <3>1. Arg.stage = "resolve" /\ op["resolve"] = "over"
      BY <1>2, <2>4 DEF GoOnConnect
    <3>2. /\ op' = [op EXCEPT !["connect"] = "pending"]
          /\ late' = [late EXCEPT !["connect"] = FALSE]
          /\ timer' = [timer EXCEPT !["resolve"] = IF @ = "armed" THEN "off" ELSE @,
                                    !["connect"] = "armed"]
      BY <2>4 DEF GoOnConnect
    <3> QED
      BY <1>1, <3>1, <3>2 DEF StagesOK, Stages
  <2> QED
    BY <2>1, <2>2, <2>3, <2>4
<1>9. /\ UNCHANGED <<config, istate, closed, asked, called>>
      /\ proxy_sent' \in BOOLEAN
  BY DEF GoOnCallback, GoOnConnect, GoOnProxyRead, GoOnPostInit, coreVars, GuardInv,
         TypeOK
<1> QED
  BY <1>6, <1>7, <1>8, <1>9, GuardParts DEF GuardInv, TypeOK

\* What starts on a free strand.
LEMMA GuardFree ==
    ASSUME GuardInv, NEW s \in Stages,
           AsyncConnect \/ HandleAccept \/ ConnectionEnds
             \/ Silent(s) \/ InTime(s) \/ HandleTimeout(s)
    PROVE  GuardInv'
<1>1. todo = <<>> /\ StagesOK
  BY DEF AsyncConnect, HandleAccept, ConnectionEnds, Silent, InTime, HandleTimeout,
         Free, GuardInv
<1>2. \A c \in Calls : todo' = <<c>> => TodoOK'
  BY TodoOne DEF TodoOK
<1>3. todo' = <<>> => TodoOK'
  BY DEF TodoOK
<1>4. \A c \in Steps : todo' = <<c>> => GoOnAlone'
  BY NoGoOn
<1>5. todo' = <<>> => GoOnAlone'
  BY DEF GoOnAlone
<1>6. /\ config' = config
      /\ UNCHANGED <<istate, closed, proxy_sent, called>>
      /\ asked' \in [Kinds -> Nat]
  <2>1. asked' = asked \/ asked' = [asked EXCEPT !["connect"] = 1]
    BY DEF AsyncConnect, HandleAccept, ConnectionEnds, Silent, InTime, HandleTimeout,
           coreVars
  <2>2. UNCHANGED <<config, istate, closed, proxy_sent, called>>
    <3>1. CASE AsyncConnect \/ HandleAccept \/ ConnectionEnds
      BY <3>1 DEF AsyncConnect, HandleAccept, ConnectionEnds, coreVars, stageVars
    <3>2. CASE Silent(s) \/ InTime(s) \/ HandleTimeout(s)
      BY <3>2 DEF Silent, InTime, HandleTimeout, coreVars
    <3> QED
      BY <3>1, <3>2
  <2> QED
    BY <2>1, <2>2 DEF GuardInv, TypeOK
<1>7. StagesOK' /\ TodoOK' /\ GoOnAlone'
  <2>1. CASE AsyncConnect
    <3>1. CASE Begin("resolve") /\ UNCHANGED todo
      BY <1>1, <1>3, <1>5, <3>1, BeginOK DEF Stages
    <3>2. CASE /\ todo' = <<Callback("resolve", "error")>>
               /\ UNCHANGED <<op, timer, late>>
      <4>1. Callback("resolve", "error") \in Steps
        BY CallsMade DEF Stages
      <4> QED
        BY <1>1, <1>2, <1>4, <3>2, <4>1, SameStages, CallsFacts
    <3> QED
      BY <2>1, <3>1, <3>2 DEF AsyncConnect
  <2>2. CASE HandleAccept \/ ConnectionEnds
    <3>1. Call("start", "") \in Steps /\ Call("terminate", "") \in Steps
      BY CallsMade
    <3>2. UNCHANGED <<op, timer, late>>
      BY <2>2 DEF HandleAccept, ConnectionEnds, stageVars
    <3>3. todo' = <<Call("start", "")>> \/ todo' = <<Call("terminate", "")>>
      BY <2>2 DEF HandleAccept, ConnectionEnds
    <3> QED
      BY <1>1, <1>2, <1>4, <3>1, <3>2, <3>3, SameStages, CallsFacts
  <2>3. CASE Silent(s)
    <3>1. todo' = <<>>
      BY <1>1, <2>3 DEF Silent
    <3>2. StagesOK'
      BY <1>1, <2>3 DEF Silent, StagesOK
    <3> QED
      BY <1>3, <1>5, <3>1, <3>2
  <2>4. CASE InTime(s)
    <3> DEFINE c == Call("go_on", [stage |-> s, ec |-> op[s]])
    <3>1. /\ op[s] \in {"none", "error"} /\ ~late[s]
          /\ op' = [op EXCEPT ![s] = "over"] /\ timer' = timer /\ late' = late
          /\ todo' = <<c>>
      BY <2>4 DEF InTime, Superseded
    <3>2. StagesOK' /\ op'[s] = "over" /\ timer'[s] # "off"
      BY <1>1, <3>1 DEF StagesOK
    <3>3. c \in GoOns /\ c.f = "go_on" /\ c.arg.stage = s
      BY <3>1, CallsMade DEF Call
    <3>4. GoOnAlone'
      BY <3>1, <3>2, <3>3 DEF GoOnAlone, Arg
    <3> QED
      BY <1>2, <3>1, <3>2, <3>3, <3>4, CallsFacts
  <2>5. CASE HandleTimeout(s)
    <3>1. Callback(s, "timeout") \in Steps /\ todo' = <<Callback(s, "timeout")>>
      BY <2>5, CallsMade DEF HandleTimeout
    <3>2. StagesOK'
      <4>1. /\ timer[s] = "queued" /\ timer' = [timer EXCEPT ![s] = "off"]
            /\ late' = late
            /\ op' = [t \in Stages |->
                        IF op[t] = "pending" /\ ((s = "resolve") <=> (t = "resolve"))
                        THEN Aborted(t) ELSE op[t]]
        BY <2>5 DEF HandleTimeout
      <4>2. \A t : Aborted(t) \in {"error", "aborted"}
        BY DEF Aborted
      <4>3. op' \in [Stages -> {"idle", "pending", "none", "error", "aborted", "over"}]
        BY <1>1, <4>1, <4>2 DEF StagesOK
      <4>4. ASSUME NEW t \in Stages
            PROVE  /\ timer'[t] = "queued" => late'[t]
                   /\ op'[t] = "pending" => timer'[t] # "off"
                   /\ op'[t] \in {"none", "error"} /\ ~late'[t] => timer'[t] # "off"
        <5>1. CASE t = s
          BY <1>1, <4>1, <4>2, <5>1 DEF StagesOK
        <5>2. CASE t # s
          BY <1>1, <4>1, <4>2, <5>2 DEF StagesOK
        <5> QED
          BY <5>1, <5>2
      <4> QED
        BY <1>1, <4>1, <4>3, <4>4 DEF StagesOK
    <3> QED
      BY <1>2, <1>4, <3>1, <3>2, CallsFacts
  <2> QED
    BY <2>1, <2>2, <2>3, <2>4, <2>5
<1> QED
  BY <1>6, <1>7, GuardParts DEF GuardInv, TypeOK

\* The network, the clock and the io_service.
LEMMA GuardOutside ==
    ASSUME GuardInv, NEW s \in Stages,
           OtherResolveTimeout \/ OpCompletes(s) \/ TimePasses(s) \/ TimerExpires(s)
    PROVE  GuardInv'
<1>1. StagesOK /\ TodoOK /\ GoOnAlone
  BY DEF GuardInv
<1>2. UNCHANGED <<config, istate, closed, asked, proxy_sent, called, todo>>
  BY DEF OtherResolveTimeout, OpCompletes, TimePasses, TimerExpires, coreVars
<1>3. StagesOK'
  <2>1. CASE OtherResolveTimeout
    BY <1>1, <2>1 DEF OtherResolveTimeout, StagesOK, Stages
  <2>2. CASE OpCompletes(s)
    BY <1>1, <2>2 DEF OpCompletes, StagesOK
  <2>3. CASE TimePasses(s)
    BY <1>1, <2>3 DEF TimePasses, StagesOK
  <2>4. CASE TimerExpires(s)
    BY <1>1, <2>4 DEF TimerExpires, StagesOK
  <2> QED
    BY <2>1, <2>2, <2>3, <2>4
<1>4. ASSUME todo # <<>>, Head(todo).f = "go_on"
      PROVE  op'[Arg.stage] = "over" /\ timer'[Arg.stage] # "off"
  <2>1. Arg.stage \in Stages /\ op[Arg.stage] = "over" /\ timer[Arg.stage] # "off"
    BY <1>1, <1>4, CallsFacts DEF Arg, GoOnAlone, TodoOK
  <2> QED
    BY <1>1, <2>1
    DEF OtherResolveTimeout, OpCompletes, TimePasses, TimerExpires, StagesOK, Stages
<1>5. GoOnAlone'
  BY <1>1, <1>2, <1>4 DEF GoOnAlone, Arg
<1>6. TodoOK'
  BY <1>1, <1>2 DEF TodoOK
<1> QED
  BY <1>2, <1>3, <1>5, <1>6, GuardParts DEF GuardInv, TypeOK

LEMMA GuardStep ==
    ASSUME GuardInv, [Next]_vars
    PROVE  GuardInv'
<1>1. CASE UNCHANGED vars
  BY <1>1 DEF vars, GuardInv, TypeOK, StagesOK, TodoOK, GoOnAlone, Arg
<1>2. CASE Strand
  BY <1>2, GuardCalls, GuardBegins, GuardGoOn DEF Strand
<1>3. CASE Handler
  <2>1. \E s \in Stages : Silent(s) \/ InTime(s) \/ HandleTimeout(s)
    BY <1>3 DEF Handler, HandleResolve, HandleResolveTimeout, HandleConnect,
       HandleConnectTimeout, HandleProxyWrite, HandleProxyRead, HandleProxyTimeout,
       HandlePostInit, HandlePostInitTimeout, HandleAsyncShutdown,
       HandleAsyncShutdownTimeout, Stages
  <2> QED
    BY <2>1, GuardFree
<1>4. CASE AsyncConnect \/ HandleAccept \/ ConnectionEnds
  <2>1. "resolve" \in Stages
    BY DEF Stages
  <2> QED
    BY <1>4, <2>1, GuardFree
<1>5. CASE \/ OtherResolveTimeout
           \/ \E s \in Stages : OpCompletes(s) \/ TimePasses(s) \/ TimerExpires(s)
  <2>1. "resolve" \in Stages
    BY DEF Stages
  <2> QED
    BY <1>5, <2>1, GuardOutside
<1> QED
  BY <1>1, <1>2, <1>3, <1>4, <1>5 DEF Next, Runtime

\* However the handlers and the timers race on however many threads, an
\* operation that is under way has a timer that will end it.
THEOREM GuardedAlways == Spec => [](TypeOK /\ Guarded)
<1>1. GuardInv => TypeOK /\ Guarded
  BY DEF GuardInv, StagesOK, Guarded
<1> QED
  BY <1>1, GuardInit, GuardStep, PTL DEF Spec

-----------------------------------------------------------------------------
(***************************************************************************)
(* With one thread and a host name that is accepted, a single thing is     *)
(* under way: a call on the strand, or a stage whose timer is armed.  It   *)
(* holds the handler that the connection still waits for.                  *)
(***************************************************************************)

Off == \A s \in Stages : timer[s] = "off"
Clean(s) == timer[s] = "off" /\ op[s] \in {"idle", "over"}
AllClean == \A s \in SetupStages : Clean(s)

\* The kind of the handler that a call on the strand comes to.
Bound(c) ==
    IF c.f = "callback" THEN c.arg.kind
    ELSE IF c.f \in {"pre_init", "handle_pre_init", "proxy_write", "post_init"}
    THEN "init"
    ELSE IF c.f = "async_shutdown" THEN "shutdown"
    ELSE "none"

Held(tm, td, k) ==
    \/ \E s \in Stages : tm[s] # "off" /\ Kind(s) = k
    \/ td # <<>> /\ Bound(Head(td)) = k

\* The calls of a setup in which nothing has failed.
Successful(c) ==
    \/ c.f \in {"start", "pre_init", "handle_pre_init", "proxy_write", "post_init"}
    \/ c.f = "callback" /\ c.arg.kind # "shutdown" /\ c.arg.ec = "none"

OneAtATime ==
    /\ todo = <<>> \/ \E c \in Calls : todo = <<c>>
    /\ \A s \in Stages : timer[s] = "queued" => todo = <<>>
    /\ \A s, t \in Stages : timer[s] # "off" /\ timer[t] # "off" => s = t
    /\ todo # <<>> /\ Head(todo).f # "go_on" => Off
    /\ todo # <<>> /\ Head(todo).f = "handle_pre_init" => Head(todo).arg = "none"

\* Every handler asked for was called, or is held.
Balance ==
    \A k \in Kinds : asked[k] = called[k] + (IF Held(timer, todo, k) THEN 1 ELSE 0)

Counters ==
    /\ asked["init"] = IF istate = "USER_INIT" THEN 0 ELSE 1
    /\ asked["shutdown"] = IF closed THEN 1 ELSE 0
    /\ asked["connect"] <= 1
    /\ config.server => asked["connect"] = 0
    /\ istate = "LATER" => called["init"] = 1

\* A client does nothing before its connection was established, or was not.
Waits ==
    ~config.server /\ called["connect"] = 0 =>
        /\ istate = "USER_INIT" /\ ~closed
        /\ todo # <<>> => Head(todo).f \notin {"start", "terminate"}

\* Before the setup, and after a setup that succeeded.
Fresh ==
    \/ ~config.server /\ asked["connect"] = 0
    \/ config.server /\ istate = "USER_INIT"
    \/ istate = "LATER"

\* A stage begins when those before it have left nothing behind.
Tidy ==
    /\ Fresh => AllClean
    /\ \A s, t \in SetupStages : timer[s] # "off" /\ t # s => Clean(t)
    /\ todo # <<>> /\ Successful(Head(todo)) => AllClean

OrderlyInv == OneAtATime /\ Balance /\ Counters /\ Waits /\ Tidy

\* What is held by a call, by a stage and by nothing.
LEMMA HeldByCall ==
    ASSUME NEW tm, \A s \in Stages : tm[s] = "off", NEW c, NEW k
    PROVE  Held(tm, <<c>>, k) <=> Bound(c) = k
<1>1. <<c>> # <<>> /\ Head(<<c>>) = c
  OBVIOUS
<1> QED
  BY <1>1 DEF Held

LEMMA HeldByNothing ==
    ASSUME NEW tm, \A s \in Stages : tm[s] = "off", NEW k
    PROVE  ~Held(tm, <<>>, k)
BY DEF Held

LEMMA HeldByStage ==
    ASSUME NEW tm, NEW s \in Stages, tm[s] # "off",
           \A t \in Stages : tm[t] # "off" => t = s,
           NEW td, td # <<>> => Bound(Head(td)) = "none",
           NEW k \in Kinds
    PROVE  Held(tm, td, k) <=> Kind(s) = k
<1>1. k # "none"
  BY DEF Kinds
<1> QED
  BY <1>1 DEF Held

\* A call runs.
LEMMA CallRuns ==
    ASSUME GuardInv, OrderlyInv, NEW f, Runs(f), f # "go_on"
    PROVE  /\ Off /\ Head(todo) \in Steps /\ Head(todo).f = f
           /\ \A k \in Kinds :
                asked[k] = called[k] + (IF Bound(Head(todo)) = k THEN 1 ELSE 0)
           /\ ThenCalls(<<>>) => todo' = <<>>
           /\ \A c : ThenCalls(<<c>>) => todo' = <<c>>
<1>1. todo # <<>> /\ Head(todo).f = f /\ Off
  BY DEF Runs, OrderlyInv, OneAtATime
<1>2. PICK c \in Calls : todo = <<c>>
  BY <1>1 DEF OrderlyInv, OneAtATime
<1>3. Head(todo) = c /\ Tail(todo) = <<>>
  BY <1>2
<1>4. c \in Steps
  BY <1>1, <1>3, CallsFacts DEF Calls
<1>5. ASSUME NEW k \in Kinds
      PROVE  asked[k] = called[k] + (IF Bound(Head(todo)) = k THEN 1 ELSE 0)
  <2>1. Held(timer, <<c>>, k) <=> Bound(c) = k
    BY <1>1, HeldByCall DEF Off
  <2> QED
    BY <1>2, <1>3, <2>1 DEF OrderlyInv, Balance
<1>6. <<>> \o <<>> = <<>> /\ \A d : <<d>> \o <<>> = <<d>>
  OBVIOUS
<1> QED
  BY <1>1, <1>3, <1>4, <1>5, <1>6 DEF ThenCalls

\* A stage is under way.
LEMMA StageRuns ==
    ASSUME GuardInv, OrderlyInv, NEW s \in Stages, timer[s] # "off"
    PROVE  /\ \A t \in Stages : t # s => timer[t] = "off"
           /\ todo # <<>> => Head(todo).f = "go_on"
           /\ \A k \in Kinds : asked[k] = called[k] + (IF Kind(s) = k THEN 1 ELSE 0)
<1>1. \A t \in Stages : t # s => timer[t] = "off"
  BY DEF OrderlyInv, OneAtATime
<1>2. todo # <<>> => Head(todo).f = "go_on"
  BY DEF OrderlyInv, OneAtATime, Off
<1>3. todo # <<>> => Bound(Head(todo)) = "none"
  BY <1>2 DEF Bound
<1>4. ASSUME NEW k \in Kinds
      PROVE  asked[k] = called[k] + (IF Kind(s) = k THEN 1 ELSE 0)
  <2>1. Held(timer, todo, k) <=> Kind(s) = k
    BY <1>1, <1>3, HeldByStage
  <2> QED
    BY <2>1 DEF OrderlyInv, Balance
<1> QED
  BY <1>1, <1>2, <1>4

\* The next state: a call on the strand, a stage, or nothing under way.
LEMMA CallNext ==
    ASSUME NEW c \in Steps, todo' = <<c>>, Off',
           c.f = "handle_pre_init" => c.arg = "none",
           \A k \in Kinds : asked'[k] = called'[k] + (IF Bound(c) = k THEN 1 ELSE 0),
           Counters',
           ~config'.server /\ called'["connect"] = 0 =>
               istate' = "USER_INIT" /\ ~closed' /\ c.f \notin {"start", "terminate"},
           (Fresh => AllClean)', Successful(c) => AllClean'
    PROVE  OrderlyInv'
<1>1. /\ todo' # <<>> /\ Head(todo') = c /\ c \in Calls /\ c.f # "go_on"
  BY CallsFacts
<1>2. OneAtATime'
  BY <1>1 DEF OneAtATime, Off
<1>3. \A k \in Kinds : Held(timer', <<c>>, k) <=> Bound(c) = k
  BY HeldByCall DEF Off
<1>4. Balance'
  BY <1>3 DEF Balance
<1>5. Waits'
  BY <1>1 DEF Waits
<1>6. Tidy'
  BY <1>1 DEF Tidy, Off, Stages, SetupStages
<1> QED
  BY <1>2, <1>4, <1>5, <1>6 DEF OrderlyInv

LEMMA StageNext ==
    ASSUME NEW s \in Stages, todo' = <<>>, timer'[s] # "off",
           \A t \in Stages : t # s => timer'[t] = "off",
           \A k \in Kinds : asked'[k] = called'[k] + (IF Kind(s) = k THEN 1 ELSE 0),
           Counters',
           ~config'.server /\ called'["connect"] = 0 => istate' = "USER_INIT" /\ ~closed',
           (Fresh => AllClean)',
           s \in SetupStages => \A t \in SetupStages : t # s => Clean(t)'
    PROVE  OrderlyInv'
<1>1. OneAtATime'
  BY DEF OneAtATime
<1>2. \A k \in Kinds : Held(timer', <<>>, k) <=> Kind(s) = k
  BY HeldByStage
<1>3. Balance'
  BY <1>2 DEF Balance
<1>4. Waits'
  BY DEF Waits
<1>5. Tidy'
  BY DEF Tidy, SetupStages
<1> QED
  BY <1>1, <1>3, <1>4, <1>5 DEF OrderlyInv

LEMMA NothingNext ==
    ASSUME todo' = <<>>, Off', \A k \in Kinds : asked'[k] = called'[k],
           called' \in [Kinds -> Nat], Counters',
           ~config'.server /\ called'["connect"] = 0 => istate' = "USER_INIT" /\ ~closed',
           (Fresh => AllClean)'
    PROVE  OrderlyInv'
<1>1. OneAtATime'
  BY DEF OneAtATime, Off
<1>2. \A k \in Kinds : ~Held(timer', <<>>, k)
  BY HeldByNothing DEF Off
<1>3. Balance'
  BY <1>2 DEF Balance
<1>4. Waits'
  BY DEF Waits
<1>5. Tidy'
  BY DEF Tidy, Off, SetupStages
<1> QED
  BY <1>1, <1>3, <1>4, <1>5 DEF OrderlyInv

LEMMA OrderlyInit == Init => OrderlyInv
<1> SUFFICES ASSUME Init PROVE OrderlyInv
  OBVIOUS
<1>1. /\ todo = <<>> /\ Off /\ AllClean
      /\ asked = [k \in Kinds |-> 0] /\ called = [k \in Kinds |-> 0]
      /\ istate = "USER_INIT" /\ closed = FALSE
  BY DEF Init, Off, AllClean, Clean, SetupStages
<1>2. OneAtATime
  BY <1>1 DEF OneAtATime, Off
<1>3. \A k \in Kinds : ~Held(timer, <<>>, k)
  BY <1>1, HeldByNothing DEF Off
<1>4. Balance
  BY <1>1, <1>3 DEF Balance
<1>5. Counters /\ Waits
  BY <1>1 DEF Counters, Waits, Kinds
<1>6. Tidy
  BY <1>1 DEF Tidy, Off, SetupStages
<1> QED
  BY <1>2, <1>4, <1>5, <1>6 DEF OrderlyInv

LEMMA CountersTyped ==
    ASSUME GuardInv
    PROVE  /\ asked \in [Kinds -> Nat] /\ called \in [Kinds -> Nat]
           /\ {"connect", "init", "shutdown"} \subseteq Kinds
           /\ "none" \notin Kinds
BY DEF GuardInv, TypeOK, Kinds

\* start(): the handler of a server's accept or of a client's connect.
LEMMA OrderlyStart ==
    ASSUME GuardInv, OrderlyInv, Start
    PROVE  OrderlyInv'
<1>1. /\ Off /\ Head(todo) \in Steps /\ Head(todo).f = "start"
      /\ \A k \in Kinds : asked[k] = called[k] + (IF Bound(Head(todo)) = k THEN 1 ELSE 0)
      /\ \A c : ThenCalls(<<c>>) => todo' = <<c>>
  BY CallRuns DEF Start
<1>2. Bound(Head(todo)) = "none" /\ Successful(Head(todo)) /\ todo # <<>>
  BY <1>1 DEF Bound, Successful, Start, Runs
<1>3. \A k \in Kinds : asked[k] = called[k] /\ asked[k] \in Nat /\ called[k] \in Nat
  BY <1>1, <1>2, CountersTyped DEF Kinds
<1>4. AllClean
  BY <1>2 DEF OrderlyInv, Tidy
<1>5. UNCHANGED <<config, closed, op, timer, called>>
  BY DEF Start, stageVars
<1>6. Off' /\ AllClean'
  BY <1>1, <1>4, <1>5 DEF Off, AllClean, Clean
<1>7. ~config.server => called["connect"] # 0
  BY <1>1, <1>2 DEF OrderlyInv, Waits
<1>8. CASE istate # "USER_INIT"
  <2> DEFINE c == Call("terminate", "")
  <2>1. /\ todo' = <<c>> /\ UNCHANGED <<istate, asked>>
    BY <1>1, <1>8 DEF Start
  <2>2. c \in Steps /\ c.f = "terminate" /\ Bound(c) = "none"
    BY CallsMade DEF Call, Bound
  <2> HIDE DEF c
  <2>3. Counters'
    BY <1>5, <2>1 DEF OrderlyInv, Counters
  <2>4. \A k \in Kinds : asked'[k] = called'[k] + (IF Bound(c) = k THEN 1 ELSE 0)
    BY <1>3, <1>5, <2>1, <2>2 DEF Kinds
  <2> QED
    BY <1>5, <1>6, <1>7, <2>1, <2>2, <2>3, <2>4, CallNext
<1>9. CASE istate = "USER_INIT"
  <2> DEFINE c == Call("pre_init", "")
  <2>1. /\ todo' = <<c>> /\ istate' = "TRANSPORT_INIT"
        /\ asked' = [asked EXCEPT !["init"] = @ + 1]
    BY <1>1, <1>9 DEF Start
  <2>2. c \in Steps /\ c.f = "pre_init" /\ Bound(c) = "init"
    BY CallsMade DEF Call, Bound
  <2> HIDE DEF c
  <2>3. asked["init"] = 0
    BY <1>9 DEF OrderlyInv, Counters
  <2>4. /\ asked'["init"] = 1 /\ asked'["connect"] = asked["connect"]
        /\ asked'["shutdown"] = asked["shutdown"]
    BY <2>1, <2>3, CountersTyped
  <2>5. Counters'
    BY <1>5, <2>1, <2>4 DEF OrderlyInv, Counters
  <2>6. \A k \in Kinds : asked'[k] = called'[k] + (IF Bound(c) = k THEN 1 ELSE 0)
    BY <1>3, <1>5, <2>2, <2>3, <2>4 DEF Kinds
  <2> QED
    BY <1>5, <1>6, <1>7, <2>1, <2>2, <2>5, <2>6, CallNext
<1> QED
  BY <1>8, <1>9

\* terminate(): only the first call starts a shutdown.
LEMMA OrderlyTerminate ==
    ASSUME GuardInv, OrderlyInv, Terminate
    PROVE  OrderlyInv'
<1>1. /\ Off /\ Head(todo) \in Steps /\ Head(todo).f = "terminate"
      /\ \A k \in Kinds : asked[k] = called[k] + (IF Bound(Head(todo)) = k THEN 1 ELSE 0)
      /\ ThenCalls(<<>>) => todo' = <<>>
      /\ \A c : ThenCalls(<<c>>) => todo' = <<c>>
  BY CallRuns DEF Terminate
<1>2. Bound(Head(todo)) = "none" /\ todo # <<>>
  BY <1>1 DEF Bound, Terminate, Runs
<1>3. \A k \in Kinds : asked[k] = called[k] /\ asked[k] \in Nat /\ called[k] \in Nat
  BY <1>1, <1>2, CountersTyped DEF Kinds
<1>4. UNCHANGED <<config, istate, op, timer, called>> /\ closed' = TRUE
  BY DEF Terminate, stageVars
<1>5. Off'
  BY <1>1, <1>4 DEF Off
<1>6. ~config.server => called["connect"] # 0
  BY <1>1, <1>2 DEF OrderlyInv, Waits
<1>7. asked'["connect"] = asked["connect"] /\ asked'["init"] = asked["init"]
  BY DEF Terminate, GuardInv, TypeOK, Kinds
<1>8. (Fresh => AllClean)'
  BY <1>4, <1>7 DEF OrderlyInv, Tidy, Fresh, AllClean, Clean
<1>9. CASE closed
  <2>1. todo' = <<>> /\ asked' = asked
    BY <1>1, <1>9 DEF Terminate
  <2>2. Counters'
    BY <1>4, <1>9, <2>1 DEF OrderlyInv, Counters
  <2>3. called' \in [Kinds -> Nat] /\ \A k \in Kinds : asked'[k] = called'[k]
    BY <1>3, <1>4, <2>1 DEF GuardInv, TypeOK
  <2> QED
    BY <1>4, <1>5, <1>6, <1>8, <2>1, <2>2, <2>3, NothingNext
<1>10. CASE ~closed
  <2> DEFINE c == Call("async_shutdown", "")
  <2>1. todo' = <<c>> /\ asked' = [asked EXCEPT !["shutdown"] = @ + 1]
    BY <1>1, <1>10 DEF Terminate
  <2>2. /\ c \in Steps /\ c.f = "async_shutdown" /\ Bound(c) = "shutdown"
        /\ ~Successful(c)
    BY CallsMade DEF Call, Bound, Successful
  <2> HIDE DEF c
  <2>3. asked["shutdown"] = 0
    BY <1>10 DEF OrderlyInv, Counters
  <2>4. asked'["shutdown"] = 1
    BY <2>1, <2>3, CountersTyped
  <2>5. Counters'
    BY <1>4, <1>7, <2>4 DEF OrderlyInv, Counters
  <2>6. \A k \in Kinds : asked'[k] = called'[k] + (IF Bound(c) = k THEN 1 ELSE 0)
    BY <1>3, <1>4, <1>7, <2>2, <2>3, <2>4 DEF Kinds
  <2> QED
    BY <1>4, <1>5, <1>6, <1>8, <2>1, <2>2, <2>5, <2>6, CallNext
<1> QED
  BY <1>9, <1>10

\* A handler of the connection is called: what held it lets it go.
LEMMA OrderlyCallback ==
    ASSUME GuardInv, OrderlyInv, RunCallback
    PROVE  OrderlyInv'
<1> DEFINE d == Head(todo)
           k0 == d.arg.kind
<1>1. /\ Off /\ d \in Steps /\ d.f = "callback"
      /\ \A k \in Kinds : asked[k] = called[k] + (IF Bound(d) = k THEN 1 ELSE 0)
      /\ ThenCalls(<<>>) => todo' = <<>>
      /\ \A c : ThenCalls(<<c>>) => todo' = <<c>>
  BY CallRuns DEF RunCallback
<1>2. /\ k0 \in Kinds /\ d.arg.ec \in {"none", "error", "timeout"}
  BY <1>1 DEF Steps
<1>3. Bound(d) = k0 /\ todo # <<>>
  BY <1>1 DEF Bound, RunCallback, Runs
<1>4. /\ UNCHANGED <<config, closed, asked, op, timer>>
      /\ called' = [called EXCEPT ![k0] = @ + 1]
  BY DEF RunCallback, stageVars, Arg
<1> HIDE DEF d
<1>5. /\ asked \in [Kinds -> Nat] /\ called \in [Kinds -> Nat]
  BY DEF GuardInv, TypeOK
<1>6. called' \in [Kinds -> Nat] /\ \A k \in Kinds : asked'[k] = called'[k]
  <2>1. called' \in [Kinds -> Nat]
    BY <1>2, <1>4, <1>5
  <2>2. ASSUME NEW k \in Kinds PROVE asked'[k] = called'[k]
    <3>1. CASE k = k0
      BY <1>1, <1>2, <1>3, <1>4, <1>5, <3>1
    <3>2. CASE k # k0
      BY <1>1, <1>2, <1>3, <1>4, <1>5, <3>2
    <3> QED
      BY <3>1, <3>2
  <2> QED
    BY <2>1, <2>2
<1>7. Off'
  BY <1>1, <1>4 DEF Off
<1>8. ~config'.server => called'["connect"] # 0
  <2> SUFFICES ASSUME ~config.server, called'["connect"] = 0 PROVE FALSE
    BY <1>4
  <2>1. k0 # "connect" /\ called["connect"] = 0
    BY <1>2, <1>4, <1>5 DEF Kinds
  <2>2. istate = "USER_INIT" /\ ~closed
    BY <2>1 DEF OrderlyInv, Waits
  <2>3. asked["init"] = 0 /\ asked["shutdown"] = 0
    BY <2>2 DEF OrderlyInv, Counters
  <2>4. asked[k0] = 0
    BY <1>2, <2>1, <2>3 DEF Kinds
  <2> QED
    BY <1>1, <1>2, <1>3, <1>5, <2>4
<1>9. AllClean => AllClean'
  BY <1>4 DEF AllClean, Clean
<1>10. Successful(d) => AllClean
  BY <1>3 DEF OrderlyInv, Tidy, d
<1>11. CASE k0 = "connect" /\ d.arg.ec = "none"
  <2> DEFINE c == Call("start", "")
  <2>1. todo' = <<c>> /\ istate' = istate
    BY <1>1, <1>11 DEF RunCallback, Arg, d
  <2>2. c \in Steps /\ c.f = "start" /\ Bound(c) = "none"
    BY CallsMade DEF Call, Bound
  <2> HIDE DEF c
  <2>3. AllClean'
    BY <1>1, <1>9, <1>10, <1>11 DEF Successful
  <2>4. Counters'
    BY <1>2, <1>4, <1>5, <1>11, <2>1 DEF OrderlyInv, Counters, Kinds
  <2>5. \A k \in Kinds : asked'[k] = called'[k] + (IF Bound(c) = k THEN 1 ELSE 0)
    BY <1>6, <2>2 DEF Kinds
  <2> QED
    BY <1>7, <1>8, <2>1, <2>2, <2>3, <2>4, <2>5, CallNext
<1>12. CASE k0 = "init" /\ d.arg.ec = "none" /\ istate = "TRANSPORT_INIT"
  <2>1. todo' = <<>> /\ istate' = "LATER"
    BY <1>1, <1>12 DEF RunCallback, Arg, d
  <2>2. AllClean'
    BY <1>1, <1>9, <1>10, <1>12 DEF Successful
  <2>3. asked["init"] = 1
    BY <1>12 DEF OrderlyInv, Counters
  <2>4. Counters'
    BY <1>4, <1>6, <2>1, <2>3 DEF OrderlyInv, Counters, Kinds
  <2> QED
    BY <1>6, <1>7, <1>8, <2>1, <2>2, <2>4, NothingNext
<1>13. CASE k0 = "shutdown"
  <2>1. todo' = <<>> /\ istate' = istate
    BY <1>1, <1>13 DEF RunCallback, Arg, d
  <2>2. called'["init"] = called["init"]
    BY <1>2, <1>4, <1>5, <1>13 DEF Kinds
  <2>3. Counters'
    BY <1>4, <2>1, <2>2 DEF OrderlyInv, Counters
  <2>4. (Fresh => AllClean)'
    BY <1>4, <1>9, <2>1 DEF OrderlyInv, Tidy, Fresh
  <2> QED
    BY <1>6, <1>7, <1>8, <2>1, <2>3, <2>4, NothingNext
<1>14. CASE /\ ~(k0 = "connect" /\ d.arg.ec = "none")
            /\ ~(k0 = "init" /\ d.arg.ec = "none" /\ istate = "TRANSPORT_INIT")
            /\ k0 # "shutdown"
  <2> DEFINE c == Call("terminate", "")
  <2>1. todo' = <<c>> /\ istate' = istate
    BY <1>1, <1>14 DEF RunCallback, Arg, d
  <2>2. c \in Steps /\ c.f = "terminate" /\ Bound(c) = "none" /\ ~Successful(c)
    BY CallsMade DEF Call, Bound, Successful
  <2> HIDE DEF c
  <2>3. istate = "LATER" => called'["init"] = 1
    <3> SUFFICES ASSUME istate = "LATER" PROVE called'["init"] = 1
      OBVIOUS
    <3>1. called["init"] = 1 /\ asked["init"] = 1
      BY DEF OrderlyInv, Counters
    <3> QED
      BY <1>4, <1>6, <3>1 DEF Kinds
  <2>4. Counters'
    BY <1>4, <2>1, <2>3 DEF OrderlyInv, Counters
  <2>5. \A k \in Kinds : asked'[k] = called'[k] + (IF Bound(c) = k THEN 1 ELSE 0)
    BY <1>6, <2>2 DEF Kinds
  <2>6. (Fresh => AllClean)'
    BY <1>4, <1>9, <2>1 DEF OrderlyInv, Tidy, Fresh
  <2> QED
    BY <1>7, <1>8, <2>1, <2>2, <2>4, <2>5, <2>6, CallNext
<1> QED
  BY <1>11, <1>12, <1>13, <1>14

\* What is known while the handler of init(), of async_connect() or of
\* async_shutdown() is held.
LEMMA InitUnderWay ==
    ASSUME GuardInv, OrderlyInv,
           \A k \in Kinds : asked[k] = called[k] + (IF "init" = k THEN 1 ELSE 0)
    PROVE  /\ ~Fresh /\ istate = "TRANSPORT_INIT"
           /\ ~config.server => called["connect"] # 0
<1>1. /\ asked["init"] = called["init"] + 1 /\ asked["connect"] = called["connect"]
      /\ asked["init"] \in Nat /\ called["init"] \in Nat
      /\ asked["connect"] \in Nat /\ called["connect"] \in Nat
  BY CountersTyped
<1>2. istate # "USER_INIT" /\ istate # "LATER"
  BY <1>1 DEF OrderlyInv, Counters
<1>3. ~config.server => called["connect"] # 0
  BY <1>2 DEF OrderlyInv, Waits
<1>4. istate = "TRANSPORT_INIT"
  BY <1>2 DEF GuardInv, TypeOK
<1> QED
  BY <1>1, <1>2, <1>3, <1>4 DEF Fresh

LEMMA ConnectUnderWay ==
    ASSUME GuardInv, OrderlyInv,
           \A k \in Kinds : asked[k] = called[k] + (IF "connect" = k THEN 1 ELSE 0)
    PROVE  /\ ~Fresh /\ ~config.server /\ istate = "USER_INIT" /\ ~closed
           /\ asked["connect"] = 1 /\ called["connect"] = 0
<1>1. /\ asked["connect"] = called["connect"] + 1
      /\ asked["connect"] \in Nat /\ called["connect"] \in Nat
  BY CountersTyped
<1>2. ~config.server /\ asked["connect"] = 1 /\ called["connect"] = 0
  BY <1>1 DEF OrderlyInv, Counters
<1>3. istate = "USER_INIT" /\ ~closed
  BY <1>2 DEF OrderlyInv, Waits
<1> QED
  BY <1>2, <1>3 DEF Fresh

LEMMA ShutdownUnderWay ==
    ASSUME GuardInv, OrderlyInv,
           \A k \in Kinds : asked[k] = called[k] + (IF "shutdown" = k THEN 1 ELSE 0)
    PROVE  closed /\ (~config.server => called["connect"] # 0)
<1>1. /\ asked["shutdown"] = called["shutdown"] + 1
      /\ asked["shutdown"] \in Nat /\ called["shutdown"] \in Nat
  BY CountersTyped
<1>2. closed
  BY <1>1 DEF OrderlyInv, Counters
<1> QED
  BY <1>2 DEF OrderlyInv, Waits

\* The calls of init(): pre_init, proxy_write and post_init.
LEMMA InitCalls ==
    ASSUME GuardInv, OrderlyInv, NEW f, Runs(f),
           f \in {"pre_init", "handle_pre_init", "proxy_write", "post_init"}
    PROVE  /\ Off /\ AllClean /\ ~Fresh
           /\ ~config.server => called["connect"] # 0
           /\ \A k \in Kinds : asked[k] = called[k] + (IF "init" = k THEN 1 ELSE 0)
           /\ ThenCalls(<<>>) => todo' = <<>>
           /\ \A c : ThenCalls(<<c>>) => todo' = <<c>>
<1>1. /\ Off /\ Head(todo) \in Steps /\ Head(todo).f = f
      /\ \A k \in Kinds : asked[k] = called[k] + (IF Bound(Head(todo)) = k THEN 1 ELSE 0)
      /\ ThenCalls(<<>>) => todo' = <<>>
      /\ \A c : ThenCalls(<<c>>) => todo' = <<c>>
  BY CallRuns
<1>2. Bound(Head(todo)) = "init" /\ Successful(Head(todo)) /\ todo # <<>>
  BY <1>1 DEF Bound, Successful, Runs
<1>3. AllClean
  BY <1>2 DEF OrderlyInv, Tidy
<1>4. \A k \in Kinds : asked[k] = called[k] + (IF "init" = k THEN 1 ELSE 0)
  BY <1>1, <1>2
<1> QED
  BY <1>1, <1>3, <1>4, InitUnderWay

\* A call of init() that goes on with another one.
LEMMA InitGoesOn ==
    ASSUME GuardInv, OrderlyInv, NEW c \in Steps, todo' = <<c>>, Bound(c) = "init",
           c.f = "handle_pre_init" => c.arg = "none",
           \A k \in Kinds : asked[k] = called[k] + (IF "init" = k THEN 1 ELSE 0),
           Off', AllClean', ~Fresh, ~config.server => called["connect"] # 0,
           UNCHANGED <<config, istate, closed, asked, called>>
    PROVE  OrderlyInv'
<1>1. Counters'
  BY DEF OrderlyInv, Counters
<1>2. \A k \in Kinds : asked'[k] = called'[k] + (IF Bound(c) = k THEN 1 ELSE 0)
  OBVIOUS
<1> QED
  BY <1>1, <1>2, CallNext

\* A call of init() that starts an operation.
LEMMA InitBegins ==
    ASSUME GuardInv, OrderlyInv, NEW s \in {"proxy", "post", "post2"},
           Begin(s), todo' = <<>>, Off, AllClean, ~Fresh,
           ~config.server => called["connect"] # 0,
           \A k \in Kinds : asked[k] = called[k] + (IF "init" = k THEN 1 ELSE 0),
           UNCHANGED <<config, istate, closed, asked, called>>
    PROVE  OrderlyInv'
<1>1. s \in Stages /\ s \in SetupStages /\ Kind(s) = "init"
  BY DEF Stages, SetupStages, Kind
<1>2. /\ timer \in [Stages -> {"off", "armed", "queued"}]
      /\ op \in [Stages -> {"idle", "pending", "none", "error", "aborted", "over"}]
  BY DEF GuardInv, StagesOK
<1>3. timer'[s] # "off" /\ \A t \in Stages : t # s => timer'[t] = "off" /\ op'[t] = op[t]
  BY <1>1, <1>2 DEF Begin, Off
<1>4. \A t \in SetupStages : t # s => Clean(t)'
  BY <1>3 DEF AllClean, Clean, SetupStages
<1>5. Counters'
  BY DEF OrderlyInv, Counters
<1>6. ~Fresh'
  BY DEF Fresh
<1>7. \A k \in Kinds : asked'[k] = called'[k] + (IF Kind(s) = k THEN 1 ELSE 0)
  BY <1>1
<1> QED
  BY <1>1, <1>3, <1>4, <1>5, <1>6, <1>7, StageNext

\* init(), with a host name that is accepted.
LEMMA OrderlyInitialisation ==
    ASSUME GuardInv, OrderlyInv, Orderly,
           PreInit \/ HandlePreInit \/ ProxyWrite \/ PostInit
    PROVE  OrderlyInv'
<1>1. UNCHANGED <<config, istate, closed, asked, called>>
  BY DEF PreInit, HandlePreInit, ProxyWrite, PostInit, coreVars
<1>2. PICK f \in {"pre_init", "handle_pre_init", "proxy_write", "post_init"} : Runs(f)
  BY DEF PreInit, HandlePreInit, ProxyWrite, PostInit
<1>3. /\ Off /\ AllClean /\ ~Fresh
      /\ ~config.server => called["connect"] # 0
      /\ \A k \in Kinds : asked[k] = called[k] + (IF "init" = k THEN 1 ELSE 0)
      /\ ThenCalls(<<>>) => todo' = <<>>
      /\ \A c : ThenCalls(<<c>>) => todo' = <<c>>
  BY <1>2, InitCalls
<1>4. UNCHANGED <<op, timer>> => Off' /\ AllClean'
  BY <1>3 DEF Off, AllClean, Clean
<1>5. CASE PreInit
  <2> DEFINE c == Call("handle_pre_init", "none")
  <2>1. (IF config.bad_host THEN <<Call("handle_pre_init", "error")>> ELSE <<>>) \o <<c>>
          = <<c>>
    BY DEF Orderly
  <2>2. todo' = <<c>>
    BY <1>3, <1>5, <2>1 DEF PreInit
  <2>3. c \in Steps /\ Bound(c) = "init" /\ c.arg = "none"
    BY CallsMade DEF Call, Bound
  <2>4. UNCHANGED <<op, timer>>
    BY <1>5 DEF PreInit, stageVars
  <2> HIDE DEF c
  <2> QED
    BY <1>1, <1>3, <1>4, <2>2, <2>3, <2>4, InitGoesOn
<1>6. CASE HandlePreInit
  <2>1. Arg = "none"
    BY <1>6 DEF HandlePreInit, Runs, Arg, OrderlyInv, OneAtATime
  <2> DEFINE c == IF config.proxy THEN Call("proxy_write", "") ELSE Call("post_init", "")
  <2>2. (IF config.proxy THEN <<Call("proxy_write", "")>> ELSE <<Call("post_init", "")>>)
          = <<c>>
    OBVIOUS
  <2>3. ThenCalls(<<c>>)
    <3>1. \A d : <<>> \o <<d>> = <<d>>
      OBVIOUS
    <3>2. ThenCalls(<<>> \o (IF config.proxy THEN <<Call("proxy_write", "")>>
                             ELSE <<Call("post_init", "")>>))
      BY <1>6, <2>1 DEF HandlePreInit
    <3> HIDE DEF c
    <3> QED
      BY <2>2, <3>1, <3>2
  <2>4. c \in Steps /\ Bound(c) = "init" /\ c.f # "handle_pre_init"
    BY CallsMade DEF Call, Bound
  <2>5. UNCHANGED <<op, timer>>
    BY <1>6 DEF HandlePreInit, stageVars
  <2> HIDE DEF c
  <2> QED
    BY <1>1, <1>3, <1>4, <2>3, <2>4, <2>5, InitGoesOn
<1>7. CASE ProxyWrite
  <2>1. Begin("proxy") /\ todo' = <<>>
    BY <1>3, <1>7 DEF ProxyWrite
  <2> QED
    BY <1>1, <1>3, <2>1, InitBegins
<1>8. CASE PostInit
  <2>1. CASE config.tls
    <3>1. (Begin("post") \/ Begin("post2")) /\ todo' = <<>>
      BY <1>3, <1>8, <2>1 DEF PostInit
    <3> QED
      BY <1>1, <1>3, <3>1, InitBegins
  <2>2. CASE ~config.tls
    <3> DEFINE c == Callback("post", "none")
    <3>1. todo' = <<c>> /\ UNCHANGED <<op, timer>>
      BY <1>3, <1>8, <2>2 DEF PostInit
    <3>2. c \in Steps /\ Bound(c) = "init" /\ c.f # "handle_pre_init"
      BY CallsMade DEF Call, Callback, Bound, Kind, Stages
    <3> HIDE DEF c
    <3> QED
      BY <1>1, <1>3, <1>4, <3>1, <3>2, InitGoesOn
  <2> QED
    BY <2>1, <2>2
<1> QED
  BY <1>5, <1>6, <1>7, <1>8

\* async_shutdown()
LEMMA OrderlyShutdown ==
    ASSUME GuardInv, OrderlyInv, AsyncShutdown
    PROVE  OrderlyInv'
<1>1. /\ Off /\ Head(todo) \in Steps /\ Head(todo).f = "async_shutdown"
      /\ \A k \in Kinds : asked[k] = called[k] + (IF Bound(Head(todo)) = k THEN 1 ELSE 0)
      /\ ThenCalls(<<>>) => todo' = <<>>
      /\ \A c : ThenCalls(<<c>>) => todo' = <<c>>
  BY CallRuns DEF AsyncShutdown
<1>2. Bound(Head(todo)) = "shutdown"
  BY <1>1 DEF Bound
<1>3. \A k \in Kinds : asked[k] = called[k] + (IF "shutdown" = k THEN 1 ELSE 0)
  BY <1>1, <1>2
<1>4. closed /\ (~config.server => called["connect"] # 0)
  BY <1>3, ShutdownUnderWay
<1>5. UNCHANGED <<config, istate, closed, asked, called>>
  BY DEF AsyncShutdown, coreVars
<1>6. Counters'
  BY <1>5 DEF OrderlyInv, Counters
<1>7. CASE config.tls
  <2>1. Begin("shutdown") /\ todo' = <<>>
    BY <1>1, <1>7 DEF AsyncShutdown
  <2>2. /\ timer \in [Stages -> {"off", "armed", "queued"}]
        /\ op \in [Stages -> {"idle", "pending", "none", "error", "aborted", "over"}]
        /\ "shutdown" \in Stages /\ "shutdown" \notin SetupStages
        /\ Kind("shutdown") = "shutdown"
    BY DEF GuardInv, StagesOK, Stages, SetupStages, Kind
  <2>3. /\ timer'["shutdown"] # "off"
        /\ \A t \in Stages : t # "shutdown" => timer'[t] = "off" /\ op'[t] = op[t]
    BY <1>1, <2>1, <2>2 DEF Begin, Off
  <2>4. (Fresh => AllClean)'
    BY <1>5, <2>3 DEF OrderlyInv, Tidy, Fresh, AllClean, Clean, SetupStages
  <2>5. \A k \in Kinds : asked'[k] = called'[k] + (IF Kind("shutdown") = k THEN 1 ELSE 0)
    BY <1>3, <1>5, <2>2
  <2> QED
    BY <1>4, <1>5, <1>6, <2>1, <2>2, <2>3, <2>4, <2>5, StageNext
<1>8. CASE ~config.tls
  <2>1. PICK ec \in {"none", "error"} : ThenCalls(<<Callback("shutdown", ec)>>)
    BY <1>8 DEF AsyncShutdown
  <2> DEFINE c == Callback("shutdown", ec)
  <2>2. todo' = <<c>> /\ UNCHANGED <<op, timer>>
    BY <1>1, <1>8, <2>1 DEF AsyncShutdown
  <2>3. c \in Steps /\ Bound(c) = "shutdown" /\ c.f = "callback" /\ ~Successful(c)
    BY CallsMade DEF Call, Callback, Bound, Kind, Stages, Successful
  <2> HIDE DEF c
  <2>4. Off' /\ (Fresh => AllClean)'
    BY <1>1, <1>5, <2>2 DEF OrderlyInv, Tidy, Fresh, AllClean, Clean, Off
  <2>5. \A k \in Kinds : asked'[k] = called'[k] + (IF Bound(c) = k THEN 1 ELSE 0)
    BY <1>3, <1>5, <2>3
  <2> QED
    BY <1>4, <1>5, <1>6, <2>2, <2>3, <2>4, <2>5, CallNext
<1> QED
  BY <1>7, <1>8

\* What a stage leaves alone: everything but the stages and the strand.
LEMMA StageKnows ==
    ASSUME GuardInv, OrderlyInv, NEW s \in Stages,
           \A k \in Kinds : asked[k] = called[k] + (IF Kind(s) = k THEN 1 ELSE 0)
    PROVE  /\ ~config.server /\ called["connect"] = 0 => istate = "USER_INIT" /\ ~closed
           /\ s \in SetupStages => ~Fresh
<1>1. CASE Kind(s) = "connect"
  BY <1>1, ConnectUnderWay
<1>2. CASE Kind(s) = "init"
  BY <1>2, InitUnderWay
<1>3. CASE Kind(s) = "shutdown"
  <2>1. s \notin SetupStages
    BY <1>3 DEF Kind, Stages, SetupStages
  <2> QED
    BY <1>3, <2>1, ShutdownUnderWay
<1> QED
  BY <1>1, <1>2, <1>3, CallsMade DEF Kinds

\* A stage ends, with a call that holds what it held.
LEMMA StageEnds ==
    ASSUME GuardInv, OrderlyInv, NEW s \in Stages, timer[s] # "off",
           NEW c \in Steps, todo' = <<c>>, Bound(c) = Kind(s),
           c.f = "callback" \/ c.f = "post_init",
           timer' = [timer EXCEPT ![s] = "off"],
           \A t \in Stages : t # s => op'[t] = op[t],
           Successful(c) => s \in SetupStages /\ op'[s] = "over",
           UNCHANGED <<config, istate, closed, asked, called>>
    PROVE  OrderlyInv'
<1>1. /\ \A t \in Stages : t # s => timer[t] = "off"
      /\ \A k \in Kinds : asked[k] = called[k] + (IF Kind(s) = k THEN 1 ELSE 0)
  BY StageRuns
<1>2. \A t \in Stages : timer'[t] = "off"
  BY <1>1 DEF GuardInv, StagesOK
<1>3. Off'
  BY <1>2 DEF Off
<1>4. /\ ~config.server /\ called["connect"] = 0 => istate = "USER_INIT" /\ ~closed
      /\ s \in SetupStages => ~Fresh
  BY <1>1, StageKnows
<1>5. (Fresh => AllClean)'
  <2>1. CASE s \in SetupStages
    BY <1>4, <2>1 DEF Fresh
  <2>2. CASE s \notin SetupStages
    <3>1. \A t \in SetupStages : t \in Stages /\ t # s
      BY <2>2 DEF SetupStages
    <3>2. AllClean => AllClean'
      BY <1>2, <3>1 DEF AllClean, Clean
    <3> QED
      BY <3>2 DEF OrderlyInv, Tidy, Fresh
  <2> QED
    BY <2>1, <2>2
<1>6. Successful(c) => AllClean'
  <2> SUFFICES ASSUME Successful(c) PROVE AllClean'
    OBVIOUS
  <2>1. \A t \in SetupStages : t # s => Clean(t)
    BY DEF OrderlyInv, Tidy
  <2>2. \A t \in SetupStages : t \in Stages
    BY DEF SetupStages
  <2> QED
    BY <1>2, <2>1, <2>2 DEF AllClean, Clean
<1>7. Counters'
  BY DEF OrderlyInv, Counters
<1>8. \A k \in Kinds : asked'[k] = called'[k] + (IF Bound(c) = k THEN 1 ELSE 0)
  BY <1>1
<1> QED
  BY <1>3, <1>4, <1>5, <1>6, <1>7, <1>8, CallNext

\* Another stage of the same kind begins, or the same one goes on.
LEMMA StageGoesOn ==
    ASSUME GuardInv, OrderlyInv, NEW s \in SetupStages, timer[s] # "off",
           NEW r \in SetupStages, Kind(r) = Kind(s), todo' = <<>>,
           timer'[r] # "off", \A t \in Stages : t # r => timer'[t] = "off",
           \A t \in SetupStages : t # r => Clean(t)',
           UNCHANGED <<config, istate, closed, asked, called>>
    PROVE  OrderlyInv'
<1>1. s \in Stages /\ r \in Stages
  BY DEF SetupStages
<1>2. \A k \in Kinds : asked[k] = called[k] + (IF Kind(s) = k THEN 1 ELSE 0)
  BY <1>1, StageRuns
<1>3. /\ ~config.server /\ called["connect"] = 0 => istate = "USER_INIT" /\ ~closed
      /\ ~Fresh
  BY <1>1, <1>2, StageKnows
<1>4. ~Fresh'
  BY <1>3 DEF Fresh
<1>5. Counters'
  BY DEF OrderlyInv, Counters
<1>6. \A k \in Kinds : asked'[k] = called'[k] + (IF Kind(r) = k THEN 1 ELSE 0)
  BY <1>2
<1> QED
  BY <1>1, <1>3, <1>4, <1>5, <1>6, StageNext

\* The handler that found itself in time.
LEMMA GoOnRuns ==
    ASSUME GuardInv, OrderlyInv, Runs("go_on")
    PROVE  /\ Arg.stage \in Stages /\ Arg.ec \in {"none", "error"}
           /\ op[Arg.stage] = "over" /\ timer[Arg.stage] = "armed"
           /\ ThenCalls(<<>>) => todo' = <<>>
           /\ \A c : ThenCalls(<<c>>) => todo' = <<c>>
<1>1. /\ todo # <<>> /\ Head(todo).f = "go_on" /\ Head(todo) \in Calls
  BY HeadCall DEF Runs, GuardInv
<1>2. /\ Arg.stage \in Stages /\ Arg.ec \in {"none", "error"}
      /\ op[Arg.stage] = "over" /\ timer[Arg.stage] # "off"
  BY <1>1, CallsFacts DEF Arg, GuardInv, GoOnAlone
<1>3. timer[Arg.stage] = "armed"
  BY <1>1, <1>2 DEF OrderlyInv, OneAtATime, GuardInv, StagesOK
<1>4. Tail(todo) = <<>>
  <2>1. PICK c \in Calls : todo = <<c>>
    BY <1>1 DEF OrderlyInv, OneAtATime
  <2> QED
    BY <2>1
<1>5. <<>> \o <<>> = <<>> /\ \A d : <<d>> \o <<>> = <<d>>
  OBVIOUS
<1> QED
  BY <1>2, <1>3, <1>4, <1>5 DEF ThenCalls

LEMMA OrderlyGoOn ==
    ASSUME GuardInv, OrderlyInv,
           GoOnCallback \/ GoOnConnect \/ GoOnProxyRead \/ GoOnPostInit
    PROVE  OrderlyInv'
<1>1. Runs("go_on")
  BY DEF GoOnCallback, GoOnConnect, GoOnProxyRead, GoOnPostInit
<1>2. /\ Arg.stage \in Stages /\ Arg.ec \in {"none", "error"}
      /\ op[Arg.stage] = "over" /\ timer[Arg.stage] = "armed"
      /\ ThenCalls(<<>>) => todo' = <<>>
      /\ \A c : ThenCalls(<<c>>) => todo' = <<c>>
  BY <1>1, GoOnRuns
<1>3. UNCHANGED <<config, istate, closed, asked, called>>
  BY DEF GoOnCallback, GoOnConnect, GoOnProxyRead, GoOnPostInit, coreVars
<1>4. /\ timer \in [Stages -> {"off", "armed", "queued"}]
      /\ op \in [Stages -> {"idle", "pending", "none", "error", "aborted", "over"}]
  BY DEF GuardInv, StagesOK
<1>5. \A t \in Stages : t # Arg.stage => timer[t] = "off"
  BY <1>2 DEF OrderlyInv, OneAtATime
<1>6. \A t \in SetupStages : Arg.stage \in SetupStages /\ t # Arg.stage => Clean(t)
  BY <1>2 DEF OrderlyInv, Tidy
<1>7. CASE GoOnCallback
  <2> DEFINE s == Arg.stage
             c == Callback(s, Arg.ec)
  <2>1. todo' = <<c>> /\ op' = op
    BY <1>2, <1>7 DEF GoOnCallback
  <2>2. timer' = [timer EXCEPT ![s] = "off"]
    BY <1>2, <1>4, <1>7 DEF GoOnCallback, Cancel
  <2>3. c \in Steps /\ c.f = "callback" /\ Bound(c) = Kind(s)
    BY <1>2, CallsMade DEF Call, Callback, Bound
  <2>4. Successful(c) => s \in SetupStages
    BY <1>2 DEF Successful, Callback, Call, Kind, Stages, SetupStages
  <2> HIDE DEF c, s
  <2>5. s \in Stages /\ op[s] = "over" /\ timer[s] # "off"
    BY <1>2 DEF s
  <2>6. op'[s] = "over"
    BY <2>1, <2>5
  <2>7. \A t \in Stages : t # s => op'[t] = op[t]
    BY <2>1
  <2> QED
    BY <1>3, <2>1, <2>2, <2>3, <2>4, <2>5, <2>6, <2>7, StageEnds
<1>8. CASE GoOnConnect
  <2>1. /\ Arg.stage = "resolve" /\ todo' = <<>>
        /\ op' = [op EXCEPT !["connect"] = "pending"]
        /\ timer' = [timer EXCEPT !["resolve"] = IF @ = "armed" THEN "off" ELSE @,
                                  !["connect"] = "armed"]
    BY <1>2, <1>8 DEF GoOnConnect
  <2>2. /\ timer["resolve"] # "off" /\ op["resolve"] = "over"
        /\ "resolve" \in SetupStages /\ "connect" \in SetupStages
        /\ "resolve" \in Stages /\ "connect" \in Stages
        /\ Kind("connect") = Kind("resolve")
    BY <1>2, <2>1 DEF SetupStages, Stages, Kind
  <2>3. timer'["connect"] # "off" /\ \A t \in Stages : t # "connect" => timer'[t] = "off"
    BY <1>2, <1>4, <1>5, <2>1, <2>2
  <2>4. \A t \in SetupStages : t # "connect" => Clean(t)'
    <3>1. \A t \in SetupStages : t \in Stages
      BY DEF SetupStages
    <3> QED
      BY <1>4, <1>6, <2>1, <2>2, <2>3, <3>1 DEF Clean
  <2> QED
    BY <1>3, <2>1, <2>2, <2>3, <2>4, StageGoesOn
<1>9. CASE GoOnProxyRead
  <2>1. /\ Arg.stage = "proxy" /\ todo' = <<>> /\ timer' = timer
        /\ op' = [op EXCEPT !["proxy"] = "pending"]
    BY <1>2, <1>9 DEF GoOnProxyRead
  <2>2. timer["proxy"] # "off" /\ "proxy" \in SetupStages
    BY <1>2, <2>1 DEF SetupStages, Stages
  <2>3. \A t \in SetupStages : t # "proxy" => Clean(t)'
    <3>1. \A t \in SetupStages : t \in Stages
      BY DEF SetupStages
    <3> QED
      BY <1>4, <1>6, <2>1, <2>2, <3>1 DEF Clean
  <2>4. timer'["proxy"] # "off" /\ \A t \in Stages : t # "proxy" => timer'[t] = "off"
    BY <1>5, <2>1, <2>2
  <2> QED
    BY <1>3, <2>1, <2>2, <2>3, <2>4, StageGoesOn
<1>10. CASE GoOnPostInit
  <2>1. Arg.stage = "proxy" /\ op' = op
    BY <1>10 DEF GoOnPostInit
  <2>2. timer' = [timer EXCEPT !["proxy"] = "off"]
    BY <1>2, <1>4, <1>10, <2>1 DEF GoOnPostInit, Cancel
  <2>3. PICK c \in {Call("post_init", ""), Callback("proxy", "error")} : todo' = <<c>>
    BY <1>2, <1>10 DEF GoOnPostInit
  <2>4. c \in Steps /\ (c.f = "callback" \/ c.f = "post_init") /\ Bound(c) = Kind("proxy")
    <3>1. Call("post_init", "") \in Steps /\ Callback("proxy", "error") \in Steps
      BY CallsMade DEF Stages
    <3>2. Kind("proxy") = "init"
      BY DEF Kind, Stages
    <3>3. /\ Call("post_init", "").f = "post_init"
          /\ Bound(Call("post_init", "")) = "init"
      BY DEF Call, Bound
    <3>4. /\ Callback("proxy", "error").f = "callback"
          /\ Bound(Callback("proxy", "error")) = "init"
      BY <3>2 DEF Call, Callback, Bound
    <3> QED
      BY <3>1, <3>2, <3>3, <3>4
  <2>5. /\ "proxy" \in Stages /\ "proxy" \in SetupStages
        /\ timer["proxy"] # "off" /\ op'["proxy"] = "over"
        /\ \A t \in Stages : t # "proxy" => op'[t] = op[t]
    BY <1>2, <2>1 DEF Stages, SetupStages
  <2> QED
    BY <1>3, <2>2, <2>3, <2>4, <2>5, StageEnds
<1> QED
  BY <1>7, <1>8, <1>9, <1>10

\* What comes from outside moves neither the strand nor what is under way.
LEMMA Undisturbed ==
    ASSUME GuardInv, OrderlyInv, todo' = todo,
           \A s \in Stages : timer'[s] = "off" <=> timer[s] = "off",
           \A s \in Stages : timer'[s] = "queued" => todo = <<>>,
           \A s \in Stages : Clean(s) => Clean(s)',
           UNCHANGED <<config, istate, closed, asked, called>>
    PROVE  OrderlyInv'
<1>1. OneAtATime'
  BY DEF OrderlyInv, OneAtATime, Off
<1>2. \A k : Held(timer', todo', k) <=> Held(timer, todo, k)
  BY DEF Held
<1>3. Balance'
  BY <1>2 DEF OrderlyInv, Balance
<1>4. Counters' /\ Waits'
  BY DEF OrderlyInv, Counters, Waits
<1>5. \A s \in SetupStages : s \in Stages
  BY DEF SetupStages
<1>6. AllClean => AllClean'
  BY <1>5 DEF AllClean
<1>7. Tidy'
  <2>1. (Fresh => AllClean)'
    BY <1>6 DEF OrderlyInv, Tidy, Fresh
  <2>2. \A s, t \in SetupStages : timer'[s] # "off" /\ t # s => Clean(t)'
    BY <1>5 DEF OrderlyInv, Tidy
  <2>3. todo' # <<>> /\ Successful(Head(todo')) => AllClean'
    BY <1>6 DEF OrderlyInv, Tidy
  <2> QED
    BY <2>1, <2>2, <2>3 DEF Tidy
<1> QED
  BY <1>1, <1>3, <1>4, <1>7 DEF OrderlyInv

LEMMA OrderlyOutside ==
    ASSUME GuardInv, OrderlyInv, Orderly, NEW s \in Stages,
           \/ OtherResolveTimeout \/ OpCompletes(s) \/ TimePasses(s) \/ TimerExpires(s)
           \/ Silent(s)
    PROVE  OrderlyInv'
<1>1. /\ timer \in [Stages -> {"off", "armed", "queued"}]
      /\ op \in [Stages -> {"idle", "pending", "none", "error", "aborted", "over"}]
      /\ \A t \in Stages : op[t] = "pending" => timer[t] # "off"
  BY DEF GuardInv, StagesOK
<1>2. \A t \in Stages : timer[t] = "queued" => todo = <<>>
  BY DEF OrderlyInv, OneAtATime
<1>3. UNCHANGED <<config, istate, closed, asked, called, todo>>
  BY DEF OtherResolveTimeout, OpCompletes, TimePasses, TimerExpires, Silent, coreVars
<1>4. CASE TimerExpires(s)
  <2>1. timer[s] = "armed" /\ timer' = [timer EXCEPT ![s] = "queued"] /\ op' = op
    BY <1>4 DEF TimerExpires
  <2>2. todo = <<>>
    BY <1>4 DEF TimerExpires, Orderly, Free
  <2>3. \A t \in Stages : Clean(t) => Clean(t)'
    BY <1>1, <2>1 DEF Clean
  <2>4. \A t \in Stages : timer'[t] = "off" <=> timer[t] = "off"
    BY <1>1, <2>1
  <2> QED
    BY <1>3, <2>2, <2>3, <2>4, Undisturbed
<1>5. CASE OtherResolveTimeout \/ OpCompletes(s) \/ TimePasses(s) \/ Silent(s)
  <2>1. timer' = timer
    BY <1>5 DEF OtherResolveTimeout, OpCompletes, TimePasses, Silent
  <2>2. ASSUME NEW t \in Stages, Clean(t) PROVE Clean(t)'
    <3>1. timer[t] = "off" /\ op[t] \in {"idle", "over"} /\ op[t] # "pending"
      BY <2>2 DEF Clean
    <3>2. op'[t] \in {"idle", "over"}
      <4>1. CASE OtherResolveTimeout
        BY <1>1, <3>1, <4>1 DEF OtherResolveTimeout
      <4>2. CASE OpCompletes(s)
        BY <1>1, <3>1, <4>2 DEF OpCompletes
      <4>3. CASE TimePasses(s)
        BY <1>1, <3>1, <4>3 DEF TimePasses
      <4>4. CASE Silent(s)
        BY <1>1, <3>1, <4>4 DEF Silent
      <4> QED
        BY <1>5, <4>1, <4>2, <4>3, <4>4
    <3> QED
      BY <2>1, <3>1, <3>2 DEF Clean
  <2> QED
    BY <1>2, <1>3, <2>1, <2>2, Undisturbed
<1> QED
  BY <1>4, <1>5

\* A handler finds that it is in time.
LEMMA OrderlyInTime ==
    ASSUME GuardInv, OrderlyInv, NEW s \in Stages, InTime(s)
    PROVE  OrderlyInv'
<1> DEFINE c == Call("go_on", [stage |-> s, ec |-> op[s]])
<1>1. /\ timer \in [Stages -> {"off", "armed", "queued"}]
      /\ op \in [Stages -> {"idle", "pending", "none", "error", "aborted", "over"}]
      /\ \A t \in Stages : timer[t] = "queued" => late[t]
      /\ op[s] \in {"none", "error"} /\ ~late[s] => timer[s] # "off"
  BY DEF GuardInv, StagesOK
<1>2. /\ op[s] \in {"none", "error"} /\ ~late[s] /\ timer' = timer
      /\ op' = [op EXCEPT ![s] = "over"] /\ todo' = <<c>>
  BY DEF InTime, Superseded
<1>3. UNCHANGED <<config, istate, closed, asked, called>>
  BY DEF InTime, coreVars
<1>4. /\ timer[s] = "armed"
      /\ \A t \in Stages : t # s => timer[t] = "off"
      /\ \A k \in Kinds : asked[k] = called[k] + (IF Kind(s) = k THEN 1 ELSE 0)
  BY <1>1, <1>2, StageRuns
<1>5. c \in GoOns /\ c.f = "go_on" /\ Bound(c) = "none" /\ ~Successful(c) /\ c \in Calls
  BY <1>2, CallsMade, CallsFacts DEF Call, Bound, Successful
<1> HIDE DEF c
<1>6. todo' # <<>> /\ Head(todo') = c
  BY <1>2
<1>7. OneAtATime'
  BY <1>2, <1>4, <1>5, <1>6 DEF OneAtATime
<1>8. \A k \in Kinds : Held(timer', todo', k) <=> Kind(s) = k
  BY <1>2, <1>4, <1>5, <1>6, HeldByStage
<1>9. Balance'
  BY <1>3, <1>4, <1>8 DEF Balance
<1>10. /\ ~config.server /\ called["connect"] = 0 => istate = "USER_INIT" /\ ~closed
       /\ s \in SetupStages => ~Fresh
  BY <1>4, StageKnows
<1>11. Counters' /\ Waits'
  BY <1>3, <1>5, <1>6, <1>10 DEF OrderlyInv, Counters, Waits
<1>12. \A t \in SetupStages : t \in Stages
  BY DEF SetupStages
<1>13. \A t \in Stages : Clean(t) => Clean(t)'
  BY <1>1, <1>2 DEF Clean
<1>14. Tidy'
  <2>1. (Fresh => AllClean)'
    BY <1>3, <1>12, <1>13 DEF OrderlyInv, Tidy, Fresh, AllClean
  <2>2. \A r, t \in SetupStages : timer'[r] # "off" /\ t # r => Clean(t)'
    BY <1>2, <1>12, <1>13 DEF OrderlyInv, Tidy
  <2> QED
    BY <1>5, <1>6, <2>1, <2>2 DEF Tidy
<1> QED
  BY <1>7, <1>9, <1>11, <1>14 DEF OrderlyInv

\* A timer's handler.
LEMMA OrderlyTimeout ==
    ASSUME GuardInv, OrderlyInv, NEW s \in Stages, HandleTimeout(s)
    PROVE  OrderlyInv'
<1> DEFINE c == Callback(s, "timeout")
<1>1. /\ timer[s] = "queued" /\ timer' = [timer EXCEPT ![s] = "off"] /\ todo' = <<c>>
      /\ op' = [t \in Stages |->
                  IF op[t] = "pending" /\ ((s = "resolve") <=> (t = "resolve"))
                  THEN Aborted(t) ELSE op[t]]
      /\ UNCHANGED <<config, istate, closed, asked, called>>
  BY DEF HandleTimeout, coreVars
<1>2. timer[s] # "off" /\ \A t \in Stages : t # s => timer[t] = "off"
  BY <1>1, StageRuns
<1>3. \A t \in Stages : t # s => op[t] # "pending"
  BY <1>2 DEF GuardInv, StagesOK
<1>4. \A t \in Stages : t # s => op'[t] = op[t]
  BY <1>1, <1>3
<1>5. c \in Steps /\ c.f = "callback" /\ Bound(c) = Kind(s) /\ ~Successful(c)
  BY CallsMade DEF Call, Callback, Bound, Successful
<1> HIDE DEF c
<1> QED
  BY <1>1, <1>2, <1>4, <1>5, StageEnds

\* The connection and its endpoint.
LEMMA OrderlyStarts ==
    ASSUME GuardInv, OrderlyInv, AsyncConnect \/ HandleAccept \/ ConnectionEnds
    PROVE  OrderlyInv'
<1>1. todo = <<>> /\ UNCHANGED <<config, istate, closed, called>>
  BY DEF AsyncConnect, HandleAccept, ConnectionEnds, Free, coreVars
<1>2. /\ timer \in [Stages -> {"off", "armed", "queued"}]
      /\ op \in [Stages -> {"idle", "pending", "none", "error", "aborted", "over"}]
      /\ asked \in [Kinds -> Nat] /\ called \in [Kinds -> Nat]
      /\ {"connect", "init", "shutdown"} \subseteq Kinds
  BY CountersTyped DEF GuardInv, StagesOK
<1>3. CASE AsyncConnect
  <2>1. ~config.server /\ asked["connect"] = 0 /\ asked' = [asked EXCEPT !["connect"] = 1]
    BY <1>3 DEF AsyncConnect
  <2>2. Fresh /\ AllClean
    BY <2>1 DEF Fresh, OrderlyInv, Tidy
  <2>3. called["connect"] = 0
    BY <1>2, <2>1 DEF OrderlyInv, Balance
  <2>4. istate = "USER_INIT" /\ ~closed
    BY <2>1, <2>3 DEF OrderlyInv, Waits
  <2>5. asked["init"] = 0 /\ asked["shutdown"] = 0
    BY <2>4 DEF OrderlyInv, Counters
  <2>6. \A k \in Kinds : asked[k] = 0 /\ called[k] = 0 /\ ~Held(timer, todo, k)
    BY <1>2, <2>1, <2>5 DEF OrderlyInv, Balance, Kinds
  <2>7. Off
    BY <2>6, CallsMade DEF Held, Off, Stages
  <2>8. \A k \in Kinds : asked'[k] = called'[k] + (IF "connect" = k THEN 1 ELSE 0)
    BY <1>1, <1>2, <2>1, <2>6
  <2>9. asked'["connect"] = 1 /\ asked'["init"] = 0 /\ asked'["shutdown"] = 0
    BY <1>2, <2>1, <2>5
  <2>10. Counters' /\ ~Fresh'
    BY <1>1, <2>1, <2>4, <2>9 DEF OrderlyInv, Counters, Fresh
  <2>11. "resolve" \in Stages /\ Kind("resolve") = "connect"
    BY DEF Stages, Kind
  <2>12. CASE Begin("resolve") /\ todo' = <<>>
    <3>1. /\ timer'["resolve"] # "off"
          /\ \A t \in Stages : t # "resolve" => timer'[t] = "off" /\ op'[t] = op[t]
      BY <1>2, <2>7, <2>11, <2>12 DEF Begin, Off
    <3>2. \A t \in SetupStages : t # "resolve" => Clean(t)'
      BY <2>2, <3>1 DEF AllClean, Clean, SetupStages
    <3> QED
      BY <1>1, <2>4, <2>8, <2>10, <2>11, <2>12, <3>1, <3>2, StageNext
  <2>13. CASE /\ todo' = <<Callback("resolve", "error")>>
              /\ UNCHANGED <<op, timer, late>>
    <3> DEFINE c == Callback("resolve", "error")
    <3>1. c \in Steps /\ c.f = "callback" /\ Bound(c) = "connect" /\ ~Successful(c)
      BY <2>11, CallsMade DEF Call, Callback, Bound, Successful
    <3>2. todo' = <<c>>
      BY <2>13
    <3> HIDE DEF c
    <3>3. Off'
      BY <2>7, <2>13 DEF Off
    <3>4. \A k \in Kinds : asked'[k] = called'[k] + (IF Bound(c) = k THEN 1 ELSE 0)
      BY <2>8, <3>1
    <3> QED
      BY <1>1, <2>4, <2>10, <3>1, <3>2, <3>3, <3>4, CallNext
  <2> QED
    BY <1>1, <1>3, <2>12, <2>13 DEF AsyncConnect
<1>4. CASE HandleAccept \/ ConnectionEnds
  <2>1. /\ UNCHANGED <<asked, op, timer>> /\ ~closed
        /\ todo' \in {<<Call("start", "")>>, <<Call("terminate", "")>>}
        /\ (config.server /\ istate = "USER_INIT") \/ istate = "LATER"
    BY <1>4 DEF HandleAccept, ConnectionEnds, coreVars, stageVars
  <2>2. Fresh /\ AllClean
    BY <2>1 DEF Fresh, OrderlyInv, Tidy
  <2>3. /\ istate = "USER_INIT" => asked["init"] = 0 /\ asked["connect"] = 0
        /\ istate = "LATER" => asked["init"] = 1 /\ called["init"] = 1
        /\ asked["shutdown"] = 0 /\ asked["connect"] <= 1
    BY <2>1 DEF OrderlyInv, Counters
  <2>4. ~config.server => called["connect"] # 0
    BY <2>1 DEF OrderlyInv, Waits
  <2>5. \A k \in Kinds : asked[k] = called[k]
    <3> DEFINE more(k) == IF Held(timer, todo, k) THEN 1 ELSE 0
    <3>0. \A k \in Kinds : asked[k] = called[k] + more(k)
      BY DEF OrderlyInv, Balance
    <3>1. \A k \in Kinds : /\ asked[k] = called[k] \/ asked[k] = called[k] + 1
                           /\ asked[k] \in Nat /\ called[k] \in Nat
      BY <1>2, <3>0
    <3>2. config.server => asked["connect"] = 0
      BY DEF OrderlyInv, Counters
    <3>3. asked["connect"] = called["connect"]
      BY <1>2, <2>3, <2>4, <3>1, <3>2
    <3>4. asked["shutdown"] = called["shutdown"]
      BY <1>2, <2>3, <3>1
    <3>5. asked["init"] = called["init"]
      <4>1. istate = "USER_INIT" \/ istate = "LATER"
        BY <2>1
      <4>2. "init" \in Kinds
        BY <1>2
      <4> QED
        BY <2>3, <3>1, <4>1, <4>2
    <3> QED
      BY <3>3, <3>4, <3>5 DEF Kinds
  <2>6. \A k \in Kinds : ~Held(timer, todo, k)
    BY <1>2, <2>5 DEF OrderlyInv, Balance
  <2>7. Off
    BY <2>6, CallsMade DEF Held, Off, Stages
  <2>8. Off' /\ AllClean'
    BY <2>1, <2>2, <2>7 DEF Off, AllClean, Clean
  <2>9. Counters'
    BY <1>1, <2>1 DEF OrderlyInv, Counters
  <2>10. PICK g \in {"start", "terminate"} : todo' = <<Call(g, "")>>
    BY <2>1
  <2> DEFINE c == Call(g, "")
  <2>11. c \in Steps /\ Bound(c) = "none" /\ c.f # "handle_pre_init" /\ todo' = <<c>>
    BY <2>10, CallsMade DEF Call, Bound
  <2> HIDE DEF c
  <2>12. \A k \in Kinds : asked'[k] = called'[k] + (IF Bound(c) = k THEN 1 ELSE 0)
    <3> TAKE k \in Kinds
    <3>1. Bound(c) # k
      BY <2>11 DEF Kinds
    <3>2. asked'[k] = asked[k] /\ called'[k] = called[k] /\ called[k] \in Nat
      BY <1>1, <1>2, <2>1
    <3> QED
      BY <2>5, <3>1, <3>2
  <2> QED
    BY <1>1, <2>4, <2>8, <2>9, <2>11, <2>12, CallNext
<1> QED
  BY <1>3, <1>4

LEMMA OrderlyStep ==
    ASSUME GuardInv, Orderly => OrderlyInv, [Next]_vars
    PROVE  (Orderly => OrderlyInv)'
<1>1. config' = config
  BY DEF Next, Runtime, Strand, Handler, vars, AsyncConnect, HandleAccept,
         ConnectionEnds, OtherResolveTimeout, OpCompletes, TimePasses, TimerExpires,
         Silent, InTime, HandleTimeout, HandleResolve, HandleResolveTimeout,
         HandleConnect, HandleConnectTimeout, HandleProxyWrite, HandleProxyRead,
         HandleProxyTimeout, HandlePostInit, HandlePostInitTimeout,
         HandleAsyncShutdown, HandleAsyncShutdownTimeout, Start, Terminate,
         RunCallback, PreInit, HandlePreInit, ProxyWrite, PostInit, AsyncShutdown,
         GoOnCallback, GoOnConnect, GoOnProxyRead, GoOnPostInit
<1> SUFFICES ASSUME Orderly PROVE OrderlyInv'
  BY <1>1 DEF Orderly
<1>2. OrderlyInv
  OBVIOUS
<1>3. "resolve" \in Stages
  BY DEF Stages
<1>4. CASE UNCHANGED vars
  BY <1>2, <1>4 DEF vars, OrderlyInv, OneAtATime, Off, Balance, Counters, Waits,
                    Tidy, Fresh, AllClean, Clean
<1>5. CASE Strand
  BY <1>2, <1>5, OrderlyStart, OrderlyTerminate, OrderlyCallback,
     OrderlyInitialisation, OrderlyShutdown, OrderlyGoOn DEF Strand
<1>6. CASE Handler
  <2>1. \E s \in Stages : Silent(s) \/ InTime(s) \/ HandleTimeout(s)
    BY <1>6 DEF Handler, HandleResolve, HandleResolveTimeout, HandleConnect,
       HandleConnectTimeout, HandleProxyWrite, HandleProxyRead, HandleProxyTimeout,
       HandlePostInit, HandlePostInitTimeout, HandleAsyncShutdown,
       HandleAsyncShutdownTimeout, Stages
  <2> QED
    BY <1>2, <2>1, OrderlyOutside, OrderlyInTime, OrderlyTimeout
<1>7. CASE AsyncConnect \/ HandleAccept \/ ConnectionEnds
  BY <1>2, <1>7, OrderlyStarts
<1>8. CASE \/ OtherResolveTimeout
           \/ \E s \in Stages : OpCompletes(s) \/ TimePasses(s) \/ TimerExpires(s)
  BY <1>2, <1>3, <1>8, OrderlyOutside
<1> QED
  BY <1>4, <1>5, <1>6, <1>7, <1>8 DEF Next, Runtime

SetupInv == GuardInv /\ (Orderly => OrderlyInv)

LEMMA SetupInit == Init => SetupInv
BY GuardInit, OrderlyInit DEF SetupInv

LEMMA SetupStep ==
    ASSUME SetupInv, [Next]_vars
    PROVE  SetupInv'
BY GuardStep, OrderlyStep DEF SetupInv

LEMMA SetupGives ==
    ASSUME SetupInv
    PROVE  TypeOK /\ CalledOnce /\ NoLeftovers /\ Guarded
<1>1. TypeOK /\ Guarded
  BY DEF SetupInv, GuardInv, StagesOK, Guarded
<1>2. CalledOnce
  <2> SUFFICES ASSUME Orderly, NEW k \in Kinds PROVE called[k] <= asked[k] /\ asked[k] <= 1
    BY DEF CalledOnce
  <2>1. OrderlyInv /\ asked[k] \in Nat /\ called[k] \in Nat
    BY DEF SetupInv, GuardInv, TypeOK
  <2>2. asked[k] = called[k] \/ asked[k] = called[k] + 1
    BY <2>1 DEF OrderlyInv, Balance
  <2>3. asked[k] <= 1
    BY <2>1 DEF OrderlyInv, Counters, Kinds
  <2> QED
    BY <2>1, <2>2, <2>3
<1>3. NoLeftovers
  BY DEF NoLeftovers, SetupInv, OrderlyInv, Tidy, Fresh, AllClean, Clean
<1> QED
  BY <1>1, <1>2, <1>3

\* With one thread, and a host name that is accepted, every handler that the
\* connection gave to async_connect, init or async_shutdown is called at most
\* once, however the operations and their timers race.
THEOREM CalledOnceAlways == Spec => []CalledOnce
<1>1. SetupInv => CalledOnce
  BY SetupGives
<1>2. SetupInv /\ [Next]_vars => SetupInv'
  BY SetupStep
<1> QED
  BY <1>1, <1>2, SetupInit, PTL DEF Spec

\* Likewise a connection whose transport is ready has no operation under way and
\* no timer that could still end it.
THEOREM NoLeftoversAlways == Spec => []NoLeftovers
<1>1. SetupInv => NoLeftovers
  BY SetupGives
<1>2. SetupInv /\ [Next]_vars => SetupInv'
  BY SetupStep
<1> QED
  BY <1>1, <1>2, SetupInit, PTL DEF Spec

-----------------------------------------------------------------------------
(***************************************************************************)
(* Flow control of reads (ReadFlow): reading never stalls, and with one    *)
(* thread the last call has its way and a pause lets no more reads start   *)
(* than there were.                                                        *)
(***************************************************************************)

FlowHandlers == {"pause", "resume", "read"}

\* What is left of the handlers when the strand took one of them.
LEMMA RemoveAtIs ==
    ASSUME NEW S, NEW s \in Seq(S), NEW i \in 1 .. Len(s)
    PROVE  /\ F!RemoveAt(s, i) \in Seq(S)
           /\ Len(F!RemoveAt(s, i)) = Len(s) - 1
           /\ \A k \in 1 .. Len(s) - 1 :
                 F!RemoveAt(s, i)[k] = IF k < i THEN s[k] ELSE s[k + 1]
<1> DEFINE before == SubSeq(s, 1, i - 1)
           after == SubSeq(s, i + 1, Len(s))
<1>1. /\ before \in Seq(S) /\ Len(before) = i - 1
      /\ \A k \in 1 .. i - 1 : before[k] = s[k]
  OBVIOUS
<1>2. /\ after \in Seq(S) /\ Len(after) = Len(s) - i
      /\ \A k \in 1 .. Len(s) - i : after[k] = s[k + i]
  OBVIOUS
<1>3. F!RemoveAt(s, i) = before \o after
  BY DEF F!RemoveAt
<1> HIDE DEF before, after
<1>4. /\ before \o after \in Seq(S)
      /\ Len(before \o after) = Len(before) + Len(after)
      /\ \A k \in 1 .. Len(before) + Len(after) : (before \o after)[k] =
            IF k <= Len(before) THEN before[k] ELSE after[k - Len(before)]
  <2>1. before \in Seq(S) /\ after \in Seq(S)
    BY <1>1, <1>2
  <2> QED
    BY ONLY <2>1, ConcatProperties
<1>5. Len(before) = i - 1 /\ Len(before) + Len(after) = Len(s) - 1
  BY <1>1, <1>2
<1>6. ASSUME NEW k \in 1 .. Len(s) - 1, k < i
      PROVE  F!RemoveAt(s, i)[k] = s[k]
  BY <1>1, <1>3, <1>4, <1>5, <1>6
<1>7. ASSUME NEW k \in 1 .. Len(s) - 1, k >= i
      PROVE  F!RemoveAt(s, i)[k] = s[k + 1]
  <2>1. (before \o after)[k] = after[k - (i - 1)]
    BY <1>4, <1>5, <1>7
  <2>2. /\ k - (i - 1) \in 1 .. Len(s) - i
        /\ k - (i - 1) + i = k + 1
    BY <1>7
  <2>3. after[k - (i - 1)] = s[k + 1]
    BY <1>2, <2>2
  <2> QED
    BY <1>3, <2>1, <2>3
<1> QED
  BY <1>3, <1>4, <1>5, <1>6, <1>7

\* The strand takes one handler out of the queue and keeps the others in order.
LEMMA RunTakes ==
    ASSUME F!TypeOK, NEW h, F!Run(h)
    PROVE  \E i \in 1 .. Len(queue) :
              /\ queue[i] = h
              /\ one_thread => i = 1
              /\ queue' \in Seq(FlowHandlers)
              /\ Len(queue') = Len(queue) - 1
              /\ \A k \in 1 .. Len(queue) - 1 :
                    queue'[k] = IF k < i THEN queue[k] ELSE queue[k + 1]
<1>1. queue \in Seq(FlowHandlers)
  BY DEF F!TypeOK, FlowHandlers
<1>2. PICK i \in DOMAIN queue :
         /\ one_thread => i = 1
         /\ queue[i] = h
         /\ queue' = F!RemoveAt(queue, i)
  BY DEF F!Run
<1>3. i \in 1 .. Len(queue)
  BY <1>1, <1>2
<1>4. /\ F!RemoveAt(queue, i) \in Seq(FlowHandlers)
      /\ Len(F!RemoveAt(queue, i)) = Len(queue) - 1
      /\ \A k \in 1 .. Len(queue) - 1 :
            F!RemoveAt(queue, i)[k] = IF k < i THEN queue[k] ELSE queue[k + 1]
  BY <1>1, <1>3, RemoveAtIs
<1> QED
  BY <1>2, <1>3, <1>4

\* A handler that waits goes on waiting when the strand takes another one.
LEMMA OthersWait ==
    ASSUME F!TypeOK, NEW h, NEW g, F!Run(h), g # h, F!Queued(g)
    PROVE  F!Queued(g)'
<1>1. PICK i \in 1 .. Len(queue) :
         /\ queue[i] = h
         /\ queue' \in Seq(FlowHandlers)
         /\ Len(queue') = Len(queue) - 1
         /\ \A k \in 1 .. Len(queue) - 1 :
               queue'[k] = IF k < i THEN queue[k] ELSE queue[k + 1]
  BY RunTakes
<1>2. PICK j \in 1 .. Len(queue) : queue[j] = g
  BY DEF F!Queued, F!TypeOK
<1>3. j # i
  BY <1>1, <1>2
<1>4. CASE j < i
  BY <1>1, <1>2, <1>4 DEF F!Queued
<1>5. CASE j > i
  <2>1. j - 1 \in 1 .. Len(queue) - 1 /\ ~(j - 1 < i) /\ j - 1 + 1 = j
    BY <1>5
  <2>2. queue'[j - 1] = g
    BY <1>1, <1>2, <2>1
  <2>3. j - 1 \in DOMAIN queue'
    BY <1>1, <2>1
  <2> QED
    BY <2>2, <2>3 DEF F!Queued
<1> QED
  BY <1>3, <1>4, <1>5

\* Appending a handler keeps those that wait where they are.
LEMMA AppendKeeps ==
    ASSUME F!TypeOK, NEW h \in FlowHandlers, queue' = Append(queue, h)
    PROVE  /\ queue' \in Seq(FlowHandlers)
           /\ Len(queue') = Len(queue) + 1
           /\ \A k \in 1 .. Len(queue) : queue'[k] = queue[k]
           /\ queue'[Len(queue) + 1] = h
<1>1. queue \in Seq(FlowHandlers)
  BY DEF F!TypeOK, FlowHandlers
<1> QED
  BY <1>1, AppendProperties

LEMMA SameCount == \A S : F!Cardinality(S) = Cardinality(S)
BY DEF F!Cardinality, Cardinality

\* Places in the queue can be counted.
LEMMA PlacesFinite ==
    ASSUME queue \in Seq(FlowHandlers), NEW S \in SUBSET DOMAIN queue
    PROVE  /\ IsFiniteSet(S)
           /\ Cardinality(S) \in Nat
           /\ F!Cardinality(S) = Cardinality(S)
<1>1. DOMAIN queue = 1 .. Len(queue) /\ Len(queue) \in Nat
  OBVIOUS
<1>2. IsFiniteSet(DOMAIN queue)
  BY <1>1, FS_Interval
<1>3. IsFiniteSet(S)
  BY <1>2, FS_Subset
<1> QED
  BY <1>3, FS_CardinalityType, SameCount

\* What is under way is a number, and what may run before a queued pause is
\* part of it.
LEMMA UnderWayCounts ==
    ASSUME F!TypeOK
    PROVE  /\ F!Starters \subseteq DOMAIN queue
           /\ F!Ahead \subseteq DOMAIN queue
           /\ Cardinality(F!Ahead) \in Nat
           /\ Cardinality(F!Starters) \in Nat
           /\ F!UnderWay = reading + (IF processing THEN 1 ELSE 0)
                              + Cardinality(F!Starters)
           /\ F!UnderWay \in Nat
<1>1. queue \in Seq(FlowHandlers) /\ reading \in Nat
  BY DEF F!TypeOK, FlowHandlers
<1>2. F!Starters \subseteq DOMAIN queue /\ F!Ahead \subseteq DOMAIN queue
  BY DEF F!Starters, F!Ahead
<1>3. /\ Cardinality(F!Ahead) \in Nat
      /\ Cardinality(F!Starters) \in Nat
      /\ F!Cardinality(F!Starters) = Cardinality(F!Starters)
  BY <1>1, <1>2, PlacesFinite
<1>4. F!UnderWay = reading + (IF processing THEN 1 ELSE 0)
                     + Cardinality(F!Starters)
  BY <1>3 DEF F!UnderWay
<1> QED
  BY <1>1, <1>2, <1>3, <1>4

-----------------------------------------------------------------------------
LEMMA TypeStep ==
    ASSUME F!TypeOK, [F!Next]_(F!vars)
    PROVE  F!TypeOK'
<1> USE DEF F!TypeOK
<1>q. /\ Seq(FlowHandlers) = Seq({"pause", "resume", "read"})
      /\ {"pause", "resume", "read"} = FlowHandlers
  BY DEF FlowHandlers
<1>a. ASSUME NEW h \in FlowHandlers, queue' = Append(queue, h)
      PROVE  queue' \in Seq({"pause", "resume", "read"})
  BY <1>a, <1>q, AppendKeeps
<1>1. CASE F!PauseReading
  <2>1. queue' \in Seq({"pause", "resume", "read"})
    BY <1>1, <1>a DEF F!PauseReading, FlowHandlers
  <2>2. want' = FALSE
    BY <1>1 DEF F!PauseReading
  <2>5. allowed' \in Int
    BY <1>1, UnderWayCounts DEF F!PauseReading
  <2>4. pauses' \in Nat
    BY <1>1 DEF F!PauseReading
  <2>3. UNCHANGED <<one_thread, m_read_flag, reading, processing, ended,
                    completed>>
    BY <1>1 DEF F!PauseReading
  <2> QED
    BY <2>1, <2>2, <2>3, <2>4, <2>5
<1>2. CASE F!ResumeReading
  <2>1. queue' \in Seq({"pause", "resume", "read"})
    BY <1>2, <1>a DEF F!ResumeReading, FlowHandlers
  <2> QED
    BY <1>2, <2>1 DEF F!ResumeReading
<1>3. CASE F!ReadCompletes
  <2>1. queue' \in Seq({"pause", "resume", "read"})
    BY <1>3, <1>a DEF F!ReadCompletes, FlowHandlers
  <2> QED
    BY <1>3, <2>1 DEF F!ReadCompletes
<1>4. CASE F!HandlePause
  BY <1>4, <1>q, RunTakes DEF F!HandlePause
<1>5. CASE F!HandleResume
  BY <1>5, <1>q, RunTakes DEF F!HandleResume, F!ReadFrame
<1>6. CASE F!HandleRead
  BY <1>6, <1>q, RunTakes DEF F!HandleRead
<1>7. CASE F!FinishRead
  <2>1. reading' \in Nat /\ allowed' \in Int
    BY <1>7 DEF F!FinishRead, F!ReadFrame
  <2> QED
    BY <1>7, <2>1 DEF F!FinishRead
<1>8. CASE F!AbandonRead
  BY <1>8 DEF F!AbandonRead
<1>9. CASE UNCHANGED F!vars
  BY <1>9 DEF F!vars
<1> QED
  BY <1>1, <1>2, <1>3, <1>4, <1>5, <1>6, <1>7, <1>8, <1>9 DEF F!Next

\* Whoever ends a read on a connection that is not paused starts the next one.
LEMMA StallStep ==
    ASSUME F!TypeOK, F!NeverStalls, [F!Next]_(F!vars)
    PROVE  F!NeverStalls'
<1> DEFINE Under == reading > 0 \/ processing \/ F!Queued("read")
<1>q. reading \in Nat /\ queue \in Seq(FlowHandlers)
  BY DEF F!TypeOK, FlowHandlers
<1>a. ASSUME NEW h \in FlowHandlers, queue' = Append(queue, h), F!Queued("read")
      PROVE  F!Queued("read")'
  BY <1>a, <1>q, AppendKeeps DEF F!Queued
<1>h. "pause" \in FlowHandlers /\ "resume" \in FlowHandlers /\ "read" \in FlowHandlers
  BY DEF FlowHandlers
<1>1. CASE F!PauseReading
  BY <1>1, <1>a, <1>h DEF F!PauseReading, F!NeverStalls
<1>2. CASE F!ResumeReading
  BY <1>2, <1>a, <1>h DEF F!ResumeReading, F!NeverStalls
<1>3. CASE F!ReadCompletes
  <2>1. queue'[Len(queue) + 1] = "read" /\ Len(queue') = Len(queue) + 1
        /\ queue' \in Seq(FlowHandlers)
    BY <1>3, <1>h, AppendKeeps DEF F!ReadCompletes
  <2> QED
    BY <1>q, <2>1 DEF F!NeverStalls, F!Queued
<1>4. CASE F!HandlePause
  BY <1>4 DEF F!HandlePause, F!NeverStalls
<1>5. CASE F!HandleResume
  BY <1>5, <1>q DEF F!HandleResume, F!ReadFrame, F!NeverStalls
<1>6. CASE F!HandleRead
  BY <1>6 DEF F!HandleRead, F!NeverStalls
<1>7. CASE F!FinishRead
  BY <1>7, <1>q DEF F!FinishRead, F!ReadFrame, F!NeverStalls
<1>8. CASE F!AbandonRead
  BY <1>8 DEF F!AbandonRead, F!NeverStalls
<1>9. CASE UNCHANGED F!vars
  BY <1>9 DEF F!vars, F!NeverStalls, F!Queued
<1> QED
  BY <1>1, <1>2, <1>3, <1>4, <1>5, <1>6, <1>7, <1>8, <1>9 DEF F!Next

\* In a queue whose first handler was taken, each of those behind it moved up.
LEMMA Shifted ==
    ASSUME queue \in Seq(FlowHandlers), queue # <<>>,
           DOMAIN queue' = 1 .. Len(queue) - 1,
           \A k \in 1 .. Len(queue) - 1 : queue'[k] = queue[k + 1]
    PROVE  /\ 1 \in DOMAIN queue
           /\ \A i \in DOMAIN queue :
                 i # 1 => i - 1 \in DOMAIN queue' /\ queue'[i - 1] = queue[i]
           /\ \A i \in DOMAIN queue' :
                 i + 1 \in DOMAIN queue /\ queue'[i] = queue[i + 1]
           /\ \A i, j \in DOMAIN queue : j > i => j # 1
           /\ \A i, j \in DOMAIN queue' : j > i <=> j + 1 > i + 1
           /\ \A i \in DOMAIN queue', j \in DOMAIN queue :
                 j > i + 1 => j - 1 > i /\ j - 1 \in DOMAIN queue'
<1>1. /\ DOMAIN queue = 1 .. Len(queue) /\ Len(queue) \in Nat
      /\ Len(queue) # 0
  OBVIOUS
<1>2. \A i \in 1 .. Len(queue) : i # 1 => i - 1 \in 1 .. Len(queue) - 1
                                        /\ i - 1 + 1 = i
  BY <1>1
<1>3. \A i \in 1 .. Len(queue) :
         i # 1 => i - 1 \in DOMAIN queue' /\ queue'[i - 1] = queue[i]
  BY <1>2
<1> QED
  BY <1>1, <1>3

\* One thread runs the handlers in order, so that only the last command counts.
LEMMA LastStep ==
    ASSUME F!TypeOK, one_thread, F!LastCommand, [F!Next]_(F!vars)
    PROVE  F!LastCommand'
<1>q. queue \in Seq(FlowHandlers)
  BY DEF F!TypeOK, FlowHandlers
<1>b. want \in BOOLEAN /\ m_read_flag \in BOOLEAN
  BY DEF F!TypeOK
<1>d. DOMAIN queue = 1 .. Len(queue) /\ Len(queue) \in Nat
  BY <1>q
<1>h. "pause" \in FlowHandlers /\ "resume" \in FlowHandlers /\ "read" \in FlowHandlers
  BY DEF FlowHandlers
<1>a. ASSUME NEW h \in FlowHandlers, queue' = Append(queue, h)
      PROVE  /\ DOMAIN queue' = 1 .. Len(queue) + 1
             /\ \A k \in DOMAIN queue : queue'[k] = queue[k]
             /\ queue'[Len(queue) + 1] = h
  BY <1>a, <1>d, AppendKeeps
<1>r. ASSUME NEW h, F!Run(h)
      PROVE  /\ queue # <<>> /\ queue[1] = h
             /\ DOMAIN queue' = 1 .. Len(queue) - 1
             /\ \A k \in 1 .. Len(queue) - 1 : queue'[k] = queue[k + 1]
  <2>1. PICK i \in 1 .. Len(queue) :
           /\ queue[i] = h
           /\ one_thread => i = 1
           /\ queue' \in Seq(FlowHandlers)
           /\ Len(queue') = Len(queue) - 1
           /\ \A k \in 1 .. Len(queue) - 1 :
                 queue'[k] = IF k < i THEN queue[k] ELSE queue[k + 1]
    BY <1>r, RunTakes
  <2>2. i = 1
    BY <2>1
  <2> QED
    BY <1>d, <2>1, <2>2
<1>s. ASSUME NEW h, F!Run(h),
             NEW i \in DOMAIN queue', queue'[i] # "read",
             \A j \in DOMAIN queue' : j > i => queue'[j] = "read"
      PROVE  want <=> queue'[i] = "resume"
  <2>1. i + 1 \in DOMAIN queue /\ queue'[i] = queue[i + 1]
    BY <1>q, <1>r, <1>s, Shifted
  <2>2. ASSUME NEW j \in DOMAIN queue, j > i + 1
        PROVE  queue[j] = "read"
    <3>1. j # 1
      BY <1>d, <1>r, <1>s, <2>2
    <3>2. j - 1 \in DOMAIN queue' /\ queue'[j - 1] = queue[j] /\ j - 1 > i
      BY <1>q, <1>r, <1>s, <2>2, <3>1, Shifted
    <3> QED
      BY <1>s, <3>2
  <2> QED
    BY <1>s, <2>1, <2>2 DEF F!LastCommand
<1>e. ASSUME NEW h, F!Run(h), \A j \in DOMAIN queue' : queue'[j] = "read"
      PROVE  /\ 1 \in DOMAIN queue /\ queue[1] = h
             /\ \A j \in DOMAIN queue : j > 1 => queue[j] = "read"
  <2>1. 1 \in DOMAIN queue /\ queue[1] = h
    BY <1>q, <1>r, <1>e, Shifted
  <2>2. ASSUME NEW j \in DOMAIN queue, j > 1
        PROVE  queue[j] = "read"
    <3>1. j # 1
      BY <1>d, <2>2
    <3>2. j - 1 \in DOMAIN queue' /\ queue'[j - 1] = queue[j]
      BY <1>q, <1>r, <1>e, <3>1, Shifted
    <3> QED
      BY <1>e, <3>2
  <2> QED
    BY <2>1, <2>2
<1>1. CASE F!PauseReading
  <2>1. queue' = Append(queue, "pause") /\ ~want'
    BY <1>1 DEF F!PauseReading
  <2>2. /\ DOMAIN queue' = 1 .. Len(queue) + 1
        /\ queue'[Len(queue) + 1] = "pause"
    BY <1>a, <1>h, <2>1
  <2>3. \A i \in DOMAIN queue' :
           (\A j \in DOMAIN queue' : j > i => queue'[j] = "read")
           => i = Len(queue) + 1
    BY <1>d, <2>2
  <2> QED
    BY <1>d, <2>1, <2>2, <2>3 DEF F!LastCommand
<1>2. CASE F!ResumeReading
  <2>1. queue' = Append(queue, "resume") /\ want'
    BY <1>2 DEF F!ResumeReading
  <2>2. /\ DOMAIN queue' = 1 .. Len(queue) + 1
        /\ queue'[Len(queue) + 1] = "resume"
    BY <1>a, <1>h, <2>1
  <2>3. \A i \in DOMAIN queue' :
           (\A j \in DOMAIN queue' : j > i => queue'[j] = "read")
           => i = Len(queue) + 1
    BY <1>d, <2>2
  <2> QED
    BY <1>d, <2>1, <2>2, <2>3 DEF F!LastCommand
<1>3. CASE F!ReadCompletes
  <2>1. queue' = Append(queue, "read") /\ UNCHANGED <<want, m_read_flag>>
    BY <1>3 DEF F!ReadCompletes
  <2>2. /\ DOMAIN queue' = 1 .. Len(queue) + 1
        /\ \A k \in DOMAIN queue : queue'[k] = queue[k]
        /\ queue'[Len(queue) + 1] = "read"
    BY <1>a, <1>h, <2>1
  <2>3. \A i \in DOMAIN queue' : queue'[i] # "read" => i \in DOMAIN queue
    BY <1>d, <2>2
  <2>4. \A i \in DOMAIN queue : i \in DOMAIN queue'
    BY <1>d, <2>2
  <2> QED
    BY <2>1, <2>2, <2>3, <2>4 DEF F!LastCommand
<1>4. CASE F!HandlePause
  <2>1. F!Run("pause") /\ ~m_read_flag' /\ want' = want
    BY <1>4 DEF F!HandlePause
  <2>2. (\A j \in DOMAIN queue' : queue'[j] = "read") => ~want
    BY <1>e, <2>1 DEF F!LastCommand
  <2> QED
    BY <1>s, <2>1, <2>2 DEF F!LastCommand
<1>5. CASE F!HandleResume
  <2>1. F!Run("resume") /\ m_read_flag' /\ want' = want
    BY <1>5 DEF F!HandleResume
  <2>2. (\A j \in DOMAIN queue' : queue'[j] = "read") => want
    BY <1>e, <2>1 DEF F!LastCommand
  <2> QED
    BY <1>s, <2>1, <2>2 DEF F!LastCommand
<1>6. CASE F!HandleRead
  <2>1. F!Run("read") /\ m_read_flag' = m_read_flag /\ want' = want
    BY <1>6 DEF F!HandleRead
  <2>2. ASSUME \A j \in DOMAIN queue' : queue'[j] = "read"
        PROVE  want <=> m_read_flag
    <3>1. \A j \in DOMAIN queue : queue[j] = "read"
      BY <1>d, <1>e, <2>1, <2>2
    <3> QED
      BY <3>1 DEF F!LastCommand
  <2> QED
    BY <1>s, <2>1, <2>2 DEF F!LastCommand
<1>7. CASE F!FinishRead
  BY <1>7 DEF F!FinishRead, F!LastCommand
<1>8. CASE F!AbandonRead
  BY <1>8 DEF F!AbandonRead, F!LastCommand
<1>9. CASE UNCHANGED F!vars
  BY <1>9 DEF F!vars, F!LastCommand
<1> QED
  BY <1>1, <1>2, <1>3, <1>4, <1>5, <1>6, <1>7, <1>8, <1>9 DEF F!Next

\* A queue with a command in it, of which the last call was pause_reading, holds
\* a pause.
LEMMA PauseWaits ==
    ASSUME F!TypeOK, F!LastCommand, ~want,
           \E i \in DOMAIN queue : queue[i] # "read"
    PROVE  F!Queued("pause")
<1>1. queue \in Seq(FlowHandlers) /\ DOMAIN queue = 1 .. Len(queue)
      /\ Len(queue) \in Nat
  BY DEF F!TypeOK, FlowHandlers
<1> DEFINE X == {n \in Nat : \E i \in DOMAIN queue :
                               queue[i] # "read" /\ n = Len(queue) - i}
<1>2. X \subseteq Nat /\ X # {}
  BY <1>1
<1>3. PICK n \in X : \A k \in X : n <= k
  BY <1>2, LeastNumber
<1>4. PICK i \in DOMAIN queue : queue[i] # "read" /\ n = Len(queue) - i
  BY <1>3
<1>5. \A j \in DOMAIN queue : j > i => queue[j] = "read"
  <2> SUFFICES ASSUME NEW j \in DOMAIN queue, j > i, queue[j] # "read"
               PROVE  FALSE
    OBVIOUS
  <2>1. Len(queue) - j \in X
    BY <1>1
  <2> QED
    BY <1>1, <1>3, <1>4, <2>1
<1>6. queue[i] # "resume"
  BY <1>4, <1>5 DEF F!LastCommand
<1>7. queue[i] = "pause"
  BY <1>1, <1>4, <1>6 DEF FlowHandlers
<1> QED
  BY <1>7 DEF F!Queued

\* The strand takes the first handler: what is ahead of a pause moves up.
LEMMA AheadShrinks ==
    ASSUME F!TypeOK, one_thread, NEW h, F!Run(h)
    PROVE  /\ queue # <<>> /\ queue[1] = h /\ ~processing
           /\ F!Queued("pause")' => F!Queued("pause")
           /\ Cardinality(F!Ahead') \in Nat
           /\ Cardinality(F!Ahead') <= Cardinality(F!Ahead)
           /\ h # "pause" /\ F!Queued("pause") =>
                 Cardinality(F!Ahead') + 1 <= Cardinality(F!Ahead)
<1>q. queue \in Seq(FlowHandlers)
  BY DEF F!TypeOK, FlowHandlers
<1>d. DOMAIN queue = 1 .. Len(queue) /\ Len(queue) \in Nat
  BY <1>q
<1>1. /\ queue # <<>> /\ queue[1] = h
      /\ queue' \in Seq(FlowHandlers)
      /\ DOMAIN queue' = 1 .. Len(queue) - 1
      /\ \A k \in 1 .. Len(queue) - 1 : queue'[k] = queue[k + 1]
  <2>1. PICK i \in 1 .. Len(queue) :
           /\ queue[i] = h
           /\ one_thread => i = 1
           /\ queue' \in Seq(FlowHandlers)
           /\ Len(queue') = Len(queue) - 1
           /\ \A k \in 1 .. Len(queue) - 1 :
                 queue'[k] = IF k < i THEN queue[k] ELSE queue[k + 1]
    BY RunTakes
  <2>2. i = 1
    BY <2>1
  <2> QED
    BY <1>d, <2>1, <2>2
<1>p. ~processing
  BY DEF F!Run
<1>2. /\ 1 \in DOMAIN queue
      /\ \A i \in DOMAIN queue' :
            i + 1 \in DOMAIN queue /\ queue'[i] = queue[i + 1]
  BY <1>q, <1>1, Shifted
<1>3. F!Queued("pause")' => F!Queued("pause")
  BY <1>2 DEF F!Queued
<1> DEFINE A == F!Ahead
           B == F!Ahead'
<1>4. A \subseteq DOMAIN queue /\ B \subseteq DOMAIN queue'
  BY DEF F!Ahead, F!Starters
<1>5. \A k \in B : k + 1 \in A
  <2> SUFFICES ASSUME NEW k \in B PROVE k + 1 \in A
    OBVIOUS
  <2>1. /\ k \in DOMAIN queue' /\ queue'[k] # "pause"
        /\ \E j \in DOMAIN queue' : j > k /\ queue'[j] = "pause"
    BY DEF F!Ahead, F!Starters
  <2>2. PICK j \in DOMAIN queue' : j > k /\ queue'[j] = "pause"
    BY <2>1
  <2>3. /\ k + 1 \in DOMAIN queue /\ queue[k + 1] # "pause"
        /\ j + 1 \in DOMAIN queue /\ queue[j + 1] = "pause"
    BY <1>2, <2>1, <2>2
  <2>4. j + 1 > k + 1
    BY <1>1, <1>d, <2>1, <2>2
  <2> QED
    BY <2>3, <2>4 DEF F!Ahead, F!Starters
<1>6. h # "pause" /\ F!Queued("pause") => 1 \in A
  <2> SUFFICES ASSUME h # "pause", F!Queued("pause") PROVE 1 \in A
    OBVIOUS
  <2>1. PICK j \in DOMAIN queue : queue[j] = "pause"
    BY DEF F!Queued
  <2>2. j # 1
    BY <1>1, <2>1
  <2>3. j > 1
    BY <1>d, <2>2
  <2> QED
    BY <1>1, <1>2, <2>1, <2>3 DEF F!Ahead, F!Starters
<1>7. IsFiniteSet(A) /\ Cardinality(A) \in Nat
  BY <1>q, <1>4, PlacesFinite
<1>8. IsFiniteSet(B) /\ Cardinality(B) \in Nat
  <2>1. IsFiniteSet(DOMAIN queue')
    BY <1>1, <1>d, FS_Interval
  <2>2. IsFiniteSet(B)
    BY <1>4, <2>1, FS_Subset
  <2> QED
    BY <2>2, FS_CardinalityType
<1>n. \A k \in B : k \in Nat /\ k # 0
  BY <1>1, <1>d, <1>4
<1> HIDE DEF A, B
<1>9. ASSUME NEW C, \A k \in B : k + 1 \in C, IsFiniteSet(C), Cardinality(C) \in Nat
      PROVE  Cardinality(B) <= Cardinality(C)
  <2> DEFINE f == [k \in B |-> k + 1]
  <2>1. f \in [B -> C]
    BY <1>9
  <2>2. \A x, y \in B : x # y => f[x] # f[y]
    BY <1>n
  <2> HIDE DEF f
  <2>3. ~(Cardinality(C) < Cardinality(B))
    BY <1>8, <1>9, <2>1, <2>2, FS_PigeonHole
  <2> QED
    BY <1>8, <1>9, <2>3
<1>10. Cardinality(B) <= Cardinality(A)
  BY <1>5, <1>7, <1>9
<1>11. 1 \in A => Cardinality(B) + 1 <= Cardinality(A)
  <2> SUFFICES ASSUME 1 \in A PROVE Cardinality(B) + 1 <= Cardinality(A)
    OBVIOUS
  <2>1. /\ IsFiniteSet(A \ {1})
        /\ Cardinality(A \ {1}) = Cardinality(A) - 1
    BY <1>7, FS_RemoveElement
  <2>2. Cardinality(A \ {1}) \in Nat
    BY <2>1, FS_CardinalityType
  <2>3. \A k \in B : k + 1 \in A \ {1}
    BY <1>5, <1>n
  <2>4. Cardinality(B) <= Cardinality(A \ {1})
    BY <1>9, <2>1, <2>2, <2>3
  <2> QED
    BY <1>7, <1>8, <2>1, <2>4
<1> QED
  BY <1>1, <1>p, <1>3, <1>6, <1>8, <1>10, <1>11 DEF A, B

\* Each read that is started after a pause was one of those under way: the one
\* that handle_read_frame finishes, or a handler ahead of the pause.
LEMMA AllowanceStep ==
    ASSUME F!TypeOK, one_thread, F!LastCommand, F!Allowance, [F!Next]_(F!vars)
    PROVE  F!Allowance'
<1> DEFINE busy == IF processing THEN 1 ELSE 0
           ahead == Cardinality(F!Ahead)
<1>q. queue \in Seq(FlowHandlers) /\ reading \in Nat /\ allowed \in Int
  BY DEF F!TypeOK, FlowHandlers
<1>d. DOMAIN queue = 1 .. Len(queue) /\ Len(queue) \in Nat
  BY <1>q
<1>h. "pause" \in FlowHandlers /\ "resume" \in FlowHandlers /\ "read" \in FlowHandlers
  BY DEF FlowHandlers
<1>c. F!Cardinality(F!Ahead) = ahead /\ ahead \in Nat
  BY UnderWayCounts, SameCount
<1>c2. F!Cardinality(F!Ahead') = Cardinality(F!Ahead')
  BY SameCount
<1>l. ~want => /\ allowed >= 0
               /\ F!Queued("pause") => busy + ahead <= allowed
  BY <1>c DEF F!Allowance
<1>t. F!TypeOK' /\ F!LastCommand'
  BY TypeStep, LastStep
<1>1. CASE F!PauseReading
  <2>1. /\ queue' = Append(queue, "pause") /\ allowed' = F!UnderWay
        /\ processing' = processing
    BY <1>1 DEF F!PauseReading
  <2>2. /\ DOMAIN queue' = 1 .. Len(queue) + 1
        /\ \A k \in DOMAIN queue : queue'[k] = queue[k]
        /\ queue'[Len(queue) + 1] = "pause"
    BY <1>d, <1>h, <2>1, AppendKeeps
  <2>3. F!Starters' = F!Starters
    BY <1>d, <2>2 DEF F!Starters
  <2>4. F!Ahead' = F!Starters
    <3>1. \A i \in F!Starters :
             /\ Len(queue) + 1 \in DOMAIN queue'
             /\ Len(queue) + 1 > i /\ queue'[Len(queue) + 1] = "pause"
      BY <1>d, <2>2 DEF F!Starters
    <3> QED
      BY <2>3, <3>1 DEF F!Ahead
  <2>5. F!UnderWay = reading + busy + Cardinality(F!Starters)
        /\ Cardinality(F!Starters) \in Nat
    BY UnderWayCounts
  <2>6. F!Cardinality(F!Ahead') = Cardinality(F!Starters)
    BY <1>c2, <2>4
  <2> QED
    BY <1>q, <2>1, <2>5, <2>6 DEF F!Allowance
<1>2. CASE F!ResumeReading
  BY <1>2 DEF F!ResumeReading, F!Allowance
<1>3. CASE F!ReadCompletes
  <2>1. /\ queue' = Append(queue, "read")
        /\ UNCHANGED <<want, allowed, processing>>
    BY <1>3 DEF F!ReadCompletes
  <2>2. /\ DOMAIN queue' = 1 .. Len(queue) + 1
        /\ \A k \in DOMAIN queue : queue'[k] = queue[k]
        /\ queue'[Len(queue) + 1] = "read"
    BY <1>d, <1>h, <2>1, AppendKeeps
  <2>3. \A j \in DOMAIN queue' :
           queue'[j] = "pause" => j \in DOMAIN queue /\ queue[j] = "pause"
    BY <1>d, <2>2
  <2>4. F!Queued("pause")' => F!Queued("pause")
    BY <2>3 DEF F!Queued
  <2>5. F!Ahead' = F!Ahead
    <3>1. \A i \in F!Ahead' : i \in F!Ahead
      BY <1>d, <2>2, <2>3 DEF F!Ahead, F!Starters
    <3>2. \A i \in F!Ahead : i \in F!Ahead'
      BY <1>d, <2>2 DEF F!Ahead, F!Starters
    <3> QED
      BY <3>1, <3>2
  <2> QED
    BY <2>1, <2>4, <2>5 DEF F!Allowance
<1>4. CASE F!HandlePause
  <2>1. F!Run("pause") /\ UNCHANGED <<want, allowed, processing>>
    BY <1>4 DEF F!HandlePause
  <2>2. /\ F!Queued("pause")' => F!Queued("pause")
        /\ Cardinality(F!Ahead') \in Nat /\ Cardinality(F!Ahead') <= ahead
    BY <2>1, AheadShrinks
  <2> QED
    BY <1>c, <1>c2, <1>l, <1>q, <2>1, <2>2 DEF F!Allowance
<1>5. CASE F!HandleResume
  <2>1. /\ F!Run("resume") /\ m_read_flag' /\ want' = want
        /\ processing' = processing
        /\ allowed' = IF want THEN 0 ELSE allowed - 1
    BY <1>5 DEF F!HandleResume, F!ReadFrame
  <2>2. SUFFICES ASSUME ~want PROVE F!Allowance'
    BY <2>1 DEF F!Allowance
  <2>3. 1 \in DOMAIN queue /\ queue[1] = "resume" /\ ~processing
    BY <1>d, <1>q, <2>1, AheadShrinks
  <2>4. F!Queued("pause")
    BY <2>2, <2>3, PauseWaits
  <2>5. Cardinality(F!Ahead') \in Nat /\ Cardinality(F!Ahead') + 1 <= ahead
    BY <2>1, <2>4, AheadShrinks
  <2>6. ahead <= allowed
    BY <1>c, <1>l, <1>q, <2>2, <2>3, <2>4
  <2>7. Cardinality(F!Ahead') <= allowed' /\ allowed' >= 0
    BY <1>c, <1>q, <2>1, <2>2, <2>5, <2>6
  <2> QED
    BY <1>c2, <2>1, <2>3, <2>5, <2>7 DEF F!Allowance
<1>6. CASE F!HandleRead
  <2>1. F!Run("read") /\ processing' /\ UNCHANGED <<want, allowed>>
    BY <1>6 DEF F!HandleRead
  <2>2. SUFFICES ASSUME ~want PROVE F!Allowance'
    BY <2>1 DEF F!Allowance
  <2>3. ASSUME F!Queued("pause")'
        PROVE  1 + Cardinality(F!Ahead') <= allowed
    <3>1. F!Queued("pause") /\ ~processing
      BY <2>1, <2>3, AheadShrinks
    <3>2. Cardinality(F!Ahead') \in Nat /\ Cardinality(F!Ahead') + 1 <= ahead
      BY <2>1, <3>1, AheadShrinks
    <3>3. ahead <= allowed
      BY <1>c, <1>l, <1>q, <2>2, <3>1
    <3> QED
      BY <1>c, <1>q, <3>2, <3>3
  <2> QED
    BY <1>c2, <1>l, <2>1, <2>2, <2>3 DEF F!Allowance
<1>7. CASE F!FinishRead
  <2>1. /\ processing /\ ~processing' /\ UNCHANGED <<queue, want>>
        /\ allowed' = IF m_read_flag /\ ~want THEN allowed - 1
                      ELSE IF m_read_flag THEN 0 ELSE allowed
    BY <1>7 DEF F!FinishRead, F!ReadFrame
  <2>2. F!Ahead' = F!Ahead /\ F!Queued("pause")' = F!Queued("pause")
    BY <2>1 DEF F!Ahead, F!Starters, F!Queued
  <2>3. SUFFICES ASSUME ~want PROVE F!Allowance'
    BY <2>1 DEF F!Allowance
  <2>4. F!Queued("pause") => 1 + ahead <= allowed
    BY <1>l, <2>1, <2>3
  <2>5. m_read_flag => F!Queued("pause")
    <3>1. m_read_flag => \E i \in DOMAIN queue : queue[i] # "read"
      BY <2>3 DEF F!LastCommand
    <3> QED
      BY <2>3, <3>1, PauseWaits
  <2>6. /\ allowed' >= 0
        /\ F!Queued("pause") => ahead <= allowed'
    BY <1>c, <1>l, <1>q, <2>1, <2>3, <2>4, <2>5
  <2> QED
    BY <1>c, <2>1, <2>2, <2>6 DEF F!Allowance
<1>8. CASE F!AbandonRead
  <2>1. processing /\ ~processing' /\ UNCHANGED <<queue, want, allowed>>
    BY <1>8 DEF F!AbandonRead
  <2>2. F!Ahead' = F!Ahead /\ F!Queued("pause")' = F!Queued("pause")
    BY <2>1 DEF F!Ahead, F!Starters, F!Queued
  <2> QED
    BY <1>c, <1>l, <1>q, <2>1, <2>2 DEF F!Allowance
<1>9. CASE UNCHANGED F!vars
  BY <1>9 DEF F!vars, F!Allowance, F!Ahead, F!Starters, F!Queued
<1> QED
  BY <1>1, <1>2, <1>3, <1>4, <1>5, <1>6, <1>7, <1>8, <1>9 DEF F!Next

-----------------------------------------------------------------------------
LEMMA FlowInit ==
    ASSUME F!BoundsAssumption
    PROVE  F!Init => F!FlowInv
<1> SUFFICES ASSUME F!Init PROVE F!FlowInv
  OBVIOUS
<1>1. F!TypeOK
  <2>1. one_thread \in BOOLEAN
    BY DEF F!Init, F!BoundsAssumption
  <2>2. want \in BOOLEAN /\ m_read_flag \in BOOLEAN
    BY DEF F!Init
  <2>3. processing \in BOOLEAN /\ ended \in BOOLEAN
    BY DEF F!Init
  <2>4. queue \in Seq({"pause", "resume", "read"})
    BY DEF F!Init
  <2>5. /\ reading \in Nat /\ pauses \in Nat /\ completed \in Nat
        /\ allowed \in Int
    BY DEF F!Init
  <2> QED
    BY <2>1, <2>2, <2>3, <2>4, <2>5 DEF F!TypeOK
<1>2. DOMAIN queue = {}
  BY DEF F!Init
<1> QED
  BY <1>1, <1>2 DEF F!Init, F!FlowInv, F!NeverStalls, F!LastCommand, F!Allowance

LEMMA FlowStep == F!FlowInv /\ [F!Next]_(F!vars) => F!FlowInv'
<1> SUFFICES ASSUME F!FlowInv, [F!Next]_(F!vars) PROVE F!FlowInv'
  OBVIOUS
<1>1. one_thread' = one_thread
  BY DEF F!Next, F!vars, F!PauseReading, F!ResumeReading, F!ReadCompletes, F!HandlePause,
         F!HandleResume, F!HandleRead, F!FinishRead, F!AbandonRead
<1>2. F!TypeOK' /\ F!NeverStalls'
  BY TypeStep, StallStep DEF F!FlowInv
<1>3. one_thread => F!LastCommand'
  BY LastStep DEF F!FlowInv
<1>4. one_thread => F!Allowance'
  BY AllowanceStep DEF F!FlowInv
<1> QED
  BY <1>1, <1>2, <1>3, <1>4 DEF F!FlowInv

LEMMA CommandsDone == F!LastCommand => (queue = <<>> => (m_read_flag <=> want))
<1>1. queue = <<>> => DOMAIN queue = {}
  OBVIOUS
<1> QED
  BY <1>1 DEF F!LastCommand

LEMMA PauseBounded == F!FlowInv => F!PauseTakesEffect
BY DEF F!FlowInv, F!Allowance, F!PauseTakesEffect

\* A connection that is not paused never stops reading, whatever threads call
\* pause_reading and resume_reading and however often: whoever ends a read,
\* handle_read_frame or handle_resume_reading, starts the next one.
THEOREM NeverStallsAlways == ASSUME F!BoundsAssumption PROVE F!Spec => []F!NeverStalls
<1>1. F!FlowInv => F!NeverStalls
  BY DEF F!FlowInv
<1> QED
  BY <1>1, FlowInit, FlowStep, PTL DEF F!Spec

\* With one thread the last call of pause_reading or resume_reading decides
\* whether the connection is paused once the strand has run everything.
THEOREM LastCallWinsAlways ==
    ASSUME F!BoundsAssumption PROVE F!Spec => []F!LastCallWins
<1>1. F!FlowInv => F!LastCallWins
  BY CommandsDone DEF F!FlowInv, F!LastCallWins
<1> QED
  BY <1>1, FlowInit, FlowStep, PTL DEF F!Spec

\* With one thread pause_reading stops the reads: those that are started after
\* it are no more than the reads, and the calls of resume_reading, that were
\* under way when it was called.
THEOREM PauseTakesEffectAlways ==
    ASSUME F!BoundsAssumption PROVE F!Spec => []F!PauseTakesEffect
<1> QED
  BY PauseBounded, FlowInit, FlowStep, PTL DEF F!Spec

-----------------------------------------------------------------------------
(***************************************************************************)
(* The iostream transport (IostreamTransport) loses no byte and leaves     *)
(* none behind, for any sizes of buffers, reads and supplies.              *)
(***************************************************************************)

LEMMA ReadInit == I!Init => I!ReadInv
<1> SUFFICES ASSUME I!Init PROVE I!ReadInv
  OBVIOUS
<1>1. call \in [kind : {"none", "some", "all", "stream"}, left : Nat,
                more : BOOLEAN]
  BY DEF I!Init, I!NoCall
<1>2. call.kind = "none" /\ handler.n = 0
  BY DEF I!Init, I!NoCall, I!NoHandler
<1>3. m_reading = FALSE
  BY DEF I!Init
<1>4. {m_len, m_bytes_needed, m_cursor, taken, delivered} \subseteq Nat
  BY DEF I!Init
<1>5. I!BytesAccounted
  BY <1>2, <1>3 DEF I!Init, I!BytesAccounted
<1> QED
  BY <1>1, <1>2, <1>3, <1>4, <1>5 DEF I!ReadInv

\* What fits is no more than what the call has left, or than the buffer's room.
LEMMA RoomBounds ==
    ASSUME I!ReadInv, m_reading
    PROVE  /\ I!Room \in Nat
           /\ I!Room <= call.left /\ m_cursor + I!Room <= m_len
           /\ I!Room = call.left \/ m_cursor + I!Room = m_len
BY DEF I!ReadInv, I!BytesAccounted, I!Room, I!LessOf

\* A round of a call keeps count of the bytes, whether or not it completes the
\* read, and is the last one only if nothing is left.
LEMMA CopyStep ==
    ASSUME I!ReadInv, I!Copy
    PROVE  I!ReadInv'
<1>1. m_reading /\ handler = I!NoHandler
  BY DEF I!Copy
<1>2. /\ {m_len, m_bytes_needed, m_cursor, taken, delivered} \subseteq Nat
      /\ call \in [kind : {"none", "some", "all", "stream"}, left : Nat,
                   more : BOOLEAN]
      /\ taken = delivered + m_cursor
      /\ m_cursor < m_bytes_needed /\ m_bytes_needed <= m_len
  BY <1>1 DEF I!ReadInv, I!BytesAccounted
<1>3. /\ I!Room \in Nat
      /\ I!Room <= call.left /\ m_cursor + I!Room <= m_len
      /\ I!Room = call.left \/ m_cursor + I!Room = m_len
  BY <1>1, RoomBounds
<1>4. I!GoesRound \in BOOLEAN
  BY DEF I!GoesRound
<1>5. /\ call' \in [kind : {"none", "some", "all", "stream"}, left : Nat,
                    more : BOOLEAN]
      /\ call'.kind = call.kind /\ call'.left = call.left - I!Room
      /\ call'.more = I!GoesRound
  <2>1. call' = [kind |-> call.kind, left |-> call.left - I!Room,
                 more |-> I!GoesRound]
    BY <1>2 DEF I!Copy
  <2>2. call.left - I!Room \in Nat
    BY <1>2, <1>3
  <2> QED
    BY <1>2, <1>4, <2>1, <2>2
<1>6. call'.kind \in {"all", "stream"} /\ ~call'.more => call'.left = 0
  <2>1. CASE call.kind = "all" /\ ~I!GoesRound
    BY <1>2, <1>3, <1>5, <2>1 DEF I!GoesRound
  <2>2. CASE call.kind = "stream" /\ ~I!GoesRound
    BY <1>2, <1>3, <1>5, <2>2 DEF I!GoesRound
  <2> QED
    BY <1>5, <2>1, <2>2
<1>7. /\ m_cursor' = m_cursor + I!Room /\ taken' = taken + I!Room
      /\ UNCHANGED <<m_len, m_bytes_needed>>
  BY DEF I!Copy
<1>8. CASE m_cursor' >= m_bytes_needed
  <2>1. /\ m_reading' = FALSE /\ handler' = [ec |-> "ok", n |-> m_cursor']
        /\ delivered' = delivered + m_cursor'
    BY <1>8 DEF I!Copy, I!Complete, I!CompleteRead
  <2>2. handler'.n = m_cursor' /\ handler'.n \in m_bytes_needed' .. m_len'
    BY <1>2, <1>3, <1>7, <1>8, <2>1
  <2>3. taken' = delivered' + 0
    BY <1>2, <1>3, <1>7, <2>1
  <2>4. I!BytesAccounted'
    BY <2>1, <2>2, <2>3, <1>2, <1>3, <1>7 DEF I!BytesAccounted
  <2>5. {m_len, m_bytes_needed, m_cursor, taken, delivered}' \subseteq Nat
    BY <1>2, <1>3, <1>7, <2>1
  <2> QED
    BY <1>2, <1>3, <1>5, <1>6, <1>7, <2>1, <2>2, <2>4, <2>5 DEF I!ReadInv
<1>9. CASE ~(m_cursor' >= m_bytes_needed)
  <2>1. UNCHANGED <<m_reading, handler, delivered>>
    BY <1>9 DEF I!Copy, I!Complete
  <2>2. I!BytesAccounted'
    BY <1>1, <1>2, <1>3, <1>7, <1>9, <2>1 DEF I!BytesAccounted, I!NoHandler
  <2>3. {m_len, m_bytes_needed, m_cursor, taken, delivered}' \subseteq Nat
    BY <1>2, <1>3, <1>7, <2>1
  <2> QED
    BY <1>1, <1>2, <1>5, <1>6, <1>7, <2>1, <2>2, <2>3 DEF I!ReadInv, I!NoHandler
<1> QED
  BY <1>8, <1>9

\* A read that the library asks for is refused and changes nothing, or starts
\* with an empty buffer when no other one was in progress.
LEMMA AsksStep ==
    ASSUME I!SizesAssumption, I!ReadInv, I!LibraryReads
    PROVE  I!ReadInv'
<1>1. PICK len \in Lengths, num \in Lengths \cup {0} : I!AsyncReadAtLeast(num, len)
  BY DEF I!LibraryReads
<1>2. len \in Nat /\ num \in Nat
  BY DEF I!SizesAssumption
<1>3. UNCHANGED <<call, taken, delivered>>
  BY DEF I!LibraryReads
<1>4. CASE /\ handler'.n = 0 /\ UNCHANGED I!readVars
  <2>1. UNCHANGED <<m_reading, m_len, m_bytes_needed, m_cursor>>
    BY <1>4 DEF I!readVars
  <2>2. I!BytesAccounted'
    BY <1>3, <1>4, <2>1 DEF I!BytesAccounted, I!ReadInv
  <2> QED
    BY <1>3, <1>4, <2>1, <2>2 DEF I!ReadInv
<1>5. CASE /\ ~(num > len \/ m_reading \/ num = 0)
           /\ m_reading' = TRUE /\ m_len' = len /\ m_bytes_needed' = num
           /\ m_cursor' = 0
           /\ handler' = I!NoHandler
  <2>1. taken = delivered /\ 0 < num /\ num <= len
    BY <1>2, <1>5 DEF I!ReadInv, I!BytesAccounted
  <2>2. I!BytesAccounted'
    BY <1>2, <1>3, <1>5, <2>1 DEF I!BytesAccounted, I!NoHandler, I!ReadInv
  <2> QED
    BY <1>2, <1>3, <1>5, <2>2 DEF I!ReadInv, I!NoHandler
<1>6. CASE \/ num > len
           \/ m_reading
           \/ num = 0
  <2>1. handler'.n = 0 /\ UNCHANGED I!readVars
    BY <1>1, <1>6 DEF I!AsyncReadAtLeast
  <2> QED
    BY <1>4, <2>1
<1>7. CASE ~(num > len \/ m_reading \/ num = 0)
  BY <1>1, <1>5, <1>7 DEF I!AsyncReadAtLeast
<1> QED
  BY <1>6, <1>7

LEMMA ReadStep ==
    ASSUME I!SizesAssumption, I!ReadInv, [I!Next]_(I!vars)
    PROVE  I!ReadInv'
<1>1. CASE I!LibraryReads
  BY <1>1, AsksStep
<1>2. CASE I!HandlerReturns
  <2>1. handler' = I!NoHandler
    BY <1>2 DEF I!HandlerReturns
  <2>2. UNCHANGED <<I!readVars, call, taken, delivered>>
    BY <1>2 DEF I!HandlerReturns
  <2> QED
    BY <2>1, <2>2 DEF I!readVars, I!ReadInv, I!BytesAccounted, I!NoHandler
<1>3. ASSUME NEW n \in Supplies, NEW kind \in {"some", "all", "stream"},
             I!Supply(kind, n)
      PROVE  I!ReadInv'
  <2>1. call' \in [kind : {"none", "some", "all", "stream"}, left : Nat,
                   more : BOOLEAN]
    BY <1>3 DEF I!Supply, I!SizesAssumption
  <2>2. call'.more = TRUE
    BY <1>3 DEF I!Supply
  <2>3. UNCHANGED <<I!readVars, handler, taken, delivered>>
    BY <1>3 DEF I!Supply
  <2> QED
    BY <2>1, <2>2, <2>3 DEF I!readVars, I!ReadInv, I!BytesAccounted
<1>4. CASE I!Copy
  BY <1>4, CopyStep
<1>5. CASE I!Return
  <2>1. /\ call' \in [kind : {"none", "some", "all", "stream"}, left : Nat,
                      more : BOOLEAN]
        /\ call'.kind = "none"
    BY <1>5 DEF I!Return, I!NoCall
  <2>2. UNCHANGED <<I!readVars, handler, taken, delivered>>
    BY <1>5 DEF I!Return
  <2> QED
    BY <2>1, <2>2 DEF I!readVars, I!ReadInv, I!BytesAccounted
<1>6. CASE I!Ends
  <2>1. PICK ec \in {"eof", "pass_through"} : I!CompleteRead(ec, m_cursor)
    BY <1>6 DEF I!Ends
  <2>2. /\ m_reading' = FALSE /\ handler'.ec # "ok" /\ handler'.n = m_cursor
        /\ delivered' = delivered + m_cursor
    BY <2>1 DEF I!CompleteRead
  <2>3. m_reading /\ UNCHANGED <<m_len, m_bytes_needed, m_cursor, call, taken>>
    BY <1>6 DEF I!Ends
  <2>4. /\ taken' = delivered' /\ delivered' \in Nat
        /\ handler'.n \in Nat
    BY <2>2, <2>3 DEF I!ReadInv, I!BytesAccounted
  <2>5. I!BytesAccounted'
    BY <2>2, <2>3, <2>4 DEF I!ReadInv, I!BytesAccounted
  <2> QED
    BY <2>2, <2>3, <2>4, <2>5 DEF I!ReadInv
<1>7. ASSUME NEW n \in 1 .. MaxBuffers, I!AsyncWrite(n)
      PROVE  I!ReadInv'
  <2>1. UNCHANGED <<I!readVars, call, handler, taken, delivered>>
    BY <1>7 DEF I!AsyncWrite
  <2> QED
    BY <2>1 DEF I!readVars, I!ReadInv, I!BytesAccounted
<1>8. CASE UNCHANGED I!vars
  BY <1>8 DEF I!vars, I!readVars, I!ReadInv, I!BytesAccounted
<1> QED
  BY <1>1, <1>2, <1>3, <1>4, <1>5, <1>6, <1>7, <1>8 DEF I!Next

\* Only a call that goes round no more, or finds no read in progress, returns.
LEMMA ReturnStep ==
    ASSUME I!ReadInv, [I!Next]_(I!vars),
           call.kind \in {"all", "stream"}, call' = I!NoCall
    PROVE  ~m_reading \/ call.left = 0
<1>1. call # I!NoCall /\ call'.kind = "none"
  BY DEF I!NoCall
<1>2. CASE I!Return
  BY <1>2 DEF I!Return, I!ReadInv
<1>3. CASE I!Copy
  <2>1. call'.kind = call.kind
    BY <1>3 DEF I!Copy, I!ReadInv
  <2> QED
    BY <1>1, <2>1
<1>4. ASSUME NEW n \in Supplies, NEW kind \in {"some", "all", "stream"},
             I!Supply(kind, n)
      PROVE  FALSE
  BY <1>1, <1>4 DEF I!Supply
<1>5. CASE I!LibraryReads \/ I!HandlerReturns \/ I!Ends
  BY <1>1, <1>5 DEF I!LibraryReads, I!HandlerReturns, I!Ends
<1>6. ASSUME NEW n \in 1 .. MaxBuffers, I!AsyncWrite(n)
      PROVE  FALSE
  BY <1>1, <1>6 DEF I!AsyncWrite
<1>7. CASE UNCHANGED I!vars
  BY <1>1, <1>7 DEF I!vars
<1> QED
  BY <1>2, <1>3, <1>4, <1>5, <1>6, <1>7 DEF I!Next

\* Every byte that read_some, read_all or operator>> took is in the buffer of
\* the read in progress or was given to a handler, for buffers, reads and
\* supplies of any size; a read that succeeds has what was asked for and does
\* not overrun its buffer.
THEOREM BytesAccountedAlways == ASSUME I!SizesAssumption PROVE I!Spec => []I!BytesAccounted
<1>1. I!ReadInv => I!BytesAccounted
  BY DEF I!ReadInv
<1>2. I!ReadInv /\ [I!Next]_(I!vars) => I!ReadInv'
  BY ReadStep
<1> QED
  BY <1>1, <1>2, ReadInit, PTL DEF I!Spec

\* read_all and operator>> return only when the library asks for no more bytes
\* or has been given all of them, even if the handlers that they call start
\* further reads.
THEOREM ReadsAllAlways == ASSUME I!SizesAssumption PROVE I!Spec => I!ReadsAll
<1>1. I!ReadInv /\ [I!Next]_(I!vars) =>
         [call.kind \in {"all", "stream"} /\ call' = I!NoCall
            => ~m_reading \/ call.left = 0]_(I!vars)
  BY ReturnStep
<1>2. I!ReadInv /\ [I!Next]_(I!vars) => I!ReadInv'
  BY ReadStep
<1> QED
  BY <1>1, <1>2, ReadInit, PTL DEF I!Spec, I!ReadsAll

-----------------------------------------------------------------------------
(***************************************************************************)
(* The accept loop (Endpoint) goes on while the server listens and leaves  *)
(* no connection behind that was neither started nor terminated; it is     *)
(* one, if the application lets a loop end before it listens again.        *)
(***************************************************************************)

\* The loop is under way: an accept, or a thread that is about to start one.
Looping ==
    \/ \E s \in Slots : con[s] \in {"accepted", "canceled", "refused", "waiting"}
    \/ \E t \in E!Threads : pc[t].at \in {"start_accept", "async_accept"}

\* LoopLives without the set of slots.
LEMMA LivesMeans ==
    E!LoopLives <=>
       /\ m_state = "LISTENING" /\ looping => Looping
       /\ \A s \in Slots : con[s] = "created" => \E t \in E!Threads : pc[t].con = s
BY DEF E!LoopLives, Looping, E!Accepting, E!Queued, E!Starting

LEMMA LivesMeansNext ==
    E!LoopLives' <=>
       /\ m_state' = "LISTENING" /\ looping' => Looping'
       /\ \A s \in Slots : con'[s] = "created" => \E t \in E!Threads : pc'[t].con = s
BY DEF E!LoopLives, Looping, E!Accepting, E!Queued, E!Starting

ConKinds == {"none", "created", "waiting", "accepted", "canceled", "refused",
          "connecting", "started"}
Places == [at : {"idle", "stop", "start_accept", "async_accept"},
           con : Slots \cup {NoSlot}]

\* LoopInv with the names of this module.
LEMMA InvMeans ==
    E!LoopInv <=>
       /\ con \in [Slots -> ConKinds]
       /\ pc \in [E!Threads -> Places]
       /\ \A t \in E!Threads : (pc[t].at = "async_accept") <=> (pc[t].con \in Slots)
       /\ m_state = "LISTENING" /\ looping => Looping
       /\ \A s \in Slots : con[s] = "created" => \E t \in E!Threads : pc[t].con = s
BY LivesMeans DEF E!LoopInv, ConKinds, Places

LEMMA InvMeansNext ==
    E!LoopInv' <=>
       /\ con' \in [Slots -> ConKinds]
       /\ pc' \in [E!Threads -> Places]
       /\ \A t \in E!Threads :
             (pc'[t].at = "async_accept") <=> (pc'[t].con \in Slots)
       /\ m_state' = "LISTENING" /\ looping' => Looping'
       /\ \A s \in Slots : con'[s] = "created" => \E t \in E!Threads : pc'[t].con = s
BY LivesMeansNext DEF E!LoopInv, ConKinds, Places

-----------------------------------------------------------------------------
LEMMA LoopInit == ASSUME E!EndpointAssumption PROVE E!Init => E!LoopInv
<1> SUFFICES ASSUME E!Init PROVE E!LoopInv
  OBVIOUS
<1>1. con \in [Slots -> ConKinds]
  BY DEF E!Init, ConKinds
<1>2. pc \in [E!Threads -> Places]
  BY DEF E!Init, Places
<1>3. \A t \in E!Threads : pc[t].at = "idle" /\ pc[t].con = NoSlot
  BY DEF E!Init
<1>4. m_state # "LISTENING" /\ \A s \in Slots : con[s] # "created"
  BY DEF E!Init
<1> QED
  BY <1>1, <1>2, <1>3, <1>4, InvMeans DEF E!EndpointAssumption

\* A step that leaves the threads alone and changes one connection that no
\* accept is concerned with.
LEMMA OtherConnection ==
    ASSUME E!LoopInv, NEW s \in Slots, NEW k \in {"none", "connecting", "started"},
           con[s] \in {"none", "connecting", "started"},
           con' = [con EXCEPT ![s] = k],
           UNCHANGED <<m_state, looping, pc>>
    PROVE  E!LoopInv'
<1>1. con \in [Slots -> ConKinds] /\ k \in ConKinds
  BY InvMeans DEF ConKinds
<1>2. con' \in [Slots -> ConKinds]
  BY <1>1
<1>3. \A r \in Slots : con'[r] = IF r = s THEN k ELSE con[r]
  BY <1>1
<1>4. Looping => Looping'
  BY <1>3 DEF Looping
<1>5. \A r \in Slots : con'[r] = "created" => con[r] = "created"
  BY <1>3
<1> QED
  BY <1>2, <1>4, <1>5, InvMeans, InvMeansNext

\* A step that touches neither connections nor threads, and does not begin to
\* listen or to loop.
LEMMA NotTheLoop ==
    ASSUME E!LoopInv, UNCHANGED <<con, pc>>,
           m_state' = "LISTENING" /\ looping' => m_state = "LISTENING" /\ looping
    PROVE  E!LoopInv'
<1>1. Looping' <=> Looping
  BY DEF Looping
<1> QED
  BY <1>1, InvMeans, InvMeansNext

\* The application opens and closes the acceptor.
LEMMA AppStep ==
    ASSUME E!EndpointAssumption, E!LoopInv,
           \/ E!InitAsio \/ E!Listen \/ E!StopListening \/ E!StopListeningState
           \/ E!StartAccept
    PROVE  E!LoopInv'
<1>p. pc \in [E!Threads -> Places] /\ con \in [Slots -> ConKinds]
      /\ \A t \in E!Threads : (pc[t].at = "async_accept") <=> (pc[t].con \in Slots)
  BY InvMeans
<1>t. "app" \in E!Threads /\ "io" \in E!Threads
  BY DEF E!Threads
<1>n. NoSlot \notin Slots
  BY DEF E!EndpointAssumption
<1>g. ASSUME NEW at \in {"idle", "stop", "start_accept"}, E!Goes("app", at, NoSlot),
             pc["app"].at # "async_accept"
      PROVE  /\ pc' \in [E!Threads -> Places]
             /\ \A t \in E!Threads :
                   (pc'[t].at = "async_accept") <=> (pc'[t].con \in Slots)
             /\ pc'["app"].at = at
             /\ pc'["io"] = pc["io"]
             /\ \A s \in Slots :
                   (\E t \in E!Threads : pc[t].con = s)
                   => \E t \in E!Threads : pc'[t].con = s
  <2>1. [at |-> at, con |-> NoSlot] \in Places
    BY DEF Places
  <2>2. pc' = [pc EXCEPT !["app"] = [at |-> at, con |-> NoSlot]]
    BY <1>g DEF E!Goes
  <2>3. pc' \in [E!Threads -> Places]
    BY <1>p, <2>1, <2>2
  <2>4. /\ pc'["app"].at = at /\ pc'["app"].con = NoSlot
        /\ pc'["io"] = pc["io"]
    BY <1>p, <1>t, <2>2 DEF E!Threads
  <2>5. pc["app"].con \notin Slots
    BY <1>p, <1>t, <1>g
  <2> QED
    BY <1>p, <1>n, <2>3, <2>4, <2>5 DEF E!Threads
<1>1. CASE E!InitAsio
  BY <1>1, NotTheLoop DEF E!InitAsio
<1>2. CASE E!Listen
  BY <1>2, NotTheLoop DEF E!Listen
<1>3. CASE E!StopListening
  <2>1. /\ m_state = "LISTENING" /\ looping' = looping /\ m_state' = m_state
        /\ pc["app"].at = "idle" /\ E!Goes("app", "stop", NoSlot)
        /\ con' = [s \in Slots |->
                     IF con[s] = "waiting" THEN "canceled" ELSE con[s]]
    BY <1>3 DEF E!StopListening, E!Doing
  <2>2. con' \in [Slots -> ConKinds]
    BY <1>p, <2>1 DEF ConKinds
  <2>3. Looping => Looping'
    BY <1>g, <2>1 DEF Looping, E!Threads
  <2>4. \A s \in Slots : con'[s] = "created" => con[s] = "created"
    BY <2>1
  <2> QED
    BY <1>g, <2>1, <2>2, <2>3, <2>4, InvMeans, InvMeansNext
<1>4. CASE E!StopListeningState
  <2>1. /\ m_state' = "READY" /\ con' = con
        /\ pc["app"].at = "stop" /\ E!Goes("app", "idle", NoSlot)
    BY <1>4 DEF E!StopListeningState, E!Doing, E!Idle
  <2> QED
    BY <1>g, <1>p, <2>1, InvMeans, InvMeansNext
<1>5. CASE E!StartAccept
  <2>1. /\ con' = con /\ ~looping /\ looping' = looping
        /\ pc["app"].at = "idle" /\ E!Goes("app", "start_accept", NoSlot)
    BY <1>5 DEF E!StartAccept, E!Doing
  <2> QED
    BY <1>g, <1>p, <2>1, InvMeans, InvMeansNext
<1> QED
  BY <1>1, <1>2, <1>3, <1>4, <1>5

\* Starting an accept: a connection is created, and given to the acceptor.
LEMMA AcceptStep ==
    ASSUME E!EndpointAssumption, E!LoopInv, NEW t \in E!Threads,
           E!CreateConnection(t) \/ E!AsyncAccept(t)
    PROVE  E!LoopInv'
<1>p. pc \in [E!Threads -> Places] /\ con \in [Slots -> ConKinds]
      /\ \A u \in E!Threads : (pc[u].at = "async_accept") <=> (pc[u].con \in Slots)
  BY InvMeans
<1>n. NoSlot \notin Slots
  BY DEF E!EndpointAssumption
<1>g. ASSUME NEW at \in {"idle", "async_accept"}, NEW c \in Slots \cup {NoSlot},
             E!Goes(t, at, c)
      PROVE  /\ pc' \in [E!Threads -> Places]
             /\ pc'[t].at = at /\ pc'[t].con = c
             /\ \A u \in E!Threads : u # t => pc'[u] = pc[u]
  <2>1. [at |-> at, con |-> c] \in Places
    BY DEF Places
  <2> QED
    BY <1>p, <1>g, <2>1 DEF E!Goes
<1>1. ASSUME E!Doing(t, "start_accept"), m_state = "LISTENING",
             NEW s \in Slots, con[s] = "none",
             con' = [con EXCEPT ![s] = "created"],
             E!Goes(t, "async_accept", s),
             m_state' = m_state
      PROVE  E!LoopInv'
  <2>1. /\ pc' \in [E!Threads -> Places]
        /\ pc'[t].at = "async_accept" /\ pc'[t].con = s
        /\ \A u \in E!Threads : u # t => pc'[u] = pc[u]
    BY <1>g, <1>1
  <2>2. con' \in [Slots -> ConKinds]
    BY <1>p, <1>1 DEF ConKinds
  <2>3. \A r \in Slots : con'[r] = "created" => r = s \/ con[r] = "created"
    BY <1>p, <1>1
  <2>4. pc[t].con \notin Slots
    BY <1>p, <1>1 DEF E!Doing
  <2>5. \A r \in Slots : con'[r] = "created" =>
           \E u \in E!Threads : pc'[u].con = r
    BY <2>1, <2>3, <2>4, InvMeans
  <2>6. Looping'
    BY <2>1 DEF Looping
  <2>7. \A u \in E!Threads : (pc'[u].at = "async_accept") <=> (pc'[u].con \in Slots)
    BY <1>p, <2>1
  <2> QED
    BY <2>1, <2>2, <2>5, <2>6, <2>7, InvMeansNext
<1>2. ASSUME E!Doing(t, "start_accept"), E!Idle(t), con' = con,
             ~(m_state' = "LISTENING" /\ looping')
      PROVE  E!LoopInv'
  <2>1. /\ pc' \in [E!Threads -> Places]
        /\ pc'[t].at = "idle" /\ pc'[t].con = NoSlot
        /\ \A u \in E!Threads : u # t => pc'[u] = pc[u]
    BY <1>g, <1>2 DEF E!Idle
  <2>2. pc[t].con \notin Slots
    BY <1>p, <1>2 DEF E!Doing
  <2>3. \A r \in Slots : con'[r] = "created" =>
           \E u \in E!Threads : pc'[u].con = r
    BY <1>2, <2>1, <2>2, InvMeans
  <2>4. \A u \in E!Threads : (pc'[u].at = "async_accept") <=> (pc'[u].con \in Slots)
    BY <1>p, <1>n, <2>1
  <2> QED
    BY <1>2, <1>p, <2>1, <2>3, <2>4, InvMeansNext
<1>3. CASE E!CreateConnection(t)
  <2>1. E!Doing(t, "start_accept") /\ m_state' = m_state
    BY <1>3 DEF E!CreateConnection
  <2>2. \/ /\ m_state = "LISTENING"
           /\ \E s \in Slots :
                 /\ con[s] = "none"
                 /\ con' = [con EXCEPT ![s] = "created"]
                 /\ E!Goes(t, "async_accept", s)
        \/ E!Idle(t) /\ con' = con /\ ~looping'
        \/ E!Idle(t) /\ con' = con /\ m_state # "LISTENING"
    BY <1>3 DEF E!CreateConnection
  <2> QED
    BY <1>1, <1>2, <2>1, <2>2
<1>4. CASE E!AsyncAccept(t)
  <2> DEFINE c == pc[t].con
             k == IF m_state # "LISTENING" THEN "none"
                  ELSE IF acceptor THEN "waiting" ELSE "refused"
  <2>1. /\ pc[t].at = "async_accept" /\ E!Goes(t, "idle", NoSlot)
        /\ con' = [con EXCEPT ![c] = k]
        /\ m_state' = m_state /\ looping' = looping
    BY <1>4 DEF E!AsyncAccept, E!Doing, E!Idle
  <2>2. c \in Slots
    BY <1>p, <2>1
  <2>3. k \in {"none", "waiting", "refused"}
    OBVIOUS
  <2>4. m_state = "LISTENING" => k \in {"waiting", "refused"}
    OBVIOUS
  <2> HIDE DEF k
  <2>5. con' \in [Slots -> ConKinds]
    BY <1>p, <2>1, <2>3 DEF ConKinds
  <2>6. \A r \in Slots : con'[r] = IF r = c THEN k ELSE con[r]
    BY <1>p, <2>1
  <2>7. /\ pc' \in [E!Threads -> Places]
        /\ pc'[t].at = "idle" /\ pc'[t].con = NoSlot
        /\ \A u \in E!Threads : u # t => pc'[u] = pc[u]
    BY <1>g, <2>1
  <2>8. \A r \in Slots : con'[r] = "created" =>
           \E u \in E!Threads : pc'[u].con = r
    BY <2>3, <2>6, <2>7, InvMeans
  <2>9. m_state' = "LISTENING" => Looping'
    BY <2>1, <2>2, <2>4, <2>6 DEF Looping
  <2>10. \A u \in E!Threads : (pc'[u].at = "async_accept") <=> (pc'[u].con \in Slots)
    BY <1>p, <1>n, <2>7
  <2> QED
    BY <2>5, <2>7, <2>8, <2>9, <2>10, InvMeansNext
<1> QED
  BY <1>3, <1>4

\* An accept is answered, and its handler runs.
LEMMA SlotStep ==
    ASSUME E!EndpointAssumption, E!LoopInv, NEW s \in Slots,
           E!Arrives(s) \/ E!HandleAccept(s)
    PROVE  E!LoopInv'
<1>p. pc \in [E!Threads -> Places] /\ con \in [Slots -> ConKinds]
      /\ \A u \in E!Threads : (pc[u].at = "async_accept") <=> (pc[u].con \in Slots)
  BY InvMeans
<1>n. NoSlot \notin Slots
  BY DEF E!EndpointAssumption
<1>1. CASE E!Arrives(s)
  <2>1. PICK k \in {"accepted", "refused"} : con' = [con EXCEPT ![s] = k]
    BY <1>1 DEF E!Arrives
  <2>2. UNCHANGED <<m_state, looping, pc>>
    BY <1>1 DEF E!Arrives
  <2>3. con' \in [Slots -> ConKinds]
    BY <1>p, <2>1 DEF ConKinds
  <2>4. \A r \in Slots : con'[r] = IF r = s THEN k ELSE con[r]
    BY <1>p, <2>1
  <2>5. Looping'
    BY <2>4 DEF Looping
  <2>6. \A r \in Slots : con'[r] = "created" => con[r] = "created"
    BY <2>4
  <2> QED
    BY <2>2, <2>3, <2>5, <2>6, InvMeans, InvMeansNext
<1>2. CASE E!HandleAccept(s)
  <2>1. PICK k \in {"started", "none"} : con' = [con EXCEPT ![s] = k]
    BY <1>2 DEF E!HandleAccept, E!StartOrTerminate
  <2>2. pc["io"].at = "idle" /\ E!Goes("io", "start_accept", NoSlot)
    BY <1>2 DEF E!HandleAccept, E!Runs, E!Doing
  <2>3. con' \in [Slots -> ConKinds]
    BY <1>p, <2>1 DEF ConKinds
  <2>4. \A r \in Slots : con'[r] = "created" => con[r] = "created"
    BY <1>p, <2>1
  <2>5. [at |-> "start_accept", con |-> NoSlot] \in Places
    BY DEF Places
  <2>6. /\ pc' \in [E!Threads -> Places]
        /\ pc'["io"].at = "start_accept" /\ pc'["io"].con = NoSlot
        /\ pc'["app"] = pc["app"]
    BY <1>p, <2>2, <2>5 DEF E!Goes, E!Threads
  <2>7. pc["io"].con \notin Slots
    BY <1>p, <2>2 DEF E!Threads
  <2>8. \A r \in Slots : con'[r] = "created" =>
           \E u \in E!Threads : pc'[u].con = r
    BY <2>4, <2>6, <2>7, InvMeans DEF E!Threads
  <2>9. Looping'
    BY <2>6 DEF Looping, E!Threads
  <2>10. \A u \in E!Threads : (pc'[u].at = "async_accept") <=> (pc'[u].con \in Slots)
    BY <1>p, <1>n, <2>6 DEF E!Threads
  <2> QED
    BY <2>3, <2>6, <2>8, <2>9, <2>10, InvMeansNext
<1> QED
  BY <1>1, <1>2

LEMMA LoopStep ==
    ASSUME E!EndpointAssumption, E!LoopInv, [E!Next]_(E!vars)
    PROVE  E!LoopInv'
<1>1. CASE \/ E!InitAsio \/ E!Listen \/ E!StopListening \/ E!StopListeningState
           \/ E!StartAccept
  BY <1>1, AppStep
<1>2. ASSUME NEW t \in E!Threads, E!CreateConnection(t) \/ E!AsyncAccept(t)
      PROVE  E!LoopInv'
  BY <1>2, AcceptStep
<1>3. ASSUME NEW s \in Slots, E!Arrives(s) \/ E!HandleAccept(s)
      PROVE  E!LoopInv'
  BY <1>3, SlotStep
<1>4. ASSUME NEW s \in Slots, E!Connect(s) PROVE E!LoopInv'
  BY <1>4, OtherConnection DEF E!Connect
<1>5. ASSUME NEW s \in Slots, E!HandleConnect(s) PROVE E!LoopInv'
  BY <1>5, OtherConnection DEF E!HandleConnect
<1>6. ASSUME NEW s \in Slots, E!ConnectionEnds(s) PROVE E!LoopInv'
  BY <1>6, OtherConnection DEF E!ConnectionEnds
<1>7. CASE E!Perpetual \/ E!Run \/ E!Stop \/ E!RunReturns
  BY <1>7, NotTheLoop DEF E!Perpetual, E!Run, E!Stop, E!RunReturns
<1>8. CASE UNCHANGED E!vars
  BY <1>8, NotTheLoop DEF E!vars
<1> QED
  BY <1>1, <1>2, <1>3, <1>4, <1>5, <1>6, <1>7, <1>8 DEF E!Next

\* The accept loop of a server goes on while the endpoint listens, unless a
\* connection could not be created: whatever error an accept meets, handle_accept
\* calls start_accept again; and every connection that was created is in the
\* hands of a thread that will start or terminate it.  Any number of
\* connections, of calls of listen(), stop_listening(), connect() and stop().
THEOREM LoopLivesAlways ==
    ASSUME E!EndpointAssumption PROVE E!Spec => []E!LoopLives
<1>1. E!LoopInv => E!LoopLives
  BY DEF E!LoopInv
<1>2. E!LoopInv /\ [E!Next]_(E!vars) => E!LoopInv'
  BY LoopStep
<1> QED
  BY <1>1, <1>2, LoopInit, PTL DEF E!Spec

-----------------------------------------------------------------------------
(***************************************************************************)
(* One loop.                                                               *)
(***************************************************************************)

\* Nobody has the token but the application, if it is about to start a loop.
Quiet ==
    /\ E!Accepting = {} /\ pc["io"].at # "start_accept"
    /\ \A t \in E!Threads : pc[t].at # "async_accept"

\* A step that makes no new accept and no thread start one.
LEMMA NoNewToken ==
    ASSUME E!OneLoopInv, E!Accepting' \subseteq E!Accepting, E!Starting' \subseteq E!Starting,
           Patient /\ m_state' = "LISTENING" /\ ~looping' => Quiet'
    PROVE  E!OneLoopInv'
BY DEF E!OneLoopInv, Quiet

\* A step that leaves the accepts and the threads alone, and does not begin to
\* listen without a loop unless nobody has the token.
LEMMA SameToken ==
    ASSUME E!OneLoopInv, E!Accepting' = E!Accepting, pc' = pc,
           \/ m_state' = m_state /\ looping' = looping
           \/ m_state' # "LISTENING"
           \/ Patient => Quiet
    PROVE  E!OneLoopInv'
<1>1. E!Starting' = E!Starting
  BY DEF E!Starting
<1>2. Quiet' <=> Quiet
  BY DEF Quiet
<1>3. Patient /\ m_state' = "LISTENING" /\ ~looping' => Quiet
  BY DEF E!OneLoopInv, Quiet
<1> QED
  BY <1>1, <1>2, <1>3, NoNewToken

LEMMA OneInit == E!Init => E!OneLoopInv
<1> SUFFICES ASSUME E!Init PROVE E!OneLoopInv
  OBVIOUS
<1>1. E!Accepting = {}
  BY DEF E!Init, E!Accepting, E!Queued
<1>2. E!Starting = {}
  BY DEF E!Init, E!Starting
<1>3. m_state # "LISTENING"
  BY DEF E!Init
<1> QED
  BY <1>1, <1>2, <1>3 DEF E!OneLoopInv

\* What a move of one thread does to the threads that start an accept.
LEMMA Move ==
    ASSUME pc \in [E!Threads -> Places], NEW t \in E!Threads, NEW at, NEW c,
           E!Goes(t, at, c)
    PROVE  /\ pc'[t].at = at
           /\ \A u \in E!Threads : u # t => pc'[u] = pc[u]
           /\ E!Starting' \subseteq E!Starting \cup {t}
           /\ at \in {"idle", "stop"} => E!Starting' \subseteq E!Starting \ {t}
<1>1. pc'[t].at = at /\ \A u \in E!Threads : u # t => pc'[u] = pc[u]
  BY DEF E!Goes
<1> QED
  BY <1>1 DEF E!Starting

\* The application opens and closes the acceptor, and starts the loop.
LEMMA OneAppStep ==
    ASSUME E!LoopInv, E!OneLoopInv,
           \/ E!InitAsio \/ E!Listen \/ E!StopListening \/ E!StopListeningState
           \/ E!StartAccept
    PROVE  E!OneLoopInv'
<1>p. pc \in [E!Threads -> Places] /\ con \in [Slots -> ConKinds]
  BY InvMeans
<1>t. "app" \in E!Threads /\ "io" \in E!Threads /\ E!Threads = {"app", "io"}
  BY DEF E!Threads
<1>1. CASE E!InitAsio
  <2>1. con' = con /\ pc' = pc /\ m_state' # "LISTENING"
    BY <1>1 DEF E!InitAsio
  <2>2. E!Accepting' = E!Accepting
    BY <2>1 DEF E!Accepting, E!Queued
  <2> QED
    BY <2>1, <2>2, SameToken
<1>2. CASE E!Listen
  <2>1. /\ con' = con /\ pc' = pc /\ pc["app"].at = "idle"
        /\ Patient => E!Accepting = {} /\ pc["io"].at = "idle"
    BY <1>2 DEF E!Listen, E!Doing
  <2>2. E!Accepting' = E!Accepting
    BY <2>1 DEF E!Accepting, E!Queued
  <2>3. Patient => Quiet
    BY <2>1, <1>t DEF Quiet
  <2> QED
    BY <2>1, <2>2, <2>3, SameToken
<1>3. CASE E!StopListening
  <2>1. /\ pc["app"].at = "idle" /\ E!Goes("app", "stop", NoSlot)
        /\ looping' = looping /\ m_state' = m_state
        /\ con' = [s \in Slots |->
                     IF con[s] = "waiting" THEN "canceled" ELSE con[s]]
    BY <1>3 DEF E!StopListening, E!Doing
  <2>2. \A s \in Slots : con'[s] \in {"accepted", "canceled", "refused", "waiting"}
                          => con[s] \in {"accepted", "canceled", "refused", "waiting"}
    BY <2>1
  <2>3. E!Accepting' \subseteq E!Accepting
    BY <2>2 DEF E!Accepting, E!Queued
  <2>4. /\ pc'["app"].at = "stop" /\ pc'["io"] = pc["io"]
        /\ E!Starting' \subseteq E!Starting
    BY <1>p, <1>t, <2>1, Move
  <2>5. Quiet => Quiet'
    BY <1>t, <2>3, <2>4 DEF Quiet
  <2> QED
    BY <2>1, <2>3, <2>4, <2>5, NoNewToken DEF E!OneLoopInv, Quiet
<1>4. CASE E!StopListeningState
  <2>1. con' = con /\ m_state' = "READY" /\ E!Goes("app", "idle", NoSlot)
    BY <1>4 DEF E!StopListeningState, E!Idle
  <2>2. E!Accepting' = E!Accepting
    BY <2>1 DEF E!Accepting, E!Queued
  <2>3. E!Starting' \subseteq E!Starting
    BY <1>p, <1>t, <2>1, Move
  <2> QED
    BY <2>1, <2>2, <2>3, NoNewToken
<1>5. CASE E!StartAccept
  <2>1. /\ con' = con /\ m_state = "LISTENING" /\ ~looping
        /\ pc["app"].at = "idle" /\ E!Goes("app", "start_accept", NoSlot)
    BY <1>5 DEF E!StartAccept, E!Doing
  <2>2. E!Accepting' = E!Accepting
    BY <2>1 DEF E!Accepting, E!Queued
  <2>3. Patient => Quiet
    BY <2>1 DEF E!OneLoopInv, Quiet
  <2>4. /\ pc'["app"].at = "start_accept" /\ pc'["io"] = pc["io"]
        /\ E!Starting' \subseteq E!Starting \cup {"app"}
    BY <1>p, <1>t, <2>1, Move
  <2>5. Quiet => E!Starting = {}
    BY <1>t, <2>1 DEF Quiet, E!Starting
  <2>6. Quiet => Quiet'
    BY <1>t, <2>2, <2>4 DEF Quiet
  <2> QED
    BY <2>2, <2>3, <2>4, <2>5, <2>6 DEF E!OneLoopInv, Quiet
<1> QED
  BY <1>1, <1>2, <1>3, <1>4, <1>5

\* Whoever starts an accept has the token, and hands it to the acceptor, or
\* ends the loop.
LEMMA OneAcceptStep ==
    ASSUME E!LoopInv, E!OneLoopInv, NEW t \in E!Threads,
           E!CreateConnection(t) \/ E!AsyncAccept(t)
    PROVE  E!OneLoopInv'
<1>p. pc \in [E!Threads -> Places] /\ con \in [Slots -> ConKinds]
      /\ \A u \in E!Threads : (pc[u].at = "async_accept") <=> (pc[u].con \in Slots)
  BY InvMeans
<1>t. "io" \in E!Threads
  BY DEF E!Threads
<1>s. t \in E!Starting
  BY DEF E!CreateConnection, E!AsyncAccept, E!Doing, E!Starting
<1>o. Patient => E!Accepting = {} /\ \A u \in E!Threads \ {t} : u \notin E!Starting
  BY <1>s DEF E!OneLoopInv
<1>1. ASSUME NEW s \in Slots, con[s] = "none",
             con' = [con EXCEPT ![s] = "created"],
             E!Goes(t, "async_accept", s), looping'
      PROVE  E!OneLoopInv'
  <2>1. \A r \in Slots : con'[r] = IF r = s THEN "created" ELSE con[r]
    BY <1>p, <1>1
  <2>2. E!Accepting' \subseteq E!Accepting
    BY <2>1 DEF E!Accepting, E!Queued
  <2>3. E!Starting' \subseteq E!Starting
    BY <1>p, <1>1, <1>s, Move
  <2> QED
    BY <1>1, <2>2, <2>3, NoNewToken
<1>2. ASSUME E!Idle(t), con' = con
      PROVE  E!OneLoopInv'
  <2>1. E!Accepting' = E!Accepting
    BY <1>2 DEF E!Accepting, E!Queued
  <2>2. E!Starting' \subseteq E!Starting \ {t} /\ pc'[t].at = "idle"
    BY <1>p, <1>2, Move DEF E!Idle
  <2>3. Patient => E!Starting' = {}
    BY <1>o, <2>2 DEF E!Starting
  <2>4. Patient => Quiet'
    BY <1>o, <1>t, <2>1, <2>3 DEF Quiet, E!Starting
  <2> QED
    BY <2>1, <2>2, <2>4, NoNewToken
<1>3. CASE E!CreateConnection(t)
  <2>1. \/ \E s \in Slots :
              /\ con[s] = "none"
              /\ con' = [con EXCEPT ![s] = "created"]
              /\ E!Goes(t, "async_accept", s)
              /\ looping'
        \/ E!Idle(t) /\ con' = con
    BY <1>3 DEF E!CreateConnection
  <2> QED
    BY <1>1, <1>2, <2>1
<1>4. CASE E!AsyncAccept(t)
  <2> DEFINE c == pc[t].con
             k == IF m_state # "LISTENING" THEN "none"
                  ELSE IF acceptor THEN "waiting" ELSE "refused"
  <2>1. /\ pc[t].at = "async_accept" /\ E!Goes(t, "idle", NoSlot)
        /\ con' = [con EXCEPT ![c] = k]
        /\ m_state' = m_state /\ looping' = looping
    BY <1>4 DEF E!AsyncAccept, E!Doing, E!Idle
  <2> HIDE DEF k
  <2>2. \A r \in Slots : r # c => con'[r] = con[r]
    BY <1>p, <2>1
  <2>3. E!Accepting' \subseteq E!Accepting \cup {c}
    BY <2>2 DEF E!Accepting, E!Queued
  <2>4. E!Starting' \subseteq E!Starting \ {t}
    BY <1>p, <2>1, Move
  <2>5. Patient => E!Starting' = {}
    BY <1>o, <2>4 DEF E!Starting
  <2>6. Patient => ~(m_state = "LISTENING" /\ ~looping)
    BY <2>1 DEF E!OneLoopInv
  <2> QED
    BY <1>o, <2>1, <2>3, <2>5, <2>6 DEF E!OneLoopInv
<1> QED
  BY <1>3, <1>4

\* An accept is answered, and its handler passes the token on.
LEMMA OneSlotStep ==
    ASSUME E!LoopInv, E!OneLoopInv, NEW s \in Slots,
           E!Arrives(s) \/ E!HandleAccept(s)
    PROVE  E!OneLoopInv'
<1>p. pc \in [E!Threads -> Places] /\ con \in [Slots -> ConKinds]
  BY InvMeans
<1>t. "io" \in E!Threads
  BY DEF E!Threads
<1>s. s \in E!Accepting
  BY DEF E!Arrives, E!HandleAccept, E!Accepting, E!Queued
<1>m. m_state' = m_state /\ looping' = looping
  BY DEF E!Arrives, E!HandleAccept
<1>o. Patient => /\ E!Accepting = {s} /\ E!Starting = {}
                 /\ ~(m_state = "LISTENING" /\ ~looping)
  BY <1>s DEF E!OneLoopInv
<1>1. CASE E!Arrives(s)
  <2>1. PICK k \in {"accepted", "refused"} : con' = [con EXCEPT ![s] = k]
    BY <1>1 DEF E!Arrives
  <2>2. pc' = pc
    BY <1>1 DEF E!Arrives
  <2>3. \A r \in Slots : r # s => con'[r] = con[r]
    BY <1>p, <2>1
  <2>4. E!Accepting' \subseteq E!Accepting
    BY <1>s, <2>3 DEF E!Accepting, E!Queued
  <2>5. E!Starting' \subseteq E!Starting
    BY <2>2 DEF E!Starting
  <2> QED
    BY <1>m, <1>o, <2>4, <2>5, NoNewToken
<1>2. CASE E!HandleAccept(s)
  <2>1. PICK k \in {"started", "none"} : con' = [con EXCEPT ![s] = k]
    BY <1>2 DEF E!HandleAccept, E!StartOrTerminate
  <2>2. E!Goes("io", "start_accept", NoSlot)
    BY <1>2 DEF E!HandleAccept
  <2>3. \A r \in Slots : con'[r] = IF r = s THEN k ELSE con[r]
    BY <1>p, <2>1
  <2>4. E!Accepting' \subseteq E!Accepting \ {s}
    BY <2>3 DEF E!Accepting, E!Queued
  <2>5. E!Starting' \subseteq E!Starting \cup {"io"}
    BY <1>p, <1>t, <2>2, Move
  <2> QED
    BY <1>m, <1>o, <2>4, <2>5 DEF E!OneLoopInv
<1> QED
  BY <1>1, <1>2

\* A step of a connection that no accept is concerned with.
LEMMA OneOther ==
    ASSUME E!LoopInv, E!OneLoopInv, NEW s \in Slots,
           NEW k \in {"none", "connecting", "started"},
           con' = [con EXCEPT ![s] = k], UNCHANGED <<m_state, looping, pc>>,
           con[s] \in {"none", "connecting", "started"}
    PROVE  E!OneLoopInv'
<1>1. con \in [Slots -> ConKinds]
  BY InvMeans
<1>2. \A r \in Slots : con'[r] = IF r = s THEN k ELSE con[r]
  BY <1>1
<1>3. E!Accepting' = E!Accepting
  BY <1>2 DEF E!Accepting, E!Queued
<1> QED
  BY <1>3, SameToken

LEMMA OneStep ==
    ASSUME E!LoopInv, E!OneLoopInv, [E!Next]_(E!vars)
    PROVE  E!OneLoopInv'
<1>1. CASE \/ E!InitAsio \/ E!Listen \/ E!StopListening \/ E!StopListeningState
           \/ E!StartAccept
  BY <1>1, OneAppStep
<1>2. ASSUME NEW t \in E!Threads, E!CreateConnection(t) \/ E!AsyncAccept(t)
      PROVE  E!OneLoopInv'
  BY <1>2, OneAcceptStep
<1>3. ASSUME NEW s \in Slots, E!Arrives(s) \/ E!HandleAccept(s)
      PROVE  E!OneLoopInv'
  BY <1>3, OneSlotStep
<1>4. ASSUME NEW s \in Slots, E!Connect(s) PROVE E!OneLoopInv'
  BY <1>4, OneOther DEF E!Connect
<1>5. ASSUME NEW s \in Slots, E!HandleConnect(s) PROVE E!OneLoopInv'
  BY <1>5, OneOther DEF E!HandleConnect
<1>6. ASSUME NEW s \in Slots, E!ConnectionEnds(s) PROVE E!OneLoopInv'
  BY <1>6, OneOther DEF E!ConnectionEnds
<1>7. ASSUME UNCHANGED <<m_state, looping, con, pc>> PROVE E!OneLoopInv'
  <2>1. E!Accepting' = E!Accepting
    BY <1>7 DEF E!Accepting, E!Queued
  <2> QED
    BY <1>7, <2>1, SameToken
<1>8. CASE E!Perpetual \/ E!Run \/ E!Stop \/ E!RunReturns
  BY <1>7, <1>8 DEF E!Perpetual, E!Run, E!Stop, E!RunReturns
<1>9. CASE UNCHANGED E!vars
  BY <1>7, <1>9 DEF E!vars
<1> QED
  BY <1>1, <1>2, <1>3, <1>4, <1>5, <1>6, <1>8, <1>9 DEF E!Next

\* The token as a count.
LEMMA AtMostOne ==
    ASSUME NEW S, \A x, y \in S : x = y
    PROVE  /\ Cardinality(S) \in {0, 1}
           /\ S = {} => Cardinality(S) = 0
<1>1. CASE S = {}
  BY <1>1, FS_EmptySet
<1>2. CASE S # {}
  <2>1. PICK x : x \in S
    BY <1>2
  <2>2. S = {x}
    BY <2>1
  <2> QED
    BY <1>2, <2>2, FS_Singleton
<1> QED
  BY <1>1, <1>2

\* The cardinality that Endpoint's instance takes from FiniteSets.
LEMMA SameCardinality == \A S : E!Cardinality(S) = Cardinality(S)
BY DEF E!Cardinality, Cardinality

LEMMA OneMeans == E!OneLoopInv => E!OneLoop
<1> SUFFICES ASSUME E!OneLoopInv, Patient
             PROVE  Cardinality(E!Accepting) + Cardinality(E!Starting) <= 1
  BY SameCardinality DEF E!OneLoop
<1>1. /\ \A s, r \in E!Accepting : s = r
      /\ \A t, u \in E!Starting : t = u
      /\ E!Accepting = {} \/ E!Starting = {}
  BY DEF E!OneLoopInv
<1>2. /\ Cardinality(E!Accepting) \in {0, 1}
      /\ E!Accepting = {} => Cardinality(E!Accepting) = 0
  BY <1>1, AtMostOne
<1>3. /\ Cardinality(E!Starting) \in {0, 1}
      /\ E!Starting = {} => Cardinality(E!Starting) = 0
  BY <1>1, AtMostOne
<1> QED
  BY <1>1, <1>2, <1>3

\* If the application waits for the loop to end before it listens again, the
\* endpoint has one accept loop: handle_accept hands the accept it ends to the
\* start_accept that follows, and stop_listening in between makes no second one.
THEOREM OneLoopAlways ==
    ASSUME E!EndpointAssumption PROVE E!Spec => []E!OneLoop
<1>1. E!LoopInv /\ E!OneLoopInv /\ [E!Next]_(E!vars) => (E!LoopInv /\ E!OneLoopInv)'
  BY LoopStep, OneStep
<1>2. E!Init => E!LoopInv /\ E!OneLoopInv
  BY LoopInit, OneInit
<1> QED
  BY <1>1, <1>2, OneMeans, PTL DEF E!Spec

-----------------------------------------------------------------------------
(***************************************************************************)
(* The pong timer (PingTimer): with one thread that pings, the application *)
(* hears of a pong timeout only if it is one.                              *)
(***************************************************************************)

OnePinger == \E p : Pingers = {p}

\* No timer was set.
LEMMA TimerInit == P!BoundsAssumption /\ P!Init => P!TimerInv
BY DEF P!BoundsAssumption, P!Init, P!TimerInv, P!Ids

\* Cancelling the stored timer excuses its ping, and leaves no timer armed.
LEMMA CancelKeeps ==
    ASSUME P!TimerInv, P!CancelStored
    PROVE  /\ ping_timer' \in [P!Ids -> {"unset", "armed", "due", "cancelled", "over"}]
           /\ excused' \subseteq P!Ids
           /\ \A i \in P!Ids :
                 /\ ping_timer'[i] # "armed"
                 /\ i > pings => ping_timer'[i] = "unset"
                 /\ ping_timer[i] = "unset" <=> ping_timer'[i] = "unset"
                 /\ i \in excused' => ping_timer'[i] \in {"cancelled", "over"}
                 /\ i \in reported => ping_timer'[i] = "over" /\ i \notin excused'
BY DEF P!TimerInv, P!CancelStored

\* Every step preserves the invariant.
LEMMA TimerStep ==
    ASSUME P!BoundsAssumption, OnePinger, P!TimerInv, [P!Next]_(P!vars)
    PROVE  P!TimerInv'
<1> USE DEF P!TimerInv
<1>1. ASSUME NEW t \in Pingers, P!PingStarts(t)
      PROVE  P!TimerInv'
  BY <1>1 DEF P!PingStarts, P!BoundsAssumption, OnePinger, P!Ids
<1>2. ASSUME NEW t \in Pingers, P!PingCancels(t)
      PROVE  P!TimerInv'
  BY <1>2, CancelKeeps DEF P!PingCancels, OnePinger
<1>3. ASSUME NEW t \in Pingers, P!PingSets(t)
      PROVE  P!TimerInv'
  BY <1>3 DEF P!PingSets, OnePinger, P!Ids
<1>4. ASSUME NEW t \in Pingers, P!PingPushes(t)
      PROVE  P!TimerInv'
  BY <1>4 DEF P!PingPushes, OnePinger
<1>5. CASE P!PeerPongs \/ P!Terminate
  BY <1>5 DEF P!PeerPongs, P!Terminate
<1>6. CASE P!PongArrives
  BY <1>6, CancelKeeps DEF P!PongArrives
<1>7. ASSUME NEW i \in P!Ids, P!TimerExpires(i)
      PROVE  P!TimerInv'
  BY <1>7 DEF P!TimerExpires
<1>8. ASSUME NEW i \in P!Ids, P!HandlePongTimeout(i)
      PROVE  P!TimerInv'
  BY <1>8 DEF P!HandlePongTimeout
<1>9. CASE UNCHANGED P!vars
  BY <1>9 DEF P!vars
<1> QED
  BY <1>1, <1>2, <1>3, <1>4, <1>5, <1>6, <1>7, <1>8, <1>9 DEF P!Next

\* pong_timeout is called for a ping only if no pong and no newer ping came
\* while its timer was running, and no timer runs but the stored one, if one
\* thread calls ping().
THEOREM TimeoutsJustified ==
    ASSUME P!BoundsAssumption, OnePinger
    PROVE  P!Spec => []P!TimeoutJustified
<1>1. P!TimerInv => P!TimeoutJustified
  BY DEF P!TimerInv, P!TimeoutJustified
<1>2. P!Init => P!TimerInv
  BY TimerInit
<1>3. P!TimerInv /\ [P!Next]_(P!vars) => P!TimerInv'
  BY TimerStep
<1> QED
  BY <1>1, <1>2, <1>3, PTL DEF P!Spec

-----------------------------------------------------------------------------
(***************************************************************************)
(* The behaviours of MCTransport.                                          *)
(***************************************************************************)

LEMMA Assumptions ==
    /\ F!BoundsAssumption /\ I!SizesAssumption
    /\ E!EndpointAssumption /\ P!BoundsAssumption
BY BoundsAssumption DEF BoundsAssumption

\* Each machine takes its own steps or none, and a behaviour is about one part.
LEMMA StepOfParts ==
    ASSUME [MCNext]_allVars
    PROVE  /\ part' = part
           /\ [I!Next]_(I!vars) /\ [E!Next]_(E!vars)
           /\ part = "flow" => [F!Next]_(F!vars)
           /\ part = "ping" => [P!Next]_(P!vars)
<1> USE DEF flowVars, iostreamVars, endpointVars, pingVars,
            F!vars, I!vars, I!readVars, E!vars, P!vars
<1>1. CASE SetupNext
  BY <1>1 DEF SetupNext
<1>2. CASE FlowNext
  BY <1>2 DEF FlowNext
<1>3. CASE IostreamNext
  BY <1>3 DEF IostreamNext
<1>4. CASE EndpointNext
  BY <1>4 DEF EndpointNext
<1>5. CASE PingNext
  BY <1>5 DEF PingNext
<1>6. CASE UNCHANGED allVars
  BY <1>6 DEF allVars
<1> QED
  BY <1>1, <1>2, <1>3, <1>4, <1>5, <1>6 DEF MCNext

\* pause_reading and resume_reading, called at any time by any thread: no
\* connection that is not paused is without a read, and with one thread the last
\* call has its way and a pause takes effect with the reads under way.
THEOREM ReadingFollowsCallsAlways == MCSpec => []ReadingFollowsCalls
<1> DEFINE Inv == part = "flow" => F!FlowInv
<1>1. MCInit => Inv
  BY Assumptions, FlowInit DEF MCInit
<1>2. Inv /\ [MCNext]_allVars => Inv'
  BY StepOfParts, FlowStep
<1>3. Inv => ReadingFollowsCalls
  BY PauseBounded, CommandsDone
     DEF F!FlowInv, F!LastCallWins, ReadingFollowsCalls
<1> QED
  BY <1>1, <1>2, <1>3, PTL DEF MCSpec

\* The bytes that the iostream transport took, in every behaviour of MCTransport.
THEOREM TransportBytesAccounted == MCSpec => []BytesAccounted
<1>1. MCInit => I!ReadInv
  BY ReadInit DEF MCInit
<1>2. I!ReadInv /\ [MCNext]_allVars => I!ReadInv'
  BY Assumptions, StepOfParts, ReadStep
<1>3. I!ReadInv => BytesAccounted
  BY DEF I!ReadInv, BytesAccounted
<1> QED
  BY <1>1, <1>2, <1>3, PTL DEF MCSpec

\* What read_all and operator>> leave behind, likewise.
THEOREM TransportReadsAll == MCSpec => ReadsAll
<1>1. MCInit => I!ReadInv
  BY ReadInit DEF MCInit
<1>2. I!ReadInv /\ [MCNext]_allVars => I!ReadInv'
  BY Assumptions, StepOfParts, ReadStep
<1>3. I!ReadInv /\ [MCNext]_allVars =>
         [call.kind \in {"all", "stream"} /\ call' = I!NoCall
            => ~m_reading \/ call.left = 0]_(I!vars)
  BY StepOfParts, ReturnStep
<1> QED
  BY <1>1, <1>2, <1>3, PTL DEF MCSpec, ReadsAll, I!ReadsAll

\* A listening endpoint accepts with one loop, if the application lets a loop end
\* before it listens again, and the loop goes on as long as connections can be
\* created; none that was created is left behind.
THEOREM AcceptsOnceAlways == MCSpec => []AcceptsOnce
<1> DEFINE Inv == E!LoopInv /\ E!OneLoopInv
<1>1. MCInit => Inv
  BY Assumptions, LoopInit, OneInit DEF MCInit
<1>2. Inv /\ [MCNext]_allVars => Inv'
  BY Assumptions, StepOfParts, LoopStep, OneStep
<1>3. Inv => AcceptsOnce
  BY OneMeans DEF E!LoopInv, AcceptsOnce
<1> QED
  BY <1>1, <1>2, <1>3, PTL DEF MCSpec

\* pong_timeout is called for a ping only if no pong and no newer ping came
\* while its timer was running, if one thread calls ping().
THEOREM PongTimeoutJustifiedAlways ==
    ASSUME OnePinger PROVE MCSpec => []PongTimeoutJustified
<1> DEFINE Inv == part = "ping" => P!TimerInv
<1>1. MCInit => Inv
  BY Assumptions, TimerInit DEF MCInit
<1>2. Inv /\ [MCNext]_allVars => Inv'
  BY Assumptions, StepOfParts, TimerStep
<1>3. Inv => PongTimeoutJustified
  BY DEF P!TimerInv, P!TimeoutJustified, PongTimeoutJustified
<1> QED
  BY <1>1, <1>2, <1>3, PTL DEF MCSpec

\* With one thread every handler that the connection gave to the transport is
\* called at most once and nothing of the setup survives it; with any number of
\* threads no operation waits without a timer.
THEOREM SetupCleanAlways == MCSpec => []SetupClean
<1>1. MCInit => SetupInv
  BY SetupInit DEF MCInit
<1>2. [MCNext]_allVars => [Next]_vars
  BY DEF MCNext, SetupNext, FlowNext, IostreamNext, EndpointNext, PingNext, allVars
<1>3. SetupInv /\ [MCNext]_allVars => SetupInv'
  BY <1>2, SetupStep
<1>4. SetupInv => SetupClean
  BY SetupGives DEF SetupClean
<1> QED
  BY <1>1, <1>3, <1>4, PTL DEF MCSpec

=============================================================================
