-------------------- MODULE EstablishedConnection_proofs --------------------
(***************************************************************************)
(* Proofs about EstablishedConnection, for any number of threads and any   *)
(* number of calls and frames.                                             *)
(***************************************************************************)
EXTENDS EstablishedConnection, SequenceTheorems, WellFoundedInduction, TLAPS

\* A non-empty set of naturals has a least element; used for the first
\* terminal message of a queue.
LEMMA LeastNat ==
    ASSUME NEW S \in SUBSET Nat, S # {}
    PROVE  \E m \in S : \A n \in S : m <= n
<1>1. PICK m \in S : \A n \in S : ~ (<<n, m>> \in OpToRel(<, Nat))
  BY WFMin, NatLessThanWellFounded
<1>2. \A n \in S : ~ (n < m)
  BY <1>1 DEF OpToRel
<1> QED
  BY <1>2

\* A queue with a terminal message has a first one.
LEMMA FirstTerminal ==
    ASSUME NEW q \in Seq(Messages), \E i \in DOMAIN q : q[i].terminal
    PROVE  \E i \in DOMAIN q : /\ q[i].terminal
                               /\ \A j \in 1..(i - 1) : ~q[j].terminal
<1> DEFINE S == {i \in DOMAIN q : q[i].terminal}
<1>1. S \in SUBSET Nat /\ S # {}
  OBVIOUS
<1>2. PICK i \in S : \A n \in S : i <= n
  BY <1>1, LeastNat
<1>3. \A j \in 1..(i - 1) : j \in DOMAIN q /\ j \notin S
  BY <1>1, <1>2
<1> QED
  BY <1>2, <1>3

\* What write_frame takes off the queue is a prefix of it, not empty unless
\* the queue is, and only its last message can be terminal.
LEMMA BatchProperties ==
    ASSUME NEW q \in Seq(Messages)
    PROVE  LET b == Batch(q)
               r == SubSeq(q, Len(b) + 1, Len(q))
           IN  /\ b \in Seq(Messages)
               /\ r \in Seq(Messages)
               /\ b \o r = q
               /\ q # <<>> => b # <<>>
               /\ \A i \in 1..(Len(b) - 1) : ~b[i].terminal
<1>1. CASE \E i \in DOMAIN q : q[i].terminal
  <2>1. PICK k \in DOMAIN q : /\ Batch(q) = SubSeq(q, 1, k)
                              /\ \A j \in 1..(k - 1) : ~q[j].terminal
    BY <1>1, FirstTerminal DEF Batch
  <2>2. k \in 1..Len(q)
    OBVIOUS
  <2>3. /\ Batch(q) \in Seq(Messages)
        /\ Len(Batch(q)) = k
        /\ \A i \in 1..k : Batch(q)[i] = q[i]
    BY <2>1, <2>2
  <2>4. Batch(q) \o SubSeq(q, k + 1, Len(q)) = SubSeq(q, 1, Len(q))
    <3>1. 1 \in 1..(Len(q) + 1) /\ k \in (1 - 1)..Len(q) /\ Len(q) \in k..Len(q)
      BY <2>2
    <3>2. SubSeq(q, 1, k) \o SubSeq(q, k + 1, Len(q)) = SubSeq(q, 1, Len(q))
      BY <3>1, ConcatAdjacentSubSeq, Zenon
    <3> QED
      BY <2>1, <3>2, Zenon
  <2>5. SubSeq(q, 1, Len(q)) = q
    BY SubSeqFull
  <2>6. SubSeq(q, k + 1, Len(q)) \in Seq(Messages)
    BY <2>2
  <2>7. k # 0 /\ Batch(q) # <<>>
    BY <2>2, <2>3
  <2>8. \A i \in 1..(k - 1) : ~Batch(q)[i].terminal
    BY <2>1, <2>2, <2>3
  <2> HIDE DEF Batch
  <2> QED
    BY <2>3, <2>4, <2>5, <2>6, <2>7, <2>8
<1>2. CASE ~ \E i \in DOMAIN q : q[i].terminal
  <2>1. Batch(q) = q
    BY <1>2 DEF Batch
  <2>2. SubSeq(q, Len(q) + 1, Len(q)) = <<>>
    BY SubSeqEmpty
  <2> QED
    BY <1>2, <2>1, <2>2
<1> QED
  BY <1>1, <1>2

-----------------------------------------------------------------------------
(***************************************************************************)
(* Types.                                                                  *)
(***************************************************************************)

\* The message a call builds is a message.
LEMMA MessageType ==
    ASSUME NEW op \in {"data", "ping", "pong", "close"}, NEW by \in Threads,
           NEW id \in Nat, NEW terminal \in BOOLEAN, NEW ack \in BOOLEAN
    PROVE  Message(op, by, id, terminal, ack) \in Messages
BY DEF Message, Messages

\* The strand is a thread.
LEMMA StrandThread == Strand \in Threads
BY DEF Threads

\* terminate() leaves the state, the timer and the shutdowns well typed.
LEMMA TerminateType ==
    ASSUME TypeOK, Terminate
    PROVE  m_state' \in States /\ timer' \in {"none", "armed"} /\ shutdowns' \in Nat
BY DEF TypeOK, Terminate, States

\* Every step preserves the types of connection<config>'s variables.
LEMMA TypeStep == TypeOK /\ [Next]_vars => TypeOK'
<1> SUFFICES ASSUME TypeOK, [Next]_vars PROVE TypeOK'
  OBVIOUS
<1> USE DEF stateVars, writeVars, timerVars, endVars, callVars, readVars, history
<1>1. ASSUME NEW t \in Threads, NEW op \in ApiOps, CallSend(t, op) PROVE TypeOK'
  <2>1. calls[t] + 1 \in Nat /\ op \in {"data", "ping", "pong", "close"}
    BY ConfigAssumption DEF TypeOK
  <2>2. Message(op, t, calls[t] + 1, FALSE, FALSE) \in Messages
    BY <2>1, MessageType
  <2>3. pc' \in [Threads -> Stages]
    BY <1>1 DEF TypeOK, CallSend, Goto, Stages
  <2>4. msg' \in [Threads -> Messages]
    BY <1>1, <2>2 DEF TypeOK, CallSend
  <2>5. calls' \in [Threads -> Nat]
    BY <1>1, <2>1 DEF TypeOK, CallSend
  <2> QED
    BY <1>1, <2>3, <2>4, <2>5 DEF TypeOK, CallSend
<1>2. ASSUME NEW t \in Threads, NEW terminal \in BOOLEAN, CallClose(t, terminal)
      PROVE  TypeOK'
  <2>1. calls[t] + 1 \in Nat /\ "close" \in {"data", "ping", "pong", "close"}
    BY DEF TypeOK
  <2>2. Message("close", t, calls[t] + 1, terminal, FALSE) \in Messages
    BY <2>1, MessageType
  <2>3. pc' \in [Threads -> Stages]
    BY <1>2 DEF TypeOK, CallClose, Goto, Stages
  <2>4. msg' \in [Threads -> Messages]
    BY <1>2, <2>2 DEF TypeOK, CallClose
  <2>5. calls' \in [Threads -> Nat]
    BY <1>2, <2>1 DEF TypeOK, CallClose
  <2> QED
    BY <1>2, <2>3, <2>4, <2>5 DEF TypeOK, CallClose
<1>3. ASSUME NEW t \in Threads, SendRejected(t) PROVE TypeOK'
  BY <1>3 DEF TypeOK, SendRejected, Goto, Stages
<1>4. ASSUME NEW t \in Threads, Push(t) PROVE TypeOK'
  <2>1. m_send_queue' \in Seq(Messages) /\ pushed' \in Seq(Messages)
    BY <1>4 DEF TypeOK, Push
  <2>2. pc' \in [Threads -> Stages]
    BY <1>4 DEF TypeOK, Push, Goto, Stages
  <2>3. state_lock' \in Threads \cup {NoThread}
    BY <1>4 DEF TypeOK, Push, Unlock
  <2> QED
    BY <1>4, <2>1, <2>2, <2>3 DEF TypeOK, Push
<1>5. ASSUME NEW t \in Threads, Dispatch(t) PROVE TypeOK'
  BY <1>5 DEF TypeOK, Dispatch, Goto, Unlock, Stages
<1>6. ASSUME NEW t \in Threads, CloseRejected(t) PROVE TypeOK'
  BY <1>6 DEF TypeOK, CloseRejected, Goto, Unlock, Stages
<1>7. ASSUME NEW t \in Threads, CloseSetState(t) PROVE TypeOK'
  BY <1>7 DEF TypeOK, CloseSetState, Goto, States, Stages
<1>8. ASSUME NEW t \in Threads, CloseSetTimer(t) PROVE TypeOK'
  BY <1>8 DEF TypeOK, CloseSetTimer, Goto, Stages
<1>9. CASE RecvPing
  <2>1. Message("pong", Strand, 0, FALSE, FALSE) \in Messages
    BY MessageType, StrandThread
  <2>2. msg' \in [Threads -> Messages]
    BY <1>9, <2>1 DEF TypeOK, RecvPing
  <2>3. pc' \in [Threads -> Stages]
    BY <1>9 DEF TypeOK, RecvPing, Goto, Stages
  <2>4. frames' \in Nat
    BY <1>9 DEF TypeOK, RecvPing, Receive
  <2> QED
    BY <1>9, <2>2, <2>3, <2>4 DEF TypeOK, RecvPing
<1>10. ASSUME StartAck(IsServer)
       PROVE  msg' \in [Threads -> Messages] /\ pc' \in [Threads -> Stages]
  <2>1. Message("close", Strand, 0, IsServer, TRUE) \in Messages
    BY MessageType, StrandThread, ConfigAssumption
  <2>2. msg' \in [Threads -> Messages]
    BY <1>10, <2>1 DEF TypeOK, StartAck
  <2>3. pc' \in [Threads -> Stages]
    BY <1>10 DEF TypeOK, StartAck, Goto, Stages
  <2> QED
    BY <2>2, <2>3
<1>11. CASE RecvClose
  <2>1. /\ m_state' \in States /\ timer' \in {"none", "armed"} /\ shutdowns' \in Nat
        /\ m_was_clean' \in BOOLEAN
    BY <1>11, TerminateType DEF TypeOK, RecvClose
  <2>2. msg' \in [Threads -> Messages] /\ pc' \in [Threads -> Stages]
    BY <1>10, <1>11 DEF TypeOK, RecvClose
  <2>3. frames' \in Nat
    BY <1>11 DEF TypeOK, RecvClose, Receive
  <2> QED
    BY <1>11, <2>1, <2>2, <2>3 DEF TypeOK, RecvClose
<1>12. CASE RecvBadClose
  <2>1. m_state' \in States /\ timer' \in {"none", "armed"} /\ shutdowns' \in Nat
    BY <1>12, TerminateType DEF TypeOK, RecvBadClose
  <2>2. msg' \in [Threads -> Messages] /\ pc' \in [Threads -> Stages]
    BY <1>10, <1>12 DEF TypeOK, RecvBadClose
  <2>3. frames' \in Nat
    BY <1>12 DEF TypeOK, RecvBadClose, Receive
  <2> QED
    BY <1>12, <2>1, <2>2, <2>3 DEF TypeOK, RecvBadClose
<1>13. CASE RecvBadFrame
  <2>1. m_state' \in States /\ timer' \in {"none", "armed"} /\ shutdowns' \in Nat
    BY <1>13, TerminateType DEF TypeOK, RecvBadFrame
  <2>2. Message("close", Strand, 0, TRUE, FALSE) \in Messages
    BY MessageType, StrandThread
  <2>3. msg' \in [Threads -> Messages]
    BY <1>13, <2>2 DEF TypeOK, RecvBadFrame
  <2>4. pc' \in [Threads -> Stages]
    BY <1>13 DEF TypeOK, RecvBadFrame, Goto, Stages
  <2>5. frames' \in Nat
    BY <1>13 DEF TypeOK, RecvBadFrame, Receive
  <2>6. state_lock' \in Threads \cup {NoThread}
    BY <1>13, StrandThread DEF TypeOK, RecvBadFrame
  <2> QED
    BY <1>13, <2>1, <2>3, <2>4, <2>5, <2>6 DEF TypeOK, RecvBadFrame
<1>14. CASE RecvEof
  <2>1. m_state' \in States /\ timer' \in {"none", "armed"} /\ shutdowns' \in Nat
    BY <1>14, TerminateType DEF TypeOK, RecvEof
  <2> QED
    BY <1>14, <2>1 DEF TypeOK, RecvEof
<1>15. CASE WriteFrame
  <2>1. /\ Batch(m_send_queue) \in Seq(Messages)
        /\ SubSeq(m_send_queue, Len(Batch(m_send_queue)) + 1, Len(m_send_queue))
             \in Seq(Messages)
    BY BatchProperties DEF TypeOK
  <2>2. m_send_queue' \in Seq(Messages)
    BY <1>15, <2>1 DEF TypeOK, WriteFrame
  <2>3. m_current_msgs' \in Seq(Messages)
    <3>1. m_current_msgs \o Batch(m_send_queue) \in Seq(Messages)
      BY <2>1 DEF TypeOK
    <3> QED
      BY <1>15, <3>1, Zenon DEF TypeOK, WriteFrame
  <2>4. m_write_flag' \in BOOLEAN
    BY <1>15, Zenon DEF TypeOK, WriteFrame
  <2>5. writes' \in Nat
    BY <1>15 DEF TypeOK, WriteFrame
  <2>6. posted' \in Nat
    BY <1>15 DEF TypeOK, WriteFrame
  <2> QED
    BY <1>15, <2>2, <2>3, <2>4, <2>5, <2>6 DEF TypeOK, WriteFrame
<1>16. CASE HandleWriteFrame
  <2>1. m_state' \in States /\ timer' \in {"none", "armed"} /\ shutdowns' \in Nat
    BY <1>16, TerminateType DEF TypeOK, HandleWriteFrame
  <2>2. pc' \in [Threads -> Stages]
    BY <1>16 DEF TypeOK, HandleWriteFrame, Goto, Stages
  <2>3. m_current_msgs' \in Seq(Messages) /\ wire' \in Seq(Messages)
    BY <1>16 DEF TypeOK, HandleWriteFrame
  <2>4. m_write_flag' \in BOOLEAN
    BY <1>16 DEF TypeOK, HandleWriteFrame
  <2>5. writes' \in Nat
    BY <1>16 DEF TypeOK, HandleWriteFrame
  <2> QED
    BY <1>16, <2>1, <2>2, <2>3, <2>4, <2>5 DEF TypeOK, HandleWriteFrame
<1>17. CASE HandleWriteError
  <2>1. m_state' \in States /\ timer' \in {"none", "armed"} /\ shutdowns' \in Nat
    BY <1>17, TerminateType DEF HandleWriteError
  <2>2. /\ m_current_msgs' \in Seq(Messages) /\ lost' \in Seq(Messages)
        /\ writes' \in Nat
    BY <1>17 DEF TypeOK, HandleWriteError
  <2> QED
    BY <1>17, <2>1, <2>2 DEF TypeOK, HandleWriteError
<1>18. CASE HandleCloseTimeout
  <2>1. m_state' \in States /\ timer' \in {"none", "armed"} /\ shutdowns' \in Nat
    BY <1>18, TerminateType DEF HandleCloseTimeout
  <2> QED
    BY <1>18, <2>1 DEF TypeOK, HandleCloseTimeout
<1>19. CASE HandleTerminate
  BY <1>19 DEF TypeOK, HandleTerminate
<1>20. CASE TimerExpires
  BY <1>20 DEF TypeOK, TimerExpires
<1>21. CASE UNCHANGED vars
  BY <1>21 DEF TypeOK, vars
<1> QED
  BY <1>1, <1>2, <1>3, <1>4, <1>5, <1>6, <1>7, <1>8, <1>9, <1>11, <1>12, <1>13,
     <1>14, <1>15, <1>16, <1>17, <1>18, <1>19, <1>20, <1>21
     DEF Next, Call, Continue, Recv, Handler

\* The initial state of an established connection is well typed.
LEMMA TypeInit == Init => TypeOK
<1> SUFFICES ASSUME Init PROVE TypeOK
  OBVIOUS
<1>1. NoMessage \in Messages
  BY MessageType, StrandThread DEF NoMessage
<1>2. /\ pc \in [Threads -> Stages]
      /\ msg \in [Threads -> Messages]
      /\ calls \in [Threads -> Nat]
  BY <1>1 DEF Init, Stages
<1>3. <<>> \in Seq(Messages)
  OBVIOUS
<1> QED
  BY <1>2, <1>3 DEF Init, TypeOK, States

\* The state of connection<config> is always well typed, whatever the number of
\* threads that call it.
THEOREM TypeCorrect == Spec => []TypeOK
<1> QED
  BY TypeInit, TypeStep, PTL DEF Spec

-----------------------------------------------------------------------------
(***************************************************************************)
(* The write path.  Most actions leave it alone.                           *)
(***************************************************************************)

\* The steps that neither queue, write nor post a message.
WriteIdle ==
    /\ UNCHANGED <<m_send_queue, m_write_flag, m_current_msgs, writes, posted>>
    /\ UNCHANGED <<pushed, wire, lost>>
    /\ \A t \in Threads : pc[t] = "dispatch" => pc'[t] = "dispatch"

\* A step is idle for the write path, or it is one of the five below.
LEMMA WriteStepCases ==
    ASSUME TypeOK, [Next]_vars
    PROVE  \/ WriteIdle
           \/ \E t \in Threads : Push(t) \/ Dispatch(t)
           \/ WriteFrame
           \/ HandleWriteFrame
           \/ HandleWriteError
<1> USE DEF stateVars, writeVars, timerVars, endVars, callVars, readVars, history,
            WriteIdle
<1>1. ASSUME NEW t \in Threads, NEW op \in ApiOps, CallSend(t, op) PROVE WriteIdle
  BY <1>1 DEF TypeOK, CallSend, Goto
<1>2. ASSUME NEW t \in Threads, NEW terminal \in BOOLEAN, CallClose(t, terminal)
      PROVE  WriteIdle
  BY <1>2 DEF TypeOK, CallClose, Goto
<1>3. ASSUME NEW t \in Threads, SendRejected(t) PROVE WriteIdle
  BY <1>3 DEF TypeOK, SendRejected, Goto
<1>4. ASSUME NEW t \in Threads, CloseRejected(t) PROVE WriteIdle
  BY <1>4 DEF TypeOK, CloseRejected, Goto
<1>5. ASSUME NEW t \in Threads, CloseSetState(t) PROVE WriteIdle
  BY <1>5 DEF TypeOK, CloseSetState, Goto
<1>6. ASSUME NEW t \in Threads, CloseSetTimer(t) PROVE WriteIdle
  BY <1>6 DEF TypeOK, CloseSetTimer, Goto
<1>7. CASE RecvPing
  BY <1>7 DEF TypeOK, RecvPing, Receive, StrandIdle, Goto
<1>8. CASE RecvClose
  BY <1>8 DEF TypeOK, RecvClose, Receive, StrandIdle, StartAck, Goto
<1>9. CASE RecvBadClose
  BY <1>9 DEF TypeOK, RecvBadClose, Receive, StrandIdle, StartAck, Goto
<1>10. CASE RecvBadFrame
  BY <1>10 DEF TypeOK, RecvBadFrame, Receive, StrandIdle, Goto
<1>11. CASE RecvEof
  BY <1>11 DEF RecvEof
<1>12. CASE HandleCloseTimeout
  BY <1>12 DEF HandleCloseTimeout
<1>13. CASE HandleTerminate
  BY <1>13 DEF HandleTerminate
<1>14. CASE TimerExpires
  BY <1>14 DEF TimerExpires
<1>15. CASE UNCHANGED vars
  BY <1>15 DEF vars
<1> HIDE DEF WriteIdle
<1> QED
  BY <1>1, <1>2, <1>3, <1>4, <1>5, <1>6, <1>7, <1>8, <1>9, <1>10, <1>11, <1>12,
     <1>13, <1>14, <1>15 DEF Next, Call, Continue, Recv, Handler

\* write_push in its critical section, by any thread.
LEMMA PushStep ==
    ASSUME WriteInv, NEW t \in Threads, Push(t), TypeOK'
    PROVE  WriteInv'
<1> USE DEF timerVars, endVars, readVars
<1>1. /\ UNCHANGED <<m_write_flag, m_current_msgs, writes, posted, wire, lost>>
      /\ m_send_queue' = Append(m_send_queue, msg[t])
      /\ pushed' = Append(pushed, msg[t])
  BY DEF Push
<1>2. OneWrite'
  BY <1>1 DEF WriteInv, OneWrite
<1>3. NoLostWakeup'
  <2>1. CASE m_write_flag
    BY <1>1, <2>1 DEF NoLostWakeup
  <2>2. CASE ~m_write_flag
    <3>1. pc'[t] = "dispatch"
      BY <2>2 DEF Push, Goto, WriteInv, TypeOK
    <3> QED
      BY <3>1 DEF NoLostWakeup
  <2> QED
    BY <2>1, <2>2
<1>4. InOrder'
  <2> DEFINE a == wire \o lost \o m_current_msgs
  <2>1. /\ a \in Seq(Messages) /\ m_send_queue \in Seq(Messages)
        /\ msg[t] \in Messages
    BY DEF WriteInv, TypeOK
  <2>2. a \o Append(m_send_queue, msg[t]) = Append(a \o m_send_queue, msg[t])
    <3> HIDE DEF a
    <3> QED
      BY <2>1
  <2>3. a \o m_send_queue = pushed
    BY DEF WriteInv, InOrder
  <2> QED
    BY <1>1, <2>2, <2>3 DEF WriteInv, InOrder
<1>5. NothingAfterTerminal' /\ TerminalHalts'
  BY <1>1 DEF WriteInv, NothingAfterTerminal, TerminalHalts
<1> QED
  BY <1>2, <1>3, <1>4, <1>5 DEF WriteInv

\* A thread posts write_frame to the strand.
LEMMA DispatchStep ==
    ASSUME WriteInv, NEW t \in Threads, Dispatch(t), TypeOK'
    PROVE  WriteInv'
<1> USE DEF history
<1>1. /\ UNCHANGED <<m_send_queue, m_write_flag, m_current_msgs, writes>>
      /\ UNCHANGED <<pushed, wire, lost>>
      /\ posted' = posted + 1
  BY DEF Dispatch
<1>2. posted' > 0
  BY <1>1 DEF WriteInv, TypeOK
<1>3. NoLostWakeup'
  BY <1>2 DEF NoLostWakeup
<1>4. OneWrite' /\ InOrder'
  BY <1>1 DEF WriteInv, OneWrite, InOrder
<1>5. NothingAfterTerminal' /\ TerminalHalts'
  BY <1>1 DEF WriteInv, NothingAfterTerminal, TerminalHalts
<1> QED
  BY <1>3, <1>4, <1>5 DEF WriteInv

\* write_frame starts a write only when none is outstanding.
LEMMA WriteFrameStep ==
    ASSUME WriteInv, WriteFrame, TypeOK'
    PROVE  WriteInv'
<1> USE DEF callVars, history
<1>1. UNCHANGED <<pushed, wire, lost, pc>> /\ posted > 0 /\ posted' = posted - 1
  BY DEF WriteFrame
<1>2. CASE m_write_flag \/ (m_current_msgs = <<>> /\ m_send_queue = <<>>)
  <2>1. UNCHANGED <<m_send_queue, m_write_flag, m_current_msgs, writes>>
    BY <1>2 DEF WriteFrame
  <2>2. m_write_flag' \/ m_send_queue' = <<>>
    BY <1>2, <2>1
  <2>3. NoLostWakeup'
    BY <2>2 DEF NoLostWakeup
  <2>4. OneWrite' /\ InOrder'
    BY <1>1, <2>1 DEF WriteInv, OneWrite, InOrder
  <2>5. NothingAfterTerminal' /\ TerminalHalts'
    BY <1>1, <2>1 DEF WriteInv, NothingAfterTerminal, TerminalHalts
  <2> QED
    BY <2>3, <2>4, <2>5 DEF WriteInv
<1>3. CASE ~(m_write_flag \/ (m_current_msgs = <<>> /\ m_send_queue = <<>>))
  <2> DEFINE b == Batch(m_send_queue)
             r == SubSeq(m_send_queue, Len(b) + 1, Len(m_send_queue))
  <2>1. /\ m_current_msgs' = m_current_msgs \o b
        /\ m_send_queue' = r
        /\ m_write_flag' = TRUE
        /\ writes' = writes + 1
    BY <1>3 DEF WriteFrame
  <2>2. /\ ~m_write_flag
        /\ writes = 0 /\ m_current_msgs = <<>>
        /\ m_send_queue # <<>>
    BY <1>3 DEF WriteInv, TypeOK, OneWrite
  <2>3. /\ lost = <<>>
        /\ \A i \in DOMAIN wire : ~wire[i].terminal
    BY <2>2 DEF WriteInv, InOrder, TerminalHalts
  <2>4. /\ b \in Seq(Messages) /\ r \in Seq(Messages)
        /\ b \o r = m_send_queue
        /\ b # <<>>
        /\ \A i \in 1..(Len(b) - 1) : ~b[i].terminal
    BY <2>2, BatchProperties DEF WriteInv, TypeOK
  <2>5. wire \in Seq(Messages)
    BY DEF WriteInv, TypeOK
  <2> HIDE DEF b, r
  <2>6. m_current_msgs' = b
    BY <2>1, <2>2, <2>4
  <2>7. OneWrite'
    BY <2>1, <2>2, <2>4, <2>6 DEF OneWrite
  <2>8. NoLostWakeup'
    BY <2>1 DEF NoLostWakeup
  <2>9. InOrder'
    <3>1. wire \o m_send_queue = pushed
      BY <2>2, <2>3, <2>5 DEF WriteInv, InOrder
    <3>2. (wire \o b) \o r = wire \o (b \o r)
      <4>1. b \in Seq(Messages) /\ r \in Seq(Messages)
        BY <2>4
      <4> QED
        BY <2>5, <4>1, ConcatAssociative
    <3>3. wire \o <<>> = wire
      BY <2>5
    <3> QED
      BY <1>1, <2>1, <2>3, <2>4, <2>6, <3>1, <3>2, <3>3 DEF InOrder
  <2>10. NothingAfterTerminal'
    <3>1. SUFFICES ASSUME NEW i \in DOMAIN (wire \o b), (wire \o b)[i].terminal
                   PROVE  i = Len(wire \o b)
      BY <1>1, <2>6 DEF NothingAfterTerminal
    <3>2. i \in 1..(Len(wire) + Len(b)) /\ Len(wire \o b) = Len(wire) + Len(b)
      BY <2>4, <2>5
    <3>3. CASE i <= Len(wire)
      <4>1. (wire \o b)[i] = wire[i] /\ i \in DOMAIN wire
        BY <2>4, <2>5, <3>2, <3>3
      <4> QED
        BY <2>3, <3>1, <4>1
    <3>4. CASE i > Len(wire)
      <4>1. (wire \o b)[i] = b[i - Len(wire)] /\ i - Len(wire) \in 1..Len(b)
        BY <2>4, <2>5, <3>2, <3>4
      <4>2. i - Len(wire) = Len(b)
        BY <2>4, <3>1, <4>1
      <4>3. Len(wire) \in Nat /\ Len(b) \in Nat /\ i \in Int
        BY <2>4, <2>5, <3>2
      <4> QED
        BY <3>2, <4>2, <4>3
    <3> QED
      BY <2>5, <3>2, <3>3, <3>4
  <2>11. TerminalHalts'
    BY <1>1, <2>3 DEF TerminalHalts
  <2> QED
    BY <2>7, <2>8, <2>9, <2>10, <2>11 DEF WriteInv
<1> QED
  BY <1>2, <1>3

\* handle_write_frame after a successful write.
LEMMA HandleWriteFrameStep ==
    ASSUME WriteInv, HandleWriteFrame, TypeOK'
    PROVE  WriteInv'
<1> DEFINE c == m_current_msgs
<1>1. /\ UNCHANGED <<m_send_queue, posted, pushed, lost>>
      /\ wire' = wire \o c
      /\ m_current_msgs' = <<>>
      /\ writes' = writes - 1
  BY DEF HandleWriteFrame
<1>2. writes = 1 /\ c # <<>> /\ m_write_flag /\ lost = <<>>
  BY DEF HandleWriteFrame, WriteInv, TypeOK, OneWrite, InOrder
<1>3. wire \in Seq(Messages) /\ c \in Seq(Messages) /\ m_send_queue \in Seq(Messages)
  BY DEF WriteInv, TypeOK
<1>4. OneWrite'
  BY <1>1, <1>2 DEF OneWrite
<1>5. InOrder'
  <2>1. /\ wire \o <<>> = wire
        /\ (wire \o c) \o <<>> = wire \o c
    BY <1>3
  <2>2. wire' \o lost' \o m_current_msgs' \o m_send_queue'
          = wire \o lost \o m_current_msgs \o m_send_queue
    BY <1>1, <1>2, <2>1
  <2> QED
    BY <1>1, <1>2, <2>2 DEF WriteInv, InOrder
<1>6. NothingAfterTerminal'
  <2>1. (wire \o c) \o <<>> = wire \o c
    BY <1>3
  <2> QED
    BY <1>1, <2>1 DEF WriteInv, NothingAfterTerminal
<1>7. Len(c) \in Nat /\ Len(c) > 0 /\ Len(wire) \in Nat
  BY <1>2, <1>3
<1>8. /\ Len(wire \o c) = Len(wire) + Len(c)
      /\ (wire \o c)[Len(wire \o c)] = c[Len(c)]
  BY <1>3, <1>7
<1>9. CASE c[Len(c)].terminal
  <2>1. m_write_flag' = m_write_flag
    BY <1>9 DEF HandleWriteFrame
  <2>2. NoLostWakeup' /\ TerminalHalts'
    BY <1>1, <1>2, <2>1 DEF NoLostWakeup, TerminalHalts
  <2> QED
    BY <1>4, <1>5, <1>6, <2>2 DEF WriteInv
<1>10. CASE ~c[Len(c)].terminal
  <2>1. NoLostWakeup'
    <3>1. CASE m_send_queue = <<>>
      BY <1>1, <3>1 DEF NoLostWakeup
    <3>2. CASE m_send_queue # <<>>
      <4>1. pc'[Strand] = "dispatch"
        BY <1>10, <3>2, StrandThread DEF HandleWriteFrame, Goto, WriteInv, TypeOK
      <4> QED
        BY <4>1, StrandThread DEF NoLostWakeup
    <3> QED
      BY <3>1, <3>2
  <2>2. \A i \in DOMAIN (wire \o c) : ~(wire \o c)[i].terminal
    BY <1>8, <1>10 DEF WriteInv, NothingAfterTerminal
  <2>3. TerminalHalts'
    BY <1>1, <2>2 DEF TerminalHalts
  <2> QED
    BY <1>4, <1>5, <1>6, <2>1, <2>3 DEF WriteInv
<1> QED
  BY <1>9, <1>10

\* handle_write_frame after a failed write: the write flag is never released.
LEMMA HandleWriteErrorStep ==
    ASSUME WriteInv, HandleWriteError, TypeOK'
    PROVE  WriteInv'
<1> DEFINE c == m_current_msgs
<1>1. /\ UNCHANGED <<m_send_queue, m_write_flag, posted, pushed, wire>>
      /\ lost' = lost \o c
      /\ m_current_msgs' = <<>>
      /\ writes' = writes - 1
  BY DEF HandleWriteError
<1>2. writes = 1 /\ c # <<>> /\ m_write_flag /\ lost = <<>>
  BY DEF HandleWriteError, WriteInv, TypeOK, OneWrite, InOrder
<1>3. wire \in Seq(Messages) /\ c \in Seq(Messages) /\ m_send_queue \in Seq(Messages)
  BY DEF WriteInv, TypeOK
<1>4. OneWrite' /\ NoLostWakeup'
  BY <1>1, <1>2 DEF OneWrite, NoLostWakeup
<1>5. InOrder'
  <2>1. /\ wire \o <<>> = wire
        /\ <<>> \o c = c
        /\ (wire \o c) \o <<>> = wire \o c
    BY <1>3
  <2>2. wire' \o lost' \o m_current_msgs' \o m_send_queue'
          = wire \o lost \o m_current_msgs \o m_send_queue
    BY <1>1, <1>2, <2>1
  <2> QED
    BY <1>1, <1>2, <2>2 DEF WriteInv, InOrder
<1>6. \A i \in DOMAIN wire : ~wire[i].terminal
  BY <1>2 DEF WriteInv, TerminalHalts
<1>7. NothingAfterTerminal' /\ TerminalHalts'
  <2>1. wire \o <<>> = wire
    BY <1>3
  <2> QED
    BY <1>1, <1>6, <2>1 DEF NothingAfterTerminal, TerminalHalts
<1> QED
  BY <1>4, <1>5, <1>7 DEF WriteInv

\* Every step preserves the invariant of the write path.
LEMMA WriteStep == WriteInv /\ [Next]_vars => WriteInv'
<1> SUFFICES ASSUME WriteInv, [Next]_vars PROVE WriteInv'
  OBVIOUS
<1>1. TypeOK /\ TypeOK'
  BY TypeStep DEF WriteInv
<1>2. CASE WriteIdle
  <2>1. NoLostWakeup'
    BY <1>2 DEF WriteIdle, WriteInv, NoLostWakeup
  <2>2. OneWrite' /\ InOrder'
    BY <1>2 DEF WriteIdle, WriteInv, OneWrite, InOrder
  <2>3. NothingAfterTerminal' /\ TerminalHalts'
    BY <1>2 DEF WriteIdle, WriteInv, NothingAfterTerminal, TerminalHalts
  <2> QED
    BY <1>1, <2>1, <2>2, <2>3 DEF WriteInv
<1>3. CASE \E t \in Threads : Push(t) \/ Dispatch(t)
  BY <1>1, <1>3, PushStep, DispatchStep
<1>4. CASE WriteFrame
  BY <1>1, <1>4, WriteFrameStep
<1>5. CASE HandleWriteFrame
  BY <1>1, <1>5, HandleWriteFrameStep
<1>6. CASE HandleWriteError
  BY <1>1, <1>6, HandleWriteErrorStep
<1> QED
  BY <1>1, <1>2, <1>3, <1>4, <1>5, <1>6, WriteStepCases

\* Nothing is queued or written when a connection opens.
LEMMA WriteInit == Init => WriteInv
<1> SUFFICES ASSUME Init PROVE WriteInv
  OBVIOUS
<1>1. TypeOK
  BY TypeInit
<1>2. OneWrite /\ NoLostWakeup
  BY DEF Init, OneWrite, NoLostWakeup
<1>3. InOrder
  BY DEF Init, InOrder
<1>4. NothingAfterTerminal /\ TerminalHalts
  BY DEF Init, NothingAfterTerminal, TerminalHalts
<1> QED
  BY <1>1, <1>2, <1>3, <1>4 DEF WriteInv

\* The invariant of the write path holds in every reachable state.
THEOREM WritePath == Spec => []WriteInv
<1> QED
  BY WriteInit, WriteStep, PTL DEF Spec

\* One outstanding transport write, whatever the threads do: write_frame's test
\* of m_write_flag is enough.
THEOREM OneWriteAlways == Spec => []OneWrite
<1>1. WriteInv => OneWrite
  BY DEF WriteInv
<1> QED
  BY <1>1, WritePath, PTL

\* No queued message is left without a write_frame to come: the wakeup protocol
\* of send, ping, pong, send_close_frame and handle_write_frame.
THEOREM NoLostWakeupAlways == Spec => []NoLostWakeup
<1>1. WriteInv => NoLostWakeup
  BY DEF WriteInv
<1> QED
  BY <1>1, WritePath, PTL

\* Messages leave in the order write_push received them, none lost but those of
\* the one write that failed.
THEOREM InOrderAlways == Spec => []InOrder
<1>1. WriteInv => InOrder
  BY DEF WriteInv
<1> QED
  BY <1>1, WritePath, PTL

\* Nothing follows a terminal close frame on the wire.
THEOREM NothingAfterTerminalAlways == Spec => []NothingAfterTerminal
<1>1. WriteInv => NothingAfterTerminal
  BY DEF WriteInv
<1> QED
  BY <1>1, WritePath, PTL

-----------------------------------------------------------------------------
(***************************************************************************)
(* The end of a connection whose close() is only called by handlers.       *)
(***************************************************************************)

\* The steps that leave m_state, the shutdowns and the close handler alone and
\* start no close frame.
EndIdle ==
    /\ UNCHANGED <<m_state, shutdowns, close_calls>>
    /\ \A t \in Threads : pc'[t] = "close_set" => pc[t] = "close_set"

\* The strand starts a close frame on a connection that is not closed.
EndStarts ==
    /\ UNCHANGED <<m_state, shutdowns, close_calls>>
    /\ m_state # "closed"
    /\ pc' = [pc EXCEPT ![Strand] = "close_set"]

\* The strand terminates the connection while it runs no other call.
EndTerminates ==
    /\ StrandIdle
    /\ Terminate
    /\ UNCHANGED close_calls
    /\ \A t \in Threads : pc'[t] = "close_set" => pc[t] = "close_set"

\* What a step does to the end of the connection, if only the strand closes.
LEMMA EndStepCases ==
    ASSUME Closers \subseteq {Strand}, TypeOK, [Next]_vars
    PROVE  \/ EndIdle
           \/ EndStarts
           \/ EndTerminates
           \/ \E t \in Threads : CloseSetState(t)
           \/ HandleTerminate
<1> USE DEF stateVars, writeVars, timerVars, endVars, callVars, readVars, history
<1>1. ASSUME NEW t \in Threads, NEW op \in ApiOps, CallSend(t, op) PROVE EndIdle
  BY <1>1 DEF EndIdle, TypeOK, CallSend, Goto
<1>2. ASSUME NEW t \in Threads, NEW terminal \in BOOLEAN, CallClose(t, terminal)
      PROVE  EndStarts
  <2>1. t = Strand
    BY <1>2 DEF CallClose
  <2> QED
    BY <1>2, <2>1 DEF EndStarts, CallClose, Goto
<1>3. ASSUME NEW t \in Threads, SendRejected(t) PROVE EndIdle
  BY <1>3 DEF EndIdle, TypeOK, SendRejected, Goto
<1>4. ASSUME NEW t \in Threads, Push(t) PROVE EndIdle
  BY <1>4 DEF EndIdle, TypeOK, Push, Goto
<1>5. ASSUME NEW t \in Threads, Dispatch(t) PROVE EndIdle
  BY <1>5 DEF EndIdle, TypeOK, Dispatch, Goto
<1>6. ASSUME NEW t \in Threads, CloseRejected(t) PROVE EndIdle
  BY <1>6 DEF EndIdle, TypeOK, CloseRejected, Goto
<1>7. ASSUME NEW t \in Threads, CloseSetTimer(t) PROVE EndIdle
  BY <1>7 DEF EndIdle, TypeOK, CloseSetTimer, Goto
<1>8. CASE RecvPing
  BY <1>8 DEF EndIdle, TypeOK, RecvPing, Goto
<1>9. CASE RecvClose
  BY <1>9 DEF EndIdle, EndStarts, EndTerminates, RecvClose, Receive, StartAck, Goto
<1>10. CASE RecvBadClose
  BY <1>10 DEF EndStarts, EndTerminates, RecvBadClose, Receive, StartAck, Goto
<1>11. CASE RecvBadFrame
  BY <1>11 DEF EndStarts, EndTerminates, RecvBadFrame, Receive, Goto
<1>12. CASE RecvEof
  BY <1>12 DEF EndIdle, EndTerminates, RecvEof
<1>13. CASE WriteFrame
  BY <1>13 DEF EndIdle, WriteFrame
<1>14. CASE HandleWriteFrame
  BY <1>14 DEF EndIdle, EndTerminates, TypeOK, HandleWriteFrame, Goto
<1>15. CASE HandleWriteError
  BY <1>15 DEF EndTerminates, HandleWriteError
<1>16. CASE HandleCloseTimeout
  BY <1>16 DEF EndTerminates, HandleCloseTimeout
<1>17. CASE TimerExpires
  BY <1>17 DEF EndIdle, TimerExpires
<1>18. CASE UNCHANGED vars
  BY <1>18 DEF EndIdle, vars
<1> QED
  BY <1>1, <1>2, <1>3, <1>4, <1>5, <1>6, <1>7, <1>8, <1>9, <1>10, <1>11, <1>12,
     <1>13, <1>14, <1>15, <1>16, <1>17, <1>18 DEF Next, Call, Continue, Recv, Handler

\* Every step preserves the invariant of the end of a connection, and moves
\* m_state forward.
LEMMA CloseStep ==
    ASSUME Closers \subseteq {Strand}, CloseInv, [Next]_vars
    PROVE  /\ CloseInv'
           /\ m_state = "closed" => m_state' = "closed"
           /\ m_state = "closing" => m_state' # "open"
<1>1. TypeOK /\ TypeOK' /\ pc \in [Threads -> Stages]
  BY TypeStep DEF CloseInv, TypeOK
<1>2. CASE EndIdle
  BY <1>1, <1>2 DEF EndIdle, CloseInv, StrandCloses, CloseHandlerOnce
<1>3. CASE EndStarts
  BY <1>1, <1>3 DEF EndStarts, CloseInv, StrandCloses, CloseHandlerOnce
<1>4. CASE EndTerminates
  <2>1. StrandCloses'
    BY <1>4, StrandThread DEF EndTerminates, StrandIdle, CloseInv, StrandCloses
  <2>2. /\ m_state' = "closed"
        /\ close_calls' = close_calls
        /\ shutdowns' = IF m_state = "closed" THEN shutdowns ELSE shutdowns + 1
    BY <1>4 DEF EndTerminates, Terminate
  <2>3. CloseHandlerOnce'
    BY <1>1, <2>2 DEF CloseInv, CloseHandlerOnce, TypeOK
  <2> QED
    BY <1>1, <2>1, <2>2, <2>3 DEF CloseInv
<1>5. ASSUME NEW t \in Threads, CloseSetState(t)
      PROVE  CloseInv' /\ m_state # "closed" /\ m_state' = "closing"
  <2>1. /\ m_state # "closed" /\ m_state' = "closing"
        /\ UNCHANGED <<shutdowns, close_calls>>
        /\ pc' = [pc EXCEPT ![t] = "close_timer"]
    BY <1>5 DEF CloseSetState, CloseInv, StrandCloses, Goto, endVars
  <2>2. StrandCloses' /\ CloseHandlerOnce'
    BY <1>1, <2>1 DEF CloseInv, StrandCloses, CloseHandlerOnce
  <2> QED
    BY <1>1, <2>1, <2>2 DEF CloseInv
<1>6. CASE HandleTerminate
  <2>1. StrandCloses' /\ m_state' = m_state
    BY <1>6 DEF HandleTerminate, CloseInv, StrandCloses, stateVars, callVars
  <2>2. close_calls' + shutdowns' = close_calls + shutdowns
    BY <1>1, <1>6 DEF HandleTerminate, TypeOK
  <2>3. CloseHandlerOnce'
    BY <2>1, <2>2 DEF CloseInv, CloseHandlerOnce
  <2> QED
    BY <1>1, <2>1, <2>3 DEF CloseInv
<1> QED
  BY <1>1, <1>2, <1>3, <1>4, <1>5, <1>6, EndStepCases

LEMMA CloseInit == Init => CloseInv
BY TypeInit DEF Init, CloseInv, StrandCloses, CloseHandlerOnce

\* If only handlers close the connection, its close handler runs exactly once;
\* a close() from another thread breaks this.
THEOREM CloseOnce ==
    ASSUME Closers \subseteq {Strand}
    PROVE  Spec => []CloseHandlerOnce
<1>1. CloseInv /\ [Next]_vars => CloseInv'
  BY CloseStep
<1>2. CloseInv => CloseHandlerOnce
  BY DEF CloseInv
<1> QED
  BY <1>1, <1>2, CloseInit, PTL DEF Spec

\* If only handlers close the connection, terminate() is final and a closing
\* connection does not become open again: close() tests m_state in one critical
\* section and send_close_frame sets it in another, but nothing comes between.
THEOREM StateForwardAlways ==
    ASSUME Closers \subseteq {Strand}
    PROVE  Spec => StateForward
<1>1. CloseInv /\ [Next]_vars => CloseInv'
  BY CloseStep
<1>2. CloseInv /\ [Next]_vars =>
        [ /\ m_state = "closed" => m_state' = "closed"
          /\ m_state = "closing" => m_state' # "open" ]_vars
  BY CloseStep
<1> QED
  BY <1>1, <1>2, CloseInit, PTL DEF Spec, StateForward

=============================================================================
