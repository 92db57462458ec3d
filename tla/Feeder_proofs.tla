---------------------------- MODULE Feeder_proofs ----------------------------
(***************************************************************************)
(* The feeder acknowledges in time and keeps the prices in order, for      *)
(* every queue, number of prices and count that the server asks for.       *)
(***************************************************************************)
EXTENDS Feeder, Counting, SequenceTheorems

\* Nothing was counted at first.
LEMMA AckInit == Init => AckInv
BY DEF Init, AckInv

\* The acknowledgements and data messages, and what leaves them alone.
LEMMA AckStep ==
    ASSUME AckInv, [Next]_vars
    PROVE  AckInv'
<1> USE DEF AckInv
<1>1. CASE UNCHANGED <<ack, counter, unacked, answered>>
  BY <1>1
<1>2. CASE HandleConnection
  BY <1>2, FeederAssumption DEF HandleConnection
<1>3. ASSUME NEW ts, HandleData(ts)
      PROVE  AckInv'
  BY <1>3 DEF HandleData, Count, Subscribed, session
<1>4. CASE Open \/ Close \/ Main \/ snapShots
  <2> UNCHANGED <<ack, counter, unacked, answered>>
    BY <1>4 DEF Open, Close, Main, SendRequest, Subscribe, SubscribeAgain, Join,
                snapShots, ackVars
  <2> QED
    BY <1>1
<1>5. CASE Handling \/ Publishing \/ Spurious
  <2> UNCHANGED <<ack, counter, unacked, answered>>
    BY <1>5 DEF Handling, Push, SetReady, Notify, Publishing, TestReady, Wait, Clear,
                Pop, Spurious, ackVars, session
  <2> QED
    BY <1>1
<1>6. CASE UNCHANGED vars
  BY <1>6, <1>1 DEF vars
<1> QED
  BY <1>2, <1>3, <1>4, <1>5, <1>6 DEF Next

\* The number of data messages that on_message did not acknowledge stays below
\* the count that the server asked for, although the two are compared for
\* equality only.
THEOREM AcksOnTimeAlways == Spec => []AcksOnTime
<1>1. AckInv => AcksOnTime
  BY DEF AckInv, AcksOnTime
<1> QED
  BY <1>1, AckInit, AckStep, PTL DEF Spec

-----------------------------------------------------------------------------
(***************************************************************************)
(* The order of the prices.  Waiting is the queue and what on_message has  *)
(* still to push into it: every step leaves it alone, appends a message to *)
(* it or takes one element out.                                            *)
(***************************************************************************)

\* "a" is before "b" wherever both are.
Sorted(s) == \A i, j \in DOMAIN s : s[i] = "b" /\ s[j] = "a" => j < i

\* What makes OrderKept inductive: a price waits while it is made and neither
\* dropped nor sent, "b" is not made before "a", and "a" waits before "b".
OrderInv ==
    /\ queue \in Seq(Ticks) /\ handler.todo \in Seq(Ticks)
    /\ handler \in [at : {"idle", "push", "flag", "notify"}, todo : Seq(Ticks)]
    /\ handler.at = "idle" <=> handler.todo = <<>>
    /\ fate \in [Marked -> {"none", "made", "dropped", "sent"}]
    /\ \A m \in Marked :
         CountIn(Waiting, {m}) = IF fate[m] = "made" THEN 1 ELSE 0
    /\ Sorted(Waiting)
    /\ fate["b"] # "none" => fate["a"] # "none"
    /\ fate["b"] = "sent" => fate["a"] \in {"sent", "dropped"}


Pending == IF handler.at \in {"flag", "notify"} THEN Tail(handler.todo)
           ELSE handler.todo

LEMMA WaitingPending == Waiting = queue \o Pending
BY DEF Waiting, Pending

\* What waits is a sequence of prices.
LEMMA PendingType ==
    ASSUME queue \in Seq(Ticks), handler.todo \in Seq(Ticks),
           handler.at = "idle" <=> handler.todo = <<>>
    PROVE  Pending \in Seq(Ticks) /\ Waiting \in Seq(Ticks)
<1>1. Pending \in Seq(Ticks)
  <2>1. CASE handler.todo = <<>>
    BY <2>1 DEF Pending
  <2>2. CASE handler.todo # <<>>
    <3>1. Tail(handler.todo) \in Seq(Ticks)
      BY <2>2
    <3> QED
      BY <3>1 DEF Pending
  <2> QED
    BY <2>1, <2>2
<1> QED
  BY <1>1, WaitingPending

\* Taking one element out of a sequence, the one behind the first n, keeps it
\* sorted.
LEMMA SortedWithout ==
    ASSUME NEW s \in Seq(Ticks), NEW t \in Seq(Ticks), Sorted(s),
           NEW n \in Nat, n < Len(s), Len(t) = Len(s) - 1,
           \A i \in 1 .. Len(t) : t[i] = IF i <= n THEN s[i] ELSE s[i + 1]
    PROVE  Sorted(t)
<1> SUFFICES ASSUME NEW i \in DOMAIN t, NEW j \in DOMAIN t, t[i] = "b", t[j] = "a"
             PROVE  j < i
  BY DEF Sorted
<1> DEFINE p == IF i <= n THEN i ELSE i + 1
           q == IF j <= n THEN j ELSE j + 1
<1>1. i \in 1 .. Len(t) /\ j \in 1 .. Len(t) /\ Len(s) \in Nat
  OBVIOUS
<1>2. p \in DOMAIN s /\ q \in DOMAIN s
  BY <1>1
<1>3. s[p] = "b" /\ s[q] = "a"
  BY <1>1
<1>4. q < p
  BY <1>2, <1>3 DEF Sorted
<1> QED
  BY <1>1, <1>4

\* A queue that loses its head.
LEMMA WithoutHead ==
    ASSUME NEW s \in Seq(Ticks), s # <<>>, NEW r \in Seq(Ticks)
    PROVE  /\ s \o r # <<>> /\ Head(s \o r) = Head(s)
           /\ Tail(s \o r) = Tail(s) \o r
<1> DEFINE x == Tail(s \o r)
           y == Tail(s) \o r
<1>1. /\ s \o r \in Seq(Ticks) /\ Tail(s) \in Seq(Ticks)
      /\ Len(s \o r) = Len(s) + Len(r) /\ Len(Tail(s)) = Len(s) - 1
      /\ Len(s) \in Nat \ {0} /\ Len(r) \in Nat
  OBVIOUS
<1>2. s \o r # <<>> /\ Head(s \o r) = Head(s)
  BY <1>1
<1>3. /\ x \in Seq(Ticks) /\ Len(x) = Len(s) + Len(r) - 1
      /\ \A i \in 1 .. Len(x) : x[i] = (s \o r)[i + 1]
  BY <1>1, <1>2
<1>4. /\ y \in Seq(Ticks) /\ Len(y) = Len(s) + Len(r) - 1
      /\ \A i \in 1 .. Len(y) : y[i] = IF i <= Len(s) - 1 THEN s[i + 1]
                                       ELSE r[i - (Len(s) - 1)]
  BY <1>1
<1>5. \A i \in 1 .. Len(x) : x[i] = y[i]
  <2> SUFFICES ASSUME NEW i \in 1 .. Len(x) PROVE x[i] = y[i]
    OBVIOUS
  <2>1. (s \o r)[i + 1] = IF i + 1 <= Len(s) THEN s[i + 1] ELSE r[(i + 1) - Len(s)]
    BY <1>1, <1>3
  <2> HIDE DEF x, y
  <2>2. x[i] = IF i + 1 <= Len(s) THEN s[i + 1] ELSE r[(i + 1) - Len(s)]
    BY <1>3, <2>1
  <2>3. y[i] = IF i <= Len(s) - 1 THEN s[i + 1] ELSE r[i - (Len(s) - 1)]
    BY <1>3, <1>4
  <2>4. i \in Int /\ (i + 1) - Len(s) = i - (Len(s) - 1)
        /\ (i + 1 <= Len(s) <=> i <= Len(s) - 1)
    BY <1>1, <1>3
  <2> QED
    BY <2>2, <2>3, <2>4
<1> HIDE DEF x, y
<1>6. x = y
  BY <1>3, <1>4, <1>5, SeqEqual
<1> QED
  BY <1>2, <1>6 DEF x, y

\* A price that moves from the front of one sequence to the end of another.
LEMMA MoveHead ==
    ASSUME NEW s \in Seq(Ticks), NEW t \in Seq(Ticks), t # <<>>
    PROVE  Append(s, Head(t)) \o Tail(t) = s \o t
<1> DEFINE h == <<Head(t)>>
<1>1. /\ Head(t) \in Ticks /\ Tail(t) \in Seq(Ticks) /\ h \in Seq(Ticks)
      /\ t = h \o Tail(t) /\ Append(s, Head(t)) = s \o h
  OBVIOUS
<1>2. (s \o h) \o Tail(t) = s \o (h \o Tail(t))
  <2> DEFINE r == Tail(t)
  <2>1. h \in Seq(Ticks) /\ r \in Seq(Ticks)
    BY <1>1
  <2> HIDE DEF h, r
  <2>2. (s \o h) \o r = s \o (h \o r)
    BY <2>1, ConcatAssociative
  <2> QED
    BY <2>2 DEF r
<1> HIDE DEF h
<1> QED
  BY <1>1, <1>2

\* Taking the first price out of what on_message has still to push.
LEMMA DropHead ==
    ASSUME NEW s \in Seq(Ticks), NEW t \in Seq(Ticks), t # <<>>, Sorted(s \o t)
    PROVE  /\ Sorted(s \o Tail(t))
           /\ \A S : CountIn(s \o t, S) = CountIn(s \o Tail(t), S)
                       + (IF Head(t) \in S THEN 1 ELSE 0)
<1> DEFINE x == s \o t
           y == s \o Tail(t)
           n == Len(s)
<1>1. /\ Head(t) \in Ticks /\ Tail(t) \in Seq(Ticks)
      /\ x \in Seq(Ticks) /\ y \in Seq(Ticks)
      /\ n \in Nat /\ Len(t) \in Nat \ {0} /\ Len(Tail(t)) = Len(t) - 1
      /\ Len(x) = n + Len(t) /\ Len(y) = n + Len(t) - 1
  OBVIOUS
<1>2. \A i \in 1 .. Len(y) : y[i] = IF i <= n THEN x[i] ELSE x[i + 1]
  <2> SUFFICES ASSUME NEW i \in 1 .. Len(y)
               PROVE  y[i] = IF i <= n THEN x[i] ELSE x[i + 1]
    OBVIOUS
  <2>1. i <= n => y[i] = s[i] /\ x[i] = s[i]
    BY <1>1
  <2>2. ~(i <= n) => y[i] = Tail(t)[i - n] /\ x[i + 1] = t[(i + 1) - n]
    BY <1>1
  <2>3. ~(i <= n) => Tail(t)[i - n] = t[(i - n) + 1]
    BY <1>1
  <2>4. (i + 1) - n = (i - n) + 1
    BY <1>1
  <2> QED
    BY <2>1, <2>2, <2>3, <2>4
<1>3. Sorted(y)
  <2> HIDE DEF x, y, n
  <2>1. n < Len(x) /\ Len(y) = Len(x) - 1 /\ Sorted(x)
    BY <1>1 DEF x
  <2> QED
    BY <1>1, <1>2, <2>1, SortedWithout
<1>4. ASSUME NEW S
      PROVE  CountIn(x, S) = CountIn(y, S) + (IF Head(t) \in S THEN 1 ELSE 0)
  <2>1. CountIn(x, S) = CountIn(s, S) + CountIn(t, S)
    BY CountConcat
  <2>2. CountIn(t, S) = CountIn(Tail(t), S) + (IF Head(t) \in S THEN 1 ELSE 0)
    BY CountTail
  <2>3. CountIn(y, S) = CountIn(s, S) + CountIn(Tail(t), S)
    BY <1>1, CountConcat
  <2>4. CountIn(s, S) \in Nat /\ CountIn(Tail(t), S) \in Nat
    BY <1>1, PositionsFinite
  <2> HIDE DEF x, y
  <2>5. CASE Head(t) \in S
    BY <2>1, <2>2, <2>3, <2>4, <2>5
  <2>6. CASE Head(t) \notin S
    BY <2>1, <2>2, <2>3, <2>4, <2>6
  <2> QED
    BY <2>5, <2>6
<1> QED
  BY <1>3, <1>4

\* The marked price that is taken out of what waits, and the other one.
LEMMA FateWithout ==
    ASSUME NEW s \in Seq(Ticks), NEW t \in Seq(Ticks), NEW x \in Ticks,
           NEW what \in {"dropped", "sent"},
           fate \in [Marked -> {"none", "made", "dropped", "sent"}],
           \A m \in Marked : CountIn(s, {m}) = CountIn(t, {m}) + (IF x = m THEN 1 ELSE 0),
           \A m \in Marked : CountIn(s, {m}) = IF fate[m] = "made" THEN 1 ELSE 0
    PROVE  /\ Now(x, what) \in [Marked -> {"none", "made", "dropped", "sent"}]
           /\ \A m \in Marked :
                CountIn(t, {m}) = IF Now(x, what)[m] = "made" THEN 1 ELSE 0
           /\ x \in Marked => fate[x] = "made"
<1>1. Now(x, what) \in [Marked -> {"none", "made", "dropped", "sent"}]
  BY DEF Now
<1>2. ASSUME NEW m \in Marked
      PROVE  /\ CountIn(t, {m}) = IF Now(x, what)[m] = "made" THEN 1 ELSE 0
             /\ m = x => fate[m] = "made"
  <2>1. CountIn(t, {m}) \in Nat
    BY PositionsFinite
  <2>2. CountIn(s, {m}) = IF fate[m] = "made" THEN 1 ELSE 0
    OBVIOUS
  <2>3. CASE m = x
    <3>1. CountIn(s, {m}) = CountIn(t, {m}) + 1
      BY <2>3
    <3>2. fate[m] = "made" /\ CountIn(t, {m}) = 0
      BY <2>1, <2>2, <3>1
    <3>3. Now(x, what)[m] # "made"
      BY <2>3 DEF Now
    <3> QED
      BY <3>2, <3>3
  <2>4. CASE m # x
    <3>1. CountIn(s, {m}) = CountIn(t, {m}) + 0
      BY <2>4
    <3>2. Now(x, what)[m] = fate[m]
      BY <2>4 DEF Now
    <3> QED
      BY <2>1, <2>2, <2>4, <3>1, <3>2
  <2> QED
    BY <2>3, <2>4
<1> QED
  BY <1>1, <1>2

\* Nothing waits at first.
LEMMA OrderInit == Init => OrderInv
<1> SUFFICES ASSUME Init PROVE OrderInv
  OBVIOUS
<1>1. /\ queue = <<>> /\ handler = [at |-> "idle", todo |-> <<>>]
      /\ fate = [m \in Marked |-> "none"]
  BY DEF Init
<1>2. Waiting = <<>>
  BY <1>1 DEF Waiting
<1>3. \A m \in Marked : CountIn(Waiting, {m}) = 0
  BY <1>2, CountEmpty
<1>4. Sorted(Waiting)
  BY <1>2 DEF Sorted
<1>5. \A m \in Marked : fate[m] = "none"
  BY <1>1
<1> QED
  BY <1>1, <1>3, <1>4, <1>5 DEF OrderInv, Marked

\* A step that takes nothing out of what waits and adds nothing to it.
LEMMA SameOrder ==
    ASSUME OrderInv, Waiting' = Waiting, fate' = fate,
           queue' \in Seq(Ticks),
           handler' \in [at : {"idle", "push", "flag", "notify"}, todo : Seq(Ticks)],
           handler'.at = "idle" <=> handler'.todo = <<>>
    PROVE  OrderInv'
BY DEF OrderInv

\* on_message pushes the next price, or finds the queue full.
LEMMA OrderPush ==
    ASSUME OrderInv, Push
    PROVE  OrderInv'
<1> DEFINE x == Head(handler.todo)
<1>1. /\ queue \in Seq(Ticks) /\ handler.todo \in Seq(Ticks)
      /\ handler.at = "push" /\ handler.todo # <<>>
  BY DEF OrderInv, Push
<1>2. handler' = [at |-> "flag", todo |-> handler.todo]
  BY DEF OrderInv, Push
<1>3. x \in Ticks /\ Tail(handler.todo) \in Seq(Ticks)
  BY <1>1
<1>4. Waiting = queue \o handler.todo /\ Waiting' = queue' \o Tail(handler.todo)
  BY <1>1, <1>2 DEF Waiting
<1>5. /\ handler' \in [at : {"idle", "push", "flag", "notify"}, todo : Seq(Ticks)]
      /\ handler'.at = "idle" <=> handler'.todo = <<>>
  BY <1>1, <1>2
<1>6. CASE Len(queue) < Capacity
  <2>1. queue' = Append(queue, x) /\ fate' = fate
    BY <1>6 DEF Push
  <2>2. Waiting' = Waiting
    BY <1>1, <1>4, <2>1, MoveHead
  <2>3. queue' \in Seq(Ticks)
    BY <1>1, <1>3, <2>1
  <2> QED
    BY <1>5, <2>1, <2>2, <2>3, SameOrder
<1>7. CASE ~(Len(queue) < Capacity)
  <2>1. queue' = queue /\ fate' = Now(x, "dropped")
    BY <1>7 DEF Push
  <2>2. Sorted(Waiting)
    BY DEF OrderInv
  <2>3. /\ Sorted(Waiting')
        /\ \A S : CountIn(Waiting, S) = CountIn(Waiting', S)
                    + (IF x \in S THEN 1 ELSE 0)
    BY <1>1, <1>4, <2>1, <2>2, DropHead
  <2>4. Waiting \in Seq(Ticks) /\ Waiting' \in Seq(Ticks)
    BY <1>1, <1>3, <1>4, <2>1
  <2>5. /\ fate \in [Marked -> {"none", "made", "dropped", "sent"}]
        /\ \A m \in Marked : CountIn(Waiting, {m}) = IF fate[m] = "made" THEN 1 ELSE 0
    BY DEF OrderInv
  <2> HIDE DEF x
  <2>6. /\ fate' \in [Marked -> {"none", "made", "dropped", "sent"}]
        /\ \A m \in Marked :
             CountIn(Waiting', {m}) = IF fate'[m] = "made" THEN 1 ELSE 0
        /\ x \in Marked => fate[x] = "made"
    <3> DEFINE w == Waiting
               v == Waiting'
    <3>1. /\ w \in Seq(Ticks) /\ v \in Seq(Ticks) /\ x \in Ticks
          /\ "dropped" \in {"dropped", "sent"}
          /\ fate \in [Marked -> {"none", "made", "dropped", "sent"}]
      BY <1>3, <2>3, <2>4, <2>5
    <3>2. \A m \in Marked :
            CountIn(w, {m}) = CountIn(v, {m}) + (IF x = m THEN 1 ELSE 0)
      BY <1>3, <2>3, <2>4, <2>5
    <3>3. \A m \in Marked : CountIn(w, {m}) = IF fate[m] = "made" THEN 1 ELSE 0
      BY <1>3, <2>3, <2>4, <2>5
    <3> HIDE DEF w, v, x
    <3>4. /\ Now(x, "dropped") \in [Marked -> {"none", "made", "dropped", "sent"}]
          /\ \A m \in Marked :
               CountIn(v, {m}) = IF Now(x, "dropped")[m] = "made" THEN 1 ELSE 0
          /\ x \in Marked => fate[x] = "made"
      BY <3>1, <3>2, <3>3, FateWithout, ZenonT(60)
    <3> QED
      BY <2>1, <3>4 DEF v
  <2>7. \A m \in Marked : fate'[m] = IF m = x THEN "dropped" ELSE fate[m]
    BY <2>1 DEF Now
  <2>8. fate'["b"] # "none" => fate'["a"] # "none"
    BY <2>6, <2>7 DEF OrderInv, Marked
  <2>9. fate'["b"] = "sent" => fate'["a"] \in {"sent", "dropped"}
    BY <2>6, <2>7 DEF OrderInv, Marked
  <2> QED
    BY <1>1, <1>5, <2>1, <2>3, <2>6, <2>8, <2>9 DEF OrderInv
<1> QED
  BY <1>6, <1>7

\* on_message goes on to the next price, or is done.
LEMMA OrderNotify ==
    ASSUME OrderInv, Notify
    PROVE  OrderInv'
<1>1. /\ queue \in Seq(Ticks) /\ handler.todo \in Seq(Ticks)
      /\ handler.at = "notify" /\ handler.todo # <<>>
      /\ queue' = queue /\ fate' = fate
  BY DEF OrderInv, Notify
<1>2. /\ Tail(handler.todo) \in Seq(Ticks) /\ Len(handler.todo) \in Nat \ {0}
      /\ Tail(handler.todo) = <<>> <=> Len(handler.todo) = 1
  <2> DEFINE t == handler.todo
             r == Tail(t)
  <2>1. t \in Seq(Ticks) /\ t # <<>>
    BY <1>1
  <2> HIDE DEF t
  <2>2. r \in Seq(Ticks) /\ Len(t) \in Nat \ {0} /\ Len(r) = Len(t) - 1
    BY <2>1
  <2> HIDE DEF r
  <2>3. r = <<>> <=> Len(r) = 0
    BY <2>2
  <2>4. r = <<>> <=> Len(t) = 1
    BY <2>2, <2>3
  <2> QED
    BY <2>2, <2>4 DEF t, r
<1>3. handler' = NextTick
  BY DEF Notify
<1>4. /\ handler' \in [at : {"idle", "push", "flag", "notify"}, todo : Seq(Ticks)]
      /\ handler'.at = "idle" <=> handler'.todo = <<>>
      /\ handler'.at \notin {"flag", "notify"} /\ handler'.todo = Tail(handler.todo)
  BY <1>2, <1>3 DEF NextTick
<1>5. Waiting' = Waiting
  BY <1>1, <1>4 DEF Waiting
<1> QED
  BY <1>1, <1>4, <1>5, SameOrder

\* A data message: its prices come behind those that wait.
LEMMA OrderData ==
    ASSUME OrderInv, NEW ts \in SeqOf(Ticks, MaxTicks), HandleData(ts)
    PROVE  OrderInv'
<1>1. ts \in Seq(Ticks)
  BY DEF SeqOf
<1>2. /\ queue \in Seq(Ticks) /\ handler.at = "idle" /\ handler.todo = <<>>
      /\ queue' = queue
      /\ handler' = [at |-> IF ts = <<>> THEN "idle" ELSE "push", todo |-> ts]
      /\ fate' = [m \in Marked |-> IF m \in ToSet(ts) THEN "made" ELSE fate[m]]
  BY DEF OrderInv, HandleData
<1>3. Waiting = queue
  BY <1>2, ConcatEmptySeq DEF Waiting
<1>4. Waiting' = queue \o ts
  BY <1>2 DEF Waiting
<1>5. \A m : m \in ToSet(ts) <=> \E i \in DOMAIN ts : ts[i] = m
  BY DEF ToSet
<1>6. \A m \in Marked : /\ CountIn(ts, {m}) <= 1 /\ CountIn(ts, {m}) \in Nat
                        /\ CountIn(queue, {m}) \in Nat
                        /\ CountIn(ts, {m}) > 0 <=> m \in ToSet(ts)
  <2> TAKE m \in Marked
  <2>1. {i \in DOMAIN ts : ts[i] = m} = Positions(ts, {m})
    BY DEF Positions
  <2>2. CountIn(ts, {m}) <= 1
    BY <2>1 DEF HandleData, NewTicks, CountIn
  <2>3. CountIn(ts, {m}) > 0 <=> \E i \in DOMAIN ts : ts[i] \in {m}
    BY <1>1, CountZero
  <2>4. CountIn(ts, {m}) \in Nat /\ CountIn(queue, {m}) \in Nat
    BY <1>1, <1>2, PositionsFinite
  <2> QED
    BY <1>5, <2>2, <2>3, <2>4
<1>7. \A m \in Marked : CountIn(queue, {m}) = IF fate[m] = "made" THEN 1 ELSE 0
  BY <1>3 DEF OrderInv
<1>8. \A m \in Marked : m \in ToSet(ts) => fate[m] = "none"
  BY DEF HandleData, NewTicks
<1>9. \A m \in Marked :
        CountIn(Waiting', {m}) = IF fate'[m] = "made" THEN 1 ELSE 0
  <2> TAKE m \in Marked
  <2>1. CountIn(queue \o ts, {m}) = CountIn(queue, {m}) + CountIn(ts, {m})
    BY <1>1, <1>2, CountConcat
  <2>2. CASE m \in ToSet(ts)
    <3>1. CountIn(ts, {m}) = 1 /\ CountIn(queue, {m}) = 0 /\ fate'[m] = "made"
      BY <1>2, <1>6, <1>7, <1>8, <2>2
    <3> QED
      BY <1>4, <2>1, <3>1
  <2>3. CASE m \notin ToSet(ts)
    <3>1. CountIn(ts, {m}) = 0 /\ fate'[m] = fate[m]
      BY <1>2, <1>6, <2>3
    <3>2. CountIn(queue \o ts, {m}) = CountIn(queue, {m})
      BY <1>6, <2>1, <3>1
    <3> QED
      BY <1>4, <1>7, <3>1, <3>2
  <2> QED
    BY <2>2, <2>3
<1>10. "b" \in ToSet(ts) => \/ fate["a"] # "none"
                            \/ \E i, j \in DOMAIN ts : i < j /\ ts[i] = "a" /\ ts[j] = "b"
  BY DEF HandleData, NewTicks, Marked
<1>11. Sorted(queue)
  BY <1>3 DEF OrderInv
<1>12. Sorted(queue \o ts)
  <2> DEFINE n == Len(queue)
             x == queue \o ts
  <2>1. /\ n \in Nat /\ Len(ts) \in Nat /\ Len(x) = n + Len(ts)
        /\ DOMAIN x = 1 .. (n + Len(ts))
        /\ DOMAIN queue = 1 .. n /\ DOMAIN ts = 1 .. Len(ts)
        /\ \A i \in 1 .. n : x[i] = queue[i]
        /\ \A i \in (n + 1) .. (n + Len(ts)) : x[i] = ts[i - n]
    BY <1>1, <1>2
  <2> HIDE DEF n, x
  <2> SUFFICES ASSUME NEW i \in DOMAIN x, NEW j \in DOMAIN x, x[i] = "b", x[j] = "a"
               PROVE  j < i
    BY DEF Sorted, x
  <2>2. CASE i <= n /\ j <= n
    BY <1>11, <2>1, <2>2 DEF Sorted
  <2>3. CASE j <= n /\ ~(i <= n)
    BY <2>1, <2>3
  <2>4. CASE i <= n /\ ~(j <= n)
    <3>1. i \in DOMAIN queue /\ queue[i] = "b"
      BY <2>1, <2>4
    <3>2. (j - n) \in DOMAIN ts /\ ts[j - n] = "a"
      BY <2>1, <2>4
    <3>3. fate["a"] = "none"
      BY <1>5, <1>8, <3>2 DEF Marked
    <3>4. CountIn(queue, {"b"}) > 0
      BY <1>2, <3>1, CountZero
    <3>5. fate["b"] = "made"
      BY <1>7, <3>4 DEF Marked
    <3> QED
      BY <3>3, <3>5 DEF OrderInv
  <2>5. CASE ~(i <= n) /\ ~(j <= n)
    <3>1. (i - n) \in DOMAIN ts /\ ts[i - n] = "b"
      BY <2>1, <2>5
    <3>2. (j - n) \in DOMAIN ts /\ ts[j - n] = "a"
      BY <2>1, <2>5
    <3>3. "a" \in ToSet(ts) /\ "b" \in ToSet(ts)
      BY <1>5, <3>1, <3>2
    <3>4. fate["a"] = "none"
      BY <1>8, <3>3 DEF Marked
    <3>5. PICK k, l \in DOMAIN ts : k < l /\ ts[k] = "a" /\ ts[l] = "b"
      BY <1>10, <3>3, <3>4
    <3>6. k = j - n
      BY <1>1, <1>6, <3>2, <3>5, CountUnique DEF Marked
    <3>7. l = i - n
      BY <1>1, <1>6, <3>1, <3>5, CountUnique DEF Marked
    <3> QED
      BY <2>1, <3>5, <3>6, <3>7
  <2> QED
    BY <2>2, <2>3, <2>4, <2>5
<1>13. fate' \in [Marked -> {"none", "made", "dropped", "sent"}]
  BY <1>2 DEF OrderInv
<1>14. fate'["b"] # "none" => fate'["a"] # "none"
  <2>1. \A m \in Marked : fate'[m] = IF m \in ToSet(ts) THEN "made" ELSE fate[m]
    BY <1>2
  <2>2. "b" \in ToSet(ts) => fate["a"] # "none" \/ "a" \in ToSet(ts)
    BY <1>5, <1>10
  <2> QED
    BY <2>1, <2>2 DEF OrderInv, Marked
<1>15. fate'["b"] = "sent" => fate'["a"] \in {"sent", "dropped"}
  <2>1. \A m \in Marked : fate'[m] = IF m \in ToSet(ts) THEN "made" ELSE fate[m]
    BY <1>2
  <2> QED
    BY <1>8, <2>1 DEF OrderInv, Marked
<1>16. /\ handler' \in [at : {"idle", "push", "flag", "notify"}, todo : Seq(Ticks)]
       /\ handler'.at = "idle" <=> handler'.todo = <<>>
       /\ handler'.todo \in Seq(Ticks) /\ queue' \in Seq(Ticks)
  BY <1>1, <1>2
<1>17. Sorted(Waiting')
  BY <1>4, <1>12
<1> QED
  BY <1>9, <1>13, <1>14, <1>15, <1>16, <1>17 DEF OrderInv

\* The publisher sends the first price that waits.
LEMMA OrderPop ==
    ASSUME OrderInv, Pop
    PROVE  OrderInv'
<1>1. /\ queue \in Seq(Ticks) /\ handler.todo \in Seq(Ticks)
      /\ handler.at = "idle" <=> handler.todo = <<>>
      /\ handler' = handler
      /\ handler \in [at : {"idle", "push", "flag", "notify"}, todo : Seq(Ticks)]
  BY DEF OrderInv, Pop
<1>2. Pending \in Seq(Ticks) /\ Waiting \in Seq(Ticks)
  BY <1>1, PendingType
<1>3. Waiting = queue \o Pending /\ Waiting' = queue' \o Pending
  BY <1>1 DEF Waiting, Pending
<1>4. CASE queue = <<>>
  <2>1. queue' = queue /\ fate' = fate
    BY <1>4 DEF Pop
  <2> QED
    BY <1>1, <1>3, <2>1, SameOrder
<1>5. CASE queue # <<>>
  <2> DEFINE x == Head(queue)
  <2>1. queue' = Tail(queue) /\ fate' = Now(x, "sent")
    BY <1>5 DEF Pop
  <2>2. x \in Ticks /\ queue' \in Seq(Ticks)
    BY <1>1, <1>5, <2>1
  <2>3. Waiting # <<>> /\ Head(Waiting) = x /\ Waiting' = Tail(Waiting)
    BY <1>1, <1>2, <1>3, <1>5, <2>1, WithoutHead
  <2>4. Waiting' \in Seq(Ticks)
    BY <1>2, <2>3
  <2> HIDE DEF x
  <2>5. \A S : CountIn(Waiting, S) = CountIn(Waiting', S) + (IF x \in S THEN 1 ELSE 0)
    BY <1>2, <2>3, CountTail
  <2>6. /\ fate \in [Marked -> {"none", "made", "dropped", "sent"}]
        /\ \A m \in Marked : CountIn(Waiting, {m}) = IF fate[m] = "made" THEN 1 ELSE 0
    BY DEF OrderInv
  <2>7. /\ fate' \in [Marked -> {"none", "made", "dropped", "sent"}]
        /\ \A m \in Marked :
             CountIn(Waiting', {m}) = IF fate'[m] = "made" THEN 1 ELSE 0
        /\ x \in Marked => fate[x] = "made"
    <3> DEFINE w == Waiting
               v == Waiting'
    <3>1. /\ w \in Seq(Ticks) /\ v \in Seq(Ticks) /\ x \in Ticks
          /\ "sent" \in {"dropped", "sent"}
          /\ fate \in [Marked -> {"none", "made", "dropped", "sent"}]
      BY <1>2, <2>2, <2>4, <2>5, <2>6
    <3>2. \A m \in Marked :
            CountIn(w, {m}) = CountIn(v, {m}) + (IF x = m THEN 1 ELSE 0)
      BY <1>2, <2>2, <2>4, <2>5, <2>6
    <3>3. \A m \in Marked : CountIn(w, {m}) = IF fate[m] = "made" THEN 1 ELSE 0
      BY <1>2, <2>2, <2>4, <2>5, <2>6
    <3> HIDE DEF w, v
    <3>4. /\ Now(x, "sent") \in [Marked -> {"none", "made", "dropped", "sent"}]
          /\ \A m \in Marked :
               CountIn(v, {m}) = IF Now(x, "sent")[m] = "made" THEN 1 ELSE 0
          /\ x \in Marked => fate[x] = "made"
      BY <3>1, <3>2, <3>3, FateWithout, ZenonT(60)
    <3> QED
      BY <2>1, <3>4 DEF v
  <2>8. \A m \in Marked : fate'[m] = IF m = x THEN "sent" ELSE fate[m]
    BY <2>1 DEF Now
  <2>9. Sorted(Waiting')
    <3>1. Sorted(Waiting)
      BY DEF OrderInv
    <3>2. /\ Len(Waiting) \in Nat \ {0} /\ Len(Waiting') = Len(Waiting) - 1
          /\ \A i \in 1 .. Len(Waiting') : Waiting'[i] = Waiting[i + 1]
      BY <1>2, <2>3
    <3>3. \A i \in 1 .. Len(Waiting') :
            Waiting'[i] = IF i <= 0 THEN Waiting[i] ELSE Waiting[i + 1]
      BY <3>2
    <3>4. 0 \in Nat /\ 0 < Len(Waiting)
      BY <3>2
    <3> QED
      BY <1>2, <2>4, <3>1, <3>2, <3>3, <3>4, SortedWithout
  <2>10. x = "b" => fate["a"] # "made"
    <3> SUFFICES ASSUME x = "b", fate["a"] = "made" PROVE FALSE
      OBVIOUS
    <3>1. CountIn(Waiting, {"a"}) > 0
      BY <2>6 DEF Marked
    <3>2. PICK j \in DOMAIN Waiting : Waiting[j] \in {"a"}
      BY <1>2, <3>1, CountZero
    <3>3. 1 \in DOMAIN Waiting /\ Waiting[1] = "b" /\ j >= 1
      BY <1>2, <2>3
    <3>4. j < 1
      BY <3>2, <3>3 DEF OrderInv, Sorted
    <3> QED
      BY <1>2, <3>3, <3>4
  <2>11. fate'["b"] # "none" => fate'["a"] # "none"
    BY <2>7, <2>8 DEF OrderInv, Marked
  <2>12. fate'["b"] = "sent" => fate'["a"] \in {"sent", "dropped"}
    <3>1. CASE x = "b"
      <4>1. fate["b"] = "made"
        BY <2>7, <3>1 DEF Marked
      <4>2. fate["a"] \notin {"none", "made"}
        BY <2>10, <3>1, <4>1 DEF OrderInv
      <4> QED
        BY <2>6, <2>8, <3>1, <4>2 DEF Marked
    <3>2. CASE x # "b"
      BY <2>7, <2>8, <3>2 DEF OrderInv, Marked
    <3> QED
      BY <3>1, <3>2
  <2> QED
    BY <1>1, <2>2, <2>7, <2>9, <2>11, <2>12 DEF OrderInv
<1> QED
  BY <1>4, <1>5

LEMMA OrderStep ==
    ASSUME OrderInv, [Next]_vars
    PROVE  OrderInv'
<1>1. CASE UNCHANGED <<handler, queue, fate>>
  <2>1. Waiting' = Waiting
    BY <1>1 DEF Waiting
  <2> QED
    BY <1>1, <2>1, SameOrder DEF OrderInv
<1>2. CASE Open \/ Close \/ Main \/ snapShots \/ HandleConnection \/ UNCHANGED vars
  <2> UNCHANGED <<handler, queue, fate>>
    BY <1>2 DEF Open, Close, Main, SendRequest, Subscribe, SubscribeAgain, Join,
                snapShots, HandleConnection, pipe, vars
  <2> QED
    BY <1>1
<1>3. CASE SetReady
  <2>1. /\ handler' = [at |-> "notify", todo |-> handler.todo]
        /\ handler.at = "flag" /\ handler.todo \in Seq(Ticks)
        /\ handler.todo # <<>> /\ queue' = queue /\ fate' = fate
        /\ queue \in Seq(Ticks)
    BY <1>3 DEF SetReady, OrderInv
  <2>2. Waiting' = Waiting
    BY <2>1 DEF Waiting
  <2> QED
    BY <2>1, <2>2, SameOrder
<1>4. CASE TestReady \/ Wait \/ Clear \/ Spurious
  <2> UNCHANGED <<handler, queue, fate>>
    BY <1>4 DEF TestReady, Wait, Clear, Spurious
  <2> QED
    BY <1>1
<1> QED
  BY <1>2, <1>3, <1>4, OrderPush, OrderNotify, OrderData, OrderPop
  DEF Next, Handling, Publishing

\* The lock-free queue and the loops around it keep the prices in order and
\* lose none but those pushed into a full queue, for any capacity and any
\* number of prices in a message.
THEOREM OrderKeptAlways == Spec => []OrderKept
<1>1. OrderInv => OrderKept
  <2> SUFFICES ASSUME OrderInv PROVE OrderKept
    OBVIOUS
  <2>1. \A m \in Marked : {i \in DOMAIN Waiting : Waiting[i] = m}
                            = Positions(Waiting, {m})
    BY DEF Positions
  <2> QED
    BY <2>1 DEF OrderInv, OrderKept, CountIn
<1> QED
  BY <1>1, OrderInit, OrderStep, PTL DEF Spec

=============================================================================
