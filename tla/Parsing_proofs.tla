---------------------------- MODULE Parsing_proofs ----------------------------
(***************************************************************************)
(* The machines that MCParsing puts side by side, for any values of their  *)
(* constants: however the transport cuts the bytes, the incremental parser *)
(* arrives at what the bytes say as a whole.                               *)
(***************************************************************************)
EXTENDS MCParsing, Hybi13_proofs

-----------------------------------------------------------------------------
(***************************************************************************)
(* HTTP messages (HttpParser).                                             *)
(***************************************************************************)

\* The head that is being sent: its lines, the last of which alone is empty.
HeadLines ==
    /\ lines \in Seq([kind : H!Kinds \cup {"empty"}, size : Nat, value : Nat])
    /\ Len(lines) > 0
    /\ \A i \in 1 .. Len(lines) :
          /\ lines[i].size = 0 <=> i = Len(lines)
          /\ i < Len(lines) => lines[i].kind \in H!Kinds
    /\ lines[Len(lines)].kind = "empty"

LEMMA LineFacts ==
    ASSUME HeadLines
    PROVE  /\ Len(lines) \in Nat /\ Len(lines) >= 1
           /\ \A n \in 1 .. Len(lines) : lines[n].size \in Nat /\ lines[n].value \in Nat
           /\ DOMAIN lines = 1 .. Len(lines)
<1> DEFINE R == [kind : H!Kinds \cup {"empty"}, size : Nat, value : Nat]
<1>1. lines \in Seq(R) /\ Len(lines) > 0
  BY DEF HeadLines
<1>2. \A r \in R : r.size \in Nat /\ r.value \in Nat
  OBVIOUS
<1> HIDE DEF R
<1> QED
  BY <1>1, <1>2

\* The function that adds up the lines exists: the recursion ends.
LEMMA BytesDefined ==
    ASSUME HeadLines
    PROVE  H!Bytes = [n \in 0 .. Len(lines) |->
                        IF n = 0 THEN 0 ELSE H!Bytes[n - 1] + lines[n].size + 2]
<1> DEFINE Adds(f, N) == f = [n \in 0 .. N |->
                                IF n = 0 THEN 0 ELSE f[n - 1] + lines[n].size + 2]
           X == {N \in Nat : \E f : Adds(f, N)}
<1>1. 0 \in X
  <2> DEFINE f == [n \in 0 .. 0 |-> 0]
  <2>1. Adds(f, 0)
    OBVIOUS
  <2> QED
    BY <2>1
<1>2. ASSUME NEW N \in Nat, N \in X PROVE N + 1 \in X
  <2>1. PICK f : Adds(f, N)
    BY <1>2
  <2> DEFINE v == f[N] + lines[N + 1].size + 2
             g == [n \in 0 .. N + 1 |-> IF n = N + 1 THEN v ELSE f[n]]
  <2>2. \A n \in 0 .. N : g[n] = f[n]
    OBVIOUS
  <2>3. \A n \in 0 .. N : g[n] = IF n = 0 THEN 0 ELSE g[n - 1] + lines[n].size + 2
    <3> TAKE n \in 0 .. N
    <3>1. f[n] = IF n = 0 THEN 0 ELSE f[n - 1] + lines[n].size + 2
      BY <2>1
    <3>2. n # 0 => n - 1 \in 0 .. N
      OBVIOUS
    <3> QED
      BY <3>1, <3>2, <2>2
  <2>4. g[N + 1] = v /\ g[N] = f[N] /\ N + 1 # 0 /\ (N + 1) - 1 = N
    OBVIOUS
  <2>5. \A n \in 0 .. N + 1 : g[n] = IF n = 0 THEN 0 ELSE g[n - 1] + lines[n].size + 2
    <3> TAKE n \in 0 .. N + 1
    <3>1. CASE n = N + 1
      BY <3>1, <2>4
    <3>2. CASE n \in 0 .. N
      BY <3>2, <2>3
    <3> QED
      BY <3>1, <3>2
  <2>6. Adds(g, N + 1)
    BY <2>5
  <2>7. \E f1 : Adds(f1, N + 1)
    <3> HIDE DEF g
    <3> QED
      BY <2>6
  <2> QED
    BY <2>7
<1>3. Nat \subseteq X
  BY <1>1, <1>2, Induction
<1>4. Len(lines) \in X
  <2>1. Len(lines) \in Nat
    BY LineFacts
  <2> HIDE DEF X
  <2> QED
    BY <1>3, <2>1
<1>5. \E f : Adds(f, Len(lines))
  <2> HIDE DEF Adds
  <2> QED
    BY <1>4
<1> QED
  BY <1>5 DEF H!Bytes

LEMMA BytesFacts ==
    ASSUME HeadLines
    PROVE  /\ H!Bytes[0] = 0
           /\ \A n \in 1 .. Len(lines) :
                 H!Bytes[n] = H!Bytes[n - 1] + lines[n].size + 2
           /\ \A n \in 0 .. Len(lines) :
                 H!Bytes[n] \in Nat /\ H!Bytes[n] <= H!HeadBytes
           /\ H!HeadBytes = H!Bytes[Len(lines)] /\ H!HeadBytes \in Nat
<1> DEFINE B == H!Bytes
           L == Len(lines)
<1>1. L \in Nat /\ \A n \in 1 .. L : lines[n].size \in Nat
  BY LineFacts
<1>2. /\ B[0] = 0
      /\ \A n \in 1 .. L : B[n] = B[n - 1] + lines[n].size + 2
  <2> HIDE DEF B
  <2>1. B = [n \in 0 .. L |-> IF n = 0 THEN 0 ELSE B[n - 1] + lines[n].size + 2]
    BY BytesDefined DEF B
  <2> QED
    BY <2>1, <1>1
<1> HIDE DEF B
<1>3. Nat \subseteq {n \in Nat : n <= L => B[n] \in Nat}
  <2>1. \A n \in Nat : n <= L /\ n + 1 <= L /\ B[n] \in Nat => B[n + 1] \in Nat
    <3> TAKE n \in Nat
    <3> HAVE n <= L /\ n + 1 <= L /\ B[n] \in Nat
    <3>1. n + 1 \in 1 .. L /\ (n + 1) - 1 = n
      BY <1>1
    <3>2. B[n + 1] = B[n] + lines[n + 1].size + 2 /\ lines[n + 1].size \in Nat
      BY <3>1, <1>1, <1>2
    <3> QED
      BY <3>2
  <2> DEFINE X == {n \in Nat : n <= L => B[n] \in Nat}
  <2>2. 0 \in X
    BY <1>2
  <2>3. \A n \in Nat : n \in X => n + 1 \in X
    BY <1>1, <2>1
  <2> QED
    BY <2>2, <2>3, Induction
<1>4. Nat \subseteq {k \in Nat : k <= L => B[L - k] <= B[L]}
  <2> DEFINE X == {k \in Nat : k <= L => B[L - k] <= B[L]}
  <2>1. 0 \in X
    <3>1. L - 0 = L /\ B[L] \in Nat
      BY <1>1, <1>3
    <3> QED
      BY <3>1
  <2>2. ASSUME NEW k \in Nat, k \in X PROVE k + 1 \in X
    <3> SUFFICES ASSUME k + 1 <= L PROVE B[L - (k + 1)] <= B[L]
      OBVIOUS
    <3>1. /\ L - k \in 1 .. L /\ (L - k) - 1 = L - (k + 1)
          /\ L - k \in Nat /\ L - (k + 1) \in Nat
          /\ L - k <= L /\ L - (k + 1) <= L /\ k <= L
      BY <1>1
    <3>2. B[L - k] <= B[L]
      BY <2>2, <3>1
    <3>3. /\ B[L - k] = B[L - (k + 1)] + lines[L - k].size + 2
          /\ lines[L - k].size \in Nat
          /\ B[L - (k + 1)] \in Nat /\ B[L - k] \in Nat /\ B[L] \in Nat
      BY <3>1, <1>1, <1>2, <1>3
    <3> QED
      BY <3>2, <3>3
  <2> QED
    BY <2>1, <2>2, Induction
<1>5. \A n \in 0 .. L : B[n] \in Nat /\ B[n] <= B[L]
  <2> TAKE n \in 0 .. L
  <2>1. L - n \in Nat /\ L - n <= L /\ L - (L - n) = n /\ n \in Nat /\ n <= L
    BY <1>1
  <2> QED
    BY <2>1, <1>3, <1>4
<1>6. H!HeadBytes = B[L]
  BY DEF H!HeadBytes, B
<1> QED
  BY <1>1, <1>2, <1>5, <1>6 DEF B

-----------------------------------------------------------------------------
HttpReading == mode \in {"first", "headers"}

HttpTypes ==
    /\ request \in BOOLEAN
    /\ next \in 1 .. Len(lines)
    /\ m_buf \in Nat /\ m_header_bytes \in Nat /\ needed \in Nat
    /\ http_len \in Nat /\ fed \in Nat /\ consumed \in Nat /\ pauses \in Nat
    /\ trailing \in Nat
    /\ mode \in {"first", "headers", "body", "ready"} \cup H!Failures
    /\ m_buf <= max_header_size + HttpBufferSize

\* The lines that were taken are valid ones.
Taken ==
    /\ mode = "first" => next = 1
    /\ mode = "headers" => next > 1 /\ lines[1].kind = "start"
    /\ HttpReading => \A i \in 2 .. next - 1 : lines[i].kind \notin {"start", "bad"}

\* While it reads the head, the parser has counted the lines that it took, one
\* byte more for each of them and three more for each pause, and has kept what
\* it was given behind them.
Accounts ==
    HttpReading =>
       /\ m_header_bytes = H!Bytes[next - 1] + (next - 1) + 3 * pauses
       /\ fed = H!Bytes[next - 1] + m_buf
       /\ consumed = fed - http_len
       /\ needed = 0
       /\ http_len = 0 => m_buf <= max_header_size /\ m_buf < lines[next].size + 2

\* Behind the head: what is needed of the body is what was not given yet.
Ended ==
    /\ mode \in {"body", "ready"} =>
          /\ H!Verdict = "ready"
          /\ H!HeadBytes <= max_header_size
    /\ mode = "body" =>
          /\ request /\ needed > 0
          /\ fed = consumed
          /\ fed = H!HeadBytes + H!ContentLength - needed
    /\ mode = "ready" =>
          consumed = H!HeadBytes + (IF request THEN H!ContentLength
                                    ELSE Min({H!ContentLength, fed - H!HeadBytes}))

Refused ==
    /\ mode \in {"bad_request", "entity_too_large"} => mode = H!Verdict
    /\ mode = "header_too_large" =>
          H!HeadBytes + Len(lines) + 3 * (pauses + 1) > max_header_size
    /\ ~HttpReading => http_len = 0

HttpInv == HeadLines /\ HttpTypes /\ Taken /\ Accounts /\ Ended /\ Refused

LEMMA MinOfTwo ==
    ASSUME NEW a \in Int, NEW b \in Int
    PROVE  Min({a, b}) = IF a <= b THEN a ELSE b
<1> DEFINE m == IF a <= b THEN a ELSE b
<1>1. m \in {a, b} /\ \A y \in {a, b} : m <= y
  OBVIOUS
<1>2. \A x \in {a, b} : (\A y \in {a, b} : x <= y) => x = m
  OBVIOUS
<1> HIDE DEF m
<1>3. (CHOOSE x \in {a, b} : \A y \in {a, b} : x <= y) = m
  BY <1>1, <1>2
<1> QED
  BY <1>3 DEF Min, m

LEMMA ContentLengthType ==
    ASSUME HeadLines
    PROVE  H!ContentLength \in Nat
<1>1. CASE H!Has("length")
  <2> DEFINE i == CHOOSE i \in DOMAIN lines : lines[i].kind = "length"
  <2>1. i \in DOMAIN lines
    BY <1>1 DEF H!Has
  <2> HIDE DEF i
  <2>2. lines[i].value \in Nat
    BY <2>1, LineFacts
  <2> QED
    BY <1>1, <2>2 DEF H!ContentLength, i
<1>2. CASE ~H!Has("length")
  BY <1>2 DEF H!ContentLength
<1> QED
  BY <1>1, <1>2

LEMMA SameMin == \A S : H!Min(S) = Min(S)
BY DEF H!Min, Min

\* The message is what it was.
LEMMA SameMessage ==
    ASSUME UNCHANGED <<request, lines>>
    PROVE  /\ HeadLines => HeadLines'
           /\ H!Bytes' = H!Bytes /\ H!HeadBytes' = H!HeadBytes
           /\ H!ContentLength' = H!ContentLength
           /\ H!Verdict' = H!Verdict
<1>1. HeadLines => HeadLines'
  BY DEF HeadLines
<1>2. H!Bytes' = H!Bytes
  BY DEF H!Bytes
<1>3. H!HeadBytes' = H!HeadBytes
  BY <1>2 DEF H!HeadBytes
<1>4. H!ContentLength' = H!ContentLength
  BY DEF H!ContentLength, H!Has
<1>5. H!Verdict' = H!Verdict
  BY <1>4 DEF H!Verdict, H!Has
<1> QED
  BY <1>1, <1>2, <1>3, <1>4, <1>5

LEMMA HttpInit ==
    ASSUME H!HeadsAssumption, H!LimitsAssumption, H!Init
    PROVE  HttpInv
<1> DEFINE R == [kind : H!Kinds, size : Nat \ {0}, value : Nat]
           E == [kind |-> "empty", size |-> 0, value |-> 0]
           Q == [kind : H!Kinds \cup {"empty"}, size : Nat, value : Nat]
<1>1. PICK h \in Heads : lines = Append(h, E)
  BY DEF H!Init
<1>2. h \in Seq(R)
  BY DEF H!HeadsAssumption
<1>3. R \subseteq Q /\ E \in Q
  OBVIOUS
<1>4. h \in Seq(Q)
  <2> HIDE DEF Q, R
  <2> QED
    BY <1>2, <1>3
<1>5. \A r \in R : r.size \in Nat /\ r.size # 0 /\ r.kind \in H!Kinds
  OBVIOUS
<1>6. E.size = 0 /\ E.kind = "empty"
  OBVIOUS
<1> HIDE DEF E, R, Q
<1>7. /\ lines \in Seq(Q) /\ Len(lines) = Len(h) + 1 /\ Len(h) \in Nat
      /\ lines[Len(h) + 1] = E /\ \A i \in 1 .. Len(h) : lines[i] = h[i] /\ h[i] \in R
  BY <1>1, <1>2, <1>3, <1>4
<1>8. HeadLines
  BY <1>5, <1>6, <1>7, SMTT(60) DEF HeadLines, Q
<1>9. H!Bytes[0] = 0 /\ lines[1].size \in Nat
  BY <1>8, BytesFacts, LineFacts
<1>10. max_header_size \in Nat /\ HttpBufferSize \in Nat /\ Trailing \in Nat
  BY DEF H!LimitsAssumption
<1>11. HttpTypes /\ Taken /\ Ended /\ Refused
  BY <1>7, <1>10 DEF HttpTypes, Taken, Ended, Refused, HttpReading, H!Failures, H!Init
<1>12. Accounts
  BY <1>9, <1>10 DEF Accounts, HttpReading, H!Init
<1> QED
  BY <1>8, <1>11, <1>12 DEF HttpInv

\* What is known of the line that the parser looks for.
LEMMA NextLine ==
    ASSUME H!LimitsAssumption, HttpInv
    PROVE  /\ max_header_size \in Nat /\ max_body_size \in Nat /\ HttpBufferSize \in Nat
           /\ next \in Nat /\ Len(lines) \in Nat /\ next <= Len(lines) /\ next >= 1
           /\ DOMAIN lines = 1 .. Len(lines)
           /\ lines[next].size \in Nat
           /\ H!Bytes[next - 1] \in Nat /\ H!Bytes[next] \in Nat
           /\ H!Bytes[next] = H!Bytes[next - 1] + lines[next].size + 2
           /\ H!Bytes[next] <= H!HeadBytes /\ H!HeadBytes \in Nat
           /\ H!ContentLength \in Nat
           /\ H!Bytes[Len(lines)] = H!HeadBytes
           /\ lines[next].size = 0 <=> next = Len(lines)
<1>1. HeadLines /\ next \in 1 .. Len(lines)
  BY DEF HttpInv, HttpTypes
<1>2. /\ Len(lines) \in Nat /\ DOMAIN lines = 1 .. Len(lines)
      /\ lines[next].size \in Nat
  BY <1>1, LineFacts
<1>3. next - 1 \in 0 .. Len(lines) /\ next \in 0 .. Len(lines)
  BY <1>1, <1>2
<1>4. lines[next].size = 0 <=> next = Len(lines)
  BY <1>1 DEF HeadLines
<1>5. max_header_size \in Nat /\ max_body_size \in Nat /\ HttpBufferSize \in Nat
  BY DEF H!LimitsAssumption
<1>6. /\ H!Bytes[next - 1] \in Nat /\ H!Bytes[next] \in Nat
      /\ H!Bytes[next] <= H!HeadBytes /\ H!HeadBytes \in Nat
      /\ H!Bytes[Len(lines)] = H!HeadBytes
  BY <1>1, <1>3, BytesFacts
<1>7. H!Bytes[next] = H!Bytes[next - 1] + lines[next].size + 2
  BY <1>1, BytesFacts
<1>8. H!ContentLength \in Nat
  BY <1>1, ContentLengthType
<1>9. next \in Nat /\ next <= Len(lines) /\ next >= 1
  BY <1>1, <1>2
<1> QED
  BY <1>2, <1>4, <1>5, <1>6, <1>7, <1>8, <1>9, Zenon

\* A piece, or a pause, in the head.
LEMMA HttpConsumeStep ==
    ASSUME H!LimitsAssumption, HttpInv, NEW n \in 1 .. HttpBufferSize, H!Consume(n)
    PROVE  HttpInv'
<1>1. HeadLines' /\ H!Bytes' = H!Bytes /\ H!HeadBytes' = H!HeadBytes
  BY SameMessage DEF HttpInv, H!Consume, H!given
<1>2. n \in Nat
  BY NextLine
<1>3. HttpTypes'
  BY <1>1, <1>2, NextLine, SMTT(60) DEF HttpInv, HttpTypes, Accounts, HttpReading, H!Consume, H!given
<1>4. Taken'
  BY DEF HttpInv, Taken, HttpReading, H!Consume, H!given
<1>5. Accounts'
  <2>1. /\ mode' = mode /\ next' = next /\ m_header_bytes' = m_header_bytes
        /\ pauses' = pauses /\ needed' = needed /\ consumed' = consumed
        /\ fed' = fed + n /\ http_len' = n /\ m_buf' = m_buf + n /\ http_len = 0
        /\ lines' = lines
    BY DEF H!Consume, H!given
  <2>2. /\ n > 0 /\ fed \in Nat /\ m_buf \in Nat /\ consumed \in Nat
        /\ H!Bytes[next - 1] \in Nat
    BY <1>2, NextLine DEF HttpInv, HttpTypes
  <2>3. /\ m_header_bytes = H!Bytes[next - 1] + (next - 1) + 3 * pauses
        /\ fed = H!Bytes[next - 1] + m_buf
        /\ consumed = fed - http_len
        /\ needed = 0
    BY DEF HttpInv, Accounts, HttpReading, H!Consume
  <2> QED
    BY <1>1, <1>2, <2>1, <2>2, <2>3 DEF Accounts
<1>6. Ended' /\ Refused'
  BY DEF Ended, Refused, HttpReading, H!Consume, H!given
<1> QED
  BY <1>1, <1>3, <1>4, <1>5, <1>6 DEF HttpInv

LEMMA HttpOutOfBytesStep ==
    ASSUME H!LimitsAssumption, HttpInv, H!OutOfBytes
    PROVE  HttpInv'
<1>1. HeadLines' /\ H!Bytes' = H!Bytes /\ H!HeadBytes' = H!HeadBytes
      /\ H!Verdict' = H!Verdict /\ H!ContentLength' = H!ContentLength
  BY SameMessage DEF HttpInv, H!OutOfBytes, H!given
<1>2. HttpReading
  BY DEF HttpInv, Refused, H!OutOfBytes
<1>3. /\ m_buf < lines[next].size + 2
      /\ m_header_bytes' = m_header_bytes + 3
      /\ m_header_bytes + m_buf + 3 <= max_header_size
  <2>1. m_buf \in Nat /\ m_header_bytes \in Nat
    BY DEF HttpInv, HttpTypes
  <2>2. lines[next].size \in Nat /\ max_header_size \in Nat
    BY NextLine
  <2>3. ~(m_buf >= lines[next].size + 2)
    BY DEF H!OutOfBytes, H!Complete
  <2>4. H!Counted = m_buf + 3
    BY <2>3 DEF H!Counted, H!Complete
  <2>5. /\ m_header_bytes' = m_header_bytes + H!Counted - m_buf
        /\ ~(m_header_bytes + H!Counted > max_header_size)
    BY DEF H!OutOfBytes, H!TooLarge
  <2> QED
    BY ONLY <2>1, <2>2, <2>3, <2>4, <2>5
<1>8. /\ mode' = mode /\ next' = next /\ pauses' = pauses + 1 /\ needed' = needed
      /\ consumed' = consumed + http_len /\ fed' = fed /\ http_len' = 0
      /\ m_buf' = m_buf /\ lines' = lines /\ request' = request
      /\ trailing' = trailing
  BY DEF H!OutOfBytes, H!given
<1>4. HttpTypes'
  <2>1. m_header_bytes \in Nat /\ pauses \in Nat /\ consumed \in Nat /\ http_len \in Nat
    BY DEF HttpInv, HttpTypes
  <2>2. m_header_bytes' \in Nat /\ pauses' \in Nat /\ consumed' \in Nat /\ http_len' \in Nat
    BY ONLY <1>3, <1>8, <2>1
  <2> QED
    BY <1>8, <2>2 DEF HttpInv, HttpTypes
<1>5. Taken'
  BY <1>8 DEF HttpInv, Taken, HttpReading
<1>6. Accounts'
  <2>1. /\ fed \in Nat /\ m_buf \in Nat /\ consumed \in Nat /\ pauses \in Nat
        /\ http_len \in Nat /\ m_header_bytes \in Nat
    BY DEF HttpInv, HttpTypes
  <2>2. /\ m_header_bytes = H!Bytes[next - 1] + (next - 1) + 3 * pauses
        /\ fed = H!Bytes[next - 1] + m_buf
        /\ consumed = fed - http_len
        /\ needed = 0
    BY <1>2 DEF HttpInv, Accounts
  <2>5. H!Bytes[next - 1] \in Nat /\ next \in Nat
    BY NextLine
  <2>3. m_header_bytes' = H!Bytes[next - 1] + (next - 1) + 3 * pauses'
    BY <1>3, <1>8, <2>1, <2>2, <2>5
  <2>4. m_buf <= max_header_size
    BY <1>3, <2>1, NextLine
  <2> QED
    BY <1>1, <1>3, <1>8, <2>1, <2>2, <2>3, <2>4 DEF Accounts
<1>7. Ended' /\ Refused'
  BY <1>2 DEF Ended, Refused, HttpReading, H!OutOfBytes, H!given
<1> QED
  BY <1>1, <1>4, <1>5, <1>6, <1>7 DEF HttpInv

LEMMA HttpTakeLineStep ==
    ASSUME H!LimitsAssumption, HttpInv, H!TakeLine
    PROVE  HttpInv'
<1>1. HeadLines' /\ H!Bytes' = H!Bytes /\ H!HeadBytes' = H!HeadBytes
      /\ H!Verdict' = H!Verdict /\ H!ContentLength' = H!ContentLength
  BY SameMessage DEF HttpInv, H!TakeLine, H!given
<1>2. HttpReading
  BY DEF HttpInv, Refused, H!TakeLine
<1>8. /\ fed \in Nat /\ m_buf \in Nat /\ consumed \in Nat /\ pauses \in Nat
      /\ http_len \in Nat /\ m_header_bytes \in Nat
  BY DEF HttpInv, HttpTypes
<1>9. /\ mode' = "headers" /\ next' = next + 1 /\ pauses' = pauses
      /\ needed' = needed /\ consumed' = consumed /\ fed' = fed
      /\ http_len' = http_len /\ http_len > 0
      /\ lines' = lines /\ request' = request /\ trailing' = trailing
  BY DEF H!TakeLine, H!given
<1>10. /\ m_buf' = m_buf - lines[next].size - 2
       /\ m_buf >= lines[next].size + 2
       /\ m_header_bytes' = m_header_bytes + (lines[next].size + 3)
  BY DEF H!TakeLine, H!Complete, H!Counted
<1>11. /\ next \in Nat /\ next >= 1 /\ Len(lines) \in Nat /\ next <= Len(lines)
       /\ lines[next].size \in Nat
       /\ max_header_size \in Nat /\ HttpBufferSize \in Nat
  BY NextLine
<1> DEFINE before == H!Bytes[next - 1]
           after == H!Bytes[next]
           size == lines[next].size
<1>12. /\ H!Bytes[next - 1] \in Nat /\ H!Bytes[next] \in Nat
       /\ H!Bytes[next] = H!Bytes[next - 1] + lines[next].size + 2
  BY NextLine
<1>3. next < Len(lines)
  <2>1. next # Len(lines)
    BY NextLine DEF H!TakeLine
  <2> QED
    BY <1>11, <2>1
<1>4. HttpTypes'
  <2>1. /\ next' \in 1 .. Len(lines) /\ m_buf' \in Nat /\ m_header_bytes' \in Nat
        /\ m_buf' <= m_buf
    <3>1. next' \in 1 .. Len(lines)
      BY ONLY <1>3, <1>9, <1>11
    <3>2. m_buf' \in Nat /\ m_buf' <= m_buf
      <4>1. /\ m_buf' = m_buf - size - 2 /\ m_buf >= size + 2
            /\ m_buf \in Nat /\ size \in Nat
        BY <1>8, <1>10, <1>11
      <4> HIDE DEF size
      <4> QED
        BY ONLY <4>1
    <3>3. m_header_bytes' \in Nat
      <4>1. /\ m_header_bytes' = m_header_bytes + (size + 3)
            /\ m_header_bytes \in Nat /\ size \in Nat
        BY <1>8, <1>10, <1>11
      <4> HIDE DEF size
      <4> QED
        BY ONLY <4>1
    <3> QED
      BY <3>1, <3>2, <3>3
  <2>3. m_buf <= max_header_size + HttpBufferSize
    BY DEF HttpInv, HttpTypes
  <2>2. m_buf' <= max_header_size + HttpBufferSize
    BY ONLY <1>8, <1>11, <2>1, <2>3
  <2> QED
    BY <1>9, <2>1, <2>2 DEF HttpInv, HttpTypes
<1>5. Taken'
  <2>1. next = 1 => lines[1].kind = "start"
    BY <1>2 DEF HttpInv, Taken, HttpReading, H!TakeLine, H!Valid
  <2>2. next > 1 => lines[1].kind = "start"
    BY <1>2 DEF HttpInv, Taken, HttpReading
  <2>3. next > 1 => lines[next].kind \notin {"start", "bad"}
    BY <1>2 DEF HttpInv, Taken, HttpReading, H!TakeLine, H!Valid
  <2>4. \A i \in 2 .. next : lines[i].kind \notin {"start", "bad"}
    BY <1>2, <2>3, NextLine, SMTT(60) DEF HttpInv, Taken
  <2>5. next' = next + 1 /\ (next + 1) - 1 = next /\ lines' = lines /\ mode' = "headers"
    BY NextLine DEF H!TakeLine, H!given
  <2> QED
    BY <2>1, <2>2, <2>4, <2>5, NextLine, SMTT(60) DEF Taken, HttpReading
<1>6. Accounts'
  <2>1. (next + 1) - 1 = next
    BY NextLine
  <2>2. /\ m_header_bytes = H!Bytes[next - 1] + (next - 1) + 3 * pauses
        /\ fed = H!Bytes[next - 1] + m_buf
        /\ consumed = fed - http_len
        /\ needed = 0
    BY <1>2 DEF HttpInv, Accounts
  <2>4. before \in Nat /\ after \in Nat /\ after = before + size + 2 /\ size \in Nat
    BY <1>11, <1>12
  <2>3. /\ m_header_bytes' = after + next + 3 * pauses
        /\ fed = after + m_buf'
    <3>1. m_header_bytes = before + (next - 1) + 3 * pauses /\ fed = before + m_buf
      BY <2>2
    <3>2. m_header_bytes' = m_header_bytes + (size + 3) /\ m_buf' = m_buf - size - 2
      BY <1>10
    <3>3. next \in Nat
      BY <1>11
    <3> HIDE DEF before, after, size
    <3> QED
      BY <1>8, <2>4, <3>1, <3>2, <3>3
  <2> QED
    BY <1>1, <1>8, <1>9, <2>1, <2>2, <2>3 DEF Accounts
<1>7. Ended' /\ Refused'
  BY <1>2 DEF Ended, Refused, HttpReading, H!TakeLine, H!given
<1> QED
  BY <1>1, <1>4, <1>5, <1>6, <1>7 DEF HttpInv

\* An exception: what is left to show is that the error is the right one.
LEMMA HttpThrowStep ==
    ASSUME H!LimitsAssumption, HttpInv, NEW error \in H!Failures, H!Throw(error),
           m_header_bytes' \in Nat,
           error \in {"bad_request", "entity_too_large"} => error = H!Verdict,
           error = "header_too_large" =>
              H!HeadBytes + Len(lines) + 3 * (pauses + 1) > max_header_size
    PROVE  HttpInv'
<1>1. /\ HeadLines' /\ H!HeadBytes' = H!HeadBytes /\ H!Verdict' = H!Verdict
  BY SameMessage DEF HttpInv, H!Throw, H!given
<1>2. /\ mode' = error /\ http_len' = 0 /\ m_buf' = m_buf /\ next' = next
      /\ request' = request /\ lines' = lines /\ trailing' = trailing
      /\ needed' = needed /\ fed' = fed /\ consumed' = consumed /\ pauses' = pauses
  BY DEF H!Throw, H!given
<1>3. HttpTypes'
  BY <1>2 DEF HttpInv, HttpTypes
<1>4. ~HttpReading' /\ mode' \notin {"first", "headers", "body", "ready"}
  BY <1>2 DEF HttpReading, H!Failures
<1>5. Taken' /\ Accounts' /\ Ended'
  BY <1>4 DEF Taken, Accounts, Ended
<1>6. Refused'
  BY <1>1, <1>2 DEF Refused
<1> QED
  BY <1>1, <1>3, <1>5, <1>6 DEF HttpInv

LEMMA HttpTooLargeStep ==
    ASSUME H!LimitsAssumption, HttpInv, H!HeaderTooLarge
    PROVE  HttpInv'
<1> DEFINE before == H!Bytes[next - 1]
           after == H!Bytes[next]
           size == lines[next].size
           counted == H!Counted
           whole == H!HeadBytes
           L == Len(lines)
<1>1. HttpReading
  BY DEF HttpInv, Refused, H!HeaderTooLarge
<1>2. /\ before \in Nat /\ after \in Nat /\ after = before + size + 2 /\ size \in Nat
      /\ after <= whole /\ whole \in Nat /\ next <= L /\ next \in Nat /\ L \in Nat
      /\ max_header_size \in Nat
  BY NextLine
<1>3. m_header_bytes = before + (next - 1) + 3 * pauses
  BY <1>1 DEF HttpInv, Accounts
<1>4. m_header_bytes \in Nat /\ m_buf \in Nat /\ pauses \in Nat
  BY DEF HttpInv, HttpTypes
<1>5. counted = IF m_buf >= size + 2 THEN size + 3 ELSE m_buf + 3
  BY DEF H!Counted, H!Complete
<1>6. /\ m_header_bytes + counted > max_header_size
      /\ m_header_bytes' = m_header_bytes + counted
      /\ H!Throw("header_too_large")
  BY DEF H!HeaderTooLarge, H!TooLarge
<1>7. m_header_bytes' \in Nat /\ whole + L + 3 * (pauses + 1) > max_header_size
  <2> HIDE DEF before, after, size, counted, whole, L
  <2> QED
    BY <1>2, <1>3, <1>4, <1>5, <1>6
<1>8. "header_too_large" \in H!Failures
  BY DEF H!Failures
<1> QED
  BY <1>6, <1>7, <1>8, HttpThrowStep

LEMMA CountedType ==
    ASSUME H!LimitsAssumption, HttpInv
    PROVE  H!Counted \in Nat /\ m_header_bytes + H!Counted \in Nat
<1> DEFINE size == lines[next].size
<1>1. size \in Nat /\ m_buf \in Nat /\ m_header_bytes \in Nat
  BY NextLine DEF HttpInv, HttpTypes
<1>2. H!Counted = IF m_buf >= size + 2 THEN size + 3 ELSE m_buf + 3
  BY DEF H!Counted, H!Complete
<1> HIDE DEF size
<1> QED
  BY <1>1, <1>2

LEMMA HttpBadLineStep ==
    ASSUME H!LimitsAssumption, HttpInv, H!BadLine
    PROVE  HttpInv'
<1>1. HttpReading
  BY DEF HttpInv, Refused, H!BadLine
<1>2. /\ next \in Nat /\ next >= 1 /\ Len(lines) \in Nat /\ next <= Len(lines)
  BY NextLine
<1>3. CASE mode = "first"
  <2>1. lines[1].kind # "start"
    BY <1>3 DEF HttpInv, Taken, H!BadLine, H!Valid
  <2>2. H!Verdict = "bad_request"
    BY <2>1 DEF H!Verdict
  <2> QED
    BY <2>2, CountedType, HttpThrowStep DEF H!BadLine, H!Failures
<1>4. CASE mode = "headers"
  <2>1. next \in 2 .. Len(lines) /\ lines[next].kind \in {"start", "bad"}
    BY <1>2, <1>4 DEF HttpInv, Taken, H!BadLine, H!Valid
  <2>2. H!Verdict = "bad_request"
    BY <2>1 DEF H!Verdict
  <2> QED
    BY <2>2, CountedType, HttpThrowStep DEF H!BadLine, H!Failures
<1> QED
  BY <1>1, <1>3, <1>4 DEF HttpReading

\* At the empty line, what is found is the verdict of the whole message.
LEMMA HeadErrorIsVerdict ==
    ASSUME H!LimitsAssumption, HttpInv, HttpReading, lines[next].size = 0
    PROVE  /\ H!HeadError # "none" => H!HeadError = H!Verdict
           /\ H!HeadError = "none" => H!Verdict = "ready"
<1>1. /\ next = Len(lines) /\ Len(lines) \in Nat /\ next >= 1
      /\ lines[next].kind = "empty"
  BY NextLine DEF HttpInv, HeadLines
<1>2. CASE mode = "first"
  <2>1. lines[1].kind # "start"
    BY <1>1, <1>2 DEF HttpInv, Taken
  <2> QED
    BY <1>2, <2>1 DEF H!Verdict, H!HeadError
<1>3. CASE mode = "headers"
  <2>1. lines[1].kind = "start"
    BY <1>3 DEF HttpInv, Taken
  <2>2. \A i \in 2 .. Len(lines) : lines[i].kind \notin {"start", "bad"}
    BY <1>1, HttpReading DEF HttpInv, Taken
  <2> QED
    BY <1>3, <2>1, <2>2 DEF H!Verdict, H!HeadError
<1> QED
  BY <1>2, <1>3 DEF HttpReading

LEMMA HttpBadHeadStep ==
    ASSUME H!LimitsAssumption, HttpInv, H!BadHead
    PROVE  HttpInv'
<1>1. HttpReading
  BY DEF HttpInv, Refused, H!BadHead
<1>2. H!HeadError = H!Verdict /\ H!HeadError \in {"bad_request", "entity_too_large"}
  BY <1>1, HeadErrorIsVerdict DEF H!BadHead, H!HeadError
<1> QED
  BY <1>2, CountedType, HttpThrowStep DEF H!BadHead, H!Failures

LEMMA HttpEndHeadStep ==
    ASSUME H!LimitsAssumption, HttpInv, H!EndHead
    PROVE  HttpInv'
<1> DEFINE before == H!Bytes[next - 1]
           whole == H!HeadBytes
           length == H!ContentLength
           left == http_len - H!Processed
           body == IF request THEN H!Body(left) ELSE H!ResponseBody(left)
<1>1. /\ HeadLines' /\ H!HeadBytes' = whole /\ H!ContentLength' = length
      /\ H!Verdict' = H!Verdict
  BY SameMessage DEF HttpInv, H!EndHead, H!given
<1>2. HttpReading
  BY DEF HttpInv, Refused, H!EndHead
<1>3. /\ lines[next].size = 0 /\ next = Len(lines) /\ m_buf >= 2
      /\ http_len' = 0 /\ m_buf' = 0 /\ next' = next /\ fed' = fed /\ pauses' = pauses
      /\ request' = request /\ lines' = lines /\ trailing' = trailing
  BY NextLine DEF H!EndHead, H!Complete, H!given
<1>4. H!Verdict = "ready"
  BY <1>2, HeadErrorIsVerdict DEF H!EndHead
<1>5. /\ before \in Nat /\ whole = before + 2 /\ whole \in Nat /\ length \in Nat
      /\ max_header_size \in Nat /\ next \in Nat /\ next >= 1
      /\ max_header_size + HttpBufferSize \in Nat
  BY <1>3, NextLine, SMTT(60)
<1>6. /\ m_header_bytes = before + (next - 1) + 3 * pauses
      /\ fed = before + m_buf
      /\ consumed = fed - http_len
  BY <1>2 DEF HttpInv, Accounts
<1>7. /\ m_header_bytes \in Nat /\ m_buf \in Nat /\ pauses \in Nat /\ fed \in Nat
      /\ consumed \in Nat /\ http_len \in Nat
  BY DEF HttpInv, HttpTypes
<1>8. left = m_buf - 2 /\ left \in Nat
  BY <1>3, <1>7 DEF H!Processed
<1>9. whole <= max_header_size
  <2>1. H!Counted = lines[next].size + 3 /\ ~(m_header_bytes + H!Counted > max_header_size)
    BY DEF H!EndHead, H!Counted, H!TooLarge
  <2>2. ~(m_header_bytes + 3 > max_header_size)
    BY <1>3, <2>1
  <2> HIDE DEF before, whole
  <2> QED
    BY <1>5, <1>6, <1>7, <2>2
<1>10. /\ body = Min({length, left})
       /\ body \in Nat /\ body <= length /\ body <= left
       /\ body < length => body = left
  <2> DEFINE least == IF length <= left THEN length ELSE left
  <2>1. Min({length, left}) = least
    BY <1>5, <1>8, MinOfTwo
  <2>2. H!Body(left) = Min({length, left})
    <3>1. mode # "body"
      BY <1>2 DEF HttpReading
    <3> HIDE DEF left
    <3> QED
      BY <3>1, SameMin DEF H!Body
  <2>3. H!ResponseBody(left) = IF length = 0 THEN 0 ELSE Min({length, left})
    BY <2>2 DEF H!ResponseBody
  <2> HIDE DEF length, left
  <2>4. length = 0 => least = 0
    BY <1>5, <1>8
  <2>5. body = least
    BY <2>1, <2>2, <2>3, <2>4
  <2> HIDE DEF body
  <2> QED
    BY <1>5, <1>8, <2>1, <2>5
<1>11. /\ needed' = length - body
       /\ consumed' = consumed + H!Processed + body
       /\ mode' = IF request /\ length > body THEN "body" ELSE "ready"
  BY DEF H!EndHead
<1>12. consumed' = whole + body /\ left = fed - whole
  <2> DEFINE processed == H!Processed
  <2>1. processed = http_len - m_buf + 2
    BY DEF H!Processed
  <2>2. consumed' = consumed + processed + body
    BY <1>11
  <2> HIDE DEF before, whole, left, body, processed
  <2> QED
    BY <1>5, <1>6, <1>7, <1>8, <1>10, <2>1, <2>2
<1>13. m_header_bytes' \in Nat
  BY CountedType DEF H!EndHead
<1> HIDE DEF before, whole, length, left, body
<1>14. needed' \in Nat /\ consumed' \in Nat
  BY <1>5, <1>10, <1>11, <1>12
<1>15. HttpTypes'
  <2>1. next' \in 1 .. Len(lines')
    BY <1>3 DEF HttpInv, HttpTypes
  <2>2. m_buf' <= (max_header_size + HttpBufferSize)'
    BY <1>3, <1>5
  <2> QED
    BY <1>3, <1>7, <1>11, <1>13, <1>14, <2>1, <2>2 DEF HttpInv, HttpTypes
<1>16. ~HttpReading' /\ mode' \in {"body", "ready"}
  BY <1>11 DEF HttpReading
<1>17. Taken' /\ Accounts' /\ Refused'
  BY <1>3, <1>16 DEF Taken, Accounts, Refused
<1>18. Ended'
  <2>1. ASSUME mode' = "body"
        PROVE  /\ request /\ needed' > 0 /\ fed = consumed'
               /\ fed = whole + length - needed'
    <3>1. request /\ body < length
      BY <1>5, <1>10, <1>11, <2>1
    <3> QED
      BY <1>5, <1>7, <1>8, <1>10, <1>11, <1>12, <3>1
  <2>2. ASSUME mode' = "ready"
        PROVE  consumed' = whole + (IF request THEN length
                                    ELSE Min({length, fed - whole}))
    <3>1. request => body = length
      BY <1>5, <1>10, <1>11, <2>2
    <3> QED
      BY <1>10, <1>12, <3>1
  <2> QED
    BY <1>1, <1>3, <1>4, <1>9, <2>1, <2>2 DEF Ended, whole, length
<1> QED
  BY <1>1, <1>15, <1>17, <1>18 DEF HttpInv

LEMMA HttpBodyStep ==
    ASSUME H!LimitsAssumption, HttpInv, NEW n \in 1 .. HttpBufferSize, H!ConsumeBody(n)
    PROVE  HttpInv'
<1> DEFINE whole == H!HeadBytes
           length == H!ContentLength
           body == H!Body(n)
<1>1. /\ HeadLines' /\ H!HeadBytes' = whole /\ H!ContentLength' = length
      /\ H!Verdict' = H!Verdict
  BY SameMessage DEF HttpInv, H!ConsumeBody, H!given
<1>2. /\ mode = "body" /\ fed' = fed + n
      /\ needed' = needed - body /\ consumed' = consumed + body
      /\ mode' = IF needed = body THEN "ready" ELSE mode
      /\ http_len' = http_len /\ m_buf' = m_buf /\ next' = next /\ pauses' = pauses
      /\ request' = request /\ lines' = lines /\ trailing' = trailing
      /\ m_header_bytes' = m_header_bytes
  BY DEF H!ConsumeBody, H!given
<1>3. /\ request /\ needed > 0 /\ fed = consumed /\ fed = whole + length - needed
      /\ H!Verdict = "ready" /\ whole <= max_header_size
  BY <1>2 DEF HttpInv, Ended
<1>4. /\ needed \in Nat /\ fed \in Nat /\ consumed \in Nat
  BY DEF HttpInv, HttpTypes
<1>5. whole \in Nat /\ length \in Nat /\ n \in Nat
  BY NextLine
<1>6. body = IF needed <= n THEN needed ELSE n
  <2>1. body = Min({needed, n})
    BY <1>2, SameMin DEF H!Body
  <2>2. Min({needed, n}) = IF needed <= n THEN needed ELSE n
    BY <1>4, <1>5, MinOfTwo
  <2> QED
    BY <2>1, <2>2
<1> HIDE DEF whole, length, body
<1>7. needed' \in Nat /\ consumed' \in Nat /\ fed' \in Nat
  BY <1>2, <1>4, <1>5, <1>6
<1>8. HttpTypes'
  BY <1>2, <1>7 DEF HttpInv, HttpTypes
<1>9. ~HttpReading' /\ ~HttpReading /\ mode' \in {"body", "ready"}
  BY <1>2 DEF HttpReading
<1>10. Taken' /\ Accounts' /\ Refused'
  BY <1>2, <1>9 DEF HttpInv, Taken, Accounts, Refused
<1>11. Ended'
  <2>1. ASSUME mode' = "body"
        PROVE  needed' > 0 /\ fed' = consumed' /\ fed' = whole + length - needed'
    BY <1>2, <1>3, <1>4, <1>5, <1>6, <2>1
  <2>2. ASSUME mode' = "ready" PROVE consumed' = whole + length
    BY <1>2, <1>3, <1>4, <1>5, <1>6, <2>2
  <2> QED
    BY <1>1, <1>2, <1>3, <2>1, <2>2 DEF Ended, whole, length
<1> QED
  BY <1>1, <1>8, <1>10, <1>11 DEF HttpInv

LEMMA HttpStep ==
    ASSUME H!LimitsAssumption, HttpInv, H!Next
    PROVE  HttpInv'
<1>1. ASSUME NEW n \in 1 .. HttpBufferSize, H!Consume(n) PROVE HttpInv'
  BY <1>1, HttpConsumeStep
<1>2. ASSUME NEW n \in 1 .. HttpBufferSize, H!ConsumeBody(n) PROVE HttpInv'
  BY <1>2, HttpBodyStep
<1>3. CASE H!HeaderTooLarge
  BY <1>3, HttpTooLargeStep
<1>4. CASE H!OutOfBytes
  BY <1>4, HttpOutOfBytesStep
<1>5. CASE H!TakeLine
  BY <1>5, HttpTakeLineStep
<1>6. CASE H!BadLine
  BY <1>6, HttpBadLineStep
<1>7. CASE H!BadHead
  BY <1>7, HttpBadHeadStep
<1>8. CASE H!EndHead
  BY <1>8, HttpEndHeadStep
<1> QED
  BY <1>1, <1>2, <1>3, <1>4, <1>5, <1>6, <1>7, <1>8 DEF H!Next

LEMMA HttpFollows ==
    ASSUME H!LimitsAssumption, HttpInv
    PROVE  H!TypeOK /\ H!CutsDoNotMatter /\ H!SizeLimit /\ H!ExactEnd /\ H!Prompt
<1> DEFINE before == H!Bytes[next - 1]
           after == H!Bytes[next]
           whole == H!HeadBytes
           length == H!ContentLength
           size == lines[next].size
<1>1. H!TypeOK
  <2>1. m_buf \in 0 .. max_header_size + HttpBufferSize
    <3>1. m_buf \in Nat /\ m_buf <= max_header_size + HttpBufferSize
      BY DEF HttpInv, HttpTypes
    <3>2. max_header_size + HttpBufferSize \in Nat
      BY NextLine
    <3> QED
      BY <3>1, <3>2
  <2>2. next \in DOMAIN lines
    BY NextLine DEF HttpInv, HttpTypes
  <2> QED
    BY <2>1, <2>2 DEF HttpInv, HttpTypes, H!TypeOK
<1>2. H!CutsDoNotMatter
  BY DEF HttpInv, Ended, Refused, H!CutsDoNotMatter
<1>3. H!SizeLimit
  BY DEF HttpInv, Ended, Refused, H!SizeLimit
<1>4. H!ExactEnd
  <2>1. http_len = 0 /\ mode \in {"first", "headers", "body"} => consumed = fed
    BY DEF HttpInv, HttpTypes, Accounts, Ended, HttpReading
  <2> QED
    BY <2>1, SameMin DEF HttpInv, Ended, H!ExactEnd
<1>5. H!Prompt
  <2> SUFFICES ASSUME http_len = 0,
                      fed >= whole + (IF request THEN length ELSE 0),
                      mode \in {"first", "headers", "body"}
               PROVE  FALSE
    BY DEF H!Prompt, HttpInv, HttpTypes
  <2>1. /\ before \in Nat /\ after \in Nat /\ after = before + size + 2
        /\ size \in Nat /\ after <= whole /\ whole \in Nat /\ length \in Nat
    BY NextLine
  <2>2. m_buf \in Nat /\ fed \in Nat /\ needed \in Nat
    BY DEF HttpInv, HttpTypes
  <2>3. CASE HttpReading
    <3>1. fed = before + m_buf /\ m_buf < size + 2
      BY <2>3 DEF HttpInv, Accounts
    <3> HIDE DEF before, after, whole, length, size
    <3> QED
      BY <2>1, <2>2, <3>1
  <2>4. CASE mode = "body"
    <3>1. request /\ needed > 0 /\ fed = whole + length - needed
      BY <2>4 DEF HttpInv, Ended
    <3>2. fed >= whole + length
      BY <3>1
    <3> HIDE DEF whole, length
    <3> QED
      BY <2>1, <2>2, <3>1, <3>2
  <2> QED
    BY <2>3, <2>4 DEF HttpReading
<1> QED
  BY <1>1, <1>2, <1>3, <1>4, <1>5

\* What the HTTP parser says of a message does not depend on the pieces in
\* which request::consume and response::consume get it; no head above
\* max_header_size is accepted, the parser stops exactly behind the message,
\* and it decides with the last byte that it needs.
THEOREM HttpReadAlways == MCSpec => []HttpRead
<1> DEFINE Inv == part = "http" => HttpInv
<1> USE InputsAssumption
<1>1. MCInit => Inv
  BY HttpInit DEF MCInit
<1>2. Inv /\ [MCNext]_allVars => Inv'
  <2> SUFFICES ASSUME Inv, [MCNext]_allVars, part' = "http" PROVE HttpInv'
    OBVIOUS
  <2>1. CASE UNCHANGED <<part, httpVars>>
    <3>1. HttpInv
      BY <2>1
    <3>2. H!Bytes' = H!Bytes /\ H!HeadBytes' = H!HeadBytes
          /\ H!ContentLength' = H!ContentLength /\ H!Verdict' = H!Verdict /\ HeadLines'
      BY <2>1, <3>1, SameMessage DEF httpVars, HttpInv
    <3>3. HttpTypes' /\ Taken' /\ Refused' /\ Accounts' /\ Ended'
      BY <2>1, <3>1, <3>2
      DEF httpVars, HttpInv, HttpTypes, Taken, Accounts, Ended, Refused, HttpReading
    <3> QED
      BY <3>2, <3>3 DEF HttpInv
  <2>2. CASE HttpNext
    BY <2>2, HttpStep DEF HttpNext
  <2> QED
    BY <2>1, <2>2
    DEF MCNext, allVars, FramesNext, Utf8Next, Hybi00Next, CompressionNext
<1>3. Inv => HttpRead
  BY HttpFollows DEF HttpRead
<1> QED
  BY <1>1, <1>2, <1>3, PTL DEF MCSpec

-----------------------------------------------------------------------------
(***************************************************************************)
(* UTF-8 (Utf8Validator).                                                  *)
(***************************************************************************)

Byte == 0 .. 255
Continuation == 128 .. 191

\* f adds up the bits of the first bytes of s, one after the other.
AddsBits(f, s, N) ==
    f = [n \in 1 .. N |-> IF n = 1 THEN V!LeadBits(s[1])
                          ELSE f[n - 1] * 64 + (s[n] % 64)]

LEMMA BitsExist ==
    ASSUME NEW s, NEW L \in Nat
    PROVE  \E f : AddsBits(f, s, L)
<1> DEFINE X == {N \in Nat : \E f : AddsBits(f, s, N)}
<1>1. 0 \in X
  <2> DEFINE f == [n \in 1 .. 0 |-> 0]
  <2>1. AddsBits(f, s, 0)
    BY DEF AddsBits
  <2> QED
    BY <2>1
<1>2. ASSUME NEW N \in Nat, N \in X PROVE N + 1 \in X
  <2>1. PICK f : AddsBits(f, s, N)
    BY <1>2
  <2> DEFINE v == IF N + 1 = 1 THEN V!LeadBits(s[1]) ELSE f[N] * 64 + (s[N + 1] % 64)
             g == [n \in 1 .. N + 1 |-> IF n = N + 1 THEN v ELSE f[n]]
  <2>2. \A n \in 1 .. N + 1 : g[n] = IF n = 1 THEN V!LeadBits(s[1])
                                     ELSE g[n - 1] * 64 + (s[n] % 64)
    <3> TAKE n \in 1 .. N + 1
    <3>1. CASE n = N + 1
      <4>1. g[N + 1] = v
        OBVIOUS
      <4>2. N + 1 # 1 => g[N] = f[N] /\ (N + 1) - 1 = N
        OBVIOUS
      <4> QED
        BY <3>1, <4>1, <4>2
    <3>2. CASE n \in 1 .. N
      <4>1. f[n] = IF n = 1 THEN V!LeadBits(s[1]) ELSE f[n - 1] * 64 + (s[n] % 64)
        BY <2>1, <3>2 DEF AddsBits
      <4>2. g[n] = f[n] /\ (n # 1 => g[n - 1] = f[n - 1])
        BY <3>2
      <4> QED
        BY <4>1, <4>2
    <3> QED
      BY <3>1, <3>2
  <2>3. AddsBits(g, s, N + 1)
    BY <2>2 DEF AddsBits
  <2>4. \E f1 : AddsBits(f1, s, N + 1)
    <3> HIDE DEF g
    <3> QED
      BY <2>3
  <2> QED
    BY <2>4
<1>3. Nat \subseteq X
  BY <1>1, <1>2, Induction
<1> QED
  BY <1>3

\* Bits(s) is the last value of such a function, whichever it is.
LEMMA BitsFrom ==
    ASSUME NEW s, NEW L \in Nat, L = Len(s)
    PROVE  \E f : AddsBits(f, s, L) /\ V!Bits(s) = f[L]
<1> DEFINE f == CHOOSE f : AddsBits(f, s, L)
<1>1. AddsBits(f, s, L)
  BY BitsExist
<1>2. V!Bits(s) = f[L]
  BY DEF V!Bits, AddsBits
<1> QED
  BY <1>1, <1>2

LEMMA BitsOne ==
    ASSUME NEW b
    PROVE  V!Bits(<<b>>) = V!LeadBits(b)
<1>1. Len(<<b>>) = 1 /\ <<b>>[1] = b
  OBVIOUS
<1>2. PICK f : AddsBits(f, <<b>>, 1) /\ V!Bits(<<b>>) = f[1]
  BY <1>1, BitsFrom
<1> QED
  BY <1>1, <1>2 DEF AddsBits

LEMMA BitsAppend ==
    ASSUME NEW s \in Seq(Byte), NEW b \in Byte, s # <<>>
    PROVE  V!Bits(Append(s, b)) = V!Bits(s) * 64 + (b % 64)
<1> DEFINE a == Append(s, b)
           L == Len(s)
<1>1. /\ L \in Nat /\ L >= 1 /\ Len(a) = L + 1 /\ a[L + 1] = b
      /\ \A i \in 1 .. L : a[i] = s[i]
  OBVIOUS
<1>2. PICK f : AddsBits(f, s, L) /\ V!Bits(s) = f[L]
  BY <1>1, BitsFrom
<1> HIDE DEF a, L
<1>3. PICK g : AddsBits(g, a, L + 1) /\ V!Bits(a) = g[L + 1]
  BY <1>1, BitsFrom
<1>4. Nat \subseteq {n \in Nat : n + 1 <= L => g[n + 1] = f[n + 1]}
  <2> DEFINE X == {n \in Nat : n + 1 <= L => g[n + 1] = f[n + 1]}
  <2>1. f[1] = V!LeadBits(s[1]) /\ g[1] = V!LeadBits(a[1]) /\ a[1] = s[1]
    BY <1>1, <1>2, <1>3 DEF AddsBits
  <2>2. 0 \in X
    BY <2>1
  <2>3. ASSUME NEW n \in Nat, n \in X PROVE n + 1 \in X
    <3> SUFFICES ASSUME (n + 1) + 1 <= L PROVE g[(n + 1) + 1] = f[(n + 1) + 1]
      OBVIOUS
    <3>1. /\ n + 2 \in 2 .. L /\ n + 2 \in 1 .. L /\ n + 2 \in 1 .. L + 1 /\ n + 2 # 1
          /\ (n + 2) - 1 = n + 1 /\ (n + 1) + 1 = n + 2 /\ n + 1 <= L
      BY <1>1
    <3>2. f[n + 2] = f[n + 1] * 64 + (s[n + 2] % 64)
      BY <1>2, <3>1 DEF AddsBits
    <3>3. g[n + 2] = g[n + 1] * 64 + (a[n + 2] % 64)
      BY <1>3, <3>1 DEF AddsBits
    <3>4. g[n + 1] = f[n + 1] /\ a[n + 2] = s[n + 2]
      BY <1>1, <2>3, <3>1
    <3> QED
      BY <3>1, <3>2, <3>3, <3>4
  <2> QED
    BY <2>2, <2>3, Induction
<1>5. g[L] = f[L]
  <2>1. L - 1 \in Nat /\ (L - 1) + 1 = L
    BY <1>1
  <2> QED
    BY <1>1, <1>4, <2>1
<1>6. g[L + 1] = g[L] * 64 + (a[L + 1] % 64)
  <2>1. L + 1 \in 1 .. L + 1 /\ L + 1 # 1 /\ (L + 1) - 1 = L
    BY <1>1
  <2> QED
    BY <1>3, <2>1 DEF AddsBits
<1> QED
  BY <1>1, <1>2, <1>3, <1>5, <1>6 DEF a

\* The type of a byte, from the smallest to the largest.
LEMMA TypeIs ==
    ASSUME NEW b \in Byte
    PROVE  V!Type(b) = IF b <= 127 THEN 0 ELSE IF b <= 143 THEN 1
                       ELSE IF b <= 159 THEN 9 ELSE IF b <= 191 THEN 7
                       ELSE IF b <= 193 THEN 8 ELSE IF b <= 223 THEN 2
                       ELSE IF b = 224 THEN 10 ELSE IF b <= 236 THEN 3
                       ELSE IF b = 237 THEN 4 ELSE IF b <= 239 THEN 3
                       ELSE IF b = 240 THEN 11 ELSE IF b <= 243 THEN 6
                       ELSE IF b = 244 THEN 5 ELSE 8
BY DEF V!Type, Byte

\* Where the validator goes from state 0, and what it takes from the byte.
FirstState(b) ==
    IF b <= 127 THEN 0 ELSE IF b <= 193 THEN 1 ELSE IF b <= 223 THEN 2
    ELSE IF b = 224 THEN 4 ELSE IF b = 237 THEN 5 ELSE IF b <= 239 THEN 3
    ELSE IF b = 240 THEN 6 ELSE IF b <= 243 THEN 7 ELSE IF b = 244 THEN 8 ELSE 1

LEMMA FirstTransition ==
    ASSUME NEW b \in Byte
    PROVE  V!Transition(0, V!Type(b)) = FirstState(b)
BY TypeIs DEF V!Transition, V!utf8_reject, FirstState, Byte

LEMMA FirstLength ==
    ASSUME NEW b \in Byte
    PROVE  /\ V!Length(b) = IF b <= 127 THEN 1 ELSE IF b <= 191 THEN 0
                            ELSE IF b <= 223 THEN 2 ELSE IF b <= 239 THEN 3
                            ELSE IF b <= 247 THEN 4 ELSE 0
           /\ b <= 127 => V!LeadBits(b) = b
           /\ b \in 192 .. 223 => V!LeadBits(b) = b - 192
           /\ b \in 224 .. 239 => V!LeadBits(b) = b - 224
           /\ b \in 240 .. 247 => V!LeadBits(b) = b - 240
<1>1. V!Length(b) = IF b <= 127 THEN 1 ELSE IF b <= 191 THEN 0
                    ELSE IF b <= 223 THEN 2 ELSE IF b <= 239 THEN 3
                    ELSE IF b <= 247 THEN 4 ELSE 0
  BY DEF V!Length, Byte
<1>2. b <= 127 => V!LeadBits(b) = b
  <2> SUFFICES ASSUME b <= 127 PROVE V!LeadBits(b) = b
    OBVIOUS
  <2>1. V!LeadBits(b) = b % 128
    BY <1>1 DEF V!LeadBits
  <2> QED
    BY <2>1 DEF Byte
<1>3. ASSUME b \in 192 .. 223 PROVE V!LeadBits(b) = b - 192
  <2>1. V!LeadBits(b) = b % 32
    BY <1>1, <1>3 DEF V!LeadBits
  <2> QED
    BY <1>3, <2>1
<1>4. ASSUME b \in 224 .. 239 PROVE V!LeadBits(b) = b - 224
  <2>1. V!LeadBits(b) = b % 16
    BY <1>1, <1>4 DEF V!LeadBits
  <2> QED
    BY <1>4, <2>1
<1>5. ASSUME b \in 240 .. 247 PROVE V!LeadBits(b) = b - 240
  <2>1. V!LeadBits(b) = b % 8
    BY <1>1, <1>5 DEF V!LeadBits
  <2> QED
    BY <1>5, <2>1
<1> QED
  BY <1>1, <1>2, <1>3, <1>4, <1>5

\* The shift by the type takes the bits of the code point.
LEMMA FirstBitsIs ==
    ASSUME NEW b \in Byte, FirstState(b) # 1
    PROVE  V!FirstBits(b) = V!LeadBits(b)
<1>1. CASE b <= 127
  <2>1. V!FirstBits(b) = b % 256
    BY <1>1, TypeIs DEF V!FirstBits
  <2> QED
    BY <1>1, <2>1, FirstLength DEF Byte
<1>2. CASE b \in 194 .. 223
  <2>1. V!FirstBits(b) = b % 64
    BY <1>2, TypeIs DEF V!FirstBits
  <2> QED
    BY <1>2, <2>1, FirstLength
<1>3. CASE b = 224 \/ b = 240
  <2>1. V!FirstBits(b) = b % 1
    BY <1>3, TypeIs DEF V!FirstBits
  <2> QED
    BY <1>3, <2>1, FirstLength
<1>4. CASE b \in 225 .. 236 \/ b \in 238 .. 239
  <2>1. V!FirstBits(b) = b % 32
    BY <1>4, TypeIs DEF V!FirstBits
  <2> QED
    BY <1>4, <2>1, FirstLength
<1>5. CASE b = 237
  <2>1. V!FirstBits(b) = b % 16
    BY <1>5, TypeIs DEF V!FirstBits
  <2> QED
    BY <1>5, <2>1, FirstLength
<1>6. CASE b \in 241 .. 243
  <2>1. V!FirstBits(b) = b % 4
    BY <1>6, TypeIs DEF V!FirstBits
  <2> QED
    BY <1>6, <2>1, FirstLength
<1>7. CASE b = 244
  <2>1. V!FirstBits(b) = b % 8
    BY <1>7, TypeIs DEF V!FirstBits
  <2> QED
    BY <1>7, <2>1, FirstLength
<1> QED
  BY <1>1, <1>2, <1>3, <1>4, <1>5, <1>6, <1>7 DEF FirstState, Byte

Within(v, lo, hi) == lo <= v /\ v <= hi

\* With `left` bytes to come, v is the beginning of a code point of n bytes.
Reaches(n, left, v) ==
    \/ n = 1 /\ left = 0 /\ Within(v, 0, 127)
    \/ n = 2 /\ left = 1 /\ Within(v, 2, 31)
    \/ n = 2 /\ left = 0 /\ Within(v, 128, 2047)
    \/ n = 3 /\ left = 2 /\ Within(v, 0, 15)
    \/ n = 3 /\ left = 1 /\ (Within(v, 32, 863) \/ Within(v, 896, 1023))
    \/ n = 3 /\ left = 0 /\ (Within(v, 2048, 55295) \/ Within(v, 57344, 65535))
    \/ n = 4 /\ left = 3 /\ Within(v, 0, 4)
    \/ n = 4 /\ left = 2 /\ Within(v, 16, 271)
    \/ n = 4 /\ left = 1 /\ Within(v, 1024, 17407)
    \/ n = 4 /\ left = 0 /\ Within(v, 65536, 1114111)

Overlaps(lo, hi, v, rest) == v * rest <= hi /\ v * rest + rest - 1 >= lo

LEMMA InRanges ==
    ASSUME NEW n \in 1 .. 4, NEW left \in 0 .. n - 1, NEW v \in Nat
    PROVE  Reaches(n, left, v) <=>
              \E r \in V!Ranges(n) :
                 /\ v * V!Choices(left) <= r[2]
                 /\ v * V!Choices(left) + V!Choices(left) - 1 >= r[1]
<1> DEFINE rest == V!Choices(left)
<1>1. rest = IF left = 0 THEN 1 ELSE IF left = 1 THEN 64
             ELSE IF left = 2 THEN 4096 ELSE 262144
  BY DEF V!Choices
<1> HIDE DEF rest
<1>2. CASE n = 1
  <2>1. V!Ranges(n) = {<<0, 127>>}
    BY <1>2 DEF V!Ranges
  <2>2. Reaches(n, left, v) <=> Overlaps(0, 127, v, rest)
    BY <1>1, <1>2 DEF Reaches, Within, Overlaps
  <2> QED
    BY <2>1, <2>2 DEF Overlaps, rest
<1>3. CASE n = 2
  <2>1. V!Ranges(n) = {<<128, 2047>>}
    BY <1>3 DEF V!Ranges
  <2>2. Reaches(n, left, v) <=> Overlaps(128, 2047, v, rest)
    BY <1>1, <1>3 DEF Reaches, Within, Overlaps
  <2> QED
    BY <2>1, <2>2 DEF Overlaps, rest
<1>4. CASE n = 3
  <2>1. V!Ranges(n) = {<<2048, 55295>>, <<57344, 65535>>}
    BY <1>4 DEF V!Ranges
  <2>2. Reaches(n, left, v) <=>
           Overlaps(2048, 55295, v, rest) \/ Overlaps(57344, 65535, v, rest)
    BY <1>1, <1>4 DEF Reaches, Within, Overlaps
  <2> QED
    BY <2>1, <2>2 DEF Overlaps, rest
<1>5. CASE n = 4
  <2>1. V!Ranges(n) = {<<65536, 1114111>>}
    BY <1>5 DEF V!Ranges
  <2>2. Reaches(n, left, v) <=> Overlaps(65536, 1114111, v, rest)
    BY <1>1, <1>5 DEF Reaches, Within, Overlaps
  <2> QED
    BY <2>1, <2>2 DEF Overlaps, rest
<1> QED
  BY <1>2, <1>3, <1>4, <1>5

LEMMA ViableOne ==
    ASSUME NEW b \in Byte
    PROVE  V!Viable(<<b>>) <=> FirstState(b) # 1
<1> DEFINE n == V!Length(b)
           v == V!LeadBits(b)
<1>1. <<b>>[1] = b /\ Len(<<b>>) = 1 /\ V!Bits(<<b>>) = v
  BY BitsOne
<1>2. CASE n = 0
  <2>1. ~V!Viable(<<b>>)
    BY <1>1, <1>2 DEF V!Viable
  <2> QED
    BY <1>2, <2>1, FirstLength DEF FirstState, Byte
<1>3. CASE n # 0
  <2>1. n \in 1 .. 4 /\ n - 1 \in 0 .. n - 1 /\ v \in Nat
    BY <1>3, FirstLength DEF Byte
  <2>2. V!Viable(<<b>>) <=>
           \E r \in V!Ranges(n) : /\ v * V!Choices(n - 1) <= r[2]
                                  /\ v * V!Choices(n - 1) + V!Choices(n - 1) - 1 >= r[1]
    <3> HIDE DEF n, v
    <3> QED
      BY <1>1, <2>1 DEF V!Viable, n
  <2>3. V!Viable(<<b>>) <=> Reaches(n, n - 1, v)
    <3> HIDE DEF n, v
    <3> QED
      BY <2>1, <2>2, InRanges
  <2>4. /\ n = IF b <= 127 THEN 1 ELSE IF b <= 191 THEN 0
                ELSE IF b <= 223 THEN 2 ELSE IF b <= 239 THEN 3
                ELSE IF b <= 247 THEN 4 ELSE 0
        /\ b <= 127 => v = b
        /\ b \in 192 .. 223 => v = b - 192
        /\ b \in 224 .. 239 => v = b - 224
        /\ b \in 240 .. 247 => v = b - 240
    BY FirstLength
  <2> HIDE DEF n, v
  <2>5. Reaches(n, n - 1, v) <=> FirstState(b) # 1
    BY <1>3, <2>4 DEF Reaches, Within, FirstState, Byte
  <2> QED
    BY <2>3, <2>5
<1> QED
  BY <1>2, <1>3

LEMMA ViableNext ==
    ASSUME NEW s \in Seq(Byte), NEW b \in Byte, s # <<>>,
           \A i \in 2 .. Len(s) : s[i] \in Continuation,
           NEW n \in 1 .. 4, n = V!Length(s[1]), Len(s) < n,
           NEW v \in Nat, v = V!Bits(s) * 64 + (b % 64)
    PROVE  V!Viable(Append(s, b)) <=>
              b \in Continuation /\ Reaches(n, n - Len(s) - 1, v)
<1> DEFINE a == Append(s, b)
           L == Len(s)
           left == n - (L + 1)
<1>1. /\ L \in Nat /\ L >= 1 /\ Len(a) = L + 1 /\ a[L + 1] = b
      /\ \A i \in 1 .. L : a[i] = s[i]
      /\ V!Bits(a) = v
  BY BitsAppend
<1>2. left \in 0 .. n - 1 /\ left = n - L - 1
  BY <1>1
<1>3. (\A i \in 2 .. L + 1 : a[i] \in 128 .. 191) <=> b \in Continuation
  <2> HIDE DEF a, L
  <2>4. \A i \in 2 .. L : s[i] \in 128 .. 191
    BY DEF L, Continuation
  <2>5. \A i \in 2 .. L : i \in 1 .. L
    BY <1>1
  <2>1. \A i \in 2 .. L : a[i] \in 128 .. 191
    BY <1>1, <2>4, <2>5
  <2>2. \A i \in 2 .. L + 1 : i \in 2 .. L \/ i = L + 1
    BY <1>1
  <2>3. L + 1 \in 2 .. L + 1
    BY <1>1
  <2> QED
    BY <1>1, <2>1, <2>2, <2>3 DEF Continuation
<1> HIDE DEF a, L, left
<1>4. a[1] = s[1] /\ L + 1 <= n
  BY <1>1 DEF L
<1>5. V!Viable(a) <=>
         /\ b \in Continuation
         /\ \E r \in V!Ranges(n) :
               /\ v * V!Choices(left) <= r[2]
               /\ v * V!Choices(left) + V!Choices(left) - 1 >= r[1]
  BY <1>1, <1>3, <1>4 DEF V!Viable, left
<1> QED
  BY <1>2, <1>5, InRanges, SMTT(60) DEF a, L

\* What each state of the validator says about the bytes of the character that
\* it is in: how many are to come, and which code points they can still make.
StateMeans(state, n, left, v) ==
    \/ /\ state = 2 /\ left = 1
       /\ \/ n = 2 /\ Within(v, 2, 31)
          \/ n = 3 /\ (Within(v, 32, 863) \/ Within(v, 896, 1023))
          \/ n = 4 /\ Within(v, 1024, 17407)
    \/ /\ state = 3 /\ left = 2
       /\ \/ n = 3 /\ (Within(v, 1, 12) \/ Within(v, 14, 15))
          \/ n = 4 /\ Within(v, 16, 271)
    \/ state = 4 /\ n = 3 /\ left = 2 /\ v = 0
    \/ state = 5 /\ n = 3 /\ left = 2 /\ v = 13
    \/ state = 6 /\ n = 4 /\ left = 3 /\ v = 0
    \/ state = 7 /\ n = 4 /\ left = 3 /\ Within(v, 1, 3)
    \/ state = 8 /\ n = 4 /\ left = 3 /\ v = 4

Partial ==
    /\ pending \in Seq(Byte) /\ pending # <<>>
    /\ \A i \in 2 .. Len(pending) : pending[i] \in Continuation
    /\ m_codepoint = V!Bits(pending) /\ m_codepoint \in Nat
    /\ LET n == V!Length(pending[1])
       IN StateMeans(utf8_state, n, n - Len(pending), m_codepoint)

Utf8Inv ==
    /\ utf8_state \in 0 .. 8
    /\ bad \in BOOLEAN
    /\ utf8_state = 0 => pending = <<>> /\ m_codepoint = value
    /\ utf8_state = 1 <=> bad = TRUE
    /\ utf8_state \in 2 .. 8 => Partial

\* The rows of the table, by what a byte that continues a character is.
LEMMA NextTransition ==
    ASSUME NEW b \in Byte
    PROVE  /\ \A state \in 2 .. 8 :
                 b < 128 \/ b > 191 => V!Transition(state, V!Type(b)) = 1
           /\ b \in Continuation =>
                 /\ V!Transition(2, V!Type(b)) = 0
                 /\ V!Transition(3, V!Type(b)) = 2
                 /\ V!Transition(4, V!Type(b)) = IF b >= 160 THEN 2 ELSE 1
                 /\ V!Transition(5, V!Type(b)) = IF b >= 160 THEN 1 ELSE 2
                 /\ V!Transition(6, V!Type(b)) = IF b >= 144 THEN 3 ELSE 1
                 /\ V!Transition(7, V!Type(b)) = 3
                 /\ V!Transition(8, V!Type(b)) = IF b >= 144 THEN 1 ELSE 3
<1>1. ASSUME NEW state \in 2 .. 8, b < 128 \/ b > 191
      PROVE  V!Transition(state, V!Type(b)) = 1
  <2>1. V!Type(b) \in {0, 2, 3, 4, 5, 6, 8, 10, 11}
    BY <1>1, TypeIs DEF Byte
  <2> QED
    BY <2>1 DEF V!Transition, V!utf8_reject
<1>2. ASSUME b \in Continuation
      PROVE  V!Type(b) = IF b < 144 THEN 1 ELSE IF b < 160 THEN 9 ELSE 7
  BY <1>2, TypeIs DEF Byte, Continuation
<1> QED
  BY <1>1, <1>2 DEF V!Transition, V!utf8_reject, Continuation

LEMMA ContinuationBits ==
    ASSUME NEW b \in Continuation
    PROVE  b % 64 = b - 128
BY DEF Continuation

\* One more byte of a character: the state says whether it is still one, and
\* when it is complete.
NextState(state, b) == V!Transition(state, V!Type(b))
NextValue(v, b) == v * 64 + (b - 128)

LEMMA StateSteps ==
    \A state \in 2 .. 8, n \in 1 .. 4, left \in Nat, v \in Nat, b \in Continuation :
       StateMeans(state, n, left, v) =>
          /\ NextState(state, b) # 1 <=> Reaches(n, left - 1, NextValue(v, b))
          /\ NextState(state, b) = 0 <=> left = 1 /\ NextState(state, b) # 1
          /\ NextState(state, b) \notin {0, 1} =>
                /\ NextState(state, b) \in 2 .. 8
                /\ StateMeans(NextState(state, b), n, left - 1, NextValue(v, b))
<1> TAKE state \in 2 .. 8, n \in 1 .. 4, left \in Nat, v \in Nat, b \in Continuation
<1> HAVE StateMeans(state, n, left, v)
<1>9. NextValue(v, b) = v * 64 + (b - 128)
  BY DEF NextValue
<1> USE DEF Continuation
<1>1. b \in Byte
  BY DEF Byte
<1>2. CASE state = 2
  <2>1. NextState(state, b) = 0
    BY <1>1, <1>2, NextTransition DEF NextState
  <2> QED
    BY <1>2, <1>9, <2>1 DEF StateMeans, Reaches, Within
<1>3. CASE state = 3
  <2>1. NextState(state, b) = 2
    BY <1>1, <1>3, NextTransition DEF NextState
  <2> QED
    BY <1>3, <1>9, <2>1 DEF StateMeans, Reaches, Within
<1>4. CASE state = 4
  <2>1. NextState(state, b) = IF b >= 160 THEN 2 ELSE 1
    BY <1>1, <1>4, NextTransition DEF NextState
  <2> QED
    BY <1>4, <1>9, <2>1 DEF StateMeans, Reaches, Within
<1>5. CASE state = 5
  <2>1. NextState(state, b) = IF b >= 160 THEN 1 ELSE 2
    BY <1>1, <1>5, NextTransition DEF NextState
  <2> QED
    BY <1>5, <1>9, <2>1 DEF StateMeans, Reaches, Within
<1>6. CASE state = 6
  <2>1. NextState(state, b) = IF b >= 144 THEN 3 ELSE 1
    BY <1>1, <1>6, NextTransition DEF NextState
  <2> QED
    BY <1>6, <1>9, <2>1 DEF StateMeans, Reaches, Within
<1>7. CASE state = 7
  <2>1. NextState(state, b) = 3
    BY <1>1, <1>7, NextTransition DEF NextState
  <2> QED
    BY <1>7, <1>9, <2>1 DEF StateMeans, Reaches, Within
<1>8. CASE state = 8
  <2>1. NextState(state, b) = IF b >= 144 THEN 1 ELSE 3
    BY <1>1, <1>8, NextTransition DEF NextState
  <2> QED
    BY <1>8, <1>9, <2>1 DEF StateMeans, Reaches, Within
<1> QED
  BY <1>2, <1>3, <1>4, <1>5, <1>6, <1>7, <1>8

\* The first byte of a character.
LEMMA Utf8First ==
    ASSUME Utf8Inv, NEW b \in Byte, V!Decode(b), utf8_state = 0
    PROVE  Utf8Inv'
<1> DEFINE t == FirstState(b)
           s == <<b>>
<1>1. pending = <<>> /\ Append(pending, b) = s
  BY DEF Utf8Inv
<1>2. utf8_state' = t /\ m_codepoint' = V!FirstBits(b)
  BY FirstTransition DEF V!Decode, V!Codepoint, V!utf8_accept
<1>3. /\ bad' \in BOOLEAN /\ (bad' = TRUE <=> ~V!Viable(s))
      /\ IF V!Viable(s) /\ Len(s) = V!Length(s[1])
         THEN pending' = <<>> /\ value' = V!Bits(s)
         ELSE pending' = s /\ value' = 0
  <2>1. /\ bad' = ~V!Viable(s)
        /\ IF V!Viable(s) /\ Len(s) = V!Length(s[1])
           THEN pending' = <<>> /\ value' = V!Bits(s)
           ELSE pending' = s /\ value' = 0
    BY <1>1 DEF V!Decode
  <2>2. bad' \in BOOLEAN /\ (bad' = TRUE <=> ~V!Viable(s))
    BY <2>1
  <2> QED
    BY <2>1, <2>2
<1>4. /\ V!Viable(s) <=> t # 1
      /\ V!Bits(s) = V!LeadBits(b) /\ s[1] = b /\ Len(s) = 1 /\ s \in Seq(Byte) /\ s # <<>>
      /\ t # 1 => V!FirstBits(b) = V!LeadBits(b)
  BY ViableOne, BitsOne, FirstBitsIs
<1>5. t \in 0 .. 8 /\ (t = 0 <=> V!Length(b) = 1)
  BY FirstLength DEF FirstState, Byte
<1>6. CASE t = 0
  BY <1>2, <1>3, <1>4, <1>5, <1>6 DEF Utf8Inv
<1>7. CASE t = 1
  BY <1>2, <1>3, <1>4, <1>5, <1>7 DEF Utf8Inv
<1>8. CASE t \in 2 .. 8
  <2>1. bad' = FALSE /\ pending' = s /\ m_codepoint' = V!LeadBits(b) /\ t # 1 /\ t # 0
    BY <1>2, <1>3, <1>4, <1>5, <1>8
  <2>2. V!LeadBits(b) \in Nat /\ StateMeans(t, V!Length(b), V!Length(b) - 1, V!LeadBits(b))
    BY <1>8, FirstLength DEF FirstState, StateMeans, Within, Byte
  <2> HIDE DEF s, t
  <2>3. Partial'
    <3>1. pending' \in Seq(Byte) /\ pending' # <<>> /\ Len(pending') = 1 /\ pending'[1] = b
      BY <1>4, <2>1
    <3>2. m_codepoint' = V!Bits(pending') /\ m_codepoint' \in Nat
      BY <1>4, <2>1, <2>2
    <3>3. StateMeans(utf8_state', V!Length(pending'[1]), V!Length(pending'[1]) - Len(pending'),
                     m_codepoint')
      BY <1>2, <2>1, <2>2, <3>1
    <3>4. \A i \in 2 .. Len(pending') : pending'[i] \in Continuation
      BY <3>1
    <3> QED
      BY <3>1, <3>2, <3>3, <3>4 DEF Partial
  <2> QED
    BY <1>2, <1>5, <2>1, <2>3 DEF Utf8Inv
<1> QED
  BY <1>5, <1>6, <1>7, <1>8

\* One of the others.
LEMMA Utf8Later ==
    ASSUME Utf8Inv, NEW b \in Byte, V!Decode(b), utf8_state \in 2 .. 8
    PROVE  Utf8Inv'
<1> DEFINE t == V!Transition(utf8_state, V!Type(b))
           s == Append(pending, b)
           L == Len(pending)
           n == V!Length(pending[1])
           left == n - L
           w == m_codepoint * 64 + (b % 64)
<1>1. /\ utf8_state' = t /\ m_codepoint' = w
      /\ bad' = ~V!Viable(s)
      /\ IF V!Viable(s) /\ Len(s) = V!Length(s[1])
         THEN pending' = <<>> /\ value' = V!Bits(s)
         ELSE pending' = s /\ value' = 0
  BY DEF V!Decode, V!Codepoint, V!utf8_accept
<1>12. bad' \in BOOLEAN /\ (bad' = TRUE <=> ~V!Viable(s))
  BY <1>1
<1>2. Partial
  BY DEF Utf8Inv
<1>3. /\ L \in Nat /\ L >= 1 /\ Len(s) = L + 1 /\ s[L + 1] = b /\ s \in Seq(Byte)
      /\ s # <<>> /\ \A i \in 1 .. L : s[i] = pending[i]
  BY <1>2 DEF Partial
<1>4. /\ StateMeans(utf8_state, n, left, m_codepoint) /\ m_codepoint \in Nat
      /\ m_codepoint = V!Bits(pending) /\ pending \in Seq(Byte) /\ pending # <<>>
      /\ \A i \in 2 .. Len(pending) : pending[i] \in Continuation
  BY <1>2 DEF Partial
<1>5. n \in 1 .. 4 /\ left \in Nat /\ left >= 1
  BY <1>4 DEF StateMeans
<1>6. V!Bits(s) = w /\ w \in Nat
  <2>1. V!Bits(s) = w
    BY <1>4, BitsAppend
  <2>2. b % 64 \in Nat
    BY DEF Byte
  <2> HIDE DEF s
  <2> QED
    BY <1>4, <2>1, <2>2
<1>7. L < n /\ n - L - 1 = left - 1
  BY <1>3, <1>5
<1>8. V!Viable(s) <=> b \in Continuation /\ Reaches(n, left - 1, w)
  <2> HIDE DEF left, n, w
  <2> QED
    BY <1>4, <1>5, <1>6, <1>7, ViableNext DEF w, n
<1>9. s[1] = pending[1]
  BY <1>3
<1>10. CASE b \in Continuation
  <2>1. w = m_codepoint * 64 + (b - 128)
    BY <1>10, ContinuationBits
  <2> HIDE DEF left, n, w, t
  <2>2. /\ t # 1 <=> Reaches(n, left - 1, w)
        /\ t = 0 <=> left = 1 /\ t # 1
        /\ t \notin {0, 1} => t \in 2 .. 8 /\ StateMeans(t, n, left - 1, w)
    <3>1. t = NextState(utf8_state, b) /\ w = NextValue(m_codepoint, b)
      BY <2>1 DEF t, NextState, NextValue
    <3>2. utf8_state \in 2 .. 8
      OBVIOUS
    <3>3. /\ n \in 1 .. 4 /\ left \in Nat /\ m_codepoint \in Nat /\ b \in Continuation
          /\ StateMeans(utf8_state, n, left, m_codepoint)
      BY <1>4, <1>5, <1>10
    <3> QED
      BY ONLY <3>1, <3>2, <3>3, StateSteps, SMTT(60)
  <2>3. V!Viable(s) <=> t # 1
    BY <1>8, <1>10, <2>2
  <2>4. Len(s) = V!Length(s[1]) <=> left = 1
    BY <1>3, <1>5, <1>9 DEF left, n
  <2> HIDE DEF s
  <2>5. CASE t = 0
    BY <1>1, <1>6, <1>12, <2>2, <2>3, <2>4, <2>5 DEF Utf8Inv
  <2>6. CASE t = 1
    BY <1>1, <1>12, <2>3, <2>6 DEF Utf8Inv
  <2>7. CASE t \notin {0, 1}
    <3>1. bad' = FALSE /\ pending' = s /\ t \in 2 .. 8 /\ t # 1 /\ t # 0
      BY <1>1, <1>12, <2>2, <2>3, <2>4, <2>7
    <3>2. \A i \in 2 .. Len(s) : s[i] \in Continuation
      <4>1. \A i \in 2 .. L : i \in 1 .. L
        BY <1>3
      <4>2. \A i \in 2 .. L + 1 : i \in 2 .. L \/ i = L + 1
        BY <1>3
      <4> QED
        BY <1>3, <1>4, <1>10, <4>1, <4>2
    <3>3. V!Length(s[1]) - Len(s) = left - 1 /\ V!Length(s[1]) = n
      BY <1>3, <1>5, <1>9 DEF left, n
    <3>4. Partial'
      BY <1>1, <1>3, <1>6, <2>2, <3>1, <3>2, <3>3 DEF Partial
    <3> QED
      BY <1>1, <3>1, <3>4 DEF Utf8Inv
  <2> QED
    BY <2>5, <2>6, <2>7
<1>11. CASE b \notin Continuation
  <2>1. t = 1
    BY <1>11, NextTransition DEF Byte, Continuation
  <2> QED
    BY <1>1, <1>8, <1>11, <1>12, <2>1 DEF Utf8Inv
<1> QED
  BY <1>10, <1>11

\* The validator rejects at the very byte after which no input is UTF-8, it is
\* complete exactly between characters, and its code points are those of the
\* definition, for every input.
THEOREM Utf8AgreesAlways == MCSpec => []Utf8Agrees
<1> USE InputsAssumption
<1>1. MCInit => Utf8Inv
  <2>1. MCInit => V!Init
    BY DEF MCInit
  <2> SUFFICES ASSUME V!Init PROVE Utf8Inv
    BY <2>1
  <2>2. bad \in BOOLEAN /\ ~(bad = TRUE)
    BY DEF V!Init
  <2> QED
    BY <2>2 DEF V!Init, V!utf8_accept, Utf8Inv
<1>2. Utf8Inv /\ [MCNext]_allVars => Utf8Inv'
  <2> SUFFICES ASSUME Utf8Inv, [MCNext]_allVars PROVE Utf8Inv'
    OBVIOUS
  <2>1. CASE UNCHANGED utf8Vars
    BY <2>1 DEF utf8Vars, Utf8Inv, Partial
  <2>2. ASSUME NEW b \in Octets, V!Decode(b) PROVE Utf8Inv'
    <3>1. b \in Byte
      BY DEF V!BytesAssumption, Byte
    <3>2. utf8_state \in {0} \cup 2 .. 8
      BY <2>2 DEF Utf8Inv, V!Decode, V!utf8_reject
    <3> QED
      BY <2>2, <3>1, <3>2, Utf8First, Utf8Later
  <2>3. CASE V!Reset
    <3>1. bad' \in BOOLEAN /\ ~(bad' = TRUE)
      BY <2>3 DEF V!Reset
    <3> QED
      BY <2>3, <3>1 DEF V!Reset, V!utf8_accept, Utf8Inv
  <2> QED
    BY <2>1, <2>2, <2>3
    DEF MCNext, allVars, FramesNext, HttpNext, Hybi00Next, CompressionNext,
        Utf8Next, V!Next
<1>3. Utf8Inv => Utf8Agrees
  <2> SUFFICES ASSUME Utf8Inv PROVE V!Agrees
    BY DEF Utf8Agrees
  <2>1. utf8_state \in 2 .. 8 => pending # <<>> /\ ~bad
    BY DEF Utf8Inv, Partial
  <2> QED
    BY <2>1 DEF Utf8Inv, V!Agrees, V!utf8_accept, V!utf8_reject
<1> QED
  BY <1>1, <1>2, <1>3, PTL DEF MCSpec

-----------------------------------------------------------------------------
(***************************************************************************)
(* The frames of draft 00 (Hybi00).                                        *)
(***************************************************************************)

\* What may come as a byte: nothing that stands for the null message.
Sendable == STRING \ {"none"}

\* f reads the first N bytes of s, one after the other.
Scans(f, s, N) ==
    f = [n \in 0 .. N |-> IF n = 0 THEN Y!Nothing ELSE Y!WithByte(f[n - 1], s[n])]

LEMMA ScanExists ==
    ASSUME NEW s, NEW L \in Nat
    PROVE  \E f : Scans(f, s, L)
<1> DEFINE X == {N \in Nat : \E f : Scans(f, s, N)}
<1>1. 0 \in X
  <2> DEFINE f == [n \in 0 .. 0 |-> Y!Nothing]
  <2>1. Scans(f, s, 0)
    BY DEF Scans
  <2> QED
    BY <2>1
<1>2. ASSUME NEW N \in Nat, N \in X PROVE N + 1 \in X
  <2>1. PICK f : Scans(f, s, N)
    BY <1>2
  <2> DEFINE v == Y!WithByte(f[N], s[N + 1])
             g == [n \in 0 .. N + 1 |-> IF n = N + 1 THEN v ELSE f[n]]
  <2>2. \A n \in 0 .. N + 1 : g[n] = IF n = 0 THEN Y!Nothing
                                     ELSE Y!WithByte(g[n - 1], s[n])
    <3> TAKE n \in 0 .. N + 1
    <3>1. CASE n = N + 1
      <4>1. g[N + 1] = v
        OBVIOUS
      <4>2. g[N] = f[N] /\ (N + 1) - 1 = N /\ N + 1 # 0
        OBVIOUS
      <4> QED
        BY <3>1, <4>1, <4>2
    <3>2. CASE n \in 0 .. N
      <4>1. f[n] = IF n = 0 THEN Y!Nothing ELSE Y!WithByte(f[n - 1], s[n])
        BY <2>1, <3>2 DEF Scans
      <4>2. g[n] = f[n] /\ (n # 0 => g[n - 1] = f[n - 1])
        BY <3>2
      <4> QED
        BY <4>1, <4>2
    <3> QED
      BY <3>1, <3>2
  <2>3. Scans(g, s, N + 1)
    BY <2>2 DEF Scans
  <2>4. \E f1 : Scans(f1, s, N + 1)
    BY <2>3
  <2> QED
    BY <2>4
<1> HIDE DEF X
<1>3. L \in X
  BY <1>1, <1>2, Induction
<1> QED
  BY <1>3 DEF X

\* Two scans agree as far as the bytes do.
LEMMA ScansAgree ==
    ASSUME NEW s, NEW t, NEW L \in Nat, NEW M \in Nat, NEW f, NEW g,
           Scans(f, s, L), Scans(g, t, M), L <= M,
           \A i \in 1 .. L : s[i] = t[i]
    PROVE  f[L] = g[L]
<1> DEFINE X == {n \in Nat : n <= L => f[n] = g[n]}
<1>1. 0 \in X
  BY DEF Scans
<1>2. ASSUME NEW n \in Nat, n \in X PROVE n + 1 \in X
  <2> SUFFICES ASSUME n + 1 <= L PROVE f[n + 1] = g[n + 1]
    OBVIOUS
  <2>1. /\ n + 1 \in 0 .. L /\ n + 1 \in 0 .. M /\ n + 1 # 0 /\ (n + 1) - 1 = n
        /\ n <= L /\ n + 1 \in 1 .. L
    OBVIOUS
  <2>2. f[n + 1] = Y!WithByte(f[n], s[n + 1])
    BY <2>1 DEF Scans
  <2>3. g[n + 1] = Y!WithByte(g[n], t[n + 1])
    BY <2>1 DEF Scans
  <2> QED
    BY <1>2, <2>1, <2>2, <2>3
<1> HIDE DEF X
<1>3. L \in X
  BY <1>1, <1>2, Induction
<1> QED
  BY <1>3 DEF X

LEMMA MessagesScanned ==
    ASSUME NEW s, Len(s) \in Nat
    PROVE  \E f : Scans(f, s, Len(s)) /\ Y!MessagesOf(s) = f[Len(s)]
<1> DEFINE first == CHOOSE f : Scans(f, s, Len(s))
<1>1. Scans(first, s, Len(s))
  BY ScanExists
<1>2. Y!MessagesOf(s) = first[Len(s)]
  BY DEF Y!MessagesOf, Scans
<1> QED
  BY <1>1, <1>2

LEMMA MessagesEmpty == Y!MessagesOf(<<>>) = Y!Nothing
<1>1. Len(<<>>) = 0
  OBVIOUS
<1>2. PICK f : Scans(f, <<>>, 0) /\ Y!MessagesOf(<<>>) = f[0]
  BY <1>1, MessagesScanned
<1> QED
  BY <1>2 DEF Scans

LEMMA MessagesAppend ==
    ASSUME NEW s \in Seq(Sendable), NEW b \in Sendable
    PROVE  Y!MessagesOf(Append(s, b)) = Y!WithByte(Y!MessagesOf(s), b)
<1> DEFINE a == Append(s, b)
           L == Len(s)
<1>1. /\ L \in Nat /\ Len(a) = L + 1 /\ a[L + 1] = b
      /\ \A i \in 1 .. L : s[i] = a[i]
  OBVIOUS
<1>2. PICK f : Scans(f, s, L) /\ Y!MessagesOf(s) = f[L]
  BY <1>1, MessagesScanned
<1> HIDE DEF a, L
<1>3. PICK g : Scans(g, a, L + 1) /\ Y!MessagesOf(a) = g[L + 1]
  BY <1>1, MessagesScanned
<1>4. f[L] = g[L]
  BY <1>1, <1>2, <1>3, ScansAgree
<1>5. g[L + 1] = Y!WithByte(g[L], a[L + 1])
  <2>1. L + 1 \in 0 .. L + 1 /\ L + 1 # 0 /\ (L + 1) - 1 = L
    BY <1>1
  <2> QED
    BY <1>3, <2>1 DEF Scans
<1> QED
  BY <1>1, <1>2, <1>3, <1>4, <1>5 DEF a

\* A payload is not the null message.
LEMMA PayloadNotNull == Y!NullMsg \notin Seq(Sendable)
<1> SUFFICES ASSUME Y!NullMsg \in Seq(Sendable) PROVE FALSE
  OBVIOUS
<1>1. Len(Y!NullMsg) = 1 /\ Y!NullMsg[1] = "none"
  BY DEF Y!NullMsg
<1>2. Y!NullMsg[1] \in Sendable
  BY <1>1, ElementOfSeq
<1> QED
  BY <1>1, <1>2 DEF Sendable

\* Inside a message, bytes before a footer make the payload longer.
LEMMA MessagesPiece ==
    ASSUME NEW t \in Seq(Sendable), NEW p \in Seq(Sendable), NEW w,
           NEW r \in Seq(Sendable), NEW l \in 0 .. Len(p),
           Y!MessagesOf(t) = [whole |-> w, rest |-> r],
           \A i \in 1 .. l : p[i] # Y!msg_ftr
    PROVE  Y!MessagesOf(t \o SubSeq(p, 1, l)) =
              [whole |-> w, rest |-> r \o SubSeq(p, 1, l)]
<1> DEFINE is(k) == Y!MessagesOf(t \o SubSeq(p, 1, k)) =
                       [whole |-> w, rest |-> r \o SubSeq(p, 1, k)]
           X == {k \in Nat : k <= l => is(k)}
<1>1. 0 \in X
  <2>1. SubSeq(p, 1, 0) = <<>>
    BY SubSeqEmpty
  <2>2. t \o <<>> = t /\ r \o <<>> = r
    BY ConcatEmptySeq
  <2> QED
    BY <2>1, <2>2
<1>2. ASSUME NEW k \in Nat, k \in X PROVE k + 1 \in X
  <2> SUFFICES ASSUME k + 1 <= l PROVE is(k + 1)
    OBVIOUS
  <2> DEFINE q == SubSeq(p, 1, k)
             b == p[k + 1]
  <2>1. Len(p) \in Nat /\ l \in Nat /\ l <= Len(p)
    OBVIOUS
  <2>2. k + 1 \in 1 .. Len(p) /\ k + 1 \in 1 .. l /\ (k + 1) - 1 = k /\ k <= l
        /\ 1 \in 1 .. Len(p)
    BY <2>1
  <2>3. b \in Sendable /\ b # Y!msg_ftr
    BY <2>2, ElementOfSeq
  <2>4. q \in Seq(Sendable)
    <3>1. \A i \in 1 .. k : i \in 1 .. Len(p)
      BY <2>1, <2>2
    <3> QED
      BY <3>1, ElementOfSeq, SubSeqProperties
  <2>5. SubSeq(p, 1, k + 1) = q \o <<b>>
    <3>1. k + 1 \in 1 .. Len(p)
      BY <2>2
    <3>2. SubSeq(p, 1, k + 1) = SubSeq(p, 1, (k + 1) - 1) \o <<p[k + 1]>>
      BY <2>2, SubSeqRecursiveSecond
    <3> QED
      BY <2>2, <3>2
  <2>6. is(k)
    BY <1>2, <2>2
  <2> HIDE DEF q, b
  <2>7. <<b>> \in Seq(Sendable)
    BY <2>3
  <2>8. /\ t \o (q \o <<b>>) = (t \o q) \o <<b>>
        /\ r \o (q \o <<b>>) = (r \o q) \o <<b>>
    BY <2>4, <2>7, ConcatAssociative, SMTT(60)
  <2>9. t \o q \in Seq(Sendable) /\ r \o q \in Seq(Sendable)
    BY <2>4, ConcatProperties
  <2>10. (t \o q) \o <<b>> = Append(t \o q, b) /\ (r \o q) \o <<b>> = Append(r \o q, b)
    BY <2>3, <2>9, AppendIsConcat
  <2>11. Y!MessagesOf(Append(t \o q, b)) = Y!WithByte(Y!MessagesOf(t \o q), b)
    BY <2>3, <2>9, MessagesAppend
  <2>12. Y!MessagesOf(t \o q) = [whole |-> w, rest |-> r \o q]
    BY <2>6 DEF q
  <2>13. r \o q # Y!NullMsg
    BY <2>9, PayloadNotNull
  <2>14. Y!WithByte([whole |-> w, rest |-> r \o q], b) =
            [whole |-> w, rest |-> Append(r \o q, b)]
    BY <2>3, <2>13 DEF Y!WithByte
  <2> QED
    BY <2>5, <2>8, <2>10, <2>11, <2>12, <2>14
<1> HIDE DEF X
<1>3. Nat \subseteq X
  BY <1>1, <1>2, Induction
<1>4. l \in X
  <2>1. l \in Nat
    OBVIOUS
  <2> QED
    BY ONLY <1>3, <2>1
<1> QED
  BY <1>4 DEF X

-----------------------------------------------------------------------------
\* The bytes consumed are the messages delivered, and what is in m_msg_ptr.
Hybi00Inv ==
    /\ stream \in Seq(Sendable) /\ buf \in Seq(Sendable) /\ taken \in Seq(Sendable)
    /\ hybi00_reading \in BOOLEAN /\ closing \in BOOLEAN
    /\ hybi00_state \in {"HEADER", "PAYLOAD", "READY", "FATAL_ERROR"}
    /\ closing = TRUE <=> hybi00_state = "FATAL_ERROR"
    /\ hybi00_state = "FATAL_ERROR" =>
          /\ hybi00_reading = FALSE
          /\ Head(buf) # Y!msg_hdr
    /\ hybi00_state \in {"HEADER", "FATAL_ERROR"} =>
          /\ m_msg = Y!NullMsg
          /\ Y!MessagesOf(taken) = [whole |-> hybi00_delivered, rest |-> Y!NullMsg]
    /\ hybi00_state = "PAYLOAD" =>
          /\ m_msg \in Seq(Sendable)
          /\ Y!MessagesOf(taken) = [whole |-> hybi00_delivered, rest |-> m_msg]
    /\ hybi00_state = "READY" =>
          /\ m_msg \in Seq(Sendable)
          /\ Y!MessagesOf(taken) = [whole |-> Append(hybi00_delivered, m_msg),
                                    rest |-> Y!NullMsg]

\* The operator that a module instantiates again is the same one.
LEMMA SameMinY == \A S : Y!Min(S) = Min(S)
  BY DEF Y!Min, Min

LEMMA PiecesOf ==
    ASSUME NEW s \in Seq(Sendable), NEW n \in 0 .. Len(s)
    PROVE  /\ SubSeq(s, 1, n) \in Seq(Sendable)
           /\ SubSeq(s, n + 1, Len(s)) \in Seq(Sendable)
<1>1. Len(s) \in Nat /\ n \in Int /\ n + 1 \in Int /\ 1 \in Int /\ Len(s) \in Int
  OBVIOUS
<1>2. \A i \in 1 .. n : s[i] \in Sendable
  BY <1>1, ElementOfSeq
<1>3. \A i \in n + 1 .. Len(s) : s[i] \in Sendable
  BY <1>1, ElementOfSeq
<1> QED
  BY <1>1, <1>2, <1>3, SubSeqProperties

LEMMA Hybi00Init ==
    ASSUME Y!Hybi00Assumption, Y!Init
    PROVE  Hybi00Inv
<1>1. stream \in Seq(Sendable)
  BY DEF Y!Hybi00Assumption, Y!Init, Sendable
<1>2. buf \in Seq(Sendable) /\ taken \in Seq(Sendable)
  BY DEF Y!Init
<1>3. Y!MessagesOf(taken) = [whole |-> hybi00_delivered, rest |-> Y!NullMsg]
  BY MessagesEmpty DEF Y!Init, Y!Nothing
<1>4. /\ hybi00_reading \in BOOLEAN /\ closing \in BOOLEAN /\ ~(closing = TRUE)
      /\ hybi00_state = "HEADER" /\ m_msg = Y!NullMsg
  BY DEF Y!Init
<1> QED
  BY <1>1, <1>2, <1>3, <1>4 DEF Hybi00Inv

LEMMA SameMessages == (Y!MessagesOf(taken))' = Y!MessagesOf(taken')
  BY DEF Y!MessagesOf, Y!Nothing, Y!WithByte, Y!NullMsg, Y!msg_ftr

LEMMA Hybi00ReadSome ==
    ASSUME Hybi00Inv, NEW n \in 1 .. Hybi00BufferSize, n <= Len(stream),
           Hybi00BufferSize \in Nat, Y!ReadSome(n)
    PROVE  Hybi00Inv'
<1>1. n \in 0 .. Len(stream) /\ stream \in Seq(Sendable)
  BY DEF Hybi00Inv
<1>2. stream' \in Seq(Sendable) /\ buf' \in Seq(Sendable)
  BY <1>1, PiecesOf DEF Y!ReadSome
<1>3. Y!MessagesOf(taken)' = Y!MessagesOf(taken)
  BY SameMessages DEF Y!ReadSome
<1> QED
  BY <1>2, <1>3 DEF Hybi00Inv, Y!ReadSome

LEMMA Hybi00ConsumeHeader ==
    ASSUME Hybi00Inv, Y!ConsumeHeader
    PROVE  Hybi00Inv'
<1>1. /\ buf \in Seq(Sendable) /\ taken \in Seq(Sendable) /\ buf # <<>>
      /\ Y!MessagesOf(taken) = [whole |-> hybi00_delivered, rest |-> Y!NullMsg]
  BY DEF Hybi00Inv, Y!ConsumeHeader
<1>2. 1 \in 0 .. Len(buf) /\ 1 \in 1 .. Len(buf)
  BY <1>1
<1>3. buf' \in Seq(Sendable)
  BY <1>1, <1>2, PiecesOf DEF Y!ConsumeHeader, Y!Took
<1>4. SubSeq(buf, 1, 1) = <<buf[1]>> /\ buf[1] \in Sendable
  <2>1. SubSeq(buf, 1, 1) = SubSeq(buf, 1, 1 - 1) \o <<buf[1]>>
    BY <1>1, <1>2, SubSeqRecursiveSecond
  <2>2. SubSeq(buf, 1, 1 - 1) = <<>>
    BY SubSeqEmpty
  <2>3. buf[1] \in Sendable
    BY <1>1, <1>2, ElementOfSeq
  <2>4. <<buf[1]>> \in Seq(Sendable)
    BY <2>3
  <2>5. <<>> \o <<buf[1]>> = <<buf[1]>>
    BY <2>4, ConcatEmptySeq
  <2> QED
    BY <2>1, <2>2, <2>3, <2>5
<1>5. taken' = Append(taken, buf[1])
  <2>1. taken' = taken \o <<buf[1]>>
    BY <1>4 DEF Y!ConsumeHeader, Y!Took
  <2> QED
    BY <1>1, <1>4, <2>1, AppendIsConcat
<1>6. taken' \in Seq(Sendable)
  BY <1>1, <1>4, <1>5, AppendProperties
<1>7. Y!MessagesOf(taken') = Y!WithByte([whole |-> hybi00_delivered, rest |-> Y!NullMsg], buf[1])
  BY <1>1, <1>4, <1>5, MessagesAppend
<1>8. Y!MessagesOf(taken)' = [whole |-> hybi00_delivered, rest |-> <<>>]
  BY <1>7, SameMessages DEF Y!WithByte
<1>9. <<>> \in Seq(Sendable)
  OBVIOUS
<1> QED
  BY <1>3, <1>6, <1>8, <1>9 DEF Hybi00Inv, Y!ConsumeHeader

LEMMA Hybi00ConsumeOther ==
    ASSUME Hybi00Inv, Y!ConsumeOther
    PROVE  Hybi00Inv'
<1>1. Y!MessagesOf(taken)' = Y!MessagesOf(taken)
  BY SameMessages DEF Y!ConsumeOther
<1>2. hybi00_reading = FALSE
  BY DEF Y!ConsumeOther, Hybi00Inv
<1>3. Head(buf)' = Head(buf)
  BY DEF Y!ConsumeOther
<1> QED
  BY <1>1, <1>2, <1>3 DEF Hybi00Inv, Y!ConsumeOther

LEMMA Hybi00ConsumePayload ==
    ASSUME Hybi00Inv, Y!ConsumePayload
    PROVE  Hybi00Inv'
<1> DEFINE ends == {i \in DOMAIN buf : buf[i] = Y!msg_ftr}
           l == IF ends = {} THEN Len(buf) ELSE Min(ends) - 1
           n == IF ends = {} THEN l ELSE l + 1
           piece == SubSeq(buf, 1, l)
<1>1. /\ buf \in Seq(Sendable) /\ taken \in Seq(Sendable) /\ buf # <<>>
      /\ m_msg \in Seq(Sendable)
      /\ Y!MessagesOf(taken) = [whole |-> hybi00_delivered, rest |-> m_msg]
  BY DEF Hybi00Inv, Y!ConsumePayload
<1>2. /\ Len(buf) \in Nat /\ DOMAIN buf = 1 .. Len(buf)
  BY <1>1
<1>3. /\ l \in 0 .. Len(buf) /\ n \in 0 .. Len(buf)
      /\ \A i \in 1 .. l : buf[i] # Y!msg_ftr
      /\ ends # {} => l + 1 \in 1 .. Len(buf) /\ buf[l + 1] = Y!msg_ftr
  <2>1. CASE ends = {}
    BY <1>2, <2>1
  <2>2. CASE ends # {}
    <3>1. PICK m \in ends : \A k \in ends : m <= k
      <4>1. ends \subseteq Nat
        BY <1>2
      <4> HIDE DEF ends
      <4> QED
        BY <2>2, <4>1, LeastNumber
    <3>2. Min(ends) = m
      <4>1. \A k \in ends : k \in Int
        BY <1>2
      <4> HIDE DEF ends
      <4> QED
        BY <3>1, <4>1 DEF Min
    <3>3. m \in 1 .. Len(buf) /\ buf[m] = Y!msg_ftr /\ l = m - 1
      BY <1>2, <2>2, <3>1, <3>2
    <3>4. \A i \in 1 .. m - 1 : i \notin ends /\ i \in DOMAIN buf
      BY <1>2, <3>1, <3>3
    <3>5. \A i \in 1 .. m - 1 : buf[i] # Y!msg_ftr
      BY <3>4
    <3>6. n = m
      BY <2>2, <3>3
    <3> HIDE DEF ends, l, n
    <3> QED
      BY <1>2, <3>3, <3>5, <3>6
  <2> QED
    BY <2>1, <2>2
<1>4. /\ m_msg' = m_msg \o piece
      /\ hybi00_state' = IF ends = {} THEN "PAYLOAD" ELSE "READY"
      /\ taken' = taken \o SubSeq(buf, 1, n)
      /\ buf' = SubSeq(buf, n + 1, Len(buf))
      /\ UNCHANGED <<stream, hybi00_reading, hybi00_delivered, closing>>
      /\ closing # TRUE
  BY SameMinY DEF Y!ConsumePayload, Y!Took
<1> HIDE DEF ends, l, n
<1>5. buf' \in Seq(Sendable) /\ SubSeq(buf, 1, n) \in Seq(Sendable) /\ piece \in Seq(Sendable)
  BY <1>1, <1>3, <1>4, PiecesOf
<1>6. taken' \in Seq(Sendable) /\ m_msg' \in Seq(Sendable)
  BY <1>1, <1>4, <1>5, ConcatProperties
<1>7. Y!MessagesOf(taken \o piece) = [whole |-> hybi00_delivered, rest |-> m_msg \o piece]
  <2>1. \A i \in 1 .. l : buf[i] # Y!msg_ftr
    BY <1>3
  <2>2. l \in 0 .. Len(buf)
    BY <1>3
  <2>3. \A t, p, r \in Seq(Sendable) : \A w : \A k \in 0 .. Len(p) :
           /\ Y!MessagesOf(t) = [whole |-> w, rest |-> r]
           /\ \A i \in 1 .. k : p[i] # Y!msg_ftr
           => Y!MessagesOf(t \o SubSeq(p, 1, k)) =
                 [whole |-> w, rest |-> r \o SubSeq(p, 1, k)]
    BY MessagesPiece, ZenonT(60)
  <2>4. \A w : \A k \in 0 .. Len(buf) :
           /\ Y!MessagesOf(taken) = [whole |-> w, rest |-> m_msg]
           /\ \A i \in 1 .. k : buf[i] # Y!msg_ftr
           => Y!MessagesOf(taken \o SubSeq(buf, 1, k)) =
                 [whole |-> w, rest |-> m_msg \o SubSeq(buf, 1, k)]
    BY ONLY <1>1, <2>3
  <2>5. Y!MessagesOf(taken) = [whole |-> hybi00_delivered, rest |-> m_msg]
           => Y!MessagesOf(taken \o SubSeq(buf, 1, l)) =
                 [whole |-> hybi00_delivered, rest |-> m_msg \o SubSeq(buf, 1, l)]
    BY ONLY <2>1, <2>2, <2>4
  <2> QED
    BY ONLY <1>1, <2>5
<1>8. CASE ends = {}
  <2>1. n = l
    BY <1>8 DEF n
  <2>2. Y!MessagesOf(taken)' = [whole |-> hybi00_delivered, rest |-> m_msg']
    BY <1>4, <1>7, <2>1, SameMessages
  <2> QED
    BY <1>4, <1>5, <1>6, <1>8, <2>2 DEF Hybi00Inv
<1>9. CASE ends # {}
  <2> DEFINE b == buf[l + 1]
  <2>1. n = l + 1 /\ (l + 1) - 1 = l
    BY <1>2, <1>3, <1>9 DEF n
  <2>2. SubSeq(buf, 1, n) = piece \o <<b>>
    <3>1. SubSeq(buf, 1, l + 1) = SubSeq(buf, 1, (l + 1) - 1) \o <<buf[l + 1]>>
      <4>1. 1 \in 1 .. Len(buf) /\ l + 1 \in 1 .. Len(buf)
        BY <1>2, <1>3, <1>9
      <4> QED
        BY <1>1, <4>1, SubSeqRecursiveSecond
    <3> QED
      BY <2>1, <3>1
  <2>3. b \in Sendable /\ b = Y!msg_ftr
    BY <1>1, <1>3, <1>9, ElementOfSeq
  <2> HIDE DEF b, piece
  <2>4. <<b>> \in Seq(Sendable)
    BY <2>3
  <2>5. taken \o piece \in Seq(Sendable)
    BY <1>1, <1>5, ConcatProperties
  <2>6. taken' = Append(taken \o piece, b)
    <3>1. taken \o (piece \o <<b>>) = (taken \o piece) \o <<b>>
      BY <1>1, <1>5, <2>4, ConcatAssociative
    <3>2. (taken \o piece) \o <<b>> = Append(taken \o piece, b)
      BY <2>3, <2>5, AppendIsConcat
    <3> QED
      BY <1>4, <2>2, <3>1, <3>2
  <2>7. Y!MessagesOf(taken') = Y!WithByte(Y!MessagesOf(taken \o piece), b)
    BY <2>3, <2>5, <2>6, MessagesAppend
  <2>8. m_msg' # Y!NullMsg
    BY <1>6, PayloadNotNull
  <2>9. Y!MessagesOf(taken)' = [whole |-> Append(hybi00_delivered, m_msg'), rest |-> Y!NullMsg]
    BY <1>4, <1>7, <2>3, <2>7, <2>8, SameMessages DEF Y!WithByte
  <2> QED
    BY <1>4, <1>5, <1>6, <1>9, <2>9 DEF Hybi00Inv
<1> QED
  BY <1>8, <1>9

LEMMA Hybi00Dispatch ==
    ASSUME Hybi00Inv, Y!Dispatch
    PROVE  Hybi00Inv'
<1>1. Y!MessagesOf(taken)' = Y!MessagesOf(taken)
  BY SameMessages DEF Y!Dispatch
<1> QED
  BY <1>1 DEF Hybi00Inv, Y!Dispatch

LEMMA Hybi00ReadFrame ==
    ASSUME Hybi00Inv, Y!ReadFrame
    PROVE  Hybi00Inv'
<1>1. Y!MessagesOf(taken)' = Y!MessagesOf(taken)
  BY SameMessages DEF Y!ReadFrame
<1>2. closing # TRUE
  BY DEF Y!ReadFrame
<1> QED
  BY <1>1, <1>2 DEF Hybi00Inv, Y!ReadFrame

\* The messages that a server of draft 00 gives to its handler are those
\* between the frame bytes that it read, whole and in order, whatever pieces
\* the transport reads them in.
THEOREM Hybi00MessagesAlways == MCSpec => []Hybi00Messages
<1> DEFINE Inv == part = "hybi00" => Hybi00Inv
<1> USE InputsAssumption
<1>1. MCInit => Inv
  BY Hybi00Init DEF MCInit
<1>2. Inv /\ [MCNext]_allVars => Inv'
  <2> SUFFICES ASSUME Inv, [MCNext]_allVars, part' = "hybi00" PROVE Hybi00Inv'
    OBVIOUS
  <2>1. CASE UNCHANGED <<part, hybi00Vars>>
    <3>1. Y!MessagesOf(taken)' = Y!MessagesOf(taken)
      BY <2>1, SameMessages DEF hybi00Vars
    <3>2. Head(buf)' = Head(buf)
      BY <2>1 DEF hybi00Vars
    <3> QED
      BY <2>1, <3>1, <3>2 DEF hybi00Vars, Hybi00Inv
  <2>2. CASE Hybi00Next
    <3>1. Y!Next /\ Hybi00Inv
      BY <2>2 DEF Hybi00Next
    <3>2. Hybi00BufferSize \in Nat
      BY DEF Y!Hybi00Assumption
    <3> QED
      BY <3>1, <3>2, Hybi00ReadSome, Hybi00ConsumeHeader, Hybi00ConsumeOther,
         Hybi00ConsumePayload, Hybi00Dispatch, Hybi00ReadFrame DEF Y!Next
  <2> QED
    BY <2>1, <2>2
    DEF MCNext, allVars, FramesNext, Utf8Next, HttpNext, CompressionNext
<1>3. Inv => Hybi00Messages
  <2> SUFFICES ASSUME Hybi00Inv PROVE Y!MessagesWhole
    BY DEF Hybi00Messages
  <2>1. hybi00_state # "READY" => Y!MessagesOf(taken) = [whole |-> hybi00_delivered, rest |-> m_msg]
    BY DEF Hybi00Inv
  <2>2. closing <=> hybi00_state = "FATAL_ERROR"
    BY DEF Hybi00Inv
  <2>3. hybi00_state = "READY" =>
           Y!MessagesOf(taken) = [whole |-> Append(hybi00_delivered, m_msg),
                                  rest |-> Y!NullMsg]
    BY DEF Hybi00Inv
  <2>4. hybi00_state = "FATAL_ERROR" =>
           m_msg = Y!NullMsg /\ Head(buf) # Y!msg_hdr
    BY DEF Hybi00Inv
  <2> DEFINE m == Y!MessagesOf(taken)
  <2>5. (IF hybi00_state = "READY" THEN Append(hybi00_delivered, m_msg)
         ELSE hybi00_delivered) = m.whole
    <3>1. CASE hybi00_state = "READY"
      BY <2>3, <3>1
    <3>2. CASE hybi00_state # "READY"
      BY <2>1, <3>2
    <3> QED
      BY <3>1, <3>2
  <2>6. hybi00_state # "READY" => m_msg = m.rest
    BY <2>1
  <2>7. closing => m.rest = Y!NullMsg /\ Head(buf) # Y!msg_hdr
    BY <2>1, <2>2, <2>4
  <2> HIDE DEF m
  <2> QED
    BY <2>2, <2>5, <2>6, <2>7 DEF Y!MessagesWhole, m
<1> QED
  BY <1>1, <1>2, <1>3, PTL DEF MCSpec

-----------------------------------------------------------------------------
(***************************************************************************)
(* Compressed messages (Compression).  First what a window says of the     *)
(* bytes before it.                                                        *)
(***************************************************************************)

\* The last Window bytes of s are the last ones of v.
Ends(s, v) ==
    \A i \in 0 .. Window - 1 :
       i < Len(s) => i < Len(v) /\ v[Len(v) - i] = s[Len(s) - i]

LEMMA LastOf ==
    ASSUME NEW s \in Seq(STRING), NEW n \in Nat
    PROVE  /\ Z!Last_(s, n) \in Seq(STRING)
           /\ Len(Z!Last_(s, n)) = IF Len(s) > n THEN n ELSE Len(s)
           /\ \A i \in 0 .. n - 1 :
                 i < Len(s) =>
                    Z!Last_(s, n)[Len(Z!Last_(s, n)) - i] = s[Len(s) - i]
<1> DEFINE l == Len(s)
           a == IF l > n THEN l - n + 1 ELSE 1
           m == IF l > n THEN n ELSE l
           t == SubSeq(s, a, l)
<1>1. l \in Nat /\ a \in 1 .. l + 1 /\ m \in Nat /\ l - a + 1 = m
  OBVIOUS
<1>2. t \in Seq(STRING) /\ Len(t) = m /\ \A i \in 1 .. m : t[i] = s[a + i - 1]
  <2>1. \A i \in a .. l : s[i] \in STRING
    OBVIOUS
  <2>2. a \in Int /\ l \in Int /\ (IF a <= l THEN l - a + 1 ELSE 0) = m
    <3> HIDE DEF a, l, m
    <3> QED
      BY <1>1
  <2> HIDE DEF a, l, m
  <2>3. /\ t \in Seq(STRING) /\ Len(t) = IF a <= l THEN l - a + 1 ELSE 0
        /\ \A i \in 1 .. l - a + 1 : t[i] = s[a + i - 1]
    BY <2>1, <2>2, SubSeqProperties
  <2> QED
    BY <2>2, <2>3, <1>1
<1>3. ASSUME NEW i \in 0 .. n - 1, i < l
      PROVE  t[m - i] = s[l - i]
  <2>1. m - i \in 1 .. m /\ a + (m - i) - 1 = l - i
    BY <1>1, <1>3
  <2> QED
    BY <1>2, <2>1
<1>4. t = Z!Last_(s, n)
  BY DEF Z!Last_
<1> QED
  BY <1>1, <1>2, <1>3, <1>4

LEMMA Associates ==
    \A r \in Seq(STRING), s \in Seq(STRING), t \in Seq(STRING) :
       (r \o s) \o t = r \o (s \o t)
  BY ConcatAssociative

LEMMA EndsAppend ==
    ASSUME NEW s \in Seq(STRING), NEW v \in Seq(STRING), NEW x \in STRING,
           Window \in Nat, Ends(s, v)
    PROVE  Ends(Append(s, x), Append(v, x))
<1> DEFINE S == Append(s, x)
           V1 == Append(v, x)
<1>1. /\ Len(S) = Len(s) + 1 /\ Len(V1) = Len(v) + 1
      /\ S[Len(s) + 1] = x /\ V1[Len(v) + 1] = x
      /\ \A i \in 1 .. Len(s) : S[i] = s[i]
      /\ \A i \in 1 .. Len(v) : V1[i] = v[i]
      /\ Len(s) \in Nat /\ Len(v) \in Nat
  <2>1. /\ Len(Append(s, x)) = Len(s) + 1 /\ Append(s, x)[Len(s) + 1] = x
        /\ \A i \in 1 .. Len(s) : Append(s, x)[i] = s[i]
    BY AppendProperties
  <2>2. /\ Len(Append(v, x)) = Len(v) + 1 /\ Append(v, x)[Len(v) + 1] = x
        /\ \A i \in 1 .. Len(v) : Append(v, x)[i] = v[i]
    BY AppendProperties
  <2>3. Len(s) \in Nat /\ Len(v) \in Nat
    BY LenProperties
  <2> QED
    BY <2>1, <2>2, <2>3
<1> HIDE DEF S, V1
<1>2. ASSUME NEW i \in 0 .. Window - 1, i < Len(S)
      PROVE  i < Len(V1) /\ V1[Len(V1) - i] = S[Len(S) - i]
  <2>1. CASE i = 0
    <3>1. Len(V1) - i = Len(v) + 1 /\ Len(S) - i = Len(s) + 1 /\ i < Len(V1)
      BY <1>1, <2>1
    <3> QED
      BY <1>1, <3>1
  <2>2. CASE i # 0
    <3>1. i - 1 \in 0 .. Window - 1 /\ i - 1 < Len(s)
      BY <1>1, <1>2, <2>2
    <3>2. i - 1 < Len(v) /\ v[Len(v) - (i - 1)] = s[Len(s) - (i - 1)]
      BY <3>1 DEF Ends
    <3>3. /\ Len(V1) - i = Len(v) - (i - 1) /\ Len(v) - (i - 1) \in 1 .. Len(v)
          /\ Len(S) - i = Len(s) - (i - 1) /\ Len(s) - (i - 1) \in 1 .. Len(s)
          /\ i < Len(V1)
      BY <1>1, <1>2, <2>2, <3>1, <3>2
    <3>4. /\ V1[Len(V1) - i] = v[Len(v) - (i - 1)]
          /\ S[Len(S) - i] = s[Len(s) - (i - 1)]
      BY <1>1, <3>3
    <3> QED
      BY <3>2, <3>3, <3>4
  <2> QED
    BY <2>1, <2>2
<1> QED
  BY <1>2 DEF Ends, S, V1

LEMMA EndsLast ==
    ASSUME NEW s \in Seq(STRING), NEW v \in Seq(STRING), Window \in Nat, Ends(s, v)
    PROVE  Ends(s, Z!Last_(v, Window)) /\ Ends(Z!Last_(s, Window), v)
<1> DEFINE lv == Z!Last_(v, Window)
           ls == Z!Last_(s, Window)
<1>1. /\ Len(lv) = IF Len(v) > Window THEN Window ELSE Len(v)
      /\ \A i \in 0 .. Window - 1 : i < Len(v) => lv[Len(lv) - i] = v[Len(v) - i]
      /\ Len(ls) = IF Len(s) > Window THEN Window ELSE Len(s)
      /\ \A i \in 0 .. Window - 1 : i < Len(s) => ls[Len(ls) - i] = s[Len(s) - i]
      /\ Len(s) \in Nat /\ Len(v) \in Nat
  BY LastOf
<1> HIDE DEF lv, ls
<1>2. ASSUME NEW i \in 0 .. Window - 1, i < Len(s)
      PROVE  i < Len(lv) /\ lv[Len(lv) - i] = s[Len(s) - i]
  <2>1. i < Len(v) /\ v[Len(v) - i] = s[Len(s) - i]
    BY <1>2 DEF Ends
  <2>2. i < Len(lv)
    BY <1>1, <2>1
  <2> QED
    BY <1>1, <2>1, <2>2
<1>3. ASSUME NEW i \in 0 .. Window - 1, i < Len(ls)
      PROVE  i < Len(v) /\ v[Len(v) - i] = ls[Len(ls) - i]
  <2>1. i < Len(s)
    BY <1>1, <1>3
  <2>2. i < Len(v) /\ v[Len(v) - i] = s[Len(s) - i]
    BY <2>1 DEF Ends
  <2> QED
    BY <1>1, <2>1, <2>2
<1> QED
  BY <1>2, <1>3 DEF Ends, lv, ls

LEMMA EndsNothing == \A v \in Seq(STRING) : Ends(<<>>, v)
  BY DEF Ends

LEMMA EndsSuffix ==
    ASSUME NEW s \in Seq(STRING), NEW v \in Seq(STRING), Window \in Nat, Ends(s, v)
    PROVE  Z!IsSuffix(Z!Last_(s, Window), v)
<1> DEFINE l == Z!Last_(s, Window)
           n == Len(l)
           rl == Z!Reverse(l)
           rv == Z!Reverse(v)
<1>1. /\ l \in Seq(STRING) /\ n \in Nat /\ Len(s) \in Nat /\ Len(v) \in Nat
      /\ n = IF Len(s) > Window THEN Window ELSE Len(s)
      /\ \A i \in 0 .. Window - 1 : i < Len(s) => l[n - i] = s[Len(s) - i]
  BY LastOf
<1> HIDE DEF l
<1>2. /\ rl = [i \in 1 .. n |-> l[n - i + 1]] /\ rl \in Seq(STRING) /\ Len(rl) = n
      /\ rv = [i \in 1 .. Len(v) |-> v[Len(v) - i + 1]] /\ rv \in Seq(STRING)
      /\ Len(rv) = Len(v)
  <2>1. rl \in Seq(STRING) /\ Len(rl) = n
    <3>1. \A i \in 1 .. n : l[n - i + 1] \in STRING
      <4> TAKE i \in 1 .. n
      <4>1. n - i + 1 \in 1 .. n
        BY <1>1
      <4> QED
        BY <4>1, <1>1
    <3> QED
      BY <3>1, <1>1 DEF Z!Reverse
  <2>2. rv \in Seq(STRING) /\ Len(rv) = Len(v)
    <3>1. \A i \in 1 .. Len(v) : v[Len(v) - i + 1] \in STRING
      <4> TAKE i \in 1 .. Len(v)
      <4>1. Len(v) - i + 1 \in 1 .. Len(v)
        BY <1>1
      <4> QED
        BY <4>1, <1>1
    <3> QED
      BY <3>1, <1>1 DEF Z!Reverse
  <2> QED
    BY <2>1, <2>2 DEF Z!Reverse
<1> HIDE DEF rl, rv
<1>3. n <= Len(v)
  <2>0. n \in Nat /\ Len(v) \in Nat
    BY <1>1
  <2>1. CASE n = 0
    BY <2>0, <2>1
  <2>2. CASE n # 0
    <3>1. n - 1 \in 0 .. Window - 1 /\ n - 1 < Len(s)
      BY <1>1, <2>2
    <3>2. n - 1 < Len(v)
      BY <3>1 DEF Ends
    <3> QED
      BY ONLY <2>0, <3>2
  <2> QED
    BY <2>1, <2>2
<1>4. ASSUME NEW i \in 1 .. n PROVE rl[i] = rv[i]
  <2>1. i - 1 \in 0 .. Window - 1 /\ i - 1 < Len(s) /\ n - i + 1 = n - (i - 1)
        /\ Len(v) - i + 1 = Len(v) - (i - 1) /\ i \in 1 .. Len(v)
    BY <1>1, <1>3
  <2>2. v[Len(v) - (i - 1)] = s[Len(s) - (i - 1)]
    BY <2>1 DEF Ends
  <2>3. l[n - (i - 1)] = s[Len(s) - (i - 1)]
    BY <1>1, <2>1
  <2> QED
    BY <1>2, <2>1, <2>2, <2>3
<1>5. SubSeq(rl, 1, n) = SubSeq(rv, 1, n)
  <2> DEFINE a == SubSeq(rl, 1, n)
             b == SubSeq(rv, 1, n)
  <2>1. 1 \in Int /\ n \in Int /\ n - 1 + 1 = n /\ (IF 1 <= n THEN n - 1 + 1 ELSE 0) = n
        /\ \A i \in 1 .. n : 1 + i - 1 = i
    BY <1>1
  <2>2. (\A i \in 1 .. n : rl[i] \in STRING) /\ (\A i \in 1 .. n : rv[i] \in STRING)
    BY <1>2, <1>3, <1>1, <1>4
  <2>3. a \in Seq(STRING) /\ Len(a) = n /\ \A i \in 1 .. n : a[i] = rl[i]
    BY <2>1, <2>2, SubSeqProperties
  <2>4. b \in Seq(STRING) /\ Len(b) = n /\ \A i \in 1 .. n : b[i] = rv[i]
    BY <2>1, <2>2, SubSeqProperties
  <2> HIDE DEF a, b
  <2>5. a = b
    BY <2>3, <2>4, <1>4
  <2> QED
    BY <2>5 DEF a, b
<1>6. Z!IsPrefix(rl, rv)
  BY <1>2, <1>3, <1>5 DEF Z!IsPrefix
<1> QED
  BY <1>6 DEF Z!IsSuffix, rl, rv, l

-----------------------------------------------------------------------------
(***************************************************************************)
(* What compress makes of a message, byte by byte, and what the stream of  *)
(* the other end is after the first bytes of it.                           *)
(***************************************************************************)
ZByte ==
    ({"data"} \X Seq(STRING) \X STRING)
       \cup {<<"fixed">>, <<"stored">>, <<"00">>, <<"ff">>}

\* The bytes before the first flush marker, the data among the first p bytes,
\* and how much of a marker is missing behind them.
DataBytes(in) == IF in = <<>> THEN 1 ELSE Len(in)
Got(in, p) == IF p <= Len(in) THEN p ELSE Len(in)
Owed(in, p) ==
    LET q == p - DataBytes(in)
    IN IF q <= 0 THEN 0 ELSE IF q <= 5 THEN 5 - q ELSE 10 - q

MarkerByte(q) ==
    IF q \in {1, 6} THEN <<"stored">>
    ELSE IF q \in {2, 3, 7, 8} THEN <<"00">> ELSE <<"ff">>

LEMMA MarkerFacts ==
    /\ Z!FlushMarker \in Seq(ZByte) /\ Len(Z!FlushMarker) = 5
    /\ \A q \in 1 .. 5 : Z!FlushMarker[q] = MarkerByte(q)
    /\ Z!Trailer \in Seq(ZByte) /\ Len(Z!Trailer) = 4
    /\ \A q \in 1 .. 4 : Z!Trailer[q] = MarkerByte(q + 1)
<1> DEFINE m == <<<<"stored">>, <<"00">>, <<"00">>, <<"ff">>, <<"ff">>>>
<1>2. {<<"stored">>, <<"00">>, <<"ff">>} \subseteq ZByte
  BY DEF ZByte
<1>3. m \in Seq(ZByte) /\ Len(m) = 5
  BY <1>2
<1>1. Z!FlushMarker = m
  <2> DEFINE a == <<<<"stored">>>>
             t == <<<<"00">>, <<"00">>, <<"ff">>, <<"ff">>>>
             c == a \o t
  <2>1. a \in Seq(ZByte) /\ t \in Seq(ZByte) /\ Len(a) = 1 /\ Len(t) = 4
    BY <1>2
  <2>2. /\ a[1] = <<"stored">> /\ t[1] = <<"00">> /\ t[2] = <<"00">>
        /\ t[3] = <<"ff">> /\ t[4] = <<"ff">>
        /\ m[1] = <<"stored">> /\ m[2] = <<"00">> /\ m[3] = <<"00">>
        /\ m[4] = <<"ff">> /\ m[5] = <<"ff">>
    OBVIOUS
  <2>3. c = Z!FlushMarker
    BY DEF Z!FlushMarker, Z!Trailer
  <2> HIDE DEF a, t, m
  <2>4. c \in Seq(ZByte) /\ Len(c) = Len(a) + Len(t)
        /\ \A i \in 1 .. Len(a) + Len(t) : c[i] = IF i <= Len(a) THEN a[i] ELSE t[i - Len(a)]
    BY <2>1, ConcatProperties
  <2> HIDE DEF c
  <2>5. c[1] = m[1] /\ c[2] = m[2] /\ c[3] = m[3] /\ c[4] = m[4] /\ c[5] = m[5]
    <3>1. \A i \in 1 .. 5 : c[i] = IF i <= 1 THEN a[i] ELSE t[i - 1]
      BY <2>1, <2>4
    <3>2. c[1] = a[1] /\ c[2] = t[1] /\ c[3] = t[2] /\ c[4] = t[3] /\ c[5] = t[4]
      BY <3>1
    <3> QED
      BY <3>2, <2>2
  <2>6. Len(c) = 5
    BY <2>1, <2>4
  <2>7. \A i \in 1 .. 5 : c[i] = m[i]
    BY <2>5
  <2>8. c = m
    BY <1>3, <2>4, <2>6, <2>7, SeqEqual
  <2> QED
    BY <2>3, <2>8
<1>4. Z!Trailer \in Seq(ZByte) /\ Len(Z!Trailer) = 4
  BY <1>2 DEF Z!Trailer
<1>5. \A q \in 1 .. 5 : m[q] = MarkerByte(q)
  <2>1. \A q \in 1 .. 5 : q = 1 \/ q = 2 \/ q = 3 \/ q = 4 \/ q = 5
    OBVIOUS
  <2>2. m[1] = <<"stored">> /\ m[2] = <<"00">> /\ m[3] = <<"00">> /\ m[4] = <<"ff">>
        /\ m[5] = <<"ff">>
    OBVIOUS
  <2> HIDE DEF m
  <2> QED
    BY <2>1, <2>2 DEF MarkerByte
<1>6. \A q \in 1 .. 4 : Z!Trailer[q] = MarkerByte(q + 1)
  <2>1. \A q \in 1 .. 4 : q = 1 \/ q = 2 \/ q = 3 \/ q = 4
    OBVIOUS
  <2>2. Z!Trailer[1] = <<"00">> /\ Z!Trailer[2] = <<"00">> /\ Z!Trailer[3] = <<"ff">>
        /\ Z!Trailer[4] = <<"ff">>
    BY DEF Z!Trailer
  <2>3. MarkerByte(1 + 1) = <<"00">> /\ MarkerByte(2 + 1) = <<"00">>
        /\ MarkerByte(3 + 1) = <<"ff">> /\ MarkerByte(4 + 1) = <<"ff">>
    BY DEF MarkerByte
  <2> QED
    BY <2>1, <2>2, <2>3
<1> QED
  BY <1>1, <1>3, <1>4, <1>5, <1>6

LEMMA ConcatMarker ==
    \A b \in Seq(ZByte) :
       /\ b \o Z!FlushMarker \in Seq(ZByte)
       /\ Len(b \o Z!FlushMarker) = Len(b) + 5 /\ Len(b) \in Nat
       /\ \A i \in 1 .. Len(b) : (b \o Z!FlushMarker)[i] = b[i]
       /\ \A q \in 1 .. 5 : (b \o Z!FlushMarker)[Len(b) + q] = MarkerByte(q)
<1> DEFINE f == Z!FlushMarker
<1>1. f \in Seq(ZByte) /\ Len(f) = 5 /\ \A q \in 1 .. 5 : f[q] = MarkerByte(q)
  BY MarkerFacts
<1> HIDE DEF f
<1> SUFFICES ASSUME NEW b \in Seq(ZByte)
             PROVE  /\ b \o f \in Seq(ZByte)
                    /\ Len(b \o f) = Len(b) + 5 /\ Len(b) \in Nat
                    /\ \A i \in 1 .. Len(b) : (b \o f)[i] = b[i]
                    /\ \A q \in 1 .. 5 : (b \o f)[Len(b) + q] = MarkerByte(q)
  BY DEF f
<1> DEFINE c == b \o f
           l == Len(b)
<1>2. c \in Seq(ZByte) /\ Len(c) = l + Len(f)
      /\ \A i \in 1 .. l + Len(f) : c[i] = IF i <= l THEN b[i] ELSE f[i - l]
  BY <1>1, ConcatProperties
<1>3. l \in Nat
  OBVIOUS
<1> HIDE DEF c, l
<1>4. \A i \in 1 .. l : c[i] = b[i]
  <2> TAKE i \in 1 .. l
  <2>1. i \in 1 .. l + Len(f) /\ i <= l
    BY <1>1, <1>3
  <2> QED
    BY <1>2, <2>1
<1>5. \A q \in 1 .. 5 : c[l + q] = MarkerByte(q)
  <2> TAKE q \in 1 .. 5
  <2>1. l + q \in 1 .. l + Len(f) /\ ~(l + q <= l) /\ (l + q) - l = q
    BY <1>1, <1>3
  <2> QED
    BY <1>1, <1>2, <2>1
<1>6. Len(c) = l + 5
  BY <1>1, <1>2
<1> QED
  BY <1>2, <1>3, <1>4, <1>5, <1>6 DEF c, l

\* d with the marker behind it, and with two of them.
LEMMA Marked ==
    ASSUME NEW d \in Seq(ZByte), NEW all,
           \/ all = d \o Z!FlushMarker
           \/ all = (d \o Z!FlushMarker) \o Z!FlushMarker
    PROVE  /\ all \in Seq(ZByte)
           /\ Len(all) = Len(d) + 5 \/ Len(all) = Len(d) + 10
           /\ \A i \in 1 .. Len(d) : all[i] = d[i]
           /\ \A q \in 1 .. Len(all) - Len(d) : all[Len(d) + q] = MarkerByte(q)
<1> DEFINE l == Len(d)
           b == d \o Z!FlushMarker
           c == b \o Z!FlushMarker
<1>1. /\ b \in Seq(ZByte) /\ Len(b) = l + 5 /\ l \in Nat
      /\ \A i \in 1 .. l : b[i] = d[i]
      /\ \A q \in 1 .. 5 : b[l + q] = MarkerByte(q)
  BY ConcatMarker
<1> HIDE DEF b
<1>2. /\ c \in Seq(ZByte) /\ Len(c) = Len(b) + 5
      /\ \A i \in 1 .. Len(b) : c[i] = b[i]
      /\ \A q \in 1 .. 5 : c[Len(b) + q] = MarkerByte(q)
  BY <1>1, ConcatMarker
<1> HIDE DEF c, l
<1>3. \A q \in 1 .. 10 : c[l + q] = MarkerByte(q)
  <2> TAKE q \in 1 .. 10
  <2>1. CASE q \in 1 .. 5
    <3>0. l \in Nat /\ Len(b) = l + 5
      BY <1>1
    <3>1. l + q \in 1 .. Len(b)
      BY ONLY <3>0, <2>1
    <3> QED
      BY <1>1, <1>2, <2>1, <3>1
  <2>2. CASE q \in 6 .. 10
    <3>1. Len(b) + (q - 5) = l + q /\ q - 5 \in 1 .. 5
      BY <2>2, <1>1
    <3>2. c[l + q] = MarkerByte(q - 5)
      BY <1>2, <3>1
    <3>3. MarkerByte(q - 5) = MarkerByte(q)
      BY <2>2 DEF MarkerByte
    <3> QED
      BY <3>2, <3>3
  <2> QED
    BY <2>1, <2>2
<1>4. \A i \in 1 .. l : c[i] = d[i]
  <2> TAKE i \in 1 .. l
  <2>1. i \in 1 .. Len(b)
    BY <1>1
  <2> QED
    BY <1>1, <1>2, <2>1
<1>5. Len(c) = l + 10
  BY <1>1, <1>2
<1>6. CASE all = c
  <2>1. Len(all) - l = 10
    BY <1>1, <1>5, <1>6
  <2> QED
    BY <1>2, <1>3, <1>4, <1>5, <1>6, <2>1 DEF l
<1>7. CASE all = b
  <2>1. Len(all) - l = 5
    BY <1>1, <1>7
  <2> QED
    BY <1>1, <1>7, <2>1 DEF l
<1> QED
  BY <1>6, <1>7 DEF b, c

\* F is what a message becomes: its data, each byte with the window before it,
\* or the fixed block of an empty one, and one marker or two.
Carries(F, w, in) ==
    /\ F \in Seq(ZByte)
    /\ Len(F) = DataBytes(in) + 5 \/ Len(F) = DataBytes(in) + 10
    /\ \A p \in 1 .. Len(in) :
          F[p] = <<"data", Z!Last_(w \o SubSeq(in, 1, p - 1), Window), in[p]>>
    /\ in = <<>> => F[1] = <<"fixed">>
    /\ \A q \in 1 .. Len(F) - DataBytes(in) : F[DataBytes(in) + q] = MarkerByte(q)

LEMMA StreamOf ==
    ASSUME NEW w \in Seq(STRING), NEW in \in Seq(STRING), Window \in Nat
    PROVE  Carries(Z!compress(w, in).out, w, in)
<1> USE DEF Carries
<1> DEFINE F == Z!compress(w, in).out
<1>1. CASE in = <<>>
  <2> DEFINE d == <<<<"fixed">>>>
  <2>1. F = d \o Z!FlushMarker
    BY <1>1 DEF Z!compress
  <2>2. <<"fixed">> \in ZByte
    BY DEF ZByte
  <2>3. d \in Seq(ZByte) /\ Len(d) = 1 /\ d[1] = <<"fixed">>
    BY <2>2
  <2>4. DataBytes(in) = 1 /\ Len(in) = 0
    BY <1>1 DEF DataBytes
  <2> HIDE DEF d, F
  <2>5. /\ F \in Seq(ZByte)
        /\ Len(F) = 1 + 5 \/ Len(F) = 1 + 10
        /\ \A i \in 1 .. 1 : F[i] = d[i]
        /\ \A q \in 1 .. Len(F) - 1 : F[1 + q] = MarkerByte(q)
    <3>1. F = d \o Z!FlushMarker \/ F = (d \o Z!FlushMarker) \o Z!FlushMarker
      BY <2>1
    <3>2. /\ F \in Seq(ZByte)
          /\ Len(F) = Len(d) + 5 \/ Len(F) = Len(d) + 10
          /\ \A i \in 1 .. Len(d) : F[i] = d[i]
          /\ \A q \in 1 .. Len(F) - Len(d) : F[Len(d) + q] = MarkerByte(q)
      BY <3>1, <2>3, Marked
    <3> QED
      BY <3>2, <2>3
  <2>6. F[1] = <<"fixed">>
    BY <2>3, <2>5
  <2> QED
    BY <2>4, <2>5, <2>6 DEF F
<1>2. CASE in # <<>>
  <2> DEFINE d == Z!Deflated(w, in)
             m == Z!FlushMarker
             B(p) == <<"data", Z!Last_(w \o SubSeq(in, 1, p - 1), Window), in[p]>>
  <2>1. F = d \o m \/ F = (d \o m) \o m
    BY <1>2 DEF Z!compress
  <2>2. DOMAIN in = 1 .. Len(in) /\ Len(in) \in Nat
    OBVIOUS
  <2>3. d = [p \in 1 .. Len(in) |-> B(p)]
    BY <2>2 DEF Z!Deflated
  <2>4. \A p \in 1 .. Len(in) : B(p) \in ZByte
    <3> TAKE p \in 1 .. Len(in)
    <3>1. in[p] \in STRING /\ SubSeq(in, 1, p - 1) \in Seq(STRING)
      <4>1. \A i \in 1 .. p - 1 : in[i] \in STRING
        BY <2>2
      <4>2. p - 1 \in Int
        OBVIOUS
      <4> QED
        BY <4>1, <4>2, SubSeqProperties
    <3>2. w \o SubSeq(in, 1, p - 1) \in Seq(STRING)
      BY <3>1, ConcatProperties
    <3>3. Z!Last_(w \o SubSeq(in, 1, p - 1), Window) \in Seq(STRING)
      BY <3>2, LastOf
    <3>4. \A v \in Seq(STRING), x \in STRING : <<"data", v, x>> \in ZByte
      BY DEF ZByte
    <3> QED
      BY <3>1, <3>3, <3>4
  <2> HIDE DEF B
  <2>5. d \in Seq(ZByte) /\ Len(d) = Len(in) /\ \A p \in 1 .. Len(in) : d[p] = B(p)
    BY <2>2, <2>3, <2>4
  <2>6. DataBytes(in) = Len(in)
    BY <1>2 DEF DataBytes
  <2> HIDE DEF d, F, m
  <2>7. /\ F \in Seq(ZByte)
        /\ Len(F) = Len(d) + 5 \/ Len(F) = Len(d) + 10
        /\ \A i \in 1 .. Len(d) : F[i] = d[i]
        /\ \A q \in 1 .. Len(F) - Len(d) : F[Len(d) + q] = MarkerByte(q)
    BY <2>1, <2>5, Marked DEF m
  <2>8. \A p \in 1 .. Len(in) : F[p] = B(p)
    BY <2>5, <2>7
  <2> QED
    BY <1>2, <2>5, <2>6, <2>7, <2>8 DEF F, B
<1> QED
  BY <1>1, <1>2

\* The window that a message leaves.
Leaves(v, w, in) ==
    /\ v \in Seq(STRING)
    /\ v = <<>> \/ v = Z!Last_(w \o in, Window) \/ (in = <<>> /\ v = w)

LEMMA WindowOf ==
    ASSUME NEW w \in Seq(STRING), NEW in \in Seq(STRING), Window \in Nat
    PROVE  Leaves(Z!compress(w, in).window, w, in)
<1> USE DEF Leaves
<1>1. w \o in \in Seq(STRING)
  BY ConcatProperties
<1>2. Z!Last_(w \o in, Window) \in Seq(STRING)
  BY <1>1, LastOf
<1>3. CASE in = <<>>
  <2>1. Z!compress(w, in).window = w
    BY <1>3 DEF Z!compress
  <2> QED
    BY <1>3, <2>1
<1>4. CASE in # <<>>
  <2> DEFINE v == Z!compress(w, in).window
  <2>1. v = IF m_flush = "Z_FULL_FLUSH" THEN <<>> ELSE Z!Last_(w \o in, Window)
    BY <1>4 DEF Z!compress
  <2>2. <<>> \in Seq(STRING)
    OBVIOUS
  <2> HIDE DEF v
  <2>3. v = <<>> \/ v = Z!Last_(w \o in, Window)
    BY <2>1
  <2>4. v \in Seq(STRING)
    BY <1>2, <2>2, <2>3
  <2> QED
    BY <2>3, <2>4 DEF v
<1> QED
  BY <1>3, <1>4

\* The window after one more byte of the message.
LEMMA OneMore ==
    ASSUME NEW w \in Seq(STRING), NEW in \in Seq(STRING),
           NEW p \in Nat, p + 1 <= Len(in)
    PROVE  /\ SubSeq(in, 1, p) \in Seq(STRING) /\ in[p + 1] \in STRING
           /\ w \o SubSeq(in, 1, p) \in Seq(STRING)
           /\ w \o SubSeq(in, 1, p + 1) = Append(w \o SubSeq(in, 1, p), in[p + 1])
<1> DEFINE s == SubSeq(in, 1, p)
           t == SubSeq(in, 1, p + 1)
           x == in[p + 1]
<1>1. \A i \in 1 .. p + 1 : in[i] \in STRING
  OBVIOUS
<1>2. s \in Seq(STRING) /\ x \in STRING
  <2>1. \A i \in 1 .. p : in[i] \in STRING
    BY <1>1
  <2> QED
    BY <1>1, <2>1, SubSeqProperties
<1>3. t = s \o <<x>>
  <2>1. 1 \in 1 .. Len(in) /\ p + 1 \in 1 .. Len(in) /\ (p + 1) - 1 = p
    OBVIOUS
  <2> QED
    BY <2>1, SubSeqRecursiveSecond
<1> HIDE DEF s, t, x
<1>4. w \o s \in Seq(STRING) /\ <<x>> \in Seq(STRING)
  <2>1. <<x>> \in Seq(STRING)
    <3>1. \A S, y : y \in S => <<y>> \in Seq(S)
      OBVIOUS
    <3> QED
      BY ONLY <3>1, <1>2, Zenon
  <2>2. w \o s \in Seq(STRING)
    BY <1>2, ConcatProperties
  <2> QED
    BY <2>1, <2>2
<1>5. (w \o s) \o <<x>> = w \o (s \o <<x>>)
  <2>1. w \in Seq(STRING)
    OBVIOUS
  <2> QED
    BY ONLY <1>2, <1>4, <2>1, Associates, ZenonT(60)
<1>6. Append(w \o s, x) = (w \o s) \o <<x>>
  BY <1>2, <1>4, AppendIsConcat
<1> QED
  BY <1>2, <1>3, <1>4, <1>5, <1>6 DEF s, t, x

ZStates == [window : Seq(STRING), owed : 0 .. 4, out : Seq(STRING), bad : {FALSE}]

\* The stream of the other end, with window v and owed bytes of a marker to
\* come, after p bytes of what the message in was compressed to after w.
Inflating(w, in, p, owed, v) ==
    owed = Owed(in, p) /\ Ends(w \o SubSeq(in, 1, Got(in, p)), v)

\* inflate takes each byte where it belongs.
LEMMA InflateCases ==
    ASSUME NEW z \in ZStates
    PROVE  /\ z.owed = 0 =>
                /\ Z!InflateByte(z, <<"stored">>) = [z EXCEPT !.owed = 4]
                /\ Z!InflateByte(z, <<"fixed">>) = z
                /\ \A v \in Seq(STRING), x \in STRING :
                      Z!IsSuffix(v, z.window) =>
                         Z!InflateByte(z, <<"data", v, x>>)
                            = [z EXCEPT !.window = Append(@, x), !.out = Append(@, x)]
           /\ z.owed > 0 =>
                Z!InflateByte(z, Z!Trailer[5 - z.owed]) = [z EXCEPT !.owed = @ - 1]
<1>1. ASSUME z.owed = 0
      PROVE  Z!InflateByte(z, <<"stored">>) = [z EXCEPT !.owed = 4]
  <2> DEFINE b == <<"stored">>
  <2>1. b[1] = "stored"
    OBVIOUS
  <2> HIDE DEF b
  <2>2. Z!InflateByte(z, b) = [z EXCEPT !.owed = 4]
    BY <1>1, <2>1 DEF Z!InflateByte
  <2> QED
    BY <2>2 DEF b
<1>2. ASSUME z.owed = 0
      PROVE  Z!InflateByte(z, <<"fixed">>) = z
  <2> DEFINE b == <<"fixed">>
  <2>1. b[1] = "fixed"
    OBVIOUS
  <2> HIDE DEF b
  <2>2. Z!InflateByte(z, b) = z
    BY <1>2, <2>1 DEF Z!InflateByte
  <2> QED
    BY <2>2 DEF b
<1>3. ASSUME z.owed = 0, NEW v \in Seq(STRING), NEW x \in STRING, Z!IsSuffix(v, z.window)
      PROVE  Z!InflateByte(z, <<"data", v, x>>)
                = [z EXCEPT !.window = Append(@, x), !.out = Append(@, x)]
  <2> DEFINE b == <<"data", v, x>>
  <2>1. b[1] = "data" /\ b[2] = v /\ b[3] = x
    OBVIOUS
  <2> HIDE DEF b
  <2>2. Z!InflateByte(z, b) = [z EXCEPT !.window = Append(@, x), !.out = Append(@, x)]
    <3>1. /\ z.owed = 0 /\ ~(z.owed > 0)
          /\ b[1] = "data" /\ b[1] # "stored" /\ b[1] # "fixed"
          /\ Z!IsSuffix(b[2], z.window)
      BY <1>3, <2>1
    <3>2. \A u : u = [z EXCEPT !.window = Append(@, b[3]), !.out = Append(@, b[3])]
                 => Z!InflateByte(z, b) = u
      BY <3>1 DEF Z!InflateByte
    <3> QED
      BY <3>2, <2>1
  <2> QED
    BY <2>2 DEF b
<1>4. ASSUME z.owed > 0
      PROVE  Z!InflateByte(z, Z!Trailer[5 - z.owed]) = [z EXCEPT !.owed = @ - 1]
  <2> DEFINE b == Z!Trailer[5 - z.owed]
  <2>1. b = Z!Trailer[5 - z.owed]
    OBVIOUS
  <2> HIDE DEF b
  <2>2. z.owed # 0
    BY <1>4 DEF ZStates
  <2>3. Z!InflateByte(z, b) = [z EXCEPT !.owed = @ - 1]
    BY <1>4, <2>1, <2>2 DEF Z!InflateByte
  <2> QED
    BY <2>1, <2>3
<1> QED
  BY <1>1, <1>2, <1>3, <1>4

LEMMA OwedNext ==
    ASSUME NEW in \in Seq(STRING), NEW p \in Nat, NEW L \in Nat, p < L,
           L = DataBytes(in) + 5 \/ L = DataBytes(in) + 10
    PROVE  LET q == p + 1 - DataBytes(in)
           IN  /\ DataBytes(in) \in Nat /\ Len(in) \in Nat /\ Len(in) <= DataBytes(in)
               /\ Owed(in, p) \in 0 .. 4 /\ Owed(in, p + 1) \in 0 .. 4
               /\ p < DataBytes(in) => Owed(in, p) = 0 /\ Owed(in, p + 1) = 0
               /\ p >= DataBytes(in) => q \in 1 .. L - DataBytes(in) /\ DataBytes(in) + q = p + 1
               /\ p >= DataBytes(in) /\ Owed(in, p) = 0 =>
                     MarkerByte(q) = <<"stored">> /\ Owed(in, p + 1) = 4
               /\ p >= DataBytes(in) /\ Owed(in, p) # 0 =>
                     /\ MarkerByte(q) = Z!Trailer[5 - Owed(in, p)]
                     /\ Owed(in, p + 1) = Owed(in, p) - 1
<1> DEFINE b == DataBytes(in)
           q == p + 1 - b
           o == Owed(in, p)
<1>1. b \in Nat /\ Len(in) \in Nat /\ Len(in) <= b
  BY DEF DataBytes
<1>2. L = b + 5 \/ L = b + 10
  OBVIOUS
<1>3. \A k \in Nat : Owed(in, k) = IF k - b <= 0 THEN 0
                                 ELSE IF k - b <= 5 THEN 5 - (k - b)
                                 ELSE 10 - (k - b)
  BY DEF Owed, b
<1> DEFINE o1 == Owed(in, p + 1)
<1> HIDE DEF b
<1>7. /\ o = IF p - b <= 0 THEN 0 ELSE IF p - b <= 5 THEN 5 - (p - b) ELSE 10 - (p - b)
      /\ o1 = IF q <= 0 THEN 0 ELSE IF q <= 5 THEN 5 - q ELSE 10 - q
  BY <1>1, <1>3
<1> HIDE DEF o, o1
<1>4. o \in 0 .. 4 /\ o1 \in 0 .. 4 /\ (p < b => o = 0 /\ o1 = 0)
      /\ (p >= b => q \in 1 .. L - b /\ b + q = p + 1 /\ q \in 1 .. 10)
  BY <1>1, <1>2, <1>7
<1>5. ASSUME p >= b, o = 0
      PROVE  MarkerByte(q) = <<"stored">> /\ o1 = 4
  <2>1. q \in {1, 6} /\ o1 = 4
    BY <1>1, <1>2, <1>7, <1>5
  <2> HIDE DEF q
  <2> QED
    BY <2>1 DEF MarkerByte
<1>6. ASSUME p >= b, o # 0
      PROVE  MarkerByte(q) = Z!Trailer[5 - o] /\ o1 = o - 1
  <2>1. /\ o1 = o - 1 /\ 5 - o \in 1 .. 4
        /\ q = (5 - o) + 1 \/ q = (5 - o) + 6
    BY <1>1, <1>2, <1>7, <1>6
  <2>2. Z!Trailer[5 - o] = MarkerByte((5 - o) + 1)
    BY <2>1, MarkerFacts
  <2>3. \A i \in 1 .. 4 : MarkerByte(i + 1) = MarkerByte(i + 6)
    BY DEF MarkerByte
  <2> QED
    BY <2>1, <2>2, <2>3
<1> QED
  BY <1>1, <1>4, <1>5, <1>6 DEF b, o, o1

LEMMA Owes ==
    ASSUME NEW z \in ZStates
    PROVE  \A i \in 0 .. 4 : /\ [z EXCEPT !.owed = i] \in ZStates
                             /\ [z EXCEPT !.owed = i].window = z.window
                             /\ [z EXCEPT !.owed = i].out = z.out
                             /\ [z EXCEPT !.owed = i].owed = i
  BY DEF ZStates

LEMMA InflateStep ==
    ASSUME NEW w \in Seq(STRING), NEW in \in Seq(STRING), Window \in Nat,
           NEW F, Carries(F, w, in)
    PROVE  \A p \in Nat, z \in ZStates :
              p < Len(F) /\ Inflating(w, in, p, z.owed, z.window) =>
                 LET y == Z!InflateByte(z, F[p + 1])
                 IN  /\ y \in ZStates
                     /\ Inflating(w, in, p + 1, y.owed, y.window)
                     /\ y.out = IF p + 1 <= Len(in) THEN Append(z.out, in[p + 1])
                                ELSE z.out
<1> SUFFICES
      ASSUME NEW p \in Nat, p < Len(F),
             NEW z \in ZStates, Inflating(w, in, p, z.owed, z.window)
      PROVE  LET y == Z!InflateByte(z, F[p + 1])
             IN  /\ y \in ZStates
                 /\ Inflating(w, in, p + 1, y.owed, y.window)
                 /\ y.out = IF p + 1 <= Len(in) THEN Append(z.out, in[p + 1]) ELSE z.out
  OBVIOUS
<1> DEFINE b == DataBytes(in)
           q == p + 1 - b
           y == Z!InflateByte(z, F[p + 1])
<1>1. /\ F \in Seq(ZByte)
      /\ Len(F) = b + 5 \/ Len(F) = b + 10
      /\ \A i \in 1 .. Len(in) :
            F[i] = <<"data", Z!Last_(w \o SubSeq(in, 1, i - 1), Window), in[i]>>
      /\ in = <<>> => F[1] = <<"fixed">>
      /\ \A i \in 1 .. Len(F) - b : F[b + i] = MarkerByte(i)
  BY DEF Carries
<1>2. /\ b \in Nat /\ Len(in) \in Nat /\ Len(in) <= b /\ Len(F) \in Nat
      /\ Owed(in, p) \in 0 .. 4 /\ Owed(in, p + 1) \in 0 .. 4
      /\ p < b => Owed(in, p) = 0 /\ Owed(in, p + 1) = 0
      /\ p >= b => q \in 1 .. Len(F) - b /\ b + q = p + 1
      /\ p >= b /\ Owed(in, p) = 0 =>
            MarkerByte(q) = <<"stored">> /\ Owed(in, p + 1) = 4
      /\ p >= b /\ Owed(in, p) # 0 =>
            /\ MarkerByte(q) = Z!Trailer[5 - Owed(in, p)]
            /\ Owed(in, p + 1) = Owed(in, p) - 1
  <2>1. Len(F) \in Nat
    BY <1>1
  <2> QED
    BY <1>1, <2>1, OwedNext
<1>3. /\ z.owed = Owed(in, p)
      /\ Ends(w \o SubSeq(in, 1, Got(in, p)), z.window)
      /\ z.window \in Seq(STRING) /\ z.out \in Seq(STRING) /\ z.owed \in 0 .. 4
  BY DEF Inflating, ZStates
<1> HIDE DEF b, q
<1>4. CASE p < Len(in)
  <2> DEFINE s == w \o SubSeq(in, 1, p)
             x == in[p + 1]
             v == Z!Last_(s, Window)
  <2>1. p + 1 \in 1 .. Len(in) /\ p + 1 - 1 = p /\ p < b /\ p + 1 <= Len(in)
    BY <1>2, <1>4
  <2>2. F[p + 1] = <<"data", v, x>>
    BY <1>1, <2>1
  <2>3. /\ s \in Seq(STRING) /\ x \in STRING
        /\ w \o SubSeq(in, 1, p + 1) = Append(s, x)
    BY <2>1, OneMore
  <2>4. Got(in, p) = p /\ Got(in, p + 1) = p + 1
    BY <1>4, <2>1 DEF Got
  <2> HIDE DEF s, x, v
  <2>5. Ends(s, z.window)
    BY <1>3, <2>4 DEF s
  <2>6. v \in Seq(STRING) /\ Z!IsSuffix(v, z.window)
    BY <1>3, <2>3, <2>5, LastOf, EndsSuffix DEF v
  <2>7. z.owed = 0 /\ Owed(in, p + 1) = 0
    BY <1>2, <1>3, <2>1
  <2>8. Z!InflateByte(z, <<"data", v, x>>)
           = [z EXCEPT !.window = Append(@, x), !.out = Append(@, x)]
    <3>1. \A v1 \in Seq(STRING), x1 \in STRING :
             Z!IsSuffix(v1, z.window) =>
                Z!InflateByte(z, <<"data", v1, x1>>)
                   = [z EXCEPT !.window = Append(@, x1), !.out = Append(@, x1)]
      BY <2>7, InflateCases
    <3> QED
      BY ONLY <3>1, <2>3, <2>6, Zenon
  <2>9. y = [z EXCEPT !.window = Append(@, x), !.out = Append(@, x)]
    BY <2>2, <2>8
  <2> HIDE DEF y
  <2>10. Append(z.window, x) \in Seq(STRING) /\ Append(z.out, x) \in Seq(STRING)
    BY <1>3, <2>3, AppendProperties
  <2>11. /\ y \in ZStates /\ y.window = Append(z.window, x)
         /\ y.out = Append(z.out, x) /\ y.owed = 0
    BY <2>7, <2>9, <2>10 DEF ZStates
  <2>12. Ends(Append(s, x), Append(z.window, x))
    BY <1>3, <2>3, <2>5, EndsAppend
  <2>13. Inflating(w, in, p + 1, y.owed, y.window)
    BY <2>3, <2>4, <2>7, <2>11, <2>12 DEF Inflating
  <2> QED
    BY <2>1, <2>11, <2>13 DEF x, y
<1>5. ASSUME ~(p < Len(in)) PROVE /\ Got(in, p) = Len(in) /\ Got(in, p + 1) = Len(in)
                                  /\ ~(p + 1 <= Len(in))
  BY <1>2, <1>5 DEF Got
<1>6. CASE ~(p < Len(in)) /\ p < b
  <2>1. in = <<>> /\ p = 0
    BY <1>2, <1>6 DEF DataBytes, b
  <2>2. F[p + 1] = <<"fixed">> /\ z.owed = 0 /\ Owed(in, p + 1) = 0
    BY <1>1, <1>2, <1>3, <1>6, <2>1
  <2>3. y = z
    BY <2>2, InflateCases
  <2> HIDE DEF y
  <2>4. Inflating(w, in, p + 1, y.owed, y.window)
    BY <1>3, <1>5, <1>6, <2>2, <2>3 DEF Inflating
  <2> QED
    BY <1>5, <1>6, <2>3, <2>4 DEF y
<1>7. CASE ~(p < Len(in)) /\ p >= b
  <2>1. F[p + 1] = MarkerByte(q)
    BY <1>1, <1>2, <1>7
  <2>2. /\ y \in ZStates /\ y.window = z.window /\ y.out = z.out
        /\ y.owed = Owed(in, p + 1)
    <3>1. CASE z.owed = 0
      <4>1. F[p + 1] = <<"stored">> /\ Owed(in, p + 1) = 4
        BY <1>2, <1>3, <1>7, <2>1, <3>1
      <4>2. y = [z EXCEPT !.owed = 4]
        BY <3>1, <4>1, InflateCases
      <4> HIDE DEF y
      <4> DEFINE o == 4
      <4>3. y = [z EXCEPT !.owed = o] /\ o \in 0 .. 4 /\ Owed(in, p + 1) = o
        BY <4>1, <4>2
      <4> HIDE DEF o
      <4> QED
        BY ONLY <4>3, Owes, z \in ZStates
    <3>2. CASE z.owed # 0
      <4>1. F[p + 1] = Z!Trailer[5 - z.owed] /\ Owed(in, p + 1) = z.owed - 1
        BY <1>2, <1>3, <1>7, <2>1, <3>2
      <4>2. z.owed > 0 /\ z.owed - 1 \in 0 .. 4
        BY <1>3, <3>2
      <4>3. y = [z EXCEPT !.owed = @ - 1]
        BY <4>1, <4>2, InflateCases
      <4> HIDE DEF y
      <4> DEFINE o == z.owed - 1
      <4>4. y = [z EXCEPT !.owed = o]
        BY <4>3
      <4>5. o \in 0 .. 4 /\ Owed(in, p + 1) = o
        BY <4>1, <4>2
      <4> HIDE DEF o
      <4> QED
        BY ONLY <4>4, <4>5, Owes, z \in ZStates
    <3> QED
      BY <3>1, <3>2
  <2> HIDE DEF y
  <2>3. Inflating(w, in, p + 1, y.owed, y.window)
    BY <1>3, <1>5, <1>7, <2>2 DEF Inflating
  <2> QED
    BY <1>5, <1>7, <2>2, <2>3 DEF y
<1>8. p < b \/ p >= b
  BY <1>2
<1> QED
  BY <1>4, <1>6, <1>7, <1>8

\* The states that decompress goes through.
Inflates(f, bytes, N) ==
    f = [n \in 0 .. N |->
           IF n = 0 THEN [window |-> m_istate.window, owed |-> m_istate.owed,
                          out |-> <<>>, bad |-> FALSE]
           ELSE Z!InflateByte(f[n - 1], bytes[n])]

LEMMA InflatesExist ==
    ASSUME NEW bytes, NEW N \in Nat
    PROVE  \E f : Inflates(f, bytes, N)
<1> DEFINE X == {M \in Nat : \E f : Inflates(f, bytes, M)}
           z0 == [window |-> m_istate.window, owed |-> m_istate.owed,
                  out |-> <<>>, bad |-> FALSE]
<1>1. 0 \in X
  <2> DEFINE f == [n \in 0 .. 0 |-> z0]
  <2>1. Inflates(f, bytes, 0)
    BY DEF Inflates
  <2> HIDE DEF f
  <2> QED
    BY <2>1
<1>2. ASSUME NEW M \in Nat, M \in X PROVE M + 1 \in X
  <2>1. PICK f : Inflates(f, bytes, M)
    BY <1>2
  <2> DEFINE v == Z!InflateByte(f[M], bytes[M + 1])
             g == [n \in 0 .. M + 1 |-> IF n = M + 1 THEN v ELSE f[n]]
  <2>2. \A n \in 0 .. M : g[n] = f[n]
    OBVIOUS
  <2>3. \A n \in 0 .. M : g[n] = IF n = 0 THEN z0 ELSE Z!InflateByte(g[n - 1], bytes[n])
    <3> TAKE n \in 0 .. M
    <3> HIDE DEF z0
    <3>1. f[n] = IF n = 0 THEN z0 ELSE Z!InflateByte(f[n - 1], bytes[n])
      BY <2>1 DEF Inflates, z0
    <3>2. n # 0 => n - 1 \in 0 .. M
      OBVIOUS
    <3> HIDE DEF g
    <3> QED
      BY <3>1, <3>2, <2>2
  <2>4. g[M + 1] = v /\ g[M] = f[M] /\ M + 1 # 0 /\ (M + 1) - 1 = M
    OBVIOUS
  <2>5. \A n \in 0 .. M + 1 : g[n] = IF n = 0 THEN z0 ELSE Z!InflateByte(g[n - 1], bytes[n])
    <3> TAKE n \in 0 .. M + 1
    <3> HIDE DEF z0, g
    <3>1. CASE n = M + 1
      BY <3>1, <2>4
    <3>2. CASE n \in 0 .. M
      BY <3>2, <2>3
    <3> QED
      BY <3>1, <3>2
  <2>6. g = [n \in 0 .. M + 1 |-> g[n]]
    OBVIOUS
  <2>7. Inflates(g, bytes, M + 1)
    <3> HIDE DEF g
    <3> QED
      BY <2>5, <2>6 DEF Inflates
  <2>8. \E h : Inflates(h, bytes, M + 1)
    <3> HIDE DEF g
    <3> QED
      BY <2>7
  <2> QED
    BY <2>8
<1> HIDE DEF X
<1>3. N \in X
  BY <1>1, <1>2, Induction
<1> QED
  BY <1>3 DEF X

LEMMA InflatesStep ==
    ASSUME NEW bytes, NEW L \in Nat, L = Len(bytes)
    PROVE  \E f : /\ Z!decompress(bytes) = f[L]
                  /\ f[0] = [window |-> m_istate.window, owed |-> m_istate.owed,
                             out |-> <<>>, bad |-> FALSE]
                  /\ \A n \in Nat : n + 1 <= L =>
                        f[n + 1] = Z!InflateByte(f[n], bytes[n + 1])
<1> DEFINE f == CHOOSE f : Inflates(f, bytes, L)
           z0 == [window |-> m_istate.window, owed |-> m_istate.owed,
                  out |-> <<>>, bad |-> FALSE]
<1>1. Inflates(f, bytes, L)
  BY InflatesExist
<1>2. Z!decompress(bytes) = f[L]
  BY DEF Z!decompress, Inflates
<1> HIDE DEF f, z0
<1>3. f = [n \in 0 .. L |-> IF n = 0 THEN z0 ELSE Z!InflateByte(f[n - 1], bytes[n])]
  BY <1>1 DEF Inflates, z0
<1>4. f[0] = z0
  BY <1>3
<1>5. ASSUME NEW n \in Nat, n + 1 <= L
      PROVE  f[n + 1] = Z!InflateByte(f[n], bytes[n + 1])
  <2>1. n + 1 \in 0 .. L /\ n + 1 # 0 /\ (n + 1) - 1 = n
    BY <1>5
  <2> QED
    BY <1>3, <2>1
<1> QED
  BY <1>2, <1>4, <1>5 DEF z0

\* y is the stream after the bytes from p to q, and what it gave.
InflatedTo(y, w, in, p, q) ==
    /\ y \in ZStates
    /\ Inflating(w, in, q, y.owed, y.window)
    /\ SubSeq(in, 1, Got(in, p)) \o y.out = SubSeq(in, 1, Got(in, q))

\* decompress goes on where it stopped, wherever the bytes were cut.
LEMMA InflateRun ==
    ASSUME NEW w \in Seq(STRING), NEW in \in Seq(STRING), Window \in Nat,
           NEW F, Carries(F, w, in),
           NEW p \in Nat, NEW k \in Nat, p + k <= Len(F),
           NEW bytes, Len(bytes) = k, \A i \in 1 .. k : bytes[i] = F[p + i],
           m_istate.window \in Seq(STRING),
           Inflating(w, in, p, m_istate.owed, m_istate.window)
    PROVE  InflatedTo(Z!decompress(bytes), w, in, p, p + k)
<1> DEFINE z0 == [window |-> m_istate.window, owed |-> m_istate.owed,
                  out |-> <<>>, bad |-> FALSE]
           a == SubSeq(in, 1, Got(in, p))
           Right(y, i) == /\ y \in ZStates
                          /\ Inflating(w, in, p + i, y.owed, y.window)
                          /\ a \o y.out = SubSeq(in, 1, Got(in, p + i))
<1>0. \A u \in Nat, z \in ZStates :
         u < Len(F) /\ Inflating(w, in, u, z.owed, z.window) =>
            LET y == Z!InflateByte(z, F[u + 1])
            IN  /\ y \in ZStates
                /\ Inflating(w, in, u + 1, y.owed, y.window)
                /\ y.out = IF u + 1 <= Len(in) THEN Append(z.out, in[u + 1])
                           ELSE z.out
  <2>1. w \in Seq(STRING) /\ in \in Seq(STRING) /\ Window \in Nat /\ Carries(F, w, in)
    OBVIOUS
  <2> QED
    BY ONLY <2>1, InflateStep
<1>1. PICK f : /\ Z!decompress(bytes) = f[k]
               /\ f[0] = z0
               /\ \A n \in Nat : n + 1 <= k =>
                     f[n + 1] = Z!InflateByte(f[n], bytes[n + 1])
  BY InflatesStep
<1>2. /\ F \in Seq(ZByte) /\ Len(F) \in Nat
      /\ Len(F) = DataBytes(in) + 5 \/ Len(F) = DataBytes(in) + 10
  BY DEF Carries
<1>3. a \in Seq(STRING) /\ Len(in) \in Nat
  <2>1. Len(in) \in Nat /\ Got(in, p) \in Nat /\ Got(in, p) <= Len(in)
    BY DEF Got
  <2>2. \A i \in 1 .. Got(in, p) : in[i] \in STRING
    BY <2>1
  <2> QED
    BY <2>1, <2>2, SubSeqProperties
<1> DEFINE X == {n \in Nat : n <= k => Right(f[n], n)}
<1>4. 0 \in X
  <2>1. Owed(in, p) \in 0 .. 4
    <3>1. /\ DataBytes(in) \in Nat
          /\ Owed(in, p) = IF p - DataBytes(in) <= 0 THEN 0
                           ELSE IF p - DataBytes(in) <= 5 THEN 5 - (p - DataBytes(in))
                           ELSE 10 - (p - DataBytes(in))
      BY DEF DataBytes, Owed
    <3>2. p <= Len(F) /\ (Len(F) = DataBytes(in) + 5 \/ Len(F) = DataBytes(in) + 10)
      <4> QED
        BY <1>2
    <3>3. CASE p - DataBytes(in) <= 0
      BY ONLY <3>1, <3>3
    <3>4. CASE ~(p - DataBytes(in) <= 0) /\ p - DataBytes(in) <= 5
      BY ONLY <3>1, <3>4, p \in Nat
    <3>5. CASE ~(p - DataBytes(in) <= 0) /\ ~(p - DataBytes(in) <= 5)
      <4>1. p <= DataBytes(in) + 10
        BY ONLY <1>2, <3>1, <3>2, p \in Nat
      <4>2. Owed(in, p) = 10 - (p - DataBytes(in))
        BY ONLY <3>1, <3>5
      <4> QED
        BY ONLY <3>1, <3>5, <4>1, <4>2, p \in Nat
    <3> QED
      BY <3>3, <3>4, <3>5
  <2>2. m_istate.owed = Owed(in, p) /\ m_istate.window \in Seq(STRING)
    BY DEF Inflating
  <2>3. z0 \in ZStates
    BY <2>1, <2>2 DEF ZStates
  <2>4. Inflating(w, in, p, z0.owed, z0.window) /\ z0.out = <<>>
    OBVIOUS
  <2>5. a \o <<>> = a
    BY <1>3, ConcatEmptySeq
  <2> HIDE DEF z0, a
  <2>6. p + 0 = p
    OBVIOUS
  <2>7. Right(z0, 0)
    BY <2>3, <2>4, <2>5, <2>6 DEF a
  <2> HIDE DEF Right
  <2> QED
    BY <1>1, <2>7
<1> HIDE DEF z0
<1>5. ASSUME NEW n \in Nat, n + 1 <= k, Right(f[n], n)
      PROVE  Right(f[n + 1], n + 1)
  <2> DEFINE z == f[n]
             y == f[n + 1]
             P == p + n
  <2>1. P \in Nat /\ P < Len(F) /\ P + 1 = p + (n + 1) /\ n + 1 \in 1 .. k
    <3>1. Len(F) \in Nat /\ p + k <= Len(F) /\ n + 1 <= k
      BY <1>2, <1>5
    <3> QED
      BY ONLY <3>1, p \in Nat, k \in Nat, n \in Nat
  <2>2. y = Z!InflateByte(z, F[P + 1])
    BY <1>1, <1>5, <2>1
  <2>3. z \in ZStates /\ Inflating(w, in, P, z.owed, z.window)
        /\ a \o z.out = SubSeq(in, 1, Got(in, P))
    BY <1>5
  <2> HIDE DEF z, y, P, a
  <2>4. /\ y \in ZStates
        /\ Inflating(w, in, P + 1, y.owed, y.window)
        /\ y.out = IF P + 1 <= Len(in) THEN Append(z.out, in[P + 1]) ELSE z.out
    BY <1>0, <2>1, <2>2, <2>3
  <2>5. a \o y.out = SubSeq(in, 1, Got(in, P + 1))
    <3>1. CASE P + 1 <= Len(in)
      <4> DEFINE x == in[P + 1]
                 s == SubSeq(in, 1, P)
      <4>1. Got(in, P) = P /\ Got(in, P + 1) = P + 1
        BY <1>3, <2>1, <3>1 DEF Got
      <4>2. x \in STRING /\ z.out \in Seq(STRING) /\ y.out = Append(z.out, x)
        BY <2>1, <2>3, <2>4, <3>1 DEF ZStates
      <4>3. SubSeq(in, 1, P + 1) = Append(s, x)
        <5>1. <<>> \in Seq(STRING) /\ s \in Seq(STRING)
          BY <2>1, <3>1, OneMore
        <5>2. <<>> \o SubSeq(in, 1, P + 1) = Append(<<>> \o s, x)
          BY <2>1, <3>1, <5>1, OneMore
        <5>3. SubSeq(in, 1, P + 1) \in Seq(STRING)
          <6>1. \A i \in 1 .. P + 1 : in[i] \in STRING
            BY <2>1, <3>1
          <6> QED
            BY <2>1, <6>1, SubSeqProperties
        <5>4. <<>> \o SubSeq(in, 1, P + 1) = SubSeq(in, 1, P + 1) /\ <<>> \o s = s
          BY <5>1, <5>3, ConcatEmptySeq
        <5> QED
          BY <5>2, <5>4
      <4> HIDE DEF x, s
      <4>4. a \o Append(z.out, x) = Append(a \o z.out, x)
        <5>1. <<x>> \in Seq(STRING) /\ a \o z.out \in Seq(STRING)
          <6>1. \A S, v : v \in S => <<v>> \in Seq(S)
            OBVIOUS
          <6>2. <<x>> \in Seq(STRING)
            BY ONLY <6>1, <4>2, Zenon
          <6> QED
            BY <6>2, <4>2, <1>3, ConcatProperties
        <5>2. Append(z.out, x) = z.out \o <<x>>
          BY <4>2, AppendIsConcat
        <5>3. Append(a \o z.out, x) = (a \o z.out) \o <<x>>
          BY <4>2, <5>1, AppendIsConcat
        <5>4. (a \o z.out) \o <<x>> = a \o (z.out \o <<x>>)
          BY ONLY <1>3, <4>2, <5>1, Associates, ZenonT(60)
        <5> QED
          BY <5>2, <5>3, <5>4
      <4> QED
        BY <2>3, <4>1, <4>2, <4>3, <4>4 DEF s
    <3>2. CASE ~(P + 1 <= Len(in))
      <4>1. Got(in, P) = Len(in) /\ Got(in, P + 1) = Len(in)
        BY <1>3, <2>1, <3>2 DEF Got
      <4> QED
        BY <2>3, <2>4, <3>2, <4>1
    <3> QED
      BY <3>1, <3>2
  <2> QED
    BY <2>1, <2>4, <2>5 DEF P, y
<1>6. \A n \in Nat : n \in X => n + 1 \in X
  <2> HIDE DEF Right
  <2> QED
    BY <1>5
<1> HIDE DEF X, Right
<1>7. k \in X
  BY <1>4, <1>6, Induction
<1>8. Right(f[k], k)
  BY <1>7 DEF X
<1> QED
  BY <1>1, <1>8 DEF Right, InflatedTo

-----------------------------------------------------------------------------
(***************************************************************************)
(* The messages between the two streams.  What send() accepted is a        *)
(* history h of messages, each with the window it was compressed after,    *)
(* the bytes it became and the window it left.                             *)
(***************************************************************************)
SentOps == {"TEXT", "BINARY", "CLOSE", "PING", "PONG"}
WireByte == ZByte \cup STRING
WireFrames == [op : SentOps \cup {"CONTINUATION"}, fin : BOOLEAN,
               rsv1 : BOOLEAN, payload : Seq(WireByte)]
PlainMessages == [op : SentOps, payload : Seq(STRING)]
Stories == [op : SentOps, compressed : BOOLEAN, payload : Seq(STRING),
            window : Seq(STRING), bytes : Seq(WireByte), after : Seq(STRING)]

\* The bytes of a compressed message are those of its stream without the last
\* four.
Genuine(s) ==
    /\ s.op = "TEXT" => Z!utf8(s.payload)
    /\ s.compressed =>
          /\ \E F : /\ Carries(F, s.window, s.payload)
                    /\ Len(F) = Len(s.bytes) + 4
                    /\ \A i \in 1 .. Len(s.bytes) : s.bytes[i] = F[i]
          /\ Leaves(s.after, s.window, s.payload)
    /\ ~s.compressed => s.bytes = s.payload /\ s.after = s.window

FrameOf(s) == [op |-> s.op, fin |-> TRUE, rsv1 |-> s.compressed, payload |-> s.bytes]
FirstOf(s, a) == [op |-> s.op, fin |-> FALSE, rsv1 |-> s.compressed,
                  payload |-> SubSeq(s.bytes, 1, a)]
RestOf(s, a) == [op |-> "CONTINUATION", fin |-> TRUE, rsv1 |-> FALSE,
                 payload |-> SubSeq(s.bytes, a + 1, Len(s.bytes))]

CompressionTypes ==
    /\ m_istate \in [window : Seq(STRING), owed : 0 .. 4]
    /\ m_dstate \in Seq(STRING)
    /\ zlib_err = "none"
    /\ m_send_queue \in Seq(WireFrames)
    /\ accepted \in Seq(PlainMessages) /\ inflated \in Seq(PlainMessages)
    /\ pc \in [Threads -> {"idle", "lock", "prepare", "push"}]
    /\ msg \in [Threads -> Messages \cup WireFrames \cup {Z!NoFrame}]
    /\ \A t \in Threads : pc[t] \in {"lock", "prepare"} => msg[t] \in Messages
    /\ \A t \in Threads : pc[t] \in {"prepare", "push"} => m_write_lock = t

\* The window that message i of h is compressed after.
WindowAt(h, i) == IF i <= Len(h) THEN h[i].window ELSE m_dstate

\* h is what send() did, and inflated is how far it was read.
Told(h) ==
    /\ h \in Seq(Stories)
    /\ \A i \in 1 .. Len(h) : Genuine(h[i]) /\ h[i].after = WindowAt(h, i + 1)
    /\ Len(accepted) = Len(h)
    /\ \A i \in 1 .. Len(h) :
          accepted[i] = [op |-> h[i].op, payload |-> h[i].payload]
    /\ \A t \in Threads :
          pc[t] = "push" => Len(h) > 0 /\ msg[t] = FrameOf(h[Len(h)])
    /\ Len(inflated) <= Len(h)
    /\ \A i \in 1 .. Len(inflated) : inflated[i] = accepted[i]

\* Frame j of the queue is message j + k, for all but the first c; the last
\* message may still be with the thread that compressed it.
InHand == IF \E t \in Threads : pc[t] = "push" THEN 1 ELSE 0
Follow(h, c, k) ==
    /\ c <= Len(m_send_queue) /\ c + k >= 0
    /\ Len(h) = Len(m_send_queue) + k + InHand
    /\ \A j \in 1 .. Len(m_send_queue) : j > c => m_send_queue[j] = FrameOf(h[j + k])

\* Between two messages.
InSync(w) == m_istate.owed = 0 /\ Ends(w, m_istate.window)
Quiet(h) ==
    /\ frame = Z!NoFrame /\ inflated_msg = Z!NoFrame
    /\ InSync(WindowAt(h, Len(inflated) + 1))

\* p bytes of s are read.
ReadOf(s, p) == IF s.compressed THEN Got(s.payload, p) ELSE p
Reading(s, p) ==
    /\ p \in 0 .. Len(s.bytes)
    /\ inflated_msg \in [op : SentOps, fin : BOOLEAN, rsv1 : BOOLEAN, payload : Seq(STRING)]
    /\ inflated_msg.op = s.op /\ inflated_msg.rsv1 = s.compressed
    /\ inflated_msg.payload = SubSeq(s.payload, 1, ReadOf(s, p))
    /\ s.compressed => Inflating(s.window, s.payload, p, m_istate.owed, m_istate.window)
    /\ ~s.compressed => InSync(s.window)

\* Where the receiver is: between messages, the next of which may have been
\* cut in two; in the last frame of a message, in the first of two, between.
Idle(h) == Quiet(h) /\ Follow(h, 0, Len(inflated))
CutInTwo(h, s) ==
    /\ Quiet(h) /\ Follow(h, 2, Len(inflated) - 1)
    /\ \E a \in 0 .. Len(s.bytes) :
          m_send_queue[1] = FirstOf(s, a) /\ m_send_queue[2] = RestOf(s, a)
InLast(h, s) ==
    /\ Follow(h, 0, Len(inflated) + 1)
    /\ frame \in WireFrames /\ frame.fin
    /\ \E p \in Nat : /\ Reading(s, p)
                      /\ frame.payload = SubSeq(s.bytes, p + 1, Len(s.bytes))
InFirst(h, s) ==
    /\ Follow(h, 1, Len(inflated))
    /\ frame \in WireFrames /\ ~frame.fin
    /\ \E p \in Nat, a \in 0 .. Len(s.bytes) :
          /\ p <= a /\ Reading(s, p)
          /\ frame.payload = SubSeq(s.bytes, p + 1, a)
          /\ m_send_queue[1] = RestOf(s, a)
InBetween(h, s) ==
    /\ Follow(h, 1, Len(inflated))
    /\ frame = Z!NoFrame
    /\ \E p \in Nat : Reading(s, p) /\ m_send_queue[1] = RestOf(s, p)

Phase(h) ==
    \/ Idle(h)
    \/ /\ Len(inflated) < Len(h)
       /\ LET s == h[Len(inflated) + 1]
          IN CutInTwo(h, s) \/ InLast(h, s) \/ InFirst(h, s) \/ InBetween(h, s)

StreamsInvariant == CompressionTypes /\ \E h : Told(h) /\ Phase(h)

-----------------------------------------------------------------------------
\* Parts of a sequence.
LEMMA Slice ==
    ASSUME NEW S, NEW s \in Seq(S), NEW p \in Nat, NEW n \in Nat, p <= n, n <= Len(s)
    PROVE  /\ SubSeq(s, p + 1, n) \in Seq(S)
           /\ Len(SubSeq(s, p + 1, n)) = n - p
           /\ \A i \in 1 .. n - p : SubSeq(s, p + 1, n)[i] = s[p + i]
<1>1. \A i \in p + 1 .. n : s[i] \in S
  OBVIOUS
<1>2. p + 1 \in Int /\ n \in Int
  OBVIOUS
<1>3. /\ SubSeq(s, p + 1, n) \in Seq(S)
      /\ Len(SubSeq(s, p + 1, n)) = IF p + 1 <= n THEN n - (p + 1) + 1 ELSE 0
      /\ \A i \in 1 .. n - (p + 1) + 1 : SubSeq(s, p + 1, n)[i] = s[(p + 1) + i - 1]
  BY <1>1, <1>2, SubSeqProperties
<1> DEFINE t == SubSeq(s, p + 1, n)
<1> HIDE DEF t
<1>4. n - (p + 1) + 1 = n - p /\ (IF p + 1 <= n THEN n - (p + 1) + 1 ELSE 0) = n - p
  BY ONLY p \in Nat, n \in Nat, p <= n
<1>5. \A i \in 1 .. n - p : (p + 1) + i - 1 = p + i
  BY ONLY p \in Nat, n \in Nat
<1> QED
  BY <1>3, <1>4, <1>5 DEF t

\* A part of a part, its beginning and its end.
LEMMA SlicedFurther ==
    ASSUME NEW S, NEW s \in Seq(S), NEW p \in Nat, NEW a \in Nat, NEW n \in Nat,
           p + n <= a, a <= Len(s)
    PROVE  /\ SubSeq(SubSeq(s, p + 1, a), 1, n) = SubSeq(s, p + 1, p + n)
           /\ SubSeq(SubSeq(s, p + 1, a), n + 1, Len(SubSeq(s, p + 1, a)))
                 = SubSeq(s, (p + n) + 1, a)
           /\ SubSeq(s, 1, p) \o SubSeq(s, p + 1, p + n) = SubSeq(s, 1, p + n)
<1> DEFINE t == SubSeq(s, p + 1, a)
           u == SubSeq(t, 1, n)
           v == SubSeq(s, p + 1, p + n)
           x == SubSeq(t, n + 1, a - p)
           y == SubSeq(s, (p + n) + 1, a)
<1>0. /\ p <= a /\ 0 + n <= a - p /\ n <= a - p /\ p <= p + n /\ p + n <= Len(s)
      /\ a - p \in Nat /\ p + n \in Nat /\ Len(s) \in Nat /\ (p + n) - p = n
      /\ n - 0 = n /\ (a - p) - n = a - (p + n)
  OBVIOUS
<1>1. t \in Seq(S) /\ Len(t) = a - p /\ \A i \in 1 .. a - p : t[i] = s[p + i]
  BY <1>0, Slice
<1>2. v \in Seq(S) /\ Len(v) = n /\ \A i \in 1 .. n : v[i] = s[p + i]
  BY <1>0, Slice
<1>3. y \in Seq(S) /\ Len(y) = a - (p + n)
      /\ \A i \in 1 .. a - (p + n) : y[i] = s[(p + n) + i]
  BY <1>0, Slice
<1> HIDE DEF t, v, y
<1>4. u \in Seq(S) /\ Len(u) = n /\ \A i \in 1 .. n : u[i] = t[i]
  <2>1. SubSeq(t, 0 + 1, n) \in Seq(S) /\ Len(SubSeq(t, 0 + 1, n)) = n - 0
        /\ \A i \in 1 .. n - 0 : SubSeq(t, 0 + 1, n)[i] = t[0 + i]
    BY <1>0, <1>1, Slice
  <2> QED
    BY <2>1
<1>5. x \in Seq(S) /\ Len(x) = (a - p) - n /\ \A i \in 1 .. (a - p) - n : x[i] = t[n + i]
  BY <1>0, <1>1, Slice
<1> HIDE DEF u, x
<1>6. u = v
  <2>1. ASSUME NEW i \in 1 .. n PROVE u[i] = v[i]
    <3>1. i \in 1 .. a - p
      BY ONLY i \in 1 .. n, n \in Nat, n <= a - p, a - p \in Nat, <1>0
    <3> QED
      BY <1>1, <1>2, <1>4, <3>1
  <2> QED
    BY <1>2, <1>4, <2>1, SeqEqual
<1>7. x = y
  <2>1. ASSUME NEW i \in 1 .. a - (p + n) PROVE x[i] = y[i]
    <3>1. n + i \in 1 .. a - p /\ p + (n + i) = (p + n) + i /\ i \in 1 .. (a - p) - n
      BY ONLY i \in 1 .. a - (p + n), <1>0, n \in Nat, p \in Nat, a \in Nat
    <3> QED
      BY <1>1, <1>3, <1>5, <3>1
  <2> QED
    BY <1>0, <1>3, <1>5, <2>1, SeqEqual
<1>8. SubSeq(s, 1, p) \o SubSeq(s, p + 1, p + n) = SubSeq(s, 1, p + n)
  <2>1. 1 \in 1 .. Len(s) + 1 /\ p \in 1 - 1 .. Len(s) /\ p + n \in p .. Len(s)
    BY <1>0
  <2> QED
    BY <2>1, ConcatAdjacentSubSeq
<1>9. Len(t) = a - p
  BY <1>1
<1> QED
  BY <1>6, <1>7, <1>8, <1>9 DEF t, u, v, x, y

\* A part of valid text is valid.
LEMMA Utf8Part ==
    \A s, t : (\A i \in DOMAIN t : \E j \in DOMAIN s : t[i] = s[j]) /\ Z!utf8(s)
                 => Z!utf8(t)
  BY DEF Z!utf8, Z!Range

\* What the sender does leaves the receiver where it is.
LEMMA SenderStep ==
    ASSUME NEW h \in Seq(Stories), NEW g \in Seq(Stories),
           Len(h) <= Len(g), \A i \in 1 .. Len(h) : g[i] = h[i],
           \A i \in 1 .. Len(h) + 1 : WindowAt(g, i)' = WindowAt(h, i),
           \A c \in Nat, k \in Int : Follow(h, c, k) => Follow(g, c, k)',
           \A j \in 1 .. Len(m_send_queue) : m_send_queue'[j] = m_send_queue[j],
           UNCHANGED <<m_istate, frame, inflated_msg, inflated>>,
           Len(inflated) \in Nat, Len(inflated) <= Len(h), Len(m_send_queue) \in Nat,
           Phase(h)
    PROVE  Phase(g)'
<1> DEFINE d == Len(inflated)
<1>0. Len(h) \in Nat /\ Len(g) \in Nat /\ d + 1 \in 1 .. Len(h) + 1 /\ d' = d
  OBVIOUS
<1>1. Quiet(h) => Quiet(g)'
  <2>1. WindowAt(g, d + 1)' = WindowAt(h, d + 1)
    BY <1>0
  <2> QED
    BY <1>0, <2>1 DEF Quiet, InSync, Ends
<1>2. ASSUME NEW s, NEW p, Reading(s, p) PROVE Reading(s, p)'
  <2>1. m_istate' = m_istate /\ inflated_msg' = inflated_msg
    OBVIOUS
  <2> QED
    BY ONLY <1>2, <2>1 DEF Reading, ReadOf, Inflating, InSync, Ends
<1>3. CASE Idle(h)
  <2>1. Follow(g, 0, d)'
    BY <1>0, <1>3 DEF Idle
  <2> QED
    BY <1>0, <1>1, <1>3, <2>1 DEF Phase, Idle
<1>4. CASE ~Idle(h)
  <2>0. PICK s : s = h[d + 1]
    OBVIOUS
  <2>1. /\ d < Len(h)
        /\ CutInTwo(h, s) \/ InLast(h, s) \/ InFirst(h, s) \/ InBetween(h, s)
    BY <1>4, <2>0 DEF Phase
  <2>2. g[d' + 1] = s /\ d' < Len(g)
    BY <1>0, <2>0, <2>1
  <2>3. CASE CutInTwo(h, s)
    <3>1. Follow(h, 2, d - 1) /\ Follow(g, 2, d - 1)' /\ Quiet(g)'
      BY <1>0, <1>1, <2>3 DEF CutInTwo
    <3>2. 1 \in 1 .. Len(m_send_queue) /\ 2 \in 1 .. Len(m_send_queue)
      BY <3>1 DEF Follow
    <3>3. PICK a \in 0 .. Len(s.bytes) :
             m_send_queue[1] = FirstOf(s, a) /\ m_send_queue[2] = RestOf(s, a)
      BY <2>3 DEF CutInTwo
    <3>4. m_send_queue'[1] = FirstOf(s, a) /\ m_send_queue'[2] = RestOf(s, a)
      BY <3>2, <3>3
    <3>5. CutInTwo(g, s)'
      BY <1>0, <3>1, <3>4 DEF CutInTwo
    <3> QED
      BY <1>0, <2>2, <3>5 DEF Phase
  <2>4. CASE InLast(h, s)
    <3>1. Follow(h, 0, d + 1) /\ Follow(g, 0, d + 1)'
      BY <1>0, <2>4 DEF InLast
    <3>2. PICK p \in Nat : Reading(s, p) /\ frame.payload = SubSeq(s.bytes, p + 1, Len(s.bytes))
      BY <2>4 DEF InLast
    <3>3. Reading(s, p)' /\ frame' = frame
      BY <1>2, <3>2
    <3>4. InLast(g, s)'
      BY <1>0, <2>4, <3>1, <3>2, <3>3 DEF InLast
    <3> QED
      BY <1>0, <2>2, <3>4 DEF Phase
  <2>5. CASE InFirst(h, s)
    <3>1. Follow(h, 1, d) /\ Follow(g, 1, d)'
      BY <1>0, <2>5 DEF InFirst
    <3>2. PICK p \in Nat, a \in 0 .. Len(s.bytes) :
             /\ p <= a /\ Reading(s, p)
             /\ frame.payload = SubSeq(s.bytes, p + 1, a)
             /\ m_send_queue[1] = RestOf(s, a)
      BY <2>5 DEF InFirst
    <3>3. Reading(s, p)' /\ frame' = frame
      BY <1>2, <3>2
    <3>4. 1 \in 1 .. Len(m_send_queue)
      BY <3>1 DEF Follow
    <3>5. m_send_queue'[1] = RestOf(s, a)
      BY <3>2, <3>4
    <3>6. InFirst(g, s)'
      BY <1>0, <2>5, <3>1, <3>2, <3>3, <3>5 DEF InFirst
    <3> QED
      BY <1>0, <2>2, <3>6 DEF Phase
  <2>6. CASE InBetween(h, s)
    <3>1. Follow(h, 1, d) /\ Follow(g, 1, d)' /\ frame' = Z!NoFrame
      BY <1>0, <2>6 DEF InBetween
    <3>2. PICK p \in Nat : Reading(s, p) /\ m_send_queue[1] = RestOf(s, p)
      BY <2>6 DEF InBetween
    <3>3. Reading(s, p)'
      BY <1>2, <3>2
    <3>4. 1 \in 1 .. Len(m_send_queue)
      BY <3>1 DEF Follow
    <3>5. m_send_queue'[1] = RestOf(s, p)
      BY <3>2, <3>4
    <3>6. InBetween(g, s)'
      BY <1>0, <3>1, <3>3, <3>5 DEF InBetween
    <3> QED
      BY <1>0, <2>2, <3>6 DEF Phase
  <2> QED
    BY <2>1, <2>3, <2>4, <2>5, <2>6
<1> QED
  BY <1>3, <1>4

LEMMA SenderLocalStep ==
    ASSUME NEW h, Told(h), CompressionTypes, Phase(h),
           UNCHANGED <<m_send_queue, m_dstate, InHand, accepted,
                       m_istate, frame, inflated_msg, inflated>>,
           \A t \in Threads : pc'[t] = "push" => pc[t] = "push" /\ msg'[t] = msg[t]
    PROVE  Told(h)' /\ Phase(h)'
<1>1. h \in Seq(Stories) /\ Len(inflated) \in Nat /\ Len(inflated) <= Len(h)
      /\ Len(m_send_queue) \in Nat /\ Len(h) \in Nat
  BY DEF Told, CompressionTypes
<1>2. \A i : WindowAt(h, i)' = WindowAt(h, i)
  BY DEF WindowAt
<1>3. \A c \in Nat, k \in Int : Follow(h, c, k) => Follow(h, c, k)'
  BY DEF Follow
<1>4. Phase(h)'
  <2>1. /\ Len(h) <= Len(h) /\ \A i \in 1 .. Len(h) : h[i] = h[i]
        /\ \A i \in 1 .. Len(h) + 1 : WindowAt(h, i)' = WindowAt(h, i)
        /\ \A j \in 1 .. Len(m_send_queue) : m_send_queue'[j] = m_send_queue[j]
        /\ UNCHANGED <<m_istate, frame, inflated_msg, inflated>>
    BY <1>1, <1>2
  <2> QED
    BY ONLY <1>1, <1>3, <2>1, Phase(h), SenderStep
<1>5. Told(h)'
  <2>1. /\ \A i \in 1 .. Len(h) : Genuine(h[i]) /\ h[i].after = WindowAt(h, i + 1)
        /\ Len(accepted) = Len(h)
        /\ \A i \in 1 .. Len(h) :
              accepted[i] = [op |-> h[i].op, payload |-> h[i].payload]
        /\ \A t \in Threads :
              pc[t] = "push" => Len(h) > 0 /\ msg[t] = FrameOf(h[Len(h)])
        /\ Len(inflated) <= Len(h)
        /\ \A i \in 1 .. Len(inflated) : inflated[i] = accepted[i]
    BY DEF Told
  <2>2. \A i \in 1 .. Len(h) : h[i].after = WindowAt(h, i + 1)'
    BY <1>2, <2>1
  <2>3. \A t \in Threads : pc'[t] = "push" => Len(h) > 0 /\ msg'[t] = FrameOf(h[Len(h)])
    BY <2>1
  <2> QED
    BY <1>1, <2>1, <2>2, <2>3 DEF Told
<1> QED
  BY <1>4, <1>5

LEMMA SendStep ==
    ASSUME Z!CompressionAssumption, CompressionTypes, NEW h, Told(h), Phase(h),
           NEW t \in Threads, NEW m \in Messages, Z!Send(t, m)
    PROVE  CompressionTypes' /\ Told(h)' /\ Phase(h)'
<1>1. /\ pc[t] = "idle" /\ pc' = [pc EXCEPT ![t] = "lock"] /\ msg' = [msg EXCEPT ![t] = m]
      /\ UNCHANGED <<m_flush, m_write_lock, m_dstate, accepted, m_send_queue,
                     m_istate, frame, inflated_msg, inflated, zlib_err>>
  BY DEF Z!Send, Z!recvVars
<1>2. /\ pc \in [Threads -> {"idle", "lock", "prepare", "push"}]
      /\ msg \in [Threads -> Messages \cup WireFrames \cup {Z!NoFrame}]
  BY DEF CompressionTypes
<1>3. /\ pc' \in [Threads -> {"idle", "lock", "prepare", "push"}]
      /\ msg' \in [Threads -> Messages \cup WireFrames \cup {Z!NoFrame}]
      /\ pc'[t] = "lock" /\ msg'[t] = m
      /\ \A u \in Threads : u # t => pc'[u] = pc[u] /\ msg'[u] = msg[u]
  BY <1>1, <1>2
<1>4. CompressionTypes'
  BY <1>1, <1>3 DEF CompressionTypes
<1>5. \A u \in Threads : /\ pc'[u] = "push" <=> pc[u] = "push"
                         /\ pc'[u] = "push" => msg'[u] = msg[u]
  BY <1>1, <1>3
<1>6. InHand' = InHand
  BY <1>5 DEF InHand
<1> QED
  BY <1>1, <1>4, <1>5, <1>6, SenderLocalStep

LEMMA AcquireStep ==
    ASSUME Z!CompressionAssumption, CompressionTypes, NEW h, Told(h), Phase(h),
           NEW t \in Threads, Z!Acquire(t)
    PROVE  CompressionTypes' /\ Told(h)' /\ Phase(h)'
<1>1. /\ pc[t] = "lock" /\ pc' = [pc EXCEPT ![t] = "prepare"]
      /\ m_write_lock = NoThread /\ m_write_lock' = t
      /\ UNCHANGED <<m_flush, msg, m_dstate, accepted, m_send_queue,
                     m_istate, frame, inflated_msg, inflated, zlib_err>>
  BY DEF Z!Acquire, Z!recvVars
<1>2. /\ pc \in [Threads -> {"idle", "lock", "prepare", "push"}]
      /\ \A u \in Threads : pc[u] \in {"prepare", "push"} => m_write_lock = u
      /\ \A u \in Threads : pc[u] \in {"lock", "prepare"} => msg[u] \in Messages
      /\ NoThread \notin Threads
  BY DEF CompressionTypes, Z!CompressionAssumption
<1>3. /\ pc' \in [Threads -> {"idle", "lock", "prepare", "push"}]
      /\ pc'[t] = "prepare"
      /\ \A u \in Threads : u # t => pc'[u] = pc[u]
  BY <1>1, <1>2
<1>4. \A u \in Threads : pc'[u] \in {"prepare", "push"} => m_write_lock' = u
  BY <1>1, <1>2, <1>3
<1>5. \A u \in Threads : pc'[u] \in {"lock", "prepare"} => msg'[u] \in Messages
  BY <1>1, <1>2, <1>3
<1>6. CompressionTypes'
  BY <1>1, <1>3, <1>4, <1>5 DEF CompressionTypes
<1>7. \A u \in Threads : /\ pc'[u] = "push" <=> pc[u] = "push"
                         /\ pc'[u] = "push" => msg'[u] = msg[u]
  BY <1>1, <1>3
<1>8. InHand' = InHand
  BY <1>7 DEF InHand
<1> QED
  BY <1>1, <1>6, <1>7, <1>8, SenderLocalStep

LEMMA PushStep ==
    ASSUME Z!CompressionAssumption, CompressionTypes, NEW h, Told(h), Phase(h),
           NEW t \in Threads, Z!Push(t)
    PROVE  CompressionTypes' /\ Told(h)' /\ Phase(h)'
<1> DEFINE l == Len(m_send_queue)
           f == msg[t]
<1>1. /\ pc[t] = "push" /\ pc' = [pc EXCEPT ![t] = "idle"]
      /\ m_send_queue' = Append(m_send_queue, f)
      /\ UNCHANGED <<m_flush, msg, m_dstate, accepted,
                     m_istate, frame, inflated_msg, inflated, zlib_err>>
  BY DEF Z!Push, Z!Release, Z!recvVars
<1>2. /\ pc \in [Threads -> {"idle", "lock", "prepare", "push"}]
      /\ \A u \in Threads : pc[u] \in {"prepare", "push"} => m_write_lock = u
      /\ \A u \in Threads : pc[u] \in {"lock", "prepare"} => msg[u] \in Messages
      /\ m_send_queue \in Seq(WireFrames) /\ l \in Nat
  BY DEF CompressionTypes
<1>3. /\ pc' \in [Threads -> {"idle", "lock", "prepare", "push"}]
      /\ pc'[t] = "idle"
      /\ \A u \in Threads : u # t => pc'[u] = pc[u] /\ pc[u] \notin {"prepare", "push"}
  BY <1>1, <1>2
<1>4. /\ h \in Seq(Stories) /\ Len(h) > 0 /\ f = FrameOf(h[Len(h)])
      /\ Len(inflated) <= Len(h) /\ Len(h) \in Nat
  BY <1>1 DEF Told
<1>5. f \in WireFrames
  <2>1. h[Len(h)] \in Stories
    BY <1>4
  <2> QED
    BY <1>4, <2>1 DEF FrameOf, Stories, WireFrames
<1> HIDE DEF f
<1>6. /\ m_send_queue' \in Seq(WireFrames) /\ Len(m_send_queue') = l + 1
      /\ m_send_queue'[l + 1] = f
      /\ \A j \in 1 .. l : m_send_queue'[j] = m_send_queue[j]
  BY <1>1, <1>2, <1>5, AppendProperties
<1>7. CompressionTypes'
  BY <1>1, <1>2, <1>3, <1>6 DEF CompressionTypes
<1>8. InHand = 1 /\ InHand' = 0
  <2>1. ~\E u \in Threads : pc'[u] = "push"
    BY <1>3
  <2> QED
    BY <1>1, <2>1 DEF InHand
<1>9. \A i : WindowAt(h, i)' = WindowAt(h, i)
  BY <1>1 DEF WindowAt
<1>10. ASSUME NEW c \in Nat, NEW k \in Int, Follow(h, c, k)
       PROVE  Follow(h, c, k)'
  <2> HIDE DEF l
  <2>1. /\ c <= l /\ c + k >= 0 /\ Len(h) = l + k + 1
        /\ \A j \in 1 .. l : j > c => m_send_queue[j] = FrameOf(h[j + k])
    BY <1>8, <1>10 DEF Follow, l
  <2>2. c <= l + 1 /\ Len(h) = (l + 1) + k + 0 /\ (l + 1) + k = Len(h)
    BY <1>2, <1>4, <2>1
  <2>3. ASSUME NEW j \in 1 .. l + 1, j > c
        PROVE  m_send_queue'[j] = FrameOf(h[j + k])
    <3>1. CASE j = l + 1
      BY <1>4, <1>6, <2>2, <3>1
    <3>2. CASE j \in 1 .. l
      BY <1>6, <2>1, <2>3, <3>2
    <3> QED
      BY <1>2, <3>1, <3>2
  <2> QED
    BY ONLY <1>6, <1>8, <2>1, <2>2, <2>3 DEF Follow
<1>11. UNCHANGED <<m_istate, frame, inflated_msg, inflated>>
  BY <1>1
<1>12. Len(inflated) \in Nat
  BY DEF CompressionTypes
<1>13. Phase(h)'
  BY <1>2, <1>4, <1>6, <1>9, <1>10, <1>11, <1>12, SenderStep
<1>14. Told(h)'
  <2>1. /\ \A i \in 1 .. Len(h) : Genuine(h[i]) /\ h[i].after = WindowAt(h, i + 1)
        /\ Len(accepted) = Len(h)
        /\ \A i \in 1 .. Len(h) :
              accepted[i] = [op |-> h[i].op, payload |-> h[i].payload]
        /\ \A i \in 1 .. Len(inflated) : inflated[i] = accepted[i]
    BY DEF Told
  <2>2. \A i \in 1 .. Len(h) : h[i].after = WindowAt(h, i + 1)'
    BY <1>9, <2>1
  <2>3. \A u \in Threads : pc'[u] # "push"
    BY <1>3
  <2> QED
    BY <1>1, <1>4, <2>1, <2>2, <2>3 DEF Told
<1> QED
  BY <1>7, <1>13, <1>14

\* A message that is prepared becomes the last one of the history.
LEMMA StoryTypes ==
    ASSUME Z!CompressionAssumption, CompressionTypes, NEW m \in Messages,
           ~Z!Refused(m)
    PROVE  LET z == Z!compress(m_dstate, m.payload)
               s == IF m.compressed
                    THEN [op |-> m.op, compressed |-> TRUE, payload |-> m.payload,
                          window |-> m_dstate, after |-> z.window,
                          bytes |-> SubSeq(z.out, 1, Len(z.out) - 4)]
                    ELSE [op |-> m.op, compressed |-> FALSE, payload |-> m.payload,
                          window |-> m_dstate, after |-> m_dstate,
                          bytes |-> m.payload]
           IN  s \in Stories /\ Genuine(s)
<1>1. /\ m.op \in SentOps /\ m.compressed \in BOOLEAN /\ m.payload \in Seq(STRING)
      /\ m_dstate \in Seq(STRING) /\ Window \in Nat
      /\ m.op = "TEXT" => Z!utf8(m.payload)
  BY DEF Z!CompressionAssumption, CompressionTypes, Z!Refused, SentOps
<1> DEFINE w == m_dstate
           in == m.payload
           z == Z!compress(w, in)
           F == z.out
           v == z.window
           b == SubSeq(F, 1, Len(F) - 4)
<1>2. Carries(F, w, in) /\ Leaves(v, w, in)
  BY <1>1, StreamOf, WindowOf
<1> HIDE DEF z, F, v
<1>3. F \in Seq(ZByte) /\ Len(F) >= 5 /\ v \in Seq(STRING)
  <2>1. F \in Seq(ZByte) /\ (Len(F) = DataBytes(in) + 5 \/ Len(F) = DataBytes(in) + 10)
    BY <1>2 DEF Carries
  <2>2. v \in Seq(STRING)
    BY <1>2 DEF Leaves
  <2>3. DataBytes(in) \in Nat
    BY <1>1 DEF DataBytes
  <2>4. Len(F) >= 5
    BY <2>1, <2>3
  <2> QED
    BY <2>1, <2>2, <2>4
<1>4. /\ b \in Seq(ZByte) /\ Len(F) = Len(b) + 4
      /\ \A i \in 1 .. Len(b) : b[i] = F[i]
  <2>1. Len(F) - 4 \in Nat /\ Len(F) - 4 <= Len(F) /\ 0 <= Len(F) - 4 /\ 0 + 1 = 1
    BY <1>3
  <2> DEFINE n == Len(F) - 4
  <2> HIDE DEF n
  <2>2. /\ SubSeq(F, 0 + 1, n) \in Seq(ZByte) /\ Len(SubSeq(F, 0 + 1, n)) = n - 0
        /\ \A i \in 1 .. n - 0 : SubSeq(F, 0 + 1, n)[i] = F[0 + i]
    BY <1>3, <2>1, Slice DEF n
  <2> QED
    BY <1>3, <2>1, <2>2 DEF n
<1> HIDE DEF b, w, in
<1>5. ZByte \subseteq WireByte /\ STRING \subseteq WireByte
  BY DEF WireByte
<1>6. b \in Seq(WireByte) /\ in \in Seq(WireByte) /\ in \in Seq(STRING) /\ w \in Seq(STRING)
  <2>1. \A S, T : S \subseteq T => Seq(S) \subseteq Seq(T)
    OBVIOUS
  <2> QED
    BY <1>1, <1>4, <1>5, <2>1 DEF in, w
<1>7. CASE m.compressed
  <2> DEFINE s == [op |-> m.op, compressed |-> TRUE, payload |-> in,
                   window |-> w, after |-> v, bytes |-> b]
  <2>1. s \in Stories
    BY <1>1, <1>3, <1>6 DEF Stories
  <2>2. /\ s.op = m.op /\ s.compressed = TRUE /\ s.payload = in /\ s.window = w
        /\ s.after = v /\ s.bytes = b
    OBVIOUS
  <2> HIDE DEF s
  <2>3. Genuine(s)
    BY <1>1, <1>2, <1>4, <2>2 DEF Genuine, in
  <2> QED
    BY <1>7, <2>1, <2>3 DEF s, b, v, F, z, w, in
<1>8. CASE ~m.compressed
  <2> DEFINE s == [op |-> m.op, compressed |-> FALSE, payload |-> in,
                   window |-> w, after |-> w, bytes |-> in]
  <2>1. s \in Stories
    BY <1>1, <1>6 DEF Stories
  <2>2. /\ s.op = m.op /\ s.compressed = FALSE /\ s.payload = in /\ s.window = w
        /\ s.after = w /\ s.bytes = in
    OBVIOUS
  <2> HIDE DEF s
  <2>3. Genuine(s)
    BY <1>1, <2>2 DEF Genuine, in
  <2> QED
    BY <1>8, <2>1, <2>3 DEF s, w, in
<1> QED
  BY <1>1, <1>7, <1>8

LEMMA PrepareStep ==
    ASSUME Z!CompressionAssumption, CompressionTypes, NEW h, Told(h), Phase(h),
           NEW t \in Threads, Z!Prepare(t)
    PROVE  CompressionTypes' /\ \E g : Told(g)' /\ Phase(g)'
<1> DEFINE m == msg[t]
           z == Z!compress(m_dstate, m.payload)
           short == SubSeq(z.out, 1, Len(z.out) - 4)
           st == IF m.compressed
                 THEN [op |-> m.op, compressed |-> TRUE, payload |-> m.payload,
                       window |-> m_dstate, after |-> z.window, bytes |-> short]
                 ELSE [op |-> m.op, compressed |-> FALSE, payload |-> m.payload,
                       window |-> m_dstate, after |-> m_dstate, bytes |-> m.payload]
<1>1. /\ pc[t] = "prepare"
      /\ UNCHANGED <<m_flush, m_send_queue, m_istate, frame, inflated_msg,
                     inflated, zlib_err>>
  BY DEF Z!Prepare, Z!recvVars
<1>2. /\ pc \in [Threads -> {"idle", "lock", "prepare", "push"}]
      /\ \A u \in Threads : pc[u] \in {"prepare", "push"} => m_write_lock = u
      /\ \A u \in Threads : pc[u] \in {"lock", "prepare"} => msg[u] \in Messages
      /\ msg \in [Threads -> Messages \cup WireFrames \cup {Z!NoFrame}]
      /\ m_dstate \in Seq(STRING) /\ accepted \in Seq(PlainMessages)
      /\ m_send_queue \in Seq(WireFrames) /\ m \in Messages
      /\ m_write_lock = t
  BY <1>1 DEF CompressionTypes
<1>3. CASE Z!Refused(m)
  <2>1. /\ pc' = [pc EXCEPT ![t] = "idle"]
        /\ UNCHANGED <<msg, m_dstate, accepted>>
    BY <1>3 DEF Z!Prepare, Z!Release
  <2>2. /\ pc' \in [Threads -> {"idle", "lock", "prepare", "push"}]
        /\ pc'[t] = "idle"
        /\ \A u \in Threads : u # t => pc'[u] = pc[u] /\ pc[u] \notin {"prepare", "push"}
    BY <1>1, <1>2, <2>1
  <2>3. CompressionTypes'
    BY <1>1, <1>2, <2>1, <2>2 DEF CompressionTypes
  <2>4. \A u \in Threads : /\ pc'[u] = "push" <=> pc[u] = "push"
                           /\ pc'[u] = "push" => msg'[u] = msg[u]
    BY <1>1, <2>1, <2>2
  <2>5. InHand' = InHand
    BY <2>4 DEF InHand
  <2>6. Told(h)' /\ Phase(h)'
    BY <1>1, <2>1, <2>4, <2>5, SenderLocalStep
  <2> QED
    BY <2>3, <2>6
<1>4. CASE ~Z!Refused(m)
  <2>1. st \in Stories /\ Genuine(st)
    BY <1>2, <1>4, StoryTypes
  <2>2. /\ st.op = m.op /\ st.payload = m.payload /\ st.window = m_dstate
    OBVIOUS
  <2>3. /\ pc' = [pc EXCEPT ![t] = "push"]
        /\ accepted' = Append(accepted, [op |-> m.op, payload |-> m.payload])
        /\ m_write_lock' = m_write_lock
        /\ msg' = [msg EXCEPT ![t] = FrameOf(st)]
        /\ m_dstate' = st.after
    <3>0. /\ pc' = [pc EXCEPT ![t] = "push"]
          /\ accepted' = Append(accepted, [op |-> m.op, payload |-> m.payload])
          /\ m_write_lock' = m_write_lock
      BY <1>4 DEF Z!Prepare
    <3>1. CASE m.compressed
      <4>1. /\ msg' = [msg EXCEPT ![t] = [op |-> m.op, fin |-> TRUE, rsv1 |-> TRUE,
                                          payload |-> short]]
            /\ m_dstate' = z.window
        BY <1>4, <3>1 DEF Z!Prepare
      <4> HIDE DEF z
      <4>2. st = [op |-> m.op, compressed |-> TRUE, payload |-> m.payload,
                  window |-> m_dstate, after |-> z.window, bytes |-> short]
        BY <3>1
      <4> HIDE DEF m, short, st
      <4>3. FrameOf(st) = [op |-> m.op, fin |-> TRUE, rsv1 |-> TRUE, payload |-> short]
            /\ st.after = z.window
        BY <4>2 DEF FrameOf
      <4> QED
        BY <3>0, <4>1, <4>3
    <3>2. CASE ~m.compressed
      <4>1. /\ msg' = [msg EXCEPT ![t] = [op |-> m.op, fin |-> TRUE, rsv1 |-> FALSE,
                                          payload |-> m.payload]]
            /\ m_dstate' = m_dstate
        BY <1>4, <3>2 DEF Z!Prepare
      <4>2. st = [op |-> m.op, compressed |-> FALSE, payload |-> m.payload,
                  window |-> m_dstate, after |-> m_dstate, bytes |-> m.payload]
        BY <3>2
      <4> HIDE DEF m, st, z, short
      <4>3. FrameOf(st) = [op |-> m.op, fin |-> TRUE, rsv1 |-> FALSE, payload |-> m.payload]
            /\ st.after = m_dstate
        BY <4>2 DEF FrameOf
      <4> QED
        BY <3>0, <4>1, <4>3
    <3> QED
      BY <3>1, <3>2
  <2>a. PICK s : s = st
    OBVIOUS
  <2>b. PICK plain : plain = [op |-> m.op, payload |-> m.payload]
    OBVIOUS
  <2> HIDE DEF st
  <2>4. /\ s \in Stories /\ Genuine(s) /\ s.window = m_dstate /\ m_dstate' = s.after
        /\ plain = [op |-> s.op, payload |-> s.payload]
        /\ accepted' = Append(accepted, plain)
        /\ msg' = [msg EXCEPT ![t] = FrameOf(s)]
    BY <2>1, <2>2, <2>3, <2>a, <2>b
  <2>5. FrameOf(s) \in WireFrames /\ plain \in PlainMessages /\ s.after \in Seq(STRING)
    BY <2>4 DEF FrameOf, Stories, WireFrames, PlainMessages
  <2> DEFINE f == FrameOf(s)
  <2> HIDE DEF f, m
  <2>6. /\ pc' \in [Threads -> {"idle", "lock", "prepare", "push"}]
        /\ msg' \in [Threads -> Messages \cup WireFrames \cup {Z!NoFrame}]
        /\ pc'[t] = "push" /\ msg'[t] = f
        /\ \A u \in Threads : u # t => /\ pc'[u] = pc[u] /\ msg'[u] = msg[u]
                                       /\ pc[u] \notin {"prepare", "push"}
    BY <1>1, <1>2, <2>3, <2>4, <2>5 DEF f
  <2>7. accepted' \in Seq(PlainMessages) /\ Len(accepted') = Len(accepted) + 1
        /\ accepted'[Len(accepted) + 1] = plain
        /\ \A i \in 1 .. Len(accepted) : accepted'[i] = accepted[i]
    BY <1>2, <2>4, <2>5, AppendProperties
  <2>8. CompressionTypes'
    BY <1>1, <1>2, <2>3, <2>4, <2>5, <2>6, <2>7 DEF CompressionTypes
  <2>9. InHand = 0 /\ InHand' = 1
    <3>1. ~\E u \in Threads : pc[u] = "push"
      BY <1>1, <2>6
    <3>2. \E u \in Threads : pc'[u] = "push"
      BY <2>6
    <3> QED
      BY <3>1, <3>2 DEF InHand
  <2> DEFINE g == Append(h, s)
             l == Len(h)
  <2>10. /\ h \in Seq(Stories) /\ l \in Nat
         /\ Len(inflated) <= l /\ Len(inflated) \in Nat /\ Len(m_send_queue) \in Nat
         /\ Len(accepted) = l
         /\ \A i \in 1 .. l : Genuine(h[i]) /\ h[i].after = WindowAt(h, i + 1)
         /\ \A i \in 1 .. l : accepted[i] = [op |-> h[i].op, payload |-> h[i].payload]
         /\ \A i \in 1 .. Len(inflated) : inflated[i] = accepted[i]
    <3>1. h \in Seq(Stories) /\ Len(h) \in Nat
      BY DEF Told
    <3>2. Len(inflated) \in Nat /\ Len(m_send_queue) \in Nat
      BY DEF CompressionTypes
    <3> QED
      BY ONLY <3>1, <3>2, Told(h) DEF Told
  <2>11. /\ g \in Seq(Stories) /\ Len(g) = l + 1 /\ g[l + 1] = s
         /\ \A i \in 1 .. l : g[i] = h[i]
    BY <2>4, <2>10, AppendProperties
  <2> HIDE DEF g, l
  <2>12. \A i \in 1 .. l + 1 : WindowAt(g, i)' = WindowAt(h, i)
    <3> SUFFICES ASSUME NEW i \in 1 .. l + 1
                 PROVE  (IF i <= Len(g) THEN g[i].window ELSE m_dstate')
                           = IF i <= Len(h) THEN h[i].window ELSE m_dstate
      BY DEF WindowAt, g
    <3>1. CASE i = l + 1
      BY <2>4, <2>10, <2>11, <3>1 DEF l
    <3>2. CASE i \in 1 .. l
      BY <2>10, <2>11, <3>2 DEF l
    <3> QED
      BY <2>10, <3>1, <3>2
  <2>13. ASSUME NEW c \in Nat, NEW k \in Int, Follow(h, c, k)
         PROVE  Follow(g, c, k)'
    <3>1. /\ c <= Len(m_send_queue) /\ c + k >= 0 /\ l = Len(m_send_queue) + k + 0
          /\ \A j \in 1 .. Len(m_send_queue) : j > c => m_send_queue[j] = FrameOf(h[j + k])
      BY <2>9, <2>13 DEF Follow, l
    <3>2. l + 1 = Len(m_send_queue) + k + 1
      BY ONLY <3>1, <2>10, k \in Int
    <3>3. ASSUME NEW j \in 1 .. Len(m_send_queue), j > c
          PROVE  m_send_queue[j] = FrameOf(g[j + k])
      <4>1. j + k \in 1 .. l
        BY ONLY <3>1, <3>3, <2>10, c \in Nat, k \in Int, j \in 1 .. Len(m_send_queue)
      <4> QED
        BY <2>11, <3>1, <3>3, <4>1
    <3>4. m_send_queue' = m_send_queue /\ Len(g) = l + 1
      BY <1>1, <2>11
    <3> QED
      BY ONLY <2>9, <3>1, <3>2, <3>3, <3>4 DEF Follow
  <2>14. Phase(g)'
    <3>1. /\ g \in Seq(Stories) /\ Len(h) <= Len(g)
          /\ \A i \in 1 .. Len(h) : g[i] = h[i]
          /\ \A i \in 1 .. Len(h) + 1 : WindowAt(g, i)' = WindowAt(h, i)
          /\ Len(inflated) \in Nat /\ Len(inflated) <= Len(h) /\ Len(m_send_queue) \in Nat
          /\ \A j \in 1 .. Len(m_send_queue) : m_send_queue'[j] = m_send_queue[j]
          /\ UNCHANGED <<m_istate, frame, inflated_msg, inflated>>
      BY <1>1, <2>10, <2>11, <2>12 DEF l
    <3>2. \A c \in Nat, k \in Int : Follow(h, c, k) => Follow(g, c, k)'
      BY <2>13
    <3> QED
      BY ONLY <2>10, <3>1, <3>2, Phase(h), SenderStep
  <2>15. Told(g)'
    <3>1. ASSUME NEW i \in 1 .. l + 1
          PROVE  Genuine(g[i]) /\ g[i].after = WindowAt(g, i + 1)'
      <4>1. CASE i = l + 1
        <5>1. WindowAt(g, i + 1)' = m_dstate'
          BY <2>10, <2>11, <4>1 DEF WindowAt, g
        <5> QED
          BY <2>4, <2>11, <4>1, <5>1
      <4>2. CASE i \in 1 .. l
        <5>1. WindowAt(g, i + 1)' = WindowAt(h, i + 1)
          BY <2>10, <2>12, <4>2
        <5> QED
          BY <2>10, <2>11, <4>2, <5>1
      <4> QED
        BY <2>10, <4>1, <4>2
    <3>2. ASSUME NEW i \in 1 .. l + 1
          PROVE  accepted'[i] = [op |-> g[i].op, payload |-> g[i].payload]
      <4>1. CASE i = l + 1
        BY <2>4, <2>7, <2>10, <2>11, <4>1
      <4>2. CASE i \in 1 .. l
        BY <2>7, <2>10, <2>11, <4>2
      <4> QED
        BY <2>10, <4>1, <4>2
    <3>3. \A u \in Threads : pc'[u] = "push" => Len(g) > 0 /\ msg'[u] = FrameOf(g[Len(g)])
      <4>1. Len(g) > 0 /\ g[Len(g)] = s
        BY <2>10, <2>11
      <4>2. \A u \in Threads : pc'[u] = "push" => u = t
        BY <2>6
      <4> QED
        BY <2>6, <4>1, <4>2 DEF f
    <3>4. /\ inflated' = inflated /\ Len(accepted') = Len(g) /\ Len(inflated) <= Len(g)
          /\ \A i \in 1 .. Len(inflated) : inflated[i] = accepted'[i]
      <4>1. ASSUME NEW i \in 1 .. Len(inflated) PROVE inflated[i] = accepted'[i]
        <5>1. i \in 1 .. l
          BY ONLY i \in 1 .. Len(inflated), <2>10
        <5> QED
          BY <2>7, <2>10, <5>1
      <4> QED
        BY <1>1, <2>7, <2>10, <2>11, <4>1
    <3> QED
      BY <2>11, <3>1, <3>2, <3>3, <3>4 DEF Told
  <2> QED
    BY <2>8, <2>14, <2>15
<1> QED
  BY <1>3, <1>4

LEMMA ToldStable ==
    ASSUME NEW h, Told(h), UNCHANGED <<pc, msg, m_dstate, accepted, inflated>>
    PROVE  Told(h)'
<1>1. \A i : WindowAt(h, i)' = WindowAt(h, i)
  BY DEF WindowAt
<1> QED
  BY <1>1 DEF Told

\* A frame that is received is none; neither is a message.
LEMMA FramesAreFrames ==
    /\ Z!NoFrame \notin WireFrames
    /\ \A s, p : Reading(s, p) => inflated_msg # Z!NoFrame
<1>1. \A f \in WireFrames : f.op # "none"
  BY DEF WireFrames, SentOps
<1>2. \A s, p : Reading(s, p) => inflated_msg.op # "none"
  BY DEF Reading, SentOps
<1>3. Z!NoFrame.op = "none"
  BY DEF Z!NoFrame
<1> QED
  BY <1>1, <1>2, <1>3

LEMMA StoryFrames ==
    ASSUME NEW s \in Stories, NEW a \in 0 .. Len(s.bytes)
    PROVE  /\ s.bytes \in Seq(WireByte) /\ Len(s.bytes) \in Nat
           /\ FrameOf(s) \in WireFrames /\ FrameOf(s).payload = s.bytes
           /\ FrameOf(s).op = s.op /\ s.op \in SentOps /\ FrameOf(s).fin
           /\ FrameOf(s).rsv1 = s.compressed
           /\ FirstOf(s, a) \in WireFrames /\ ~FirstOf(s, a).fin /\ FirstOf(s, a).op = s.op
           /\ FirstOf(s, a).payload = SubSeq(s.bytes, 1, a)
           /\ FirstOf(s, a).rsv1 = s.compressed
           /\ RestOf(s, a) \in WireFrames /\ RestOf(s, a).fin
           /\ RestOf(s, a).op = "CONTINUATION"
           /\ RestOf(s, a).payload = SubSeq(s.bytes, a + 1, Len(s.bytes))
<1>1. s.bytes \in Seq(WireByte) /\ s.op \in SentOps /\ s.compressed \in BOOLEAN
  BY DEF Stories
<1> DEFINE b == s.bytes
           l == Len(b)
<1>2. b \in Seq(WireByte) /\ l \in Nat /\ a \in Nat /\ a <= l
  BY <1>1
<1>3. SubSeq(b, 1, a) \in Seq(WireByte)
  <2>1. 0 <= a /\ 0 + 1 = 1
    BY <1>2
  <2> HIDE DEF b, l
  <2>2. SubSeq(b, 0 + 1, a) \in Seq(WireByte)
    BY <1>2, <2>1, Slice DEF l
  <2> QED
    BY <2>2
<1>4. SubSeq(b, a + 1, l) \in Seq(WireByte)
  <2> HIDE DEF b
  <2> QED
    BY <1>2, Slice
<1> QED
  BY <1>1, <1>2, <1>3, <1>4 DEF FrameOf, FirstOf, RestOf, WireFrames

LEMMA TwoFields ==
    ASSUME NEW D, NEW S, NEW f \in [op : S, fin : D, rsv1 : BOOLEAN, payload : Seq(WireByte)],
           NEW y \in Seq(WireByte), NEW e \in D
    PROVE  [f EXCEPT !.fin = e, !.payload = y]
             = [op |-> f.op, fin |-> e, rsv1 |-> f.rsv1, payload |-> y]
<1> DEFINE g == [f EXCEPT !.fin = e]
<1>1. [f EXCEPT !.fin = e, !.payload = y] = [g EXCEPT !.payload = y]
  OBVIOUS
<1>2. f = [op |-> f.op, fin |-> f.fin, rsv1 |-> f.rsv1, payload |-> f.payload]
  OBVIOUS
<1>3. \A o, c, r, x, z : [[op |-> o, fin |-> c, rsv1 |-> r, payload |-> x] EXCEPT !.fin = z]
                            = [op |-> o, fin |-> z, rsv1 |-> r, payload |-> x]
  OBVIOUS
<1>4. g = [op |-> f.op, fin |-> e, rsv1 |-> f.rsv1, payload |-> f.payload]
  BY <1>2, <1>3
<1>5. \A o, c, r, x, z : [[op |-> o, fin |-> c, rsv1 |-> r, payload |-> x] EXCEPT !.payload = z]
                            = [op |-> o, fin |-> c, rsv1 |-> r, payload |-> z]
  OBVIOUS
<1> HIDE DEF g
<1> QED
  BY <1>1, <1>4, <1>5

LEMMA FragmentStep ==
    ASSUME CompressionTypes, NEW h, Told(h), Phase(h), Z!Fragment
    PROVE  CompressionTypes' /\ Told(h)' /\ Phase(h)'
<1> DEFINE q == m_send_queue
           d == Len(inflated)
           f == Head(q)
<1>1. /\ q # <<>> /\ frame = Z!NoFrame /\ inflated_msg = Z!NoFrame /\ f.fin
      /\ UNCHANGED <<pc, msg, m_write_lock, m_dstate, accepted,
                     m_istate, frame, inflated_msg, inflated, zlib_err>>
  BY DEF Z!Fragment, Z!recvVars, Z!sendVars
<1>a. PICK n \in 0 .. Len(f.payload) :
         q' = <<[f EXCEPT !.fin = FALSE, !.payload = SubSeq(@, 1, n)],
                [op |-> "CONTINUATION", fin |-> TRUE, rsv1 |-> FALSE,
                 payload |-> SubSeq(f.payload, n + 1, Len(f.payload))]>>
              \o Tail(q)
  BY DEF Z!Fragment
<1>2. /\ q \in Seq(WireFrames) /\ Len(q) \in Nat /\ Len(q) >= 1 /\ f = q[1]
      /\ Tail(q) \in Seq(WireFrames) /\ Len(Tail(q)) = Len(q) - 1
      /\ \A j \in 1 .. Len(q) - 1 : Tail(q)[j] = q[j + 1]
      /\ d \in Nat
  <2>1. q \in Seq(WireFrames) /\ d \in Nat
    BY DEF CompressionTypes
  <2>2. /\ Tail(q) \in Seq(WireFrames) /\ Len(Tail(q)) = Len(q) - 1
        /\ \A j \in 1 .. Len(Tail(q)) : Tail(q)[j] = q[j + 1]
    BY <1>1, <2>1, HeadTailProperties
  <2> QED
    BY <1>1, <2>1, <2>2
<1>3. /\ h \in Seq(Stories) /\ Len(h) \in Nat
  BY DEF Told
<1>4. Idle(h)
  <2>1. PICK s : s = h[d + 1]
    OBVIOUS
  <2>2. ASSUME ~Idle(h) PROVE FALSE
    <3>1. /\ d < Len(h)
          /\ CutInTwo(h, s) \/ InLast(h, s) \/ InFirst(h, s) \/ InBetween(h, s)
      BY <2>1, <2>2 DEF Phase
    <3>2. CutInTwo(h, s)
      BY <1>1, <3>1, FramesAreFrames DEF InLast, InFirst, InBetween
    <3>3. PICK a \in 0 .. Len(s.bytes) : q[1] = FirstOf(s, a)
      BY <3>2 DEF CutInTwo
    <3>4. s \in Stories
      <4>1. d + 1 \in 1 .. Len(h)
        BY <1>2, <1>3, <3>1
      <4> QED
        BY <1>3, <2>1, <4>1
    <3> QED
      BY <1>1, <1>2, <3>3, <3>4, StoryFrames
  <2> QED
    BY <2>2
<1>5. /\ Quiet(h) /\ Len(h) = Len(q) + d + InHand /\ InHand \in {0, 1}
      /\ \A j \in 1 .. Len(q) : q[j] = FrameOf(h[j + d])
  BY <1>4 DEF Idle, Follow, InHand
<1>6. d + 1 \in 1 .. Len(h) /\ d < Len(h)
  BY <1>2, <1>3, <1>5
<1>7. PICK s \in Stories : s = h[d + 1]
  BY <1>3, <1>6
<1>8. f = FrameOf(s)
  BY <1>2, <1>5, <1>7
<1>b. 0 \in 0 .. Len(s.bytes) /\ f.payload = s.bytes /\ n \in 0 .. Len(s.bytes)
  BY <1>8 DEF FrameOf, Stories
<1> DEFINE f1 == [f EXCEPT !.fin = FALSE, !.payload = SubSeq(@, 1, n)]
           f2 == [op |-> "CONTINUATION", fin |-> TRUE, rsv1 |-> FALSE,
                  payload |-> SubSeq(f.payload, n + 1, Len(f.payload))]
           two == <<f1, f2>>
           t == Tail(q)
<1>9. f1 = FirstOf(s, n) /\ f2 = RestOf(s, n)
  <2> DEFINE y == SubSeq(f.payload, 1, n)
             no == FALSE
  <2>1. f1 = [f EXCEPT !.fin = no, !.payload = y]
    OBVIOUS
  <2>2. FirstOf(s, n) \in WireFrames /\ y = FirstOf(s, n).payload /\ no \in BOOLEAN
    BY <1>b, StoryFrames DEF FirstOf
  <2>3. f \in WireFrames /\ y \in Seq(WireByte)
    <3>1. f \in WireFrames
      BY <1>8, <1>b, StoryFrames
    <3>2. FirstOf(s, n).payload \in Seq(WireByte)
      BY ONLY <2>2 DEF WireFrames
    <3> QED
      BY <2>2, <3>1, <3>2
  <2>4. f1 = FirstOf(s, n)
    <3> HIDE DEF f1, y, no, f
    <3>1. f1 = [op |-> f.op, fin |-> no, rsv1 |-> f.rsv1, payload |-> y]
      BY <2>1, <2>2, <2>3, TwoFields DEF WireFrames
    <3>2. f.op = s.op /\ f.rsv1 = s.compressed
      BY <1>8 DEF FrameOf
    <3> QED
      BY <1>b, <3>1, <3>2 DEF FirstOf, y, no
  <2>5. f2 = RestOf(s, n)
    BY <1>b DEF RestOf
  <2> QED
    BY <2>4, <2>5
<1> HIDE DEF f1, f2
<1>10. f1 \in WireFrames /\ f2 \in WireFrames
  BY ONLY <1>9, <1>b, s \in Stories, StoryFrames
<1>11. two \in Seq(WireFrames) /\ Len(two) = 2 /\ two[1] = f1 /\ two[2] = f2
  BY <1>10
<1>12. q' = two \o t
  BY <1>a DEF f1, f2
<1> HIDE DEF two, t, f, d
<1>13. /\ q' \in Seq(WireFrames) /\ Len(q') = Len(q) + 1
       /\ q'[1] = f1 /\ q'[2] = f2
       /\ \A j \in 3 .. Len(q) + 1 : q'[j] = t[j - 2]
  <2>1. t \in Seq(WireFrames) /\ Len(t) = Len(q) - 1 /\ Len(q) \in Nat /\ Len(q) >= 1
    BY <1>2 DEF t
  <2>2. /\ two \o t \in Seq(WireFrames) /\ Len(two \o t) = Len(two) + Len(t)
        /\ \A j \in 1 .. Len(two) + Len(t) :
              (two \o t)[j] = IF j <= Len(two) THEN two[j] ELSE t[j - Len(two)]
    BY <1>11, <2>1, ConcatProperties
  <2> DEFINE c == two \o t
  <2> HIDE DEF c
  <2>3. /\ c \in Seq(WireFrames) /\ Len(c) = 2 + (Len(q) - 1)
        /\ \A j \in 1 .. 2 + (Len(q) - 1) : c[j] = IF j <= 2 THEN two[j] ELSE t[j - 2]
    BY <1>11, <2>1, <2>2 DEF c
  <2>4. /\ 2 + (Len(q) - 1) = Len(q) + 1 /\ 1 \in 1 .. Len(q) + 1 /\ 2 \in 1 .. Len(q) + 1
        /\ \A j \in 3 .. Len(q) + 1 : j \in 1 .. Len(q) + 1 /\ ~(j <= 2)
    BY ONLY <2>1
  <2>5. c[1] = two[1] /\ c[2] = two[2] /\ \A j \in 3 .. Len(q) + 1 : c[j] = t[j - 2]
    BY <2>3, <2>4
  <2> QED
    BY <1>11, <1>12, <2>3, <2>4, <2>5 DEF c
<1>14. Follow(h, 2, d - 1)'
  <2>1. InHand' = InHand /\ d' = d
    BY <1>1 DEF InHand, d
  <2>2. /\ 2 <= Len(q) + 1 /\ 2 + (d - 1) >= 0
        /\ Len(h) = (Len(q) + 1) + (d - 1) + InHand
    BY ONLY <1>2, <1>3, <1>5
  <2>3. ASSUME NEW j \in 1 .. Len(q) + 1, j > 2
        PROVE  q'[j] = FrameOf(h[j + (d - 1)])
    <3>1. /\ j \in 3 .. Len(q) + 1 /\ j - 2 \in 1 .. Len(q) - 1 /\ (j - 2) + 1 = j - 1
          /\ j - 1 \in 1 .. Len(q) /\ (j - 1) + d = j + (d - 1)
      BY ONLY <1>2, <2>3, j \in 1 .. Len(q) + 1
    <3>2. q'[j] = q[j - 1]
      BY <1>2, <1>13, <3>1 DEF t
    <3> QED
      BY <1>5, <3>1, <3>2
  <2> QED
    BY ONLY <1>13, <2>1, <2>2, <2>3 DEF Follow
<1>15. CutInTwo(h, s)'
  <2>1. Quiet(h)'
    <3>1. WindowAt(h, d + 1)' = WindowAt(h, d + 1)
      BY <1>1 DEF WindowAt, d
    <3> QED
      BY <1>1, <1>5, <3>1 DEF Quiet, InSync, Ends, d
  <2>2. Follow(h, 2, Len(inflated) - 1)'
    BY <1>14 DEF d
  <2> QED
    BY <1>9, <1>13, <1>b, <2>1, <2>2 DEF CutInTwo
<1>16. Phase(h)'
  BY <1>1, <1>6, <1>7, <1>15 DEF Phase, d
<1>17. CompressionTypes'
  BY <1>1, <1>13 DEF CompressionTypes
<1> QED
  BY <1>1, <1>16, <1>17, ToldStable

\* The first bytes of a message are read next.
LEMMA BeginReading ==
    ASSUME CompressionTypes, NEW s \in Stories, InSync(s.window),
           m_istate' = m_istate, NEW fin \in BOOLEAN,
           inflated_msg' = [op |-> s.op, fin |-> fin, rsv1 |-> s.compressed,
                            payload |-> <<>>]
    PROVE  Reading(s, 0)'
<1>1. /\ s.payload \in Seq(STRING) /\ s.bytes \in Seq(WireByte)
      /\ s.window \in Seq(STRING) /\ s.op \in SentOps /\ s.compressed \in BOOLEAN
      /\ Len(s.payload) \in Nat /\ Len(s.bytes) \in Nat
  BY DEF Stories
<1>2. <<>> \in Seq(STRING)
  OBVIOUS
<1>3. /\ inflated_msg' \in [op : SentOps, fin : BOOLEAN, rsv1 : BOOLEAN, payload : Seq(STRING)]
      /\ inflated_msg'.op = s.op /\ inflated_msg'.rsv1 = s.compressed
      /\ inflated_msg'.payload = <<>>
  BY <1>1, <1>2
<1>4. ReadOf(s, 0) = 0 /\ Got(s.payload, 0) = 0 /\ Owed(s.payload, 0) = 0
  <2>1. DataBytes(s.payload) \in Nat
    BY <1>1 DEF DataBytes
  <2> QED
    BY <1>1, <2>1 DEF ReadOf, Got, Owed
<1>5. SubSeq(s.payload, 1, 0) = <<>>
  BY SubSeqEmpty
<1>6. s.window \o <<>> = s.window
  BY <1>1, ConcatEmptySeq
<1>7. Inflating(s.window, s.payload, 0, m_istate.owed, m_istate.window)
  BY <1>4, <1>5, <1>6 DEF Inflating, InSync
<1>8. Inflating(s.window, s.payload, 0, m_istate'.owed, m_istate'.window)
      /\ InSync(s.window)'
  BY <1>7 DEF InSync, Ends
<1>9. 0 \in 0 .. Len(s.bytes) /\ inflated_msg'.payload = SubSeq(s.payload, 1, ReadOf(s, 0))
  BY <1>1, <1>3, <1>4, <1>5
<1> QED
  BY ONLY <1>3, <1>8, <1>9 DEF Reading, ReadOf, Inflating, Ends, InSync

LEMMA FirstHeader ==
    ASSUME NEW f \in WireFrames, NEW s, f.op = s.op, f.rsv1 = s.compressed
    PROVE  [f EXCEPT !.payload = <<>>]
             = [op |-> s.op, fin |-> f.fin, rsv1 |-> s.compressed, payload |-> <<>>]
<1>1. \A o, c, r, x, z : [[op |-> o, fin |-> c, rsv1 |-> r, payload |-> x] EXCEPT !.payload = z]
                            = [op |-> o, fin |-> c, rsv1 |-> r, payload |-> z]
  OBVIOUS
<1>2. f = [op |-> f.op, fin |-> f.fin, rsv1 |-> f.rsv1, payload |-> f.payload]
  BY DEF WireFrames
<1>3. [f EXCEPT !.payload = <<>>]
        = [op |-> f.op, fin |-> f.fin, rsv1 |-> f.rsv1, payload |-> <<>>]
  BY ONLY <1>1, <1>2
<1> QED
  BY <1>3

LEMMA HeaderStep ==
    ASSUME CompressionTypes, NEW h, Told(h), Phase(h), Z!Header
    PROVE  CompressionTypes' /\ Told(h)' /\ Phase(h)'
<1> DEFINE q == m_send_queue
           t == Tail(q)
<1>d. PICK d : d = Len(inflated)
  OBVIOUS
<1>1. /\ q # <<>> /\ frame = Z!NoFrame
      /\ frame' = Head(q) /\ q' = t
      /\ inflated_msg' = IF frame'.op = "CONTINUATION" THEN inflated_msg
                         ELSE [frame' EXCEPT !.payload = <<>>]
      /\ UNCHANGED <<pc, msg, m_write_lock, m_dstate, accepted,
                     m_istate, inflated, zlib_err>>
  BY DEF Z!Header, Z!sendVars
<1>2. /\ q \in Seq(WireFrames) /\ Len(q) \in Nat /\ Len(q) >= 1 /\ frame' = q[1]
      /\ t \in Seq(WireFrames) /\ Len(t) = Len(q) - 1
      /\ \A j \in 1 .. Len(q) - 1 : t[j] = q[j + 1]
      /\ d \in Nat /\ frame' \in WireFrames
  <2>1. q \in Seq(WireFrames) /\ d \in Nat
    BY <1>d DEF CompressionTypes
  <2>2. /\ Tail(q) \in Seq(WireFrames) /\ Len(Tail(q)) = Len(q) - 1
        /\ \A j \in 1 .. Len(Tail(q)) : Tail(q)[j] = q[j + 1]
    BY <1>1, <2>1, HeadTailProperties
  <2> QED
    BY <1>1, <2>1, <2>2
<1>3. /\ h \in Seq(Stories) /\ Len(h) \in Nat
  BY DEF Told
<1>4. CompressionTypes'
  BY <1>1, <1>2 DEF CompressionTypes
<1>5. Told(h)'
  BY <1>1, ToldStable
<1>6. InHand' = InHand /\ Len(inflated') = d /\ InHand \in {0, 1}
  BY <1>1, <1>d DEF InHand
<1>b. frame'.fin \in BOOLEAN
  BY <1>2 DEF WireFrames
<1>n. Len(q) \in Nat /\ Len(q) >= 1
  BY <1>2
<1> HIDE DEF t
\* The rest of the queue moves up.
<1>7. ASSUME NEW c \in Nat, NEW k \in Int, Follow(h, c, k), c >= 1 \/ k >= 0
      PROVE  \A c1 \in Nat : c1 + 1 >= c /\ c1 <= Len(q) - 1 /\ c1 + k + 1 >= 0
                               => Follow(h, c1, k + 1)'
  <2> TAKE c1 \in Nat
  <2> HAVE c1 + 1 >= c /\ c1 <= Len(q) - 1 /\ c1 + k + 1 >= 0
  <2>1. /\ Len(h) = Len(q) + k + InHand
        /\ \A j \in 1 .. Len(q) : j > c => q[j] = FrameOf(h[j + k])
    BY <1>7 DEF Follow
  <2>2. Len(t) = Len(q) - 1 /\ Len(h) = (Len(q) - 1) + (k + 1) + InHand
        /\ c1 + (k + 1) >= 0
    BY ONLY <1>2, <1>3, <1>6, <2>1, c1 \in Nat, k \in Int, c1 + k + 1 >= 0
  <2>3. ASSUME NEW j \in 1 .. Len(q) - 1, j > c1
        PROVE  t[j] = FrameOf(h[j + (k + 1)])
    <3>1. j + 1 \in 1 .. Len(q) /\ j + 1 > c /\ (j + 1) + k = j + (k + 1)
      BY ONLY <1>n, <2>3, j \in 1 .. Len(q) - 1, c1 + 1 >= c, c \in Nat, c1 \in Nat, k \in Int
    <3> QED
      BY <1>2, <2>1, <3>1
  <2>4. q' = t
    BY <1>1
  <2> QED
    BY ONLY <1>2, <1>6, <2>2, <2>3, <2>4, c1 <= Len(q) - 1 DEF Follow
<1>8. CASE Idle(h)
  <2>1. /\ Quiet(h) /\ Follow(h, 0, d) /\ Len(h) = Len(q) + d + InHand
        /\ \A j \in 1 .. Len(q) : q[j] = FrameOf(h[j + d])
    BY <1>8, <1>d DEF Idle, Follow
  <2>2. d + 1 \in 1 .. Len(h) /\ d < Len(h) /\ q[1] = FrameOf(h[1 + d]) /\ 1 + d = d + 1
    BY <1>2, <1>3, <1>6, <2>1
  <2>3. PICK s \in Stories : s = h[d + 1]
    BY <1>3, <2>2
  <2>4. frame' = FrameOf(s)
    BY <1>2, <2>2, <2>3
  <2>5. s.op # "CONTINUATION" /\ frame'.op = s.op
    BY <2>4 DEF FrameOf, Stories, SentOps
  <2>6. inflated_msg' = [op |-> s.op, fin |-> frame'.fin, rsv1 |-> s.compressed,
                         payload |-> <<>>]
    <3>1. frame'.op = s.op /\ frame'.rsv1 = s.compressed
      BY <2>4 DEF FrameOf
    <3> QED
      BY <1>1, <1>2, <2>5, <3>1, FirstHeader
  <2>7. InSync(s.window)
    BY <2>1, <2>2, <2>3, <1>d DEF Quiet, WindowAt
  <2>8. Reading(s, 0)'
    BY <1>1, <1>b, <2>6, <2>7, BeginReading
  <2>9. frame'.payload = SubSeq(s.bytes, 0 + 1, Len(s.bytes)) /\ frame'.fin
    <3>1. s.bytes \in Seq(WireByte)
      BY DEF Stories
    <3>2. SubSeq(s.bytes, 1, Len(s.bytes)) = s.bytes
      BY <3>1, SubSeqFull
    <3> QED
      BY <2>4, <3>2 DEF FrameOf
  <2>10. Follow(h, 0, d + 1)'
    BY <1>2, <1>7, <2>1
  <2>11. InLast(h, s)'
    BY <1>2, <1>6, <2>8, <2>9, <2>10, <1>d DEF InLast
  <2> QED
    BY <1>4, <1>5, <1>6, <2>2, <2>3, <2>11, <1>d DEF Phase
<1>9. CASE ~Idle(h)
  <2>0. PICK s : s = h[d + 1]
    OBVIOUS
  <2>1. /\ d < Len(h)
        /\ CutInTwo(h, s) \/ InBetween(h, s)
    BY <1>1, <1>9, <2>0, FramesAreFrames, <1>d DEF Phase, InLast, InFirst
  <2>2. s \in Stories
    <3>1. d + 1 \in 1 .. Len(h)
      BY <1>2, <1>3, <2>1
    <3> QED
      BY <1>3, <2>0, <3>1
  <2>3. CASE CutInTwo(h, s)
    <3>1. PICK a \in 0 .. Len(s.bytes) : q[1] = FirstOf(s, a) /\ q[2] = RestOf(s, a)
      BY <2>3 DEF CutInTwo
    <3>2. Quiet(h) /\ Follow(h, 2, d - 1)
      BY <2>3, <1>d DEF CutInTwo
    <3>3. Len(q) >= 2
      BY <3>2 DEF Follow
    <3>4. frame' = FirstOf(s, a)
      BY <1>2, <3>1
    <3>5. s.op # "CONTINUATION" /\ frame'.op = s.op
      BY <2>2, <3>4 DEF FirstOf, Stories, SentOps
    <3>6. inflated_msg' = [op |-> s.op, fin |-> frame'.fin, rsv1 |-> s.compressed,
                           payload |-> <<>>]
      <4>1. frame'.op = s.op /\ frame'.rsv1 = s.compressed
        BY <3>4 DEF FirstOf
      <4> QED
        BY <1>1, <1>2, <3>5, <4>1, FirstHeader
    <3>7. InSync(s.window)
      BY <1>2, <1>3, <2>0, <2>1, <3>2, <1>d DEF Quiet, WindowAt
    <3>8. Reading(s, 0)'
      BY <1>1, <1>b, <2>2, <3>6, <3>7, BeginReading
    <3>9. frame'.payload = SubSeq(s.bytes, 0 + 1, a) /\ ~frame'.fin
      BY <3>4 DEF FirstOf
    <3>10. Follow(h, 1, (d - 1) + 1)' /\ (d - 1) + 1 = d
      BY <1>2, <1>7, <3>2, <3>3
    <3>11. q'[1] = RestOf(s, a)
      BY <1>1, <1>2, <3>1, <3>3
    <3>12. InFirst(h, s)'
      BY <1>2, <1>6, <3>8, <3>9, <3>10, <3>11, <1>d DEF InFirst
    <3> QED
      BY <1>4, <1>5, <1>6, <2>0, <2>1, <3>12, <1>d DEF Phase
  <2>4. CASE InBetween(h, s)
    <3>1. PICK p \in Nat : Reading(s, p) /\ q[1] = RestOf(s, p)
      BY <2>4 DEF InBetween
    <3>2. Follow(h, 1, d)
      BY <2>4, <1>d DEF InBetween
    <3>3. frame' = RestOf(s, p) /\ frame'.op = "CONTINUATION" /\ frame'.fin
          /\ frame'.payload = SubSeq(s.bytes, p + 1, Len(s.bytes))
      BY <1>2, <3>1 DEF RestOf
    <3>4. inflated_msg' = inflated_msg /\ m_istate' = m_istate
      BY <1>1, <3>3
    <3>5. Reading(s, p)'
      BY ONLY <3>1, <3>4 DEF Reading, ReadOf, Inflating, InSync, Ends
    <3>6. Follow(h, 0, d + 1)'
      BY <1>2, <1>7, <3>2
    <3>7. InLast(h, s)'
      BY <1>2, <1>6, <3>3, <3>5, <3>6, <1>d DEF InLast
    <3> QED
      BY <1>4, <1>5, <1>6, <2>0, <2>1, <3>7, <1>d DEF Phase
  <2> QED
    BY <2>1, <2>3, <2>4
<1> QED
  BY <1>8, <1>9

\* The bytes of a message arrive in order, and make it grow to what was sent.
LEMMA CompressedPayloadRead ==
    ASSUME Z!CompressionAssumption, CompressionTypes, NEW s \in Stories, Genuine(s),
           NEW p \in Nat, NEW n \in Nat, p + n <= Len(s.bytes), Reading(s, p),
           s.compressed, NEW bytes, Len(bytes) = n,
           \A i \in 1 .. n : bytes[i] = s.bytes[p + i]
    PROVE  LET z == Z!decompress(bytes)
           IN  /\ z \in ZStates
               /\ Inflating(s.window, s.payload, p + n, z.owed, z.window)
               /\ inflated_msg.payload \o z.out
                     = SubSeq(s.payload, 1, ReadOf(s, p + n))
               /\ s.op = "TEXT" => Z!utf8(z.out)
<1> DEFINE w == s.window
           in == s.payload
           z == Z!decompress(bytes)
           m == inflated_msg.payload
<1>1. /\ w \in Seq(STRING) /\ in \in Seq(STRING) /\ s.bytes \in Seq(WireByte)
      /\ Window \in Nat /\ m_istate.window \in Seq(STRING)
  BY DEF Stories, Z!CompressionAssumption, CompressionTypes
<1>2. PICK F : /\ Carries(F, w, in) /\ Len(F) = Len(s.bytes) + 4
               /\ \A i \in 1 .. Len(s.bytes) : s.bytes[i] = F[i]
  BY DEF Genuine
<1>3. /\ Inflating(w, in, p, m_istate.owed, m_istate.window)
      /\ m = SubSeq(in, 1, Got(in, p))
  BY DEF Reading, ReadOf
<1>4. p + n <= Len(F) /\ Len(s.bytes) \in Nat
  BY <1>1, <1>2
<1>5. \A i \in 1 .. n : bytes[i] = F[p + i]
  <2> TAKE i \in 1 .. n
  <2>1. p + i \in 1 .. Len(s.bytes)
    BY <1>4
  <2> QED
    BY <1>2, <2>1
<1> HIDE DEF w, in
<1>6. /\ z \in ZStates
      /\ Inflating(w, in, p + n, z.owed, z.window)
      /\ SubSeq(in, 1, Got(in, p)) \o z.out = SubSeq(in, 1, Got(in, p + n))
  <2>1. /\ w \in Seq(STRING) /\ in \in Seq(STRING) /\ Window \in Nat /\ Carries(F, w, in)
        /\ p \in Nat /\ n \in Nat /\ p + n <= Len(F) /\ Len(bytes) = n
        /\ m_istate.window \in Seq(STRING)
        /\ Inflating(w, in, p, m_istate.owed, m_istate.window)
    BY <1>1, <1>2, <1>3, <1>4
  <2>2. InflatedTo(Z!decompress(bytes), w, in, p, p + n)
    BY ONLY <2>1, <1>5, InflateRun
  <2> QED
    BY <2>2 DEF InflatedTo
<1> HIDE DEF z, m
<1>7. m \o z.out = SubSeq(in, 1, Got(in, p + n))
  BY <1>3, <1>6
<1>8. ASSUME s.op = "TEXT" PROVE Z!utf8(z.out)
  <2> DEFINE g == Got(in, p + n)
             G == SubSeq(in, 1, g)
             l == Got(in, p)
  <2>1. g \in Nat /\ g <= Len(in) /\ l \in Nat /\ l <= Len(in) /\ Len(in) \in Nat
    BY <1>1 DEF Got
  <2> HIDE DEF g, l
  <2>2. Len(G) = g /\ \A i \in 1 .. g : G[i] = in[i]
    <3>1. /\ Len(SubSeq(in, 0 + 1, g)) = g - 0
          /\ \A i \in 1 .. g - 0 : SubSeq(in, 0 + 1, g)[i] = in[0 + i]
      BY <1>1, <2>1, Slice
    <3> QED
      BY <2>1, <3>1
  <2>3. m \in Seq(STRING)
    <3>1. SubSeq(in, 0 + 1, l) \in Seq(STRING)
      BY <1>1, <2>1, Slice
    <3> QED
      BY <1>3, <3>1 DEF l, m
  <2>4. z.out \in Seq(STRING)
    BY <1>6 DEF ZStates
  <2>5. /\ Len(m \o z.out) = Len(m) + Len(z.out)
        /\ \A i \in 1 .. Len(m) + Len(z.out) :
              (m \o z.out)[i] = IF i <= Len(m) THEN m[i] ELSE z.out[i - Len(m)]
    BY <2>3, <2>4, ConcatProperties
  <2> HIDE DEF G
  <2>6. G = m \o z.out
    BY <1>7 DEF G, g
  <2>7. ASSUME NEW i \in 1 .. Len(z.out)
        PROVE  \E j \in 1 .. Len(in) : z.out[i] = in[j]
    <3> DEFINE j == Len(m) + i
    <3>1. Len(m) \in Nat /\ Len(z.out) \in Nat
      BY <2>3, <2>4
    <3>2. j \in 1 .. Len(m) + Len(z.out) /\ ~(j <= Len(m)) /\ j - Len(m) = i
      BY ONLY <3>1, i \in 1 .. Len(z.out)
    <3>3. G[j] = z.out[i]
      BY <2>5, <2>6, <3>2
    <3>4. Len(m) + Len(z.out) = g
      BY <2>2, <2>5, <2>6
    <3>5. j \in 1 .. g /\ j \in 1 .. Len(in)
      BY ONLY <2>1, <3>2, <3>4, <3>1
    <3> HIDE DEF j
    <3> QED
      BY <2>2, <3>3, <3>5
  <2>8. DOMAIN z.out = 1 .. Len(z.out) /\ DOMAIN in = 1 .. Len(in)
    BY <1>1, <2>4
  <2>9. Z!utf8(in)
    BY <1>8 DEF Genuine, in
  <2> QED
    BY <2>7, <2>8, <2>9, Utf8Part
<1>9. ReadOf(s, p + n) = Got(in, p + n)
  BY DEF ReadOf, in
<1> QED
  BY <1>6, <1>7, <1>8, <1>9 DEF z, m, in, w

LEMMA PlainPayloadRead ==
    ASSUME Z!CompressionAssumption, CompressionTypes, NEW s \in Stories, Genuine(s),
           NEW p \in Nat, NEW n \in Nat, p + n <= Len(s.bytes), Reading(s, p),
           ~s.compressed, NEW bytes, bytes = SubSeq(s.bytes, p + 1, p + n)
    PROVE  /\ bytes \in Seq(STRING)
           /\ inflated_msg.payload \o bytes = SubSeq(s.payload, 1, ReadOf(s, p + n))
           /\ s.op = "TEXT" => Z!utf8(bytes)
<1> DEFINE in == s.payload
<1>1. in \in Seq(STRING) /\ Len(in) \in Nat /\ s.bytes = in
  BY DEF Stories, Genuine
<1>2. inflated_msg.payload = SubSeq(in, 1, p) /\ ReadOf(s, p + n) = p + n
  BY DEF Reading, ReadOf
<1>3. s.op = "TEXT" => Z!utf8(in)
  BY DEF Genuine
<1> HIDE DEF in
<1>4. bytes = SubSeq(in, p + 1, p + n) /\ p + n <= Len(in) /\ p <= p + n /\ (p + n) - p = n
      /\ p + n \in Nat
  BY <1>1
<1>5. /\ bytes \in Seq(STRING) /\ Len(bytes) = n
      /\ \A i \in 1 .. n : bytes[i] = in[p + i]
  BY <1>1, <1>4, Slice
<1>6. SubSeq(in, 1, p) \o SubSeq(in, p + 1, p + n) = SubSeq(in, 1, p + n)
  BY <1>1, <1>4, SlicedFurther
<1>7. \A i \in DOMAIN bytes : \E j \in DOMAIN in : bytes[i] = in[j]
  <2>1. DOMAIN bytes = 1 .. n /\ DOMAIN in = 1 .. Len(in)
    BY <1>1, <1>5
  <2>2. \A i \in 1 .. n : p + i \in 1 .. Len(in)
    BY <1>1, <1>4
  <2> QED
    BY <1>5, <2>1, <2>2
<1>8. s.op = "TEXT" => Z!utf8(bytes)
  <2> SUFFICES ASSUME s.op = "TEXT" PROVE Z!utf8(bytes)
    OBVIOUS
  <2>1. Z!utf8(in)
    BY <1>3
  <2> QED
    BY ONLY <2>1, <1>7, Utf8Part, Zenon
<1> QED
  BY <1>2, <1>4, <1>5, <1>6, <1>8 DEF in

LEMMA MessageRead ==
    ASSUME Z!CompressionAssumption, CompressionTypes, NEW s \in Stories, Genuine(s),
           NEW p \in Nat, Reading(s, p), NEW a \in Nat, p <= a, a <= Len(s.bytes),
           frame \in WireFrames, frame.payload = SubSeq(s.bytes, p + 1, a),
           NEW n \in Nat, Z!ProcessPayload(n)
    PROVE  /\ p + n <= a /\ Reading(s, p + n)'
           /\ frame' \in WireFrames /\ frame'.fin = frame.fin
           /\ frame'.payload = SubSeq(s.bytes, (p + n) + 1, a)
           /\ zlib_err' = "none"
           /\ m_istate' \in [window : Seq(STRING), owed : 0 .. 4]
<1> DEFINE t == frame.payload
           bytes == SubSeq(t, 1, n)
           z == Z!decompress(bytes)
           new == IF inflated_msg.rsv1 THEN z.out ELSE bytes
<1>1. /\ n <= Len(t)
      /\ frame' = [frame EXCEPT !.payload = SubSeq(t, n + 1, Len(t))]
      /\ m_istate' = IF inflated_msg.rsv1 THEN Z!Stream(z) ELSE m_istate
      /\ inflated_msg' = [inflated_msg EXCEPT !.payload = inflated_msg.payload \o new]
      /\ zlib_err' = IF inflated_msg.rsv1 /\ z.bad THEN "zlib_error"
                     ELSE IF inflated_msg.op = "TEXT" /\ ~Z!utf8(new) THEN "invalid_utf8"
                     ELSE "none"
  BY DEF Z!ProcessPayload, Z!Received
<1>2. /\ s.bytes \in Seq(WireByte) /\ Len(s.bytes) \in Nat /\ s.compressed \in BOOLEAN
      /\ s.op \in SentOps /\ s.payload \in Seq(STRING) /\ s.window \in Seq(STRING)
      /\ Window \in Nat /\ m_istate \in [window : Seq(STRING), owed : 0 .. 4]
  BY DEF Stories, CompressionTypes, Z!CompressionAssumption
<1>3. Len(t) = a - p
  BY <1>2, Slice
<1>4. p + n <= a /\ p + n \in Nat /\ p + n <= Len(s.bytes)
  <2>1. n <= Len(t) /\ Len(s.bytes) \in Nat
    BY <1>1, <1>2
  <2> QED
    BY ONLY <2>1, <1>3, p \in Nat, n \in Nat, a \in Nat, a <= Len(s.bytes)
<1>5. /\ bytes = SubSeq(s.bytes, p + 1, p + n)
      /\ SubSeq(t, n + 1, Len(t)) = SubSeq(s.bytes, (p + n) + 1, a)
  BY ONLY <1>2, <1>4, p \in Nat, n \in Nat, a \in Nat, a <= Len(s.bytes),
          t = SubSeq(s.bytes, p + 1, a), SlicedFurther
<1>6. SubSeq(s.bytes, (p + n) + 1, a) \in Seq(WireByte)
  BY <1>2, <1>4, Slice
<1>7. /\ Len(bytes) = n /\ \A i \in 1 .. n : bytes[i] = s.bytes[p + i]
  <2>1. p <= p + n /\ (p + n) - p = n
    BY <1>4
  <2> QED
    BY <1>2, <1>4, <1>5, <2>1, Slice
<1> HIDE DEF t, bytes
<1>8. /\ frame' \in WireFrames /\ frame'.fin = frame.fin
      /\ frame'.payload = SubSeq(s.bytes, (p + n) + 1, a)
  <2> DEFINE r == SubSeq(t, n + 1, Len(t))
  <2>1. r \in Seq(WireByte) /\ frame' = [frame EXCEPT !.payload = r]
    BY <1>1, <1>5, <1>6
  <2>2. r = SubSeq(s.bytes, (p + n) + 1, a)
    BY <1>5
  <2> HIDE DEF r
  <2> QED
    BY <2>1, <2>2 DEF WireFrames
<1>9. /\ inflated_msg \in [op : SentOps, fin : BOOLEAN, rsv1 : BOOLEAN, payload : Seq(STRING)]
      /\ inflated_msg.op = s.op /\ inflated_msg.rsv1 = s.compressed
  BY DEF Reading
<1>10. p + n \in 0 .. Len(s.bytes)
  BY <1>2, <1>4
<1> HIDE DEF z
<1>11. CASE s.compressed
  <2>1. /\ z \in ZStates
        /\ Inflating(s.window, s.payload, p + n, z.owed, z.window)
        /\ inflated_msg.payload \o z.out = SubSeq(s.payload, 1, ReadOf(s, p + n))
        /\ s.op = "TEXT" => Z!utf8(z.out)
    BY <1>4, <1>7, <1>11, CompressedPayloadRead DEF z
  <2>2. new = z.out /\ m_istate' = Z!Stream(z) /\ zlib_err' = "none"
    BY <1>1, <1>9, <1>11, <2>1 DEF ZStates
  <2>3. /\ z.window \in Seq(STRING) /\ z.owed \in 0 .. 4 /\ z.out \in Seq(STRING)
    BY <2>1 DEF ZStates
  <2>4. Z!Last_(z.window, Window) \in Seq(STRING)
    BY <1>2, <2>3, LastOf
  <2>5. /\ m_istate' \in [window : Seq(STRING), owed : 0 .. 4]
        /\ m_istate'.owed = z.owed /\ m_istate'.window = Z!Last_(z.window, Window)
    BY <2>2, <2>3, <2>4 DEF Z!Stream
  <2>6. Inflating(s.window, s.payload, p + n, m_istate'.owed, m_istate'.window)
    <3> DEFINE x == s.window \o SubSeq(s.payload, 1, Got(s.payload, p + n))
    <3>1. x \in Seq(STRING)
      <4>1. Got(s.payload, p + n) \in Nat /\ Got(s.payload, p + n) <= Len(s.payload)
        BY <1>2, <1>4 DEF Got
      <4>2. SubSeq(s.payload, 0 + 1, Got(s.payload, p + n)) \in Seq(STRING)
        BY <1>2, <4>1, Slice
      <4> QED
        BY <1>2, <4>2, ConcatProperties
    <3>2. Ends(x, z.window)
      BY <2>1 DEF Inflating
    <3> HIDE DEF x
    <3>3. Ends(x, Z!Last_(z.window, Window))
      BY <1>2, <2>3, <3>1, <3>2, EndsLast
    <3>4. Ends(x, m_istate'.window) /\ m_istate'.owed = Owed(s.payload, p + n)
      BY <2>1, <2>5, <3>3 DEF Inflating
    <3> QED
      BY <3>4 DEF Inflating, x
  <2>7. /\ inflated_msg' \in [op : SentOps, fin : BOOLEAN, rsv1 : BOOLEAN, payload : Seq(STRING)]
        /\ inflated_msg'.op = s.op /\ inflated_msg'.rsv1 = s.compressed
        /\ inflated_msg'.payload = SubSeq(s.payload, 1, ReadOf(s, p + n))
    <3> DEFINE y == inflated_msg.payload \o new
    <3>1. y \in Seq(STRING)
      BY <1>9, <2>2, <2>3, ConcatProperties
    <3>2. inflated_msg' = [inflated_msg EXCEPT !.payload = y]
      BY <1>1
    <3>3. y = SubSeq(s.payload, 1, ReadOf(s, p + n))
      BY <2>1, <2>2
    <3> HIDE DEF y, new
    <3> QED
      BY <1>9, <3>1, <3>2, <3>3
  <2>8. Reading(s, p + n)'
    BY ONLY <1>10, <1>11, <2>6, <2>7 DEF Reading, ReadOf, Inflating, Ends
  <2> QED
    BY <1>4, <1>8, <2>2, <2>5, <2>8
<1>12. CASE ~s.compressed
  <2>1. /\ bytes \in Seq(STRING)
        /\ inflated_msg.payload \o bytes = SubSeq(s.payload, 1, ReadOf(s, p + n))
        /\ s.op = "TEXT" => Z!utf8(bytes)
    BY <1>4, <1>5, <1>12, PlainPayloadRead
  <2>2. new = bytes /\ m_istate' = m_istate /\ zlib_err' = "none"
    BY <1>1, <1>9, <1>12, <2>1
  <2>3. InSync(s.window)
    BY <1>12 DEF Reading
  <2>4. InSync(s.window)'
    BY <2>2, <2>3 DEF InSync, Ends
  <2>5. /\ inflated_msg' \in [op : SentOps, fin : BOOLEAN, rsv1 : BOOLEAN, payload : Seq(STRING)]
        /\ inflated_msg'.op = s.op /\ inflated_msg'.rsv1 = s.compressed
        /\ inflated_msg'.payload = SubSeq(s.payload, 1, ReadOf(s, p + n))
    <3> DEFINE y == inflated_msg.payload \o new
    <3>1. y \in Seq(STRING)
      BY <1>9, <2>1, <2>2, ConcatProperties
    <3>2. inflated_msg' = [inflated_msg EXCEPT !.payload = y]
      BY <1>1
    <3>3. y = SubSeq(s.payload, 1, ReadOf(s, p + n))
      BY <2>1, <2>2
    <3> HIDE DEF y, new
    <3> QED
      BY <1>9, <3>1, <3>2, <3>3
  <2>6. Reading(s, p + n)'
    BY ONLY <1>10, <1>12, <2>4, <2>5 DEF Reading, ReadOf
  <2> QED
    BY <1>2, <1>4, <1>8, <2>2, <2>6
<1> QED
  BY <1>2, <1>11, <1>12

LEMMA ProcessPayloadStep ==
    ASSUME Z!CompressionAssumption, CompressionTypes, NEW h, Told(h), Phase(h),
           NEW n \in Nat, Z!ProcessPayload(n)
    PROVE  CompressionTypes' /\ Told(h)' /\ Phase(h)'
<1>d. PICK d : d = Len(inflated)
  OBVIOUS
<1>s. PICK s : s = h[d + 1]
  OBVIOUS
<1>1. /\ frame # Z!NoFrame
      /\ UNCHANGED <<m_flush, pc, msg, m_write_lock, m_dstate, accepted,
                     m_send_queue, inflated>>
  BY DEF Z!ProcessPayload, Z!sendVars
<1>2. d < Len(h) /\ (InLast(h, s) \/ InFirst(h, s))
  BY <1>1, <1>d, <1>s DEF Phase, Idle, CutInTwo, InBetween, Quiet
<1>3. /\ h \in Seq(Stories) /\ Len(h) \in Nat /\ d \in Nat
      /\ \A i \in 1 .. Len(h) : Genuine(h[i])
  BY <1>d DEF Told, CompressionTypes
<1>4. s \in Stories /\ Genuine(s)
  <2>1. d + 1 \in 1 .. Len(h)
    BY <1>2, <1>3
  <2> QED
    BY <1>3, <1>s, <2>1
<1>5. Len(s.bytes) \in Nat
  BY <1>4 DEF Stories
<1>6. Told(h)'
  BY <1>1, ToldStable
<1>7. InHand' = InHand /\ Len(inflated') = d
  BY <1>1, <1>d DEF InHand
<1>8. \A c \in Nat, k \in Int : Follow(h, c, k) => Follow(h, c, k)'
  BY <1>1, <1>7 DEF Follow
<1>9. ASSUME zlib_err' = "none", m_istate' \in [window : Seq(STRING), owed : 0 .. 4]
      PROVE  CompressionTypes'
  BY <1>1, <1>9 DEF CompressionTypes
<1>10. CASE InLast(h, s)
  <2>1. PICK p \in Nat : /\ Reading(s, p)
                         /\ frame.payload = SubSeq(s.bytes, p + 1, Len(s.bytes))
    BY <1>10 DEF InLast
  <2>2. p <= Len(s.bytes) /\ Len(s.bytes) <= Len(s.bytes)
    BY <1>5, <2>1 DEF Reading
  <2>3. frame \in WireFrames /\ frame.fin /\ Follow(h, 0, d + 1)
    BY <1>10, <1>d DEF InLast
  <2>4. /\ p + n <= Len(s.bytes) /\ Reading(s, p + n)'
        /\ frame' \in WireFrames /\ frame'.fin = frame.fin
        /\ frame'.payload = SubSeq(s.bytes, (p + n) + 1, Len(s.bytes))
        /\ zlib_err' = "none"
        /\ m_istate' \in [window : Seq(STRING), owed : 0 .. 4]
    BY <1>4, <1>5, <2>1, <2>2, <2>3, MessageRead
  <2>5. Follow(h, 0, d + 1)' /\ p + n \in Nat
    BY <1>3, <1>8, <2>3
  <2>6. InLast(h, s)'
    BY <1>7, <2>3, <2>4, <2>5 DEF InLast
  <2> QED
    BY <1>2, <1>6, <1>7, <1>9, <1>s, <2>4, <2>6 DEF Phase
<1>11. CASE InFirst(h, s)
  <2>1. PICK p \in Nat, a \in 0 .. Len(s.bytes) :
           /\ p <= a /\ Reading(s, p)
           /\ frame.payload = SubSeq(s.bytes, p + 1, a)
           /\ m_send_queue[1] = RestOf(s, a)
    BY <1>11 DEF InFirst
  <2>2. a \in Nat /\ a <= Len(s.bytes)
    BY <1>5
  <2>3. frame \in WireFrames /\ ~frame.fin /\ Follow(h, 1, d)
    BY <1>11, <1>d DEF InFirst
  <2>4. /\ p + n <= a /\ Reading(s, p + n)'
        /\ frame' \in WireFrames /\ frame'.fin = frame.fin
        /\ frame'.payload = SubSeq(s.bytes, (p + n) + 1, a)
        /\ zlib_err' = "none"
        /\ m_istate' \in [window : Seq(STRING), owed : 0 .. 4]
    BY <1>4, <2>1, <2>2, <2>3, MessageRead
  <2>5. Follow(h, 1, d)' /\ p + n \in Nat
    BY <1>3, <1>8, <2>3
  <2>6. m_send_queue'[1] = RestOf(s, a)
    BY <1>1, <2>1
  <2>7. InFirst(h, s)'
    BY <1>7, <2>3, <2>4, <2>5, <2>6 DEF InFirst
  <2> QED
    BY <1>2, <1>6, <1>7, <1>9, <1>s, <2>4, <2>7 DEF Phase
<1> QED
  BY <1>2, <1>10, <1>11

\* The four bytes that the sender took off complete the flush.
LEMMA TailRead ==
    ASSUME Z!CompressionAssumption, CompressionTypes, NEW s \in Stories, Genuine(s),
           s.compressed, NEW p \in Nat, p = Len(s.bytes), Reading(s, p)
    PROVE  LET z == Z!decompress(Z!Trailer)
           IN  /\ z \in ZStates /\ z.owed = 0 /\ Ends(s.after, z.window)
               /\ inflated_msg.payload \o z.out = s.payload
<1> DEFINE w == s.window
           in == s.payload
           z == Z!decompress(Z!Trailer)
           m == inflated_msg.payload
           b == DataBytes(in)
<1>1. /\ w \in Seq(STRING) /\ in \in Seq(STRING) /\ Len(in) \in Nat
      /\ Window \in Nat /\ m_istate.window \in Seq(STRING)
  BY DEF Stories, Z!CompressionAssumption, CompressionTypes
<1>2. PICK F : Carries(F, w, in) /\ Len(F) = p + 4
  BY DEF Genuine
<1>3. /\ Inflating(w, in, p, m_istate.owed, m_istate.window)
      /\ m = SubSeq(in, 1, Got(in, p))
  BY DEF Reading, ReadOf
<1>4. Leaves(s.after, w, in)
  BY DEF Genuine
<1>5. b \in Nat /\ Len(in) <= b
  BY <1>1 DEF DataBytes
<1>6. /\ Len(F) = b + 5 \/ Len(F) = b + 10
      /\ \A q \in 1 .. Len(F) - b : F[b + q] = MarkerByte(q)
  BY <1>2 DEF Carries
<1> HIDE DEF w, in, z, m, b
<1>7. /\ p = b + 1 \/ p = b + 6
      /\ p + 4 <= Len(F) /\ Len(F) \in Nat /\ Len(in) <= p + 4 /\ p + 4 \in Nat
  <2>1. Len(F) = p + 4 /\ (Len(F) = b + 5 \/ Len(F) = b + 10)
    BY <1>2, <1>6
  <2> QED
    BY ONLY <1>1, <1>5, <2>1, p \in Nat
<1>8. Len(Z!Trailer) = 4 /\ \A i \in 1 .. 4 : Z!Trailer[i] = F[p + i]
  <2>1. Len(Z!Trailer) = 4 /\ \A i \in 1 .. 4 : Z!Trailer[i] = MarkerByte(i + 1)
    BY MarkerFacts
  <2>2. \A i \in 1 .. 4 : MarkerByte(i + 1) = MarkerByte(i + 6)
    BY DEF MarkerByte
  <2>3. ASSUME NEW i \in 1 .. 4 PROVE F[p + i] = MarkerByte(i + 1)
    <3>1. CASE p = b + 1
      <4>1. i + 1 \in 1 .. Len(F) - b /\ b + (i + 1) = p + i
        BY ONLY <1>2, <3>1, <1>5, i \in 1 .. 4
      <4> QED
        BY <1>6, <4>1
    <3>2. CASE p = b + 6
      <4>1. i + 6 \in 1 .. Len(F) - b /\ b + (i + 6) = p + i
        BY ONLY <1>2, <3>2, <1>5, i \in 1 .. 4
      <4> QED
        BY <1>6, <2>2, <4>1
    <3> QED
      BY <1>7, <3>1, <3>2
  <2> QED
    BY <2>1, <2>3
<1>9. InflatedTo(z, w, in, p, p + 4)
  <2>1. 4 \in Nat /\ \A i \in 1 .. 4 : Z!Trailer[i] = F[p + i]
    BY <1>8
  <2>2. InflatedTo(Z!decompress(Z!Trailer), w, in, p, p + 4)
    BY ONLY <1>1, <1>2, <1>3, <1>7, <1>8, <2>1, p \in Nat, InflateRun
  <2> QED
    BY <2>2 DEF z
<1>10. Got(in, p + 4) = Len(in) /\ Owed(in, p + 4) = 0
  <2>1. (p + 4) - b = 5 \/ (p + 4) - b = 10
    BY ONLY <1>5, <1>7, p \in Nat
  <2>2. Owed(in, p + 4) = IF (p + 4) - b <= 0 THEN 0
                          ELSE IF (p + 4) - b <= 5 THEN 5 - ((p + 4) - b)
                          ELSE 10 - ((p + 4) - b)
    BY DEF Owed, b
  <2>3. Owed(in, p + 4) = 0
    BY ONLY <2>1, <2>2, <1>5, p \in Nat
  <2>4. Got(in, p + 4) = Len(in)
    BY <1>1, <1>7 DEF Got
  <2> QED
    BY <2>3, <2>4
<1>11. SubSeq(in, 1, Len(in)) = in
  BY <1>1, SubSeqFull
<1>12. /\ z \in ZStates /\ z.owed = 0 /\ Ends(w \o in, z.window) /\ m \o z.out = in
  BY <1>3, <1>9, <1>10, <1>11 DEF InflatedTo, Inflating
<1>13. Ends(s.after, z.window)
  <2>1. z.window \in Seq(STRING) /\ w \o in \in Seq(STRING)
    BY <1>1, <1>12, ConcatProperties DEF ZStates
  <2>2. CASE s.after = <<>>
    BY <2>1, <2>2, EndsNothing
  <2>3. CASE s.after = Z!Last_(w \o in, Window)
    BY <1>1, <1>12, <2>1, <2>3, EndsLast
  <2>4. CASE in = <<>> /\ s.after = w
    <3>1. w \o in = w
      BY <1>1, <2>4, ConcatEmptySeq
    <3> QED
      BY <1>12, <2>4, <3>1
  <2> QED
    BY <1>4, <2>2, <2>3, <2>4 DEF Leaves
<1> QED
  BY <1>12, <1>13 DEF z, m, in

LEMMA EndFrameStep ==
    ASSUME Z!CompressionAssumption, CompressionTypes, NEW h, Told(h), Phase(h),
           Z!EndFrame
    PROVE  CompressionTypes' /\ Told(h)' /\ Phase(h)'
<1>d. PICK d : d = Len(inflated)
  OBVIOUS
<1>s. PICK s : s = h[d + 1]
  OBVIOUS
<1>1. /\ frame # Z!NoFrame /\ frame.payload = <<>> /\ frame' = Z!NoFrame
      /\ UNCHANGED <<m_flush, pc, msg, m_write_lock, m_dstate, accepted,
                     m_send_queue>>
  BY DEF Z!EndFrame, Z!sendVars
<1>2. d < Len(h) /\ (InLast(h, s) \/ InFirst(h, s))
  BY <1>1, <1>d, <1>s DEF Phase, Idle, CutInTwo, InBetween, Quiet
<1>3. /\ h \in Seq(Stories) /\ Len(h) \in Nat /\ d \in Nat
      /\ \A i \in 1 .. Len(h) : Genuine(h[i])
  BY <1>d DEF Told, CompressionTypes
<1>4. d + 1 \in 1 .. Len(h)
  BY <1>2, <1>3
<1>5. s \in Stories /\ Genuine(s)
  BY <1>3, <1>4, <1>s
<1>6. /\ s.bytes \in Seq(WireByte) /\ Len(s.bytes) \in Nat /\ s.compressed \in BOOLEAN
      /\ s.op \in SentOps /\ s.payload \in Seq(STRING) /\ s.window \in Seq(STRING)
      /\ s.after \in Seq(STRING)
      /\ Window \in Nat /\ m_istate \in [window : Seq(STRING), owed : 0 .. 4]
  BY <1>5 DEF Stories, CompressionTypes, Z!CompressionAssumption
<1>7. InHand' = InHand
  BY <1>1 DEF InHand
<1>8. \A c \in Nat, k \in Int : Follow(h, c, k) => Follow(h, c, k)'
  BY <1>1, <1>7 DEF Follow
\* A frame that is empty has been read.
<1>9. ASSUME NEW p \in Nat, NEW a \in Nat, p <= a, a <= Len(s.bytes),
             frame.payload = SubSeq(s.bytes, p + 1, a)
      PROVE  p = a
  <2>1. Len(SubSeq(s.bytes, p + 1, a)) = a - p
    BY <1>6, <1>9, Slice
  <2>2. Len(<<>>) = 0
    OBVIOUS
  <2>3. a - p = 0
    BY <1>1, <1>9, <2>1, <2>2
  <2> QED
    BY <2>3
<1>10. CASE InFirst(h, s)
  <2>1. PICK p \in Nat, a \in 0 .. Len(s.bytes) :
           /\ p <= a /\ Reading(s, p)
           /\ frame.payload = SubSeq(s.bytes, p + 1, a)
           /\ m_send_queue[1] = RestOf(s, a)
    BY <1>10 DEF InFirst
  <2>2. a \in Nat /\ a <= Len(s.bytes)
    BY <1>6
  <2>3. ~frame.fin /\ Follow(h, 1, d)
    BY <1>10, <1>d DEF InFirst
  <2>4. p = a
    BY <1>9, <2>1, <2>2
  <2>5. UNCHANGED <<m_istate, inflated_msg, inflated, zlib_err>>
    BY <2>3 DEF Z!EndFrame
  <2>6. Reading(s, p)'
    BY ONLY <2>1, <2>5 DEF Reading, ReadOf, Inflating, InSync, Ends
  <2>7. Follow(h, 1, d)' /\ m_send_queue'[1] = RestOf(s, p) /\ Len(inflated') = d
    BY <1>1, <1>3, <1>8, <1>d, <2>1, <2>3, <2>4, <2>5
  <2>8. InBetween(h, s)'
    BY <1>1, <2>6, <2>7 DEF InBetween
  <2>9. CompressionTypes'
    BY <1>1, <2>5 DEF CompressionTypes
  <2> QED
    BY <1>1, <1>2, <1>s, <2>5, <2>7, <2>8, <2>9, ToldStable DEF Phase
<1>11. CASE InLast(h, s)
  <2>1. PICK p \in Nat : /\ Reading(s, p)
                         /\ frame.payload = SubSeq(s.bytes, p + 1, Len(s.bytes))
    BY <1>11 DEF InLast
  <2>2. p <= Len(s.bytes) /\ Len(s.bytes) <= Len(s.bytes)
    BY <1>6, <2>1 DEF Reading
  <2>3. frame.fin /\ Follow(h, 0, d + 1)
    BY <1>11, <1>d DEF InLast
  <2>4. p = Len(s.bytes)
    BY <1>6, <1>9, <2>1, <2>2
  <2> DEFINE z == Z!decompress(Z!Trailer)
             m == inflated_msg
             whole == m.payload \o (IF m.rsv1 THEN z.out ELSE <<>>)
  <2>5. /\ m_istate' = IF m.rsv1 THEN Z!Stream(z) ELSE m_istate
        /\ inflated_msg' = Z!NoFrame
        /\ ~(m.rsv1 /\ z.bad) =>
              /\ inflated' = Append(inflated, [op |-> m.op, payload |-> whole])
              /\ zlib_err' = zlib_err
    BY <2>3 DEF Z!EndFrame, Z!Received
  <2>6. m.op = s.op /\ m.rsv1 = s.compressed /\ m.payload \in Seq(STRING)
        /\ m.payload = SubSeq(s.payload, 1, ReadOf(s, p))
    BY <2>1 DEF Reading
  <2> HIDE DEF z, m
  \* The stream is where the next message begins, and the message is whole.
  <2>7. /\ ~(m.rsv1 /\ z.bad) /\ whole = s.payload
        /\ m_istate' \in [window : Seq(STRING), owed : 0 .. 4]
        /\ m_istate'.owed = 0 /\ Ends(s.after, m_istate'.window)
    <3>1. CASE s.compressed
      <4>1. /\ z \in ZStates /\ z.owed = 0 /\ Ends(s.after, z.window)
            /\ m.payload \o z.out = s.payload
        BY <1>5, <2>1, <2>4, <3>1, TailRead DEF z, m
      <4>2. ~z.bad /\ z.window \in Seq(STRING)
        BY <4>1 DEF ZStates
      <4>3. m_istate' = [window |-> Z!Last_(z.window, Window), owed |-> z.owed]
        BY <2>5, <2>6, <3>1 DEF Z!Stream
      <4>4. Z!Last_(z.window, Window) \in Seq(STRING)
            /\ Ends(s.after, Z!Last_(z.window, Window))
        BY <1>6, <4>1, <4>2, LastOf, EndsLast
      <4>5. /\ m_istate' \in [window : Seq(STRING), owed : 0 .. 4]
            /\ m_istate'.owed = 0 /\ m_istate'.window = Z!Last_(z.window, Window)
        BY <4>1, <4>3, <4>4
      <4> QED
        BY <2>6, <3>1, <4>1, <4>2, <4>4, <4>5
    <3>2. CASE ~s.compressed
      <4>1. InSync(s.window) /\ ReadOf(s, p) = p
        BY <2>1, <3>2 DEF Reading, ReadOf
      <4>2. s.bytes = s.payload /\ s.after = s.window
        BY <1>5, <3>2 DEF Genuine
      <4>3. m.payload = s.payload
        BY <1>6, <2>4, <2>6, <4>1, <4>2, SubSeqFull
      <4>4. m.payload \o <<>> = m.payload
        BY <2>6, ConcatEmptySeq
      <4>5. m_istate' = m_istate
        BY <2>5, <2>6, <3>2
      <4> QED
        BY <1>6, <2>6, <3>2, <4>1, <4>2, <4>3, <4>4, <4>5 DEF InSync
    <3> QED
      BY <1>6, <3>1, <3>2
  <2>8. PICK e : e = [op |-> s.op, payload |-> s.payload]
    OBVIOUS
  <2>9. inflated' = Append(inflated, e) /\ zlib_err' = zlib_err
    BY <2>5, <2>6, <2>7, <2>8
  <2>10. e \in PlainMessages
    BY <1>6, <2>8 DEF PlainMessages
  <2>11. inflated \in Seq(PlainMessages)
    BY DEF CompressionTypes
  <2>12. /\ inflated' \in Seq(PlainMessages) /\ Len(inflated') = d + 1
         /\ inflated'[d + 1] = e /\ \A i \in 1 .. d : inflated'[i] = inflated[i]
    BY <1>d, <2>9, <2>10, <2>11, AppendProperties
  <2>13. CompressionTypes'
    BY <1>1, <2>7, <2>9, <2>12 DEF CompressionTypes
  <2>14. \A i : WindowAt(h, i)' = WindowAt(h, i)
    BY <1>1 DEF WindowAt
  <2>15. Told(h)'
    <3>1. /\ h \in Seq(Stories)
          /\ \A i \in 1 .. Len(h) : Genuine(h[i]) /\ h[i].after = WindowAt(h, i + 1)'
          /\ Len(accepted) = Len(h)
          /\ \A i \in 1 .. Len(h) :
                accepted[i] = [op |-> h[i].op, payload |-> h[i].payload]
          /\ \A t \in Threads :
                pc[t] = "push" => Len(h) > 0 /\ msg[t] = FrameOf(h[Len(h)])
          /\ \A i \in 1 .. d : inflated[i] = accepted[i]
      BY <1>d, <2>14 DEF Told
    <3>2. accepted[d + 1] = e
      BY <1>4, <1>s, <2>8, <3>1
    <3>3. ASSUME NEW i \in 1 .. d + 1 PROVE inflated'[i] = accepted[i]
      <4>1. CASE i = d + 1
        BY <2>12, <3>2, <4>1
      <4>2. CASE i \in 1 .. d
        BY <2>12, <3>1, <4>2
      <4> QED
        BY <1>3, <4>1, <4>2
    <3>4. Len(inflated') <= Len(h) /\ \A i \in 1 .. Len(inflated') : inflated'[i] = accepted[i]
      BY <1>4, <2>12, <3>3
    <3> QED
      BY <1>1, <3>1, <3>4 DEF Told
  <2>16. WindowAt(h, d + 2) = s.after
    <3>1. h[d + 1].after = WindowAt(h, (d + 1) + 1) /\ (d + 1) + 1 = d + 2
      BY <1>3, <1>4 DEF Told
    <3> QED
      BY <1>s, <3>1
  <2>17. Quiet(h)'
    <3>1. Len(inflated') + 1 = d + 2
      BY <1>3, <2>12
    <3>2. WindowAt(h, Len(inflated) + 1)' = s.after
      BY <2>14, <2>16, <3>1
    <3> QED
      BY <1>1, <2>5, <2>7, <3>2 DEF Quiet, InSync, Ends
  <2>18. Follow(h, 0, d + 1)'
    BY <1>3, <1>8, <2>3
  <2>19. Idle(h)'
    BY <2>12, <2>17, <2>18 DEF Idle
  <2> QED
    BY <2>13, <2>15, <2>19 DEF Phase
<1> QED
  BY <1>2, <1>10, <1>11

LEMMA StreamsInit == Z!Init => StreamsInvariant
<1> SUFFICES ASSUME Z!Init PROVE StreamsInvariant
  OBVIOUS
<1>1. /\ m_istate = [window |-> <<>>, owed |-> 0] /\ m_dstate = <<>>
      /\ zlib_err = "none" /\ m_send_queue = <<>> /\ accepted = <<>> /\ inflated = <<>>
      /\ pc = [t \in Threads |-> "idle"] /\ msg = [t \in Threads |-> Z!NoFrame]
      /\ frame = Z!NoFrame /\ inflated_msg = Z!NoFrame
  BY DEF Z!Init
<1>2. \A S : <<>> \in Seq(S)
  OBVIOUS
<1>3. CompressionTypes
  BY <1>1, <1>2 DEF CompressionTypes
<1>4. Told(<<>>)
  <2>1. Len(<<>>) = 0 /\ \A t \in Threads : pc[t] # "push"
    BY <1>1
  <2>2. <<>> \in Seq(Stories)
    BY <1>2
  <2> QED
    BY <1>1, <2>1, <2>2 DEF Told
<1>5. InSync(<<>>)
  <2>1. m_istate.owed = 0 /\ m_istate.window = <<>>
    BY <1>1
  <2>2. Ends(<<>>, <<>>)
    BY <1>2, EndsNothing
  <2> QED
    BY <2>1, <2>2 DEF InSync
<1>6. Idle(<<>>)
  <2>1. WindowAt(<<>>, 1) = <<>> /\ Len(<<>>) = 0
    BY <1>1 DEF WindowAt
  <2>2. InHand = 0
    BY <1>1 DEF InHand
  <2>3. Follow(<<>>, 0, 0)
    BY <1>1, <2>1, <2>2 DEF Follow
  <2>4. Quiet(<<>>)
    BY <1>1, <1>5, <2>1 DEF Quiet
  <2> QED
    BY <1>1, <2>1, <2>3, <2>4 DEF Idle
<1> QED
  BY <1>3, <1>4, <1>6 DEF StreamsInvariant, Phase

LEMMA StreamsStep ==
    ASSUME Z!CompressionAssumption, StreamsInvariant, [Z!Next]_zlibVars
    PROVE  StreamsInvariant'
<1>1. PICK h : Told(h) /\ Phase(h)
  BY DEF StreamsInvariant
<1>2. CompressionTypes
  BY DEF StreamsInvariant
<1>3. SUFFICES CompressionTypes' /\ \E g : Told(g)' /\ Phase(g)'
  BY DEF StreamsInvariant
<1>4. CASE UNCHANGED zlibVars
  <2>1. UNCHANGED <<m_flush, pc, msg, m_write_lock, m_dstate, m_send_queue, accepted,
                    m_istate, frame, inflated_msg, inflated, zlib_err>>
    BY <1>4 DEF zlibVars
  <2>2. CompressionTypes'
    BY <1>2, <2>1 DEF CompressionTypes
  <2>3. InHand' = InHand
    BY <2>1 DEF InHand
  <2>4. Told(h)' /\ Phase(h)'
    BY <1>1, <1>2, <2>1, <2>3, SenderLocalStep
  <2> QED
    BY <2>2, <2>4
<1>5. ASSUME NEW t \in Threads, NEW m \in Messages, Z!Send(t, m)
      PROVE  CompressionTypes' /\ \E g : Told(g)' /\ Phase(g)'
  BY <1>1, <1>2, <1>5, SendStep
<1>6. ASSUME NEW t \in Threads, Z!Acquire(t)
      PROVE  CompressionTypes' /\ \E g : Told(g)' /\ Phase(g)'
  BY <1>1, <1>2, <1>6, AcquireStep
<1>7. ASSUME NEW t \in Threads, Z!Prepare(t)
      PROVE  CompressionTypes' /\ \E g : Told(g)' /\ Phase(g)'
  BY <1>1, <1>2, <1>7, PrepareStep
<1>8. ASSUME NEW t \in Threads, Z!Push(t)
      PROVE  CompressionTypes' /\ \E g : Told(g)' /\ Phase(g)'
  BY <1>1, <1>2, <1>8, PushStep
<1>9. CASE Z!Fragment
  BY <1>1, <1>2, <1>9, FragmentStep
<1>10. CASE Z!Header
  BY <1>1, <1>2, <1>10, HeaderStep
<1>11. ASSUME NEW n \in 1 .. CompressBufferSize + 4, Z!ProcessPayload(n)
       PROVE  CompressionTypes' /\ \E g : Told(g)' /\ Phase(g)'
  <2>1. n \in Nat
    BY DEF Z!CompressionAssumption
  <2> QED
    BY <1>1, <1>2, <1>11, <2>1, ProcessPayloadStep
<1>12. CASE Z!EndFrame
  BY <1>1, <1>2, <1>12, EndFrameStep
<1> QED
  BY <1>4, <1>5, <1>6, <1>7, <1>8, <1>9, <1>10, <1>11, <1>12 DEF Z!Next

LEMMA StreamsInvariantAgrees == StreamsInvariant => Z!StreamsAgree
<1> SUFFICES ASSUME StreamsInvariant PROVE Z!StreamsAgree
  OBVIOUS
<1>1. PICK h : Told(h)
  BY DEF StreamsInvariant
<1>2. /\ accepted \in Seq(PlainMessages) /\ inflated \in Seq(PlainMessages)
      /\ zlib_err = "none"
  BY DEF StreamsInvariant, CompressionTypes
<1> DEFINE l == Len(inflated)
<1>3. l \in Nat /\ l <= Len(accepted) /\ \A i \in 1 .. l : inflated[i] = accepted[i]
  BY <1>1, <1>2 DEF Told
<1>4. SubSeq(inflated, 1, l) = inflated
  BY <1>2, SubSeqFull
<1> DEFINE a == SubSeq(accepted, 1, l)
<1>5. a \in Seq(PlainMessages) /\ Len(a) = l /\ \A i \in 1 .. l : a[i] = accepted[i]
  <2> HIDE DEF l
  <2>1. /\ SubSeq(accepted, 0 + 1, l) \in Seq(PlainMessages)
        /\ Len(SubSeq(accepted, 0 + 1, l)) = l - 0
        /\ \A i \in 1 .. l - 0 : SubSeq(accepted, 0 + 1, l)[i] = accepted[0 + i]
    BY <1>2, <1>3, Slice
  <2> QED
    BY <1>3, <2>1
<1> HIDE DEF a
<1>6. inflated = a
  <2>1. \A i \in 1 .. Len(inflated) : inflated[i] = a[i]
    BY <1>3, <1>5
  <2> QED
    BY <1>2, <1>5, <2>1, SeqEqual
<1> QED
  BY <1>2, <1>3, <1>4, <1>6 DEF Z!StreamsAgree, Z!IsPrefix, a

\* What send() accepts arrives: whatever threads call it, however the frames
\* are cut and however much of a frame is read at a time, the messages that the
\* other side inflates are the first ones that were accepted, whole and in the
\* order in which they were compressed, and zlib reports no error.
THEOREM StreamsAgreeAlways == MCSpec => []StreamsAgree
<1> DEFINE Inv == part = "compression" => StreamsInvariant
<1> USE InputsAssumption
<1>1. MCInit => Inv
  BY StreamsInit DEF MCInit
<1>2. Inv /\ [MCNext]_allVars => Inv'
  <2> SUFFICES ASSUME Inv, [MCNext]_allVars, part' = "compression"
               PROVE  StreamsInvariant'
    OBVIOUS
  <2>1. part = "compression" /\ [Z!Next]_zlibVars
    BY DEF MCNext, allVars, FramesNext, Utf8Next, HttpNext, Hybi00Next, CompressionNext
  <2> QED
    BY <2>1, StreamsStep
<1>3. Inv => StreamsAgree
  BY StreamsInvariantAgrees DEF StreamsAgree
<1> QED
  BY <1>1, <1>2, <1>3, PTL DEF MCSpec

-----------------------------------------------------------------------------
(***************************************************************************)
(* Frames (Hybi13): the other parts leave the parser as it is, so that its *)
(* theorems hold of MCSpec.                                                *)
(***************************************************************************)

LEMMA FramesPart == MCSpec => Spec
<1>1. MCInit => Init
  BY DEF MCInit
<1>2. [MCNext]_allVars => [Next]_vars
  BY DEF MCNext, allVars, FramesNext, Utf8Next, HttpNext, Hybi00Next, CompressionNext
<1> QED
  BY <1>1, <1>2, PTL DEF MCSpec, Spec

\* Types and bounds of the parser hold; a data message never grows beyond the
\* maximum size, if no size wraps around; and the connection never waits for
\* bytes with a complete frame in its hands.
THEOREM FramesBoundedAlways == ASSUME NoSizeWraps PROVE MCSpec => []FramesBounded
<1>1. HInv => FramesBounded
  BY TypeOKHolds, WithinMaxSizeHolds, PromptHolds DEF FramesBounded
<1>2. Spec => []HInv
  BY ParserInvariant
<1>3. MCSpec => Spec
  BY FramesPart
<1> QED
  BY <1>1, <1>2, <1>3, PTL

=============================================================================
