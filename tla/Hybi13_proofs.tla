---------------------------- MODULE Hybi13_proofs ----------------------------
(***************************************************************************)
(* The frame parser (Hybi13): however the transport cuts the bytes into    *)
(* reads, for frames of any sizes, fragments and keys, it does what        *)
(* MessageStream does with whole frames.                                   *)
(***************************************************************************)
EXTENDS Hybi13, Counting, SequenceTheorems

-----------------------------------------------------------------------------
(***************************************************************************)
(* Validate: the state after the bytes of a sequence.                      *)
(***************************************************************************)

\* f goes through the states after the first bytes of s.
Goes(f, state, s, N) ==
    f = [k \in 0 .. N |-> IF k = 0 THEN state ELSE decode(f[k - 1], s[k])]

LEMMA GoesExists ==
    ASSUME NEW state, NEW s, NEW L \in Nat
    PROVE  \E f : Goes(f, state, s, L)
<1> DEFINE X == {N \in Nat : \E f : Goes(f, state, s, N)}
<1>1. 0 \in X
  <2> DEFINE f == [k \in 0 .. 0 |-> state]
  <2>1. Goes(f, state, s, 0)
    BY DEF Goes
  <2> QED
    BY <2>1
<1>2. ASSUME NEW N \in Nat, N \in X PROVE N + 1 \in X
  <2>1. PICK f : Goes(f, state, s, N)
    BY <1>2
  <2> DEFINE v == decode(f[N], s[N + 1])
             g == [k \in 0 .. N + 1 |-> IF k = N + 1 THEN v ELSE f[k]]
  <2>2. \A k \in 0 .. N + 1 : g[k] = IF k = 0 THEN state ELSE decode(g[k - 1], s[k])
    <3> TAKE k \in 0 .. N + 1
    <3>1. CASE k = N + 1
      <4>1. g[N + 1] = v
        OBVIOUS
      <4>2. g[N] = f[N] /\ (N + 1) - 1 = N /\ N + 1 # 0
        OBVIOUS
      <4> QED
        BY <3>1, <4>1, <4>2
    <3>2. CASE k \in 0 .. N
      <4>1. f[k] = IF k = 0 THEN state ELSE decode(f[k - 1], s[k])
        BY <2>1, <3>2 DEF Goes
      <4>2. g[k] = f[k] /\ (k # 0 => g[k - 1] = f[k - 1])
        BY <3>2
      <4> QED
        BY <4>1, <4>2
    <3> QED
      BY <3>1, <3>2
  <2>3. Goes(g, state, s, N + 1)
    BY <2>2 DEF Goes
  <2>4. \E f1 : Goes(f1, state, s, N + 1)
    BY <2>3
  <2> QED
    BY <2>4
<1> HIDE DEF X
<1>3. L \in X
  BY <1>1, <1>2, Induction
<1> QED
  BY <1>3 DEF X

LEMMA ValidateGoes ==
    ASSUME NEW state, NEW s, NEW L \in Nat, L = Len(s)
    PROVE  \E f : Goes(f, state, s, L) /\ Validate(state, s) = f[L]
<1> DEFINE f == CHOOSE f : Goes(f, state, s, L)
<1>1. Goes(f, state, s, L)
  BY GoesExists
<1>2. Validate(state, s) = f[L]
  BY DEF Validate, Goes
<1> QED
  BY <1>1, <1>2

LEMMA GoesStep ==
    ASSUME NEW f, NEW state, NEW s, NEW L \in Nat, Goes(f, state, s, L)
    PROVE  /\ f[0] = state
           /\ \A k \in Nat : k + 1 <= L => f[k + 1] = decode(f[k], s[k + 1])
<1>1. f[0] = state
  BY DEF Goes
<1>2. ASSUME NEW k \in Nat, k + 1 <= L PROVE f[k + 1] = decode(f[k], s[k + 1])
  <2>1. k + 1 \in 0 .. L /\ k + 1 # 0 /\ (k + 1) - 1 = k
    BY <1>2
  <2> QED
    BY <2>1 DEF Goes
<1> QED
  BY <1>1, <1>2

\* Nothing changes the state, and what is behind it goes on from there.
LEMMA ValidateEmpty == \A state : Validate(state, <<>>) = state
<1> TAKE state
<1>1. Len(<<>>) = 0
  OBVIOUS
<1>2. PICK f : Goes(f, state, <<>>, 0) /\ Validate(state, <<>>) = f[0]
  BY <1>1, ValidateGoes
<1> QED
  BY <1>2, GoesStep

LEMMA ValidateConcat ==
    ASSUME NEW S, NEW s \in Seq(S), NEW t \in Seq(S), NEW state
    PROVE  Validate(state, s \o t) = Validate(Validate(state, s), t)
<1> DEFINE L == Len(s)
           M == Len(t)
           both == s \o t
           mid == Validate(state, s)
<1>1. /\ L \in Nat /\ M \in Nat /\ Len(both) = L + M
      /\ \A i \in 1 .. L : both[i] = s[i]
      /\ \A i \in 1 .. M : both[L + i] = t[i]
  OBVIOUS
<1>2. PICK g : Goes(g, state, s, L) /\ mid = g[L]
  BY <1>1, ValidateGoes
<1> HIDE DEF mid
<1>3. PICK h : Goes(h, mid, t, M) /\ Validate(mid, t) = h[M]
  BY <1>1, ValidateGoes
<1> HIDE DEF L, M, both
<1>4. L + M \in Nat /\ L + M = Len(both)
  BY <1>1
<1>5. PICK f : Goes(f, state, both, L + M) /\ Validate(state, both) = f[L + M]
  BY <1>4, ValidateGoes
<1>6. /\ f[0] = state
      /\ \A k \in Nat : k + 1 <= L + M => f[k + 1] = decode(f[k], both[k + 1])
  BY <1>4, <1>5, GoesStep
<1>7. /\ g[0] = state
      /\ \A k \in Nat : k + 1 <= L => g[k + 1] = decode(g[k], s[k + 1])
  BY <1>1, <1>2, GoesStep
<1>8. /\ h[0] = mid
      /\ \A k \in Nat : k + 1 <= M => h[k + 1] = decode(h[k], t[k + 1])
  BY <1>1, <1>3, GoesStep
<1>9. f[L] = g[L]
  <2> DEFINE X == {k \in Nat : k <= L => f[k] = g[k]}
  <2>1. 0 \in X
    BY <1>6, <1>7
  <2>2. ASSUME NEW k \in Nat, k \in X PROVE k + 1 \in X
    <3> SUFFICES ASSUME k + 1 <= L PROVE f[k + 1] = g[k + 1]
      OBVIOUS
    <3>1. k <= L /\ k + 1 <= L + M /\ k + 1 \in 1 .. L
      BY <1>1
    <3>2. f[k] = g[k] /\ both[k + 1] = s[k + 1]
      BY <1>1, <2>2, <3>1
    <3> QED
      BY <1>6, <1>7, <3>1, <3>2
  <2> HIDE DEF X
  <2>3. L \in X
    BY <1>1, <2>1, <2>2, Induction
  <2> QED
    BY <1>1, <2>3 DEF X
<1>10. f[L + M] = h[M]
  <2> DEFINE X == {k \in Nat : k <= M => f[L + k] = h[k]}
  <2>1. 0 \in X
    BY <1>1, <1>2, <1>8, <1>9
  <2>2. ASSUME NEW k \in Nat, k \in X PROVE k + 1 \in X
    <3> SUFFICES ASSUME k + 1 <= M PROVE f[L + (k + 1)] = h[k + 1]
      OBVIOUS
    <3>1. /\ k <= M /\ L + k \in Nat /\ (L + k) + 1 <= L + M /\ k + 1 \in 1 .. M
          /\ L + (k + 1) = (L + k) + 1
      BY <1>1
    <3>2. f[L + k] = h[k] /\ both[(L + k) + 1] = t[k + 1]
      BY <1>1, <2>2, <3>1, SMTT(60)
    <3>3. f[(L + k) + 1] = decode(f[L + k], both[(L + k) + 1])
      BY <1>6, <3>1
    <3>4. h[k + 1] = decode(h[k], t[k + 1])
      BY <1>8, <3>1
    <3> QED
      BY <3>1, <3>2, <3>3, <3>4
  <2> HIDE DEF X
  <2>3. M \in X
    BY <1>1, <2>1, <2>2, Induction
  <2> QED
    BY <1>1, <2>3 DEF X
<1> QED
  BY <1>3, <1>5, <1>10 DEF both, mid

\* Once rejected, always rejected; and the states are three.
LEMMA ValidateReject ==
    ASSUME NEW S, NEW s \in Seq(S)
    PROVE  Validate("reject", s) = "reject"
<1> DEFINE L == Len(s)
<1>1. L \in Nat /\ L = Len(s)
  OBVIOUS
<1> HIDE DEF L
<1>2. PICK f : Goes(f, "reject", s, L) /\ Validate("reject", s) = f[L]
  BY <1>1, ValidateGoes
<1>3. /\ f[0] = "reject"
      /\ \A k \in Nat : k + 1 <= L => f[k + 1] = decode(f[k], s[k + 1])
  BY <1>1, <1>2, GoesStep
<1> DEFINE X == {k \in Nat : k <= L => f[k] = "reject"}
<1>4. 0 \in X
  BY <1>3
<1>5. ASSUME NEW k \in Nat, k \in X PROVE k + 1 \in X
  <2> SUFFICES ASSUME k + 1 <= L PROVE f[k + 1] = "reject"
    OBVIOUS
  <2>1. k <= L
    BY <1>1
  <2>2. f[k] = "reject" /\ f[k + 1] = decode(f[k], s[k + 1])
    BY <1>3, <1>5, <2>1
  <2> QED
    BY <2>2 DEF decode
<1> HIDE DEF X
<1>6. L \in X
  BY <1>1, <1>4, <1>5, Induction
<1> QED
  BY <1>1, <1>2, <1>6 DEF X

States == {"accept", "partial", "reject"}

LEMMA DecodeType == \A state, byte : decode(state, byte) \in States
  BY DEF decode, States

LEMMA ValidateType ==
    ASSUME NEW S, NEW s \in Seq(S), NEW state \in States
    PROVE  Validate(state, s) \in States
<1> DEFINE L == Len(s)
<1>1. L \in Nat /\ L = Len(s)
  OBVIOUS
<1> HIDE DEF L
<1>2. PICK f : Goes(f, state, s, L) /\ Validate(state, s) = f[L]
  BY <1>1, ValidateGoes
<1>3. /\ f[0] = state
      /\ \A k \in Nat : k + 1 <= L => f[k + 1] = decode(f[k], s[k + 1])
  BY <1>1, <1>2, GoesStep
<1>4. CASE L = 0
  BY <1>2, <1>3, <1>4
<1>5. CASE L # 0
  <2>1. L - 1 \in Nat /\ (L - 1) + 1 = L
    BY <1>1, <1>5
  <2>2. f[L] = decode(f[L - 1], s[L])
    BY <1>3, <2>1
  <2> QED
    BY <1>2, <2>2, DecodeType
<1> QED
  BY <1>4, <1>5

-----------------------------------------------------------------------------
(***************************************************************************)
(* Digits and Number: a payload size and the bytes it is written in.       *)
(***************************************************************************)

\* f divides size by Radix again and again.
Divides(f, size, N) ==
    f = [k \in 0 .. N |-> IF k = 0 THEN size ELSE f[k - 1] \div Radix]

LEMMA DividesExists ==
    ASSUME NEW size, NEW L \in Nat
    PROVE  \E f : Divides(f, size, L)
<1> DEFINE X == {N \in Nat : \E f : Divides(f, size, N)}
<1>1. 0 \in X
  <2> DEFINE f == [k \in 0 .. 0 |-> size]
  <2>1. Divides(f, size, 0)
    BY DEF Divides
  <2> QED
    BY <2>1
<1>2. ASSUME NEW N \in Nat, N \in X PROVE N + 1 \in X
  <2>1. PICK f : Divides(f, size, N)
    BY <1>2
  <2> DEFINE v == f[N] \div Radix
             g == [k \in 0 .. N + 1 |-> IF k = N + 1 THEN v ELSE f[k]]
  <2>2. \A k \in 0 .. N + 1 : g[k] = IF k = 0 THEN size ELSE g[k - 1] \div Radix
    <3> TAKE k \in 0 .. N + 1
    <3>1. CASE k = N + 1
      <4>1. g[N + 1] = v
        OBVIOUS
      <4>2. g[N] = f[N] /\ (N + 1) - 1 = N /\ N + 1 # 0
        OBVIOUS
      <4> QED
        BY <3>1, <4>1, <4>2
    <3>2. CASE k \in 0 .. N
      <4>1. f[k] = IF k = 0 THEN size ELSE f[k - 1] \div Radix
        BY <2>1, <3>2 DEF Divides
      <4>2. g[k] = f[k] /\ (k # 0 => g[k - 1] = f[k - 1])
        BY <3>2
      <4> QED
        BY <4>1, <4>2
    <3> QED
      BY <3>1, <3>2
  <2>3. Divides(g, size, N + 1)
    BY <2>2 DEF Divides
  <2>4. \E f1 : Divides(f1, size, N + 1)
    BY <2>3
  <2> QED
    BY <2>4
<1> HIDE DEF X
<1>3. L \in X
  BY <1>1, <1>2, Induction
<1> QED
  BY <1>3 DEF X

LEMMA DigitsDivides ==
    ASSUME NEW size, NEW n \in Nat
    PROVE  \E f : /\ Divides(f, size, n)
                  /\ Digits(size, n) = [i \in 1 .. n |-> f[n - i] % Radix]
<1> DEFINE f == CHOOSE f : Divides(f, size, n)
<1>1. Divides(f, size, n)
  BY DividesExists
<1>2. Digits(size, n) = [i \in 1 .. n |-> f[n - i] % Radix]
  BY DEF Digits, Divides
<1> QED
  BY <1>1, <1>2

\* f reads the first digits of a number.
Reads(f, digits, N) ==
    f = [k \in 0 .. N |-> IF k = 0 THEN 0 ELSE f[k - 1] * Radix + digits[k]]

LEMMA ReadsExists ==
    ASSUME NEW digits, NEW L \in Nat
    PROVE  \E f : Reads(f, digits, L)
<1> DEFINE X == {N \in Nat : \E f : Reads(f, digits, N)}
<1>1. 0 \in X
  <2> DEFINE f == [k \in 0 .. 0 |-> 0]
  <2>1. Reads(f, digits, 0)
    BY DEF Reads
  <2> QED
    BY <2>1
<1>2. ASSUME NEW N \in Nat, N \in X PROVE N + 1 \in X
  <2>1. PICK f : Reads(f, digits, N)
    BY <1>2
  <2> DEFINE v == f[N] * Radix + digits[N + 1]
             g == [k \in 0 .. N + 1 |-> IF k = N + 1 THEN v ELSE f[k]]
  <2>2. \A k \in 0 .. N + 1 : g[k] = IF k = 0 THEN 0 ELSE g[k - 1] * Radix + digits[k]
    <3> TAKE k \in 0 .. N + 1
    <3>1. CASE k = N + 1
      <4>1. g[N + 1] = v
        OBVIOUS
      <4>2. g[N] = f[N] /\ (N + 1) - 1 = N /\ N + 1 # 0
        OBVIOUS
      <4> QED
        BY <3>1, <4>1, <4>2
    <3>2. CASE k \in 0 .. N
      <4>1. f[k] = IF k = 0 THEN 0 ELSE f[k - 1] * Radix + digits[k]
        BY <2>1, <3>2 DEF Reads
      <4>2. g[k] = f[k] /\ (k # 0 => g[k - 1] = f[k - 1])
        BY <3>2
      <4> QED
        BY <4>1, <4>2
    <3> QED
      BY <3>1, <3>2
  <2>3. Reads(g, digits, N + 1)
    BY <2>2 DEF Reads
  <2>4. \E f1 : Reads(f1, digits, N + 1)
    BY <2>3
  <2> QED
    BY <2>4
<1> HIDE DEF X
<1>3. L \in X
  BY <1>1, <1>2, Induction
<1> QED
  BY <1>3 DEF X

LEMMA NumberReads ==
    ASSUME NEW digits, NEW L \in Nat, L = Len(digits)
    PROVE  \E f : Reads(f, digits, L) /\ Number(digits) = f[L]
<1> DEFINE f == CHOOSE f : Reads(f, digits, L)
<1>1. Reads(f, digits, L)
  BY ReadsExists
<1>2. Number(digits) = f[L]
  BY DEF Number, Reads
<1> QED
  BY <1>1, <1>2

\* Division with rest, by Radix.
LEMMA Division ==
    ASSUME NEW a \in Nat
    PROVE  /\ a \div Radix \in Nat /\ a % Radix \in 0 .. Radix - 1
           /\ (a \div Radix) * Radix + (a % Radix) = a
  BY RadixAssumption

\* The rest of a number below b * Radix is below b.
LEMMA DivideBelow ==
    ASSUME NEW a \in Nat, NEW b \in Nat, a < b * Radix
    PROVE  a \div Radix < b
<1>1. SUFFICES ASSUME a \div Radix >= b PROVE FALSE
  BY Division
<1> DEFINE q == a \div Radix
<1>2. q \in Nat /\ q * Radix <= a /\ q >= b /\ Radix \in Nat
  <2>1. q \in Nat /\ a % Radix \in Nat /\ q * Radix + (a % Radix) = a
    BY Division
  <2> HIDE DEF q
  <2>2. q * Radix \in Nat
    BY <2>1, RadixAssumption
  <2> QED
    BY <1>1, <2>1, <2>2, RadixAssumption DEF q
<1> HIDE DEF q
<1>3. q * Radix >= b * Radix
  BY <1>2
<1>4. q * Radix \in Nat /\ b * Radix \in Nat
  BY <1>2
<1> QED
  BY <1>2, <1>3, <1>4

LEMMA DividesStep ==
    ASSUME NEW f, NEW size \in Nat, NEW n \in Nat, Divides(f, size, n)
    PROVE  /\ f[0] = size
           /\ \A k \in Nat : k <= n => f[k] \in Nat
           /\ \A k \in Nat : k + 1 <= n => f[k + 1] = f[k] \div Radix
<1>1. f[0] = size
  BY DEF Divides
<1>2. ASSUME NEW k \in Nat, k + 1 <= n PROVE f[k + 1] = f[k] \div Radix
  <2>1. k + 1 \in 0 .. n /\ k + 1 # 0 /\ (k + 1) - 1 = k
    BY <1>2
  <2> QED
    BY <2>1 DEF Divides
<1> DEFINE X == {k \in Nat : k <= n => f[k] \in Nat}
<1>3. 0 \in X
  BY <1>1
<1>4. ASSUME NEW k \in Nat, k \in X PROVE k + 1 \in X
  <2> SUFFICES ASSUME k + 1 <= n PROVE f[k + 1] \in Nat
    OBVIOUS
  <2>1. f[k] \in Nat /\ f[k + 1] = f[k] \div Radix
    BY <1>2, <1>4
  <2> QED
    BY <2>1, Division
<1> HIDE DEF X
<1>5. Nat \subseteq X
  BY <1>3, <1>4, Induction
<1> QED
  BY <1>1, <1>2, <1>5 DEF X

\* The digits say the number, if they are enough.
LEMMA DigitsNumber ==
    ASSUME NEW size \in Nat, NEW n \in Nat,
           \A f : Divides(f, size, n) => f[n] = 0
    PROVE  /\ Number(Digits(size, n)) = size
           /\ Digits(size, n) \in [1 .. n -> 0 .. Radix - 1]
<1> DEFINE d == Digits(size, n)
<1>1. PICK f : Divides(f, size, n) /\ d = [i \in 1 .. n |-> f[n - i] % Radix]
  BY DigitsDivides
<1>2. /\ f[0] = size /\ f[n] = 0
      /\ \A k \in Nat : k <= n => f[k] \in Nat
      /\ \A k \in Nat : k + 1 <= n => f[k + 1] = f[k] \div Radix
  BY <1>1, DividesStep
<1> HIDE DEF d
<1>3. ASSUME NEW i \in 1 .. n PROVE f[n - i] % Radix \in 0 .. Radix - 1
  <2>1. n - i \in Nat /\ n - i <= n
    OBVIOUS
  <2>2. f[n - i] \in Nat
    BY <1>2, <2>1
  <2> QED
    BY <2>2, Division
<1>4. d \in [1 .. n -> 0 .. Radix - 1]
  BY <1>1, <1>3
<1>5. Len(d) = n /\ \A i \in 1 .. n : d[i] = f[n - i] % Radix
  <2>1. d \in Seq(0 .. Radix - 1)
    BY <1>4, SeqDef
  <2> QED
    BY <1>1, <1>4, <2>1
<1>6. PICK g : Reads(g, d, n) /\ Number(d) = g[n]
  BY <1>5, NumberReads
<1> DEFINE X == {k \in Nat : k <= n => g[k] = f[n - k]}
<1>7. 0 \in X
  <2>1. g[0] = 0
    BY <1>6 DEF Reads
  <2> QED
    BY <1>2, <2>1
<1>8. ASSUME NEW k \in Nat, k \in X PROVE k + 1 \in X
  <2> SUFFICES ASSUME k + 1 <= n PROVE g[k + 1] = f[n - (k + 1)]
    OBVIOUS
  <2> DEFINE j == n - (k + 1)
  <2>1. /\ j \in Nat /\ j + 1 <= n /\ j <= n /\ j + 1 = n - k /\ k + 1 \in 1 .. n
        /\ k + 1 \in 0 .. n /\ k + 1 # 0 /\ (k + 1) - 1 = k /\ k <= n
    OBVIOUS
  <2>2. g[k + 1] = g[k] * Radix + d[k + 1]
    BY <1>6, <2>1 DEF Reads
  <2>3. g[k] = f[j + 1] /\ d[k + 1] = f[j] % Radix
    BY <1>5, <1>8, <2>1
  <2> HIDE DEF j
  <2>4. f[j] \in Nat /\ f[j + 1] = f[j] \div Radix
    BY <1>2, <2>1
  <2>5. (f[j] \div Radix) * Radix + (f[j] % Radix) = f[j]
    BY <2>4, Division
  <2>6. g[k + 1] = (f[j] \div Radix) * Radix + (f[j] % Radix)
    BY <2>2, <2>3, <2>4
  <2> QED
    BY <2>5, <2>6 DEF j
<1> HIDE DEF X
<1>9. n \in X
  BY <1>7, <1>8, Induction
<1>10. g[n] = f[0]
  BY <1>9 DEF X
<1> QED
  BY <1>2, <1>4, <1>6, <1>10 DEF d

\* Two digits and eight digits are enough for what is written in them.
LEMMA TwoDigits ==
    ASSUME NEW size \in Nat, size <= payload_size_extended
    PROVE  /\ Number(Digits(size, 2)) = size
           /\ Digits(size, 2) \in [1 .. 2 -> 0 .. Radix - 1]
<1>1. ASSUME NEW f, Divides(f, size, 2) PROVE f[2] = 0
  <2>1. /\ f[0] = size /\ f[0] \in Nat /\ f[1] \in Nat /\ f[2] \in Nat
        /\ f[1] = f[0] \div Radix /\ f[2] = f[1] \div Radix
    <3>1. /\ f[0] = size
          /\ \A k \in Nat : k <= 2 => f[k] \in Nat
          /\ \A k \in Nat : k + 1 <= 2 => f[k + 1] = f[k] \div Radix
      BY <1>1, DividesStep
    <3>2. f[0 + 1] = f[0] \div Radix /\ f[1 + 1] = f[1] \div Radix
      BY <3>1
    <3> QED
      BY <3>1, <3>2
  <2>2. Radix \in Nat /\ size < Radix * Radix /\ Radix = 1 * Radix
    BY RadixAssumption DEF payload_size_extended
  <2>3. f[1] < Radix
    BY <2>1, <2>2, DivideBelow
  <2>4. f[2] < 1
    BY <2>1, <2>2, <2>3, DivideBelow
  <2> QED
    BY <2>1, <2>4
<1> QED
  BY <1>1, DigitsNumber

Power2 == Radix * Radix
Power3 == Power2 * Radix
Power4 == Power3 * Radix
Power5 == Power4 * Radix
Power6 == Power5 * Radix
Power7 == Power6 * Radix

LEMMA Powers ==
    /\ Radix \in Nat /\ Radix >= 2
    /\ Power2 \in Nat /\ Power3 \in Nat /\ Power4 \in Nat
    /\ Power5 \in Nat /\ Power6 \in Nat /\ Power7 \in Nat
    /\ SizeT = Power7 * Radix /\ SizeT \in Nat
    /\ SizeT >= 256
    /\ SizeT > payload_size_extended /\ payload_size_extended \in Nat
    /\ payload_size_extended >= BasicLimit
<1>1. ASSUME NEW a \in Nat, NEW b \in Nat, a >= b
      PROVE  a * Radix \in Nat /\ a * Radix >= 2 * b /\ a * Radix >= a
  <2>1. a * Radix >= a * 2
    BY <1>1, RadixAssumption
  <2>2. a * Radix \in Nat
    BY RadixAssumption
  <2> QED
    BY <1>1, <2>1, <2>2
<1>2. Radix \in Nat /\ Radix >= 2
  BY RadixAssumption
<1>3. Power2 \in Nat /\ Power2 >= 4
  BY <1>1, <1>2 DEF Power2
<1>4. Power3 \in Nat /\ Power3 >= 8 /\ Power3 >= Power2
  BY <1>1, <1>3 DEF Power3
<1>5. Power4 \in Nat /\ Power4 >= 16 /\ Power4 >= Power3
  BY <1>1, <1>4 DEF Power4
<1>6. Power5 \in Nat /\ Power5 >= 32 /\ Power5 >= Power4
  BY <1>1, <1>5 DEF Power5
<1>7. Power6 \in Nat /\ Power6 >= 64 /\ Power6 >= Power5
  BY <1>1, <1>6 DEF Power6
<1>8. Power7 \in Nat /\ Power7 >= 128 /\ Power7 >= Power6
  BY <1>1, <1>7 DEF Power7
<1>9. SizeT = Power7 * Radix
  BY DEF SizeT, Power2, Power3, Power4, Power5, Power6, Power7
<1>10. SizeT \in Nat /\ SizeT >= 256 /\ SizeT >= Power7
  BY <1>1, <1>8, <1>9
<1>11. payload_size_extended = Power2 - 1 /\ payload_size_extended >= BasicLimit
  <2>1. payload_size_extended = Power2 - 1
    BY DEF payload_size_extended, Power2
  <2>2. BasicLimit \in Nat /\ BasicLimit < Power2
    BY RadixAssumption DEF Power2
  <2> QED
    BY <1>3, <2>1, <2>2
<1> QED
  BY <1>2, <1>3, <1>4, <1>5, <1>6, <1>7, <1>8, <1>9, <1>10, <1>11

LEMMA EightDigits ==
    ASSUME NEW size \in Nat, size < SizeT
    PROVE  /\ Number(Digits(size, 8)) = size
           /\ Digits(size, 8) \in [1 .. 8 -> 0 .. Radix - 1]
<1>1. ASSUME NEW f, Divides(f, size, 8) PROVE f[8] = 0
  <2>1. /\ f[0] = size
        /\ \A k \in Nat : k <= 8 => f[k] \in Nat
        /\ \A k \in Nat : k + 1 <= 8 => f[k + 1] = f[k] \div Radix
    BY <1>1, DividesStep
  <2>2. ASSUME NEW k \in Nat, k + 1 <= 8, NEW b \in Nat, f[k] < b * Radix
        PROVE  f[k + 1] < b
    <3>1. f[k] \in Nat /\ f[k + 1] = f[k] \div Radix
      BY <2>1, <2>2
    <3> QED
      BY <2>2, <3>1, DivideBelow
  <2>3. f[0 + 1] < Power7
    BY <2>1, <2>2, Powers
  <2>4. f[1 + 1] < Power6
    BY <2>2, <2>3, Powers DEF Power7
  <2>5. f[2 + 1] < Power5
    BY <2>2, <2>4, Powers DEF Power6
  <2>6. f[3 + 1] < Power4
    BY <2>2, <2>5, Powers DEF Power5
  <2>7. f[4 + 1] < Power3
    BY <2>2, <2>6, Powers DEF Power4
  <2>8. f[5 + 1] < Power2
    BY <2>2, <2>7, Powers DEF Power3
  <2>9. f[6 + 1] < Radix
    BY <2>2, <2>8, Powers DEF Power2
  <2>10. f[7 + 1] < 1
    <3>1. Radix = 1 * Radix
      BY Powers
    <3> QED
      BY <2>2, <2>9, <3>1
  <2>11. f[8] \in Nat
    BY <2>1
  <2> QED
    BY <2>10, <2>11
<1> QED
  BY <1>1, DigitsNumber

-----------------------------------------------------------------------------
(***************************************************************************)
(* The bytes of a frame.                                                   *)
(***************************************************************************)

AnyByte ==
    [fin : BOOLEAN, rsv : BOOLEAN, op : Opcodes]
      \cup [masked : BOOLEAN, size : 0 .. payload_size_code_64bit]
      \cup Nat \cup STRING \cup PlainBytes \cup (PlainBytes \X STRING)

\* The two basic bytes, the length of the extended header and the length of
\* the whole, and byte i of the payload.
B0(f) == [fin |-> f.fin, rsv |-> f.rsv, op |-> f.op]
B1(f) == [masked |-> f.masked, size |-> f.enc]
ExtLen(f) == ExtendedLength(B1(f))
WireLen(f) == 2 + ExtLen(f) + f.size
PayloadByte(f, i) ==
    IF f.masked THEN <<f.payload[i], f.key[((i - 1) % 4) + 1]>> ELSE f.payload[i]

LEMMA FunctionSeq ==
    ASSUME NEW S, NEW n \in Nat, NEW s \in [1 .. n -> S]
    PROVE  s \in Seq(S) /\ Len(s) = n /\ DOMAIN s = 1 .. n
<1>1. s \in Seq(S)
  BY SeqDef
<1> QED
  BY <1>1

LEMMA FourPieces ==
    ASSUME NEW S, NEW h \in Seq(S), NEW d \in Seq(S), NEW k \in Seq(S), NEW p \in Seq(S),
           NEW w, w = h \o d \o k \o p
    PROVE  /\ w \in Seq(S)
           /\ Len(w) = Len(h) + Len(d) + Len(k) + Len(p)
           /\ \A i \in 1 .. Len(h) : w[i] = h[i]
           /\ \A i \in 1 .. Len(d) : w[Len(h) + i] = d[i]
           /\ \A i \in 1 .. Len(k) : w[Len(h) + Len(d) + i] = k[i]
           /\ \A i \in 1 .. Len(p) : w[Len(h) + Len(d) + Len(k) + i] = p[i]
<1>1. /\ h \o d \in Seq(S) /\ Len(h \o d) = Len(h) + Len(d)
      /\ \A i \in 1 .. Len(h) + Len(d) :
            (h \o d)[i] = IF i <= Len(h) THEN h[i] ELSE d[i - Len(h)]
  BY ConcatProperties
<1> DEFINE a == h \o d
<1>2. a \in Seq(S)
  BY <1>1
<1> HIDE DEF a
<1>3. /\ a \o k \in Seq(S) /\ Len(a \o k) = Len(a) + Len(k)
      /\ \A i \in 1 .. Len(a) + Len(k) :
            (a \o k)[i] = IF i <= Len(a) THEN a[i] ELSE k[i - Len(a)]
  BY <1>2, ConcatProperties
<1> DEFINE b == a \o k
<1>4. b \in Seq(S)
  BY <1>3
<1> HIDE DEF b
<1>5. /\ b \o p \in Seq(S) /\ Len(b \o p) = Len(b) + Len(p)
      /\ \A i \in 1 .. Len(b) + Len(p) :
            (b \o p)[i] = IF i <= Len(b) THEN b[i] ELSE p[i - Len(b)]
  BY <1>4, ConcatProperties
<1>16. w = b \o p
  BY DEF a, b
<1>6. /\ Len(h) \in Nat /\ Len(d) \in Nat /\ Len(k) \in Nat /\ Len(p) \in Nat
      /\ Len(a) = Len(h) + Len(d) /\ Len(b) = Len(h) + Len(d) + Len(k)
      /\ Len(w) = Len(h) + Len(d) + Len(k) + Len(p) /\ w \in Seq(S)
  BY <1>1, <1>3, <1>5, <1>16 DEF a, b
<1>7. \A i \in 1 .. Len(b) : w[i] = b[i]
  BY <1>5, <1>6, <1>16
<1>8. \A i \in 1 .. Len(p) : w[Len(b) + i] = p[i]
  <2> TAKE i \in 1 .. Len(p)
  <2>1. Len(b) + i \in 1 .. Len(b) + Len(p) /\ ~(Len(b) + i <= Len(b))
        /\ (Len(b) + i) - Len(b) = i
    BY <1>6
  <2> QED
    BY <1>5, <1>16, <2>1
<1>9. \A i \in 1 .. Len(a) : b[i] = a[i]
  BY <1>3, <1>6 DEF b
<1>10. \A i \in 1 .. Len(k) : b[Len(a) + i] = k[i]
  <2> TAKE i \in 1 .. Len(k)
  <2>1. Len(a) + i \in 1 .. Len(a) + Len(k) /\ ~(Len(a) + i <= Len(a))
        /\ (Len(a) + i) - Len(a) = i
    BY <1>6
  <2> QED
    BY <1>3, <2>1 DEF b
<1>11. \A i \in 1 .. Len(h) : a[i] = h[i]
  BY <1>1, <1>6 DEF a
<1>12. \A i \in 1 .. Len(d) : a[Len(h) + i] = d[i]
  <2> TAKE i \in 1 .. Len(d)
  <2>1. Len(h) + i \in 1 .. Len(h) + Len(d) /\ ~(Len(h) + i <= Len(h))
        /\ (Len(h) + i) - Len(h) = i
    BY <1>6
  <2> QED
    BY <1>1, <2>1 DEF a
<1>13. \A i \in 1 .. Len(h) : w[i] = h[i]
  <2> TAKE i \in 1 .. Len(h)
  <2>1. i \in 1 .. Len(a) /\ i \in 1 .. Len(b)
    BY <1>6
  <2> QED
    BY <1>7, <1>9, <1>11, <2>1
<1>14. \A i \in 1 .. Len(d) : w[Len(h) + i] = d[i]
  <2> TAKE i \in 1 .. Len(d)
  <2>1. Len(h) + i \in 1 .. Len(a) /\ Len(h) + i \in 1 .. Len(b)
    BY <1>6
  <2> QED
    BY <1>7, <1>9, <1>12, <2>1
<1>15. \A i \in 1 .. Len(k) : w[Len(h) + Len(d) + i] = k[i]
  BY <1>6, <1>7, <1>10, SMTT(60)
<1> QED
  BY <1>6, <1>8, <1>13, <1>14, <1>15

\* A frame's size and key have the lengths that its header says.
LEMMA FrameFacts ==
    ASSUME NEW f, IsFrame(f)
    PROVE  /\ B0(f) \in AnyByte /\ B1(f) \in AnyByte
           /\ f.size \in Nat /\ f.size = Len(f.payload) /\ f.size < SizeT
           /\ f.payload \in Seq(PlainBytes) /\ f.key \in Seq(STRING)
           /\ f.enc \in 0 .. payload_size_code_64bit
           /\ f.fin \in BOOLEAN /\ f.rsv \in BOOLEAN /\ f.masked \in BOOLEAN
           /\ f.op \in Opcodes
           /\ get_masking_key_offset(f.enc) \in {0, 2, 8}
           /\ ExtLen(f) = get_masking_key_offset(f.enc) + Len(f.key)
           /\ ExtLen(f) \in 0 .. 12 /\ WireLen(f) \in Nat
           /\ Len(f.key) = IF f.masked THEN 4 ELSE 0
<1>1. /\ f.fin \in BOOLEAN /\ f.rsv \in BOOLEAN /\ f.masked \in BOOLEAN
      /\ f.op \in Opcodes /\ f.enc \in 0 .. payload_size_code_64bit
      /\ f.size \in 0 .. SizeT - 1 /\ f.payload \in Seq(PlainBytes)
      /\ f.key \in Seq(STRING) /\ Len(f.payload) = f.size
      /\ Len(f.key) = IF f.masked THEN 4 ELSE 0
  BY DEF IsFrame
<1>2. B0(f) \in AnyByte /\ B1(f) \in AnyByte
  BY <1>1 DEF B0, B1, AnyByte
<1>3. f.size \in Nat /\ f.size < SizeT
  BY <1>1, Powers
<1>4. get_masking_key_offset(f.enc) \in {0, 2, 8}
  BY DEF get_masking_key_offset
<1>5. ExtLen(f) = get_masking_key_offset(f.enc) + Len(f.key)
  BY <1>1 DEF ExtLen, ExtendedLength, B1
<1>6. ExtLen(f) \in 0 .. 12
  BY <1>1, <1>4, <1>5
<1>7. WireLen(f) \in Nat
  BY <1>3, <1>6 DEF WireLen
<1> QED
  BY <1>1, <1>2, <1>3, <1>4, <1>5, <1>6, <1>7

\* The digits of the size field.
LEMMA SizeField ==
    ASSUME NEW f, IsFrame(f)
    PROVE  LET e == get_masking_key_offset(f.enc)
               d == Digits(f.size, e)
           IN  /\ d \in Seq(Nat) /\ Len(d) = e
               /\ f.enc > BasicLimit => Number(d) = f.size
               /\ f.enc <= BasicLimit => f.size = f.enc
               /\ e = IF f.enc <= BasicLimit THEN 0
                      ELSE IF f.enc = payload_size_code_16bit THEN 2 ELSE 8
<1> DEFINE e == get_masking_key_offset(f.enc)
           d == Digits(f.size, e)
<1>1. f.enc \in Nat /\ f.enc <= BasicLimit + 2 /\ BasicLimit \in Nat
      /\ f.size \in Nat /\ f.size < SizeT
  BY FrameFacts, RadixAssumption DEF payload_size_code_64bit
<1>2. CASE f.enc <= BasicLimit
  <2>1. e = 0
    BY <1>1, <1>2 DEF get_masking_key_offset, payload_size_code_16bit, payload_size_code_64bit
  <2>2. PICK g : d = [i \in 1 .. 0 |-> g[0 - i] % Radix]
    BY <2>1, DigitsDivides
  <2>3. d \in [1 .. 0 -> Nat]
    BY <2>2
  <2>4. d \in Seq(Nat) /\ Len(d) = 0
    BY <2>2, <2>3, SeqDef
  <2>5. f.size = f.enc
    BY <1>2 DEF IsFrame
  <2> QED
    BY <1>1, <1>2, <2>1, <2>4, <2>5
<1>3. CASE f.enc = payload_size_code_16bit
  <2>1. e = 2 /\ ~(f.enc <= BasicLimit)
    BY <1>1, <1>3 DEF get_masking_key_offset, payload_size_code_16bit
  <2>2. f.size <= payload_size_extended
    BY <1>3 DEF IsFrame
  <2>3. Number(d) = f.size /\ d \in [1 .. 2 -> 0 .. Radix - 1]
    BY <1>1, <2>1, <2>2, TwoDigits
  <2>4. d \in Seq(0 .. Radix - 1) /\ Len(d) = 2
    BY <2>3, FunctionSeq
  <2>5. d \in Seq(Nat)
    <3>1. 0 .. Radix - 1 \subseteq Nat
      BY Powers
    <3> HIDE DEF d
    <3> QED
      BY <2>4, <3>1, SeqMonotonic
  <2> QED
    BY <1>3, <2>1, <2>3, <2>4, <2>5
<1>4. CASE f.enc = payload_size_code_64bit
  <2>1. e = 8 /\ ~(f.enc <= BasicLimit) /\ f.enc # payload_size_code_16bit
    BY <1>1, <1>4 DEF get_masking_key_offset, payload_size_code_16bit, payload_size_code_64bit
  <2>2. Number(d) = f.size /\ d \in [1 .. 8 -> 0 .. Radix - 1]
    BY <1>1, <2>1, EightDigits
  <2>3. d \in Seq(0 .. Radix - 1) /\ Len(d) = 8
    BY <2>2, FunctionSeq
  <2>4. d \in Seq(Nat)
    <3>1. 0 .. Radix - 1 \subseteq Nat
      BY Powers
    <3> HIDE DEF d
    <3> QED
      BY <2>3, <3>1, SeqMonotonic
  <2> QED
    BY <2>1, <2>2, <2>3, <2>4
<1>5. f.enc <= BasicLimit \/ f.enc = payload_size_code_16bit \/ f.enc = payload_size_code_64bit
  BY <1>1 DEF payload_size_code_16bit, payload_size_code_64bit
<1> HIDE DEF e, d
<1>6. /\ d \in Seq(Nat) /\ Len(d) = e
      /\ f.enc > BasicLimit => Number(d) = f.size
      /\ f.enc <= BasicLimit => f.size = f.enc
      /\ e = IF f.enc <= BasicLimit THEN 0
             ELSE IF f.enc = payload_size_code_16bit THEN 2 ELSE 8
  BY <1>1, <1>2, <1>3, <1>4, <1>5 DEF e, d
<1> QED
  BY <1>6 DEF e, d

\* The bytes of a frame, one by one.
LEMMA WireFacts ==
    ASSUME NEW f, IsFrame(f)
    PROVE  LET e == get_masking_key_offset(f.enc)
           IN  /\ Wire(f) \in Seq(AnyByte) /\ Len(Wire(f)) = WireLen(f)
               /\ Wire(f)[1] = B0(f) /\ Wire(f)[2] = B1(f)
               /\ \A i \in 1 .. e : Wire(f)[2 + i] = Digits(f.size, e)[i]
               /\ \A i \in 1 .. Len(f.key) : Wire(f)[2 + e + i] = f.key[i]
               /\ \A i \in 1 .. f.size : Wire(f)[2 + ExtLen(f) + i] = PayloadByte(f, i)
<1> DEFINE e == get_masking_key_offset(f.enc)
           h == <<B0(f), B1(f)>>
           d == Digits(f.size, e)
           k == f.key
           p == IF f.masked THEN Masked(f.payload, f.key) ELSE f.payload
<1>1. h \in Seq(AnyByte) /\ Len(h) = 2 /\ h[1] = B0(f) /\ h[2] = B1(f)
  BY FrameFacts
<1>2. d \in Seq(AnyByte) /\ Len(d) = e
  <2>1. d \in Seq(Nat) /\ Len(d) = e
    BY SizeField
  <2>2. Nat \subseteq AnyByte
    BY DEF AnyByte
  <2> HIDE DEF d, e
  <2> QED
    BY <2>1, <2>2, SeqMonotonic
<1>3. k \in Seq(AnyByte)
  <2>1. k \in Seq(STRING) /\ STRING \subseteq AnyByte
    BY FrameFacts DEF AnyByte
  <2> QED
    BY <2>1, SeqMonotonic
<1>4. p \in Seq(AnyByte) /\ Len(p) = f.size
      /\ \A i \in 1 .. f.size : p[i] = PayloadByte(f, i)
  <2>1. f.payload \in Seq(PlainBytes) /\ f.key \in Seq(STRING) /\ f.size = Len(f.payload)
        /\ DOMAIN f.payload = 1 .. f.size /\ f.size \in Nat
    BY FrameFacts
  <2>2. CASE f.masked
    <3>1. p = [i \in 1 .. f.size |-> <<f.payload[i], f.key[((i - 1) % 4) + 1]>>]
      BY <2>1, <2>2 DEF Masked
    <3>2. \A i \in 1 .. f.size : <<f.payload[i], f.key[((i - 1) % 4) + 1]>> \in AnyByte
      <4> TAKE i \in 1 .. f.size
      <4>1. f.payload[i] \in PlainBytes
        BY <2>1
      <4>2. ((i - 1) % 4) + 1 \in 1 .. Len(f.key)
        BY <2>1, <2>2, FrameFacts
      <4>3. f.key[((i - 1) % 4) + 1] \in STRING
        BY <2>1, <4>2, ElementOfSeq
      <4> QED
        BY <4>1, <4>3 DEF AnyByte
    <3>3. p \in [1 .. f.size -> AnyByte]
      BY <3>1, <3>2
    <3>4. p \in Seq(AnyByte) /\ Len(p) = f.size
      <4> HIDE DEF p
      <4> QED
        BY <2>1, <3>3, FunctionSeq
    <3>5. \A i \in 1 .. f.size : p[i] = PayloadByte(f, i)
      BY <2>2, <3>1 DEF PayloadByte
    <3> QED
      BY <3>4, <3>5
  <2>3. CASE ~f.masked
    <3>1. p = f.payload
      BY <2>3
    <3>2. PlainBytes \subseteq AnyByte
      BY DEF AnyByte
    <3>3. p \in Seq(AnyByte)
      BY <2>1, <3>1, <3>2, SeqMonotonic
    <3> QED
      BY <2>1, <2>3, <3>1, <3>3 DEF PayloadByte
  <2> QED
    BY <2>2, <2>3
<1>5. Wire(f) = h \o d \o k \o p
  BY DEF Wire, B0, B1
<1> HIDE DEF h, d, k, p, e
<1>6. /\ Wire(f) \in Seq(AnyByte)
      /\ Len(Wire(f)) = Len(h) + Len(d) + Len(k) + Len(p)
      /\ \A i \in 1 .. Len(h) : Wire(f)[i] = h[i]
      /\ \A i \in 1 .. Len(d) : Wire(f)[Len(h) + i] = d[i]
      /\ \A i \in 1 .. Len(k) : Wire(f)[Len(h) + Len(d) + i] = k[i]
      /\ \A i \in 1 .. Len(p) : Wire(f)[Len(h) + Len(d) + Len(k) + i] = p[i]
  <2>1. h \in Seq(AnyByte) /\ d \in Seq(AnyByte) /\ k \in Seq(AnyByte) /\ p \in Seq(AnyByte)
    BY <1>1, <1>2, <1>3, <1>4
  <2> DEFINE w == Wire(f)
  <2>2. w = h \o d \o k \o p
    BY <1>5
  <2> HIDE DEF w
  <2>3. /\ w \in Seq(AnyByte)
        /\ Len(w) = Len(h) + Len(d) + Len(k) + Len(p)
        /\ \A i \in 1 .. Len(h) : w[i] = h[i]
        /\ \A i \in 1 .. Len(d) : w[Len(h) + i] = d[i]
        /\ \A i \in 1 .. Len(k) : w[Len(h) + Len(d) + i] = k[i]
        /\ \A i \in 1 .. Len(p) : w[Len(h) + Len(d) + Len(k) + i] = p[i]
    BY ONLY <2>1, <2>2, FourPieces
  <2> QED
    BY <2>3 DEF w
<1>7. /\ e \in {0, 2, 8} /\ ExtLen(f) = e + Len(k) /\ Len(k) \in Nat /\ f.size \in Nat
  BY FrameFacts, <1>3 DEF e, k
<1>8. Len(Wire(f)) = WireLen(f)
  BY <1>1, <1>2, <1>4, <1>6, <1>7 DEF WireLen
<1>9. Wire(f)[1] = B0(f) /\ Wire(f)[2] = B1(f)
  BY <1>1, <1>6
<1>10. \A i \in 1 .. e : Wire(f)[2 + i] = d[i]
  BY <1>1, <1>2, <1>6
<1>11. \A i \in 1 .. Len(k) : Wire(f)[2 + e + i] = k[i]
  BY <1>1, <1>2, <1>6
<1>12. \A i \in 1 .. f.size : Wire(f)[2 + ExtLen(f) + i] = PayloadByte(f, i)
  <2> TAKE i \in 1 .. f.size
  <2>1. Wire(f)[Len(h) + Len(d) + Len(k) + i] = p[i]
    BY <1>4, <1>6
  <2>2. 2 + ExtLen(f) + i = Len(h) + Len(d) + Len(k) + i
    BY <1>1, <1>2, <1>7
  <2>3. p[i] = PayloadByte(f, i)
    BY <1>4
  <2> QED
    BY <2>1, <2>2, <2>3
<1> QED
  BY <1>6, <1>8, <1>9, <1>10, <1>11, <1>12 DEF e, d, k

\* The size and the key are read back from the extended header.
LEMMA ExtFacts ==
    ASSUME NEW f, IsFrame(f), NEW ext \in Seq(AnyByte), Len(ext) = ExtLen(f),
           \A i \in 1 .. ExtLen(f) : ext[i] = Wire(f)[2 + i]
    PROVE  /\ get_payload_size(B1(f), ext) = f.size
           /\ get_masking_key(B1(f), ext) = f.key
<1> DEFINE e == get_masking_key_offset(f.enc)
           d == Digits(f.size, e)
<1>1. /\ d \in Seq(Nat) /\ Len(d) = e
      /\ f.enc > BasicLimit => Number(d) = f.size
      /\ f.enc <= BasicLimit => f.size = f.enc
      /\ e = IF f.enc <= BasicLimit THEN 0
             ELSE IF f.enc = payload_size_code_16bit THEN 2 ELSE 8
  BY SizeField
<1>2. /\ \A i \in 1 .. e : Wire(f)[2 + i] = d[i]
      /\ \A i \in 1 .. Len(f.key) : Wire(f)[2 + e + i] = f.key[i]
  BY WireFacts
<1> HIDE DEF d
<1>3. /\ e \in {0, 2, 8} /\ ExtLen(f) = e + Len(f.key) /\ f.key \in Seq(STRING)
      /\ Len(f.key) = (IF f.masked THEN 4 ELSE 0) /\ f.masked \in BOOLEAN
      /\ f.enc \in Nat /\ BasicLimit \in Nat
  BY FrameFacts, RadixAssumption DEF payload_size_code_64bit
<1>4. B1(f).masked = f.masked /\ B1(f).size = f.enc
  BY DEF B1
<1> HIDE DEF e
<1>5. Nat \subseteq AnyByte /\ STRING \subseteq AnyByte
  BY DEF AnyByte
<1>6. d \in Seq(AnyByte) /\ f.key \in Seq(AnyByte)
  BY <1>1, <1>3, <1>5, SeqMonotonic
<1>7. Len(ext) = e + Len(f.key) /\ Len(f.key) \in Nat
  BY <1>3
<1>8. \A i \in 1 .. e : ext[i] = d[i]
  BY <1>2, <1>3
<1>9. \A i \in 1 .. Len(f.key) : ext[e + i] = f.key[i]
  <2> TAKE i \in 1 .. Len(f.key)
  <2>1. e + i \in 1 .. ExtLen(f) /\ 2 + (e + i) = 2 + e + i
    BY <1>3
  <2>2. ext[e + i] = Wire(f)[2 + (e + i)]
    BY <2>1
  <2> QED
    BY <1>2, <2>1, <2>2
<1>10. \A i \in 1 .. Len(ext) : ext[i] \in AnyByte
  BY ElementOfSeq
<1>11. SubSeq(ext, 1, e) = d
  <2> DEFINE s == SubSeq(ext, 1, e)
  <2>1. \A i \in 1 .. e : ext[i] \in AnyByte
    BY <1>3, <1>7, <1>10
  <2>2. s \in Seq(AnyByte) /\ Len(s) = (IF 1 <= e THEN e - 1 + 1 ELSE 0)
        /\ \A i \in 1 .. e - 1 + 1 : s[i] = ext[1 + i - 1]
    BY <1>3, <2>1, SubSeqProperties
  <2>3. Len(s) = e
    BY <1>3, <2>2
  <2>4. \A i \in 1 .. Len(s) : s[i] = d[i]
    <3> TAKE i \in 1 .. Len(s)
    <3>1. i \in 1 .. e /\ i \in 1 .. e - 1 + 1 /\ 1 + i - 1 = i
      BY <1>3, <2>3
    <3>2. s[i] = ext[1 + i - 1]
      BY <2>2, <3>1
    <3> QED
      BY <1>8, <3>1, <3>2
  <2> HIDE DEF s
  <2>5. s = d
    BY <1>1, <1>6, <2>2, <2>3, <2>4, SeqEqual, ZenonT(60)
  <2> QED
    BY <2>5 DEF s
<1>12. f.masked => SubSeq(ext, e + 1, e + 4) = f.key
  <2> SUFFICES ASSUME f.masked PROVE SubSeq(ext, e + 1, e + 4) = f.key
    OBVIOUS
  <2> DEFINE s == SubSeq(ext, e + 1, e + 4)
  <2>1. Len(f.key) = 4 /\ e + 1 \in Int /\ e + 4 \in Int
    BY <1>3
  <2>2. \A i \in e + 1 .. e + 4 : ext[i] \in AnyByte
    BY <1>3, <1>7, <1>10, <2>1
  <2>3. /\ s \in Seq(AnyByte)
        /\ Len(s) = (IF e + 1 <= e + 4 THEN (e + 4) - (e + 1) + 1 ELSE 0)
        /\ \A i \in 1 .. (e + 4) - (e + 1) + 1 : s[i] = ext[(e + 1) + i - 1]
    BY <2>1, <2>2, SubSeqProperties
  <2>4. Len(s) = 4
    BY <1>3, <2>3
  <2>5. \A i \in 1 .. Len(s) : s[i] = f.key[i]
    <3> TAKE i \in 1 .. Len(s)
    <3>1. i \in 1 .. 4 /\ i \in 1 .. (e + 4) - (e + 1) + 1 /\ (e + 1) + i - 1 = e + i
      BY <1>3, <2>4
    <3>2. s[i] = ext[(e + 1) + i - 1]
      BY <2>3, <3>1
    <3> QED
      BY <1>9, <2>1, <3>1, <3>2
  <2> HIDE DEF s
  <2>6. s = f.key
    BY <1>6, <2>1, <2>3, <2>4, <2>5, SeqEqual, ZenonT(60)
  <2> QED
    BY <2>6 DEF s
<1>13. get_masking_key(B1(f), ext) = f.key
  <2>1. CASE f.masked
    BY <1>4, <1>12, <2>1 DEF get_masking_key, e
  <2>2. CASE ~f.masked
    <3>1. f.key = <<>>
      BY <1>3, <2>2, EmptySeq
    <3> QED
      BY <1>4, <2>2, <3>1 DEF get_masking_key
  <2> QED
    BY <2>1, <2>2
<1>14. get_payload_size(B1(f), ext) = f.size
  <2>1. CASE f.enc <= BasicLimit
    BY <1>1, <1>4, <2>1 DEF get_payload_size
  <2>2. CASE ~(f.enc <= BasicLimit)
    <3>1. f.enc > BasicLimit
      BY <1>3, <2>2
    <3>2. Number(SubSeq(ext, 1, e)) = f.size
      BY <1>1, <1>11, <3>1
    <3> QED
      BY <1>1, <1>4, <2>2, <3>2 DEF get_payload_size
  <2> QED
    BY <2>1, <2>2
<1> QED
  BY <1>13, <1>14

-----------------------------------------------------------------------------
(***************************************************************************)
(* Where the frames are in the bytes that were not consumed.               *)
(***************************************************************************)

\* Behind frame i the bytes w go on at b[i]; of the first frame pos bytes were
\* consumed.
Layout(b, fs, w, pos) ==
    /\ b \in [0 .. Len(fs) -> Int]
    /\ b[0] = 0 - pos
    /\ \A i \in 1 .. Len(fs) : b[i] = b[i - 1] + WireLen(fs[i])
    /\ b[Len(fs)] = Len(w)
    /\ \A i \in 0 .. Len(fs) : b[i] <= Len(w)
    /\ \A i \in 1 .. Len(fs) : \A j \in 1 .. WireLen(fs[i]) :
          b[i - 1] + j >= 1 => w[b[i - 1] + j] = Wire(fs[i])[j]

\* The bytes w are those of the frames fs, without the first pos.
Aligned(fs, w, pos) == \E b : Layout(b, fs, w, pos)

AnyFrame == Frames(TRUE) \cup Frames(FALSE)

Wellformed(fs) ==
    /\ fs \in Seq(AnyFrame)
    /\ \A i \in 1 .. Len(fs) : IsFrame(fs[i])

LEMMA AlignedNone ==
    ASSUME NEW w, Aligned(<<>>, w, 0), Len(w) \in Nat
    PROVE  Len(w) = 0
<1>1. Len(<<>>) = 0
  OBVIOUS
<1>2. PICK b : Layout(b, <<>>, w, 0)
  BY DEF Aligned
<1>3. b[0] = 0 - 0 /\ b[0] = Len(w)
  BY <1>1, <1>2 DEF Layout
<1> QED
  BY <1>3

LEMMA AlignedHead ==
    ASSUME NEW fs, Wellformed(fs), fs # <<>>, NEW w \in Seq(AnyByte),
           NEW pos \in Nat, Aligned(fs, w, pos)
    PROVE  /\ IsFrame(fs[1])
           /\ WireLen(fs[1]) - pos <= Len(w)
           /\ \A j \in 1 .. Len(w) :
                 pos + j <= WireLen(fs[1]) => w[j] = Wire(fs[1])[pos + j]
<1>1. Len(fs) \in Nat /\ 1 \in 1 .. Len(fs) /\ 1 \in 0 .. Len(fs) /\ IsFrame(fs[1])
  BY DEF Wellformed
<1>2. PICK b : Layout(b, fs, w, pos)
  BY DEF Aligned
<1>3. WireLen(fs[1]) \in Nat
  BY <1>1, FrameFacts
<1>4. b[0] = 0 - pos /\ b[1] = b[1 - 1] + WireLen(fs[1]) /\ b[1] <= Len(w)
  BY <1>1, <1>2 DEF Layout
<1>5. ASSUME NEW j \in 1 .. Len(w), pos + j <= WireLen(fs[1])
      PROVE  w[j] = Wire(fs[1])[pos + j]
  <2>1. pos + j \in 1 .. WireLen(fs[1])
    BY <1>3, <1>5
  <2>2. b[1 - 1] + (pos + j) >= 1 => w[b[1 - 1] + (pos + j)] = Wire(fs[1])[pos + j]
    BY <1>1, <1>2, <2>1 DEF Layout
  <2>3. b[1 - 1] + (pos + j) = j
    BY <1>4
  <2> QED
    BY <2>2, <2>3
<1> QED
  BY <1>1, <1>3, <1>4, <1>5

\* Bytes are taken.
LEMMA AlignedTake ==
    ASSUME NEW fs, Wellformed(fs), NEW w \in Seq(AnyByte), NEW pos \in Nat,
           Aligned(fs, w, pos), NEW n \in 0 .. Len(w)
    PROVE  /\ Aligned(fs, SubSeq(w, n + 1, Len(w)), pos + n)
           /\ SubSeq(w, n + 1, Len(w)) \in Seq(AnyByte)
           /\ Len(SubSeq(w, n + 1, Len(w))) = Len(w) - n
<1> DEFINE v == SubSeq(w, n + 1, Len(w))
<1>1. /\ Len(w) \in Nat /\ n \in Nat /\ n <= Len(w) /\ n + 1 \in Int /\ Len(w) \in Int
      /\ Len(fs) \in Nat
  BY DEF Wellformed
<1>2. \A i \in n + 1 .. Len(w) : w[i] \in AnyByte
  BY <1>1, ElementOfSeq
<1>3. /\ v \in Seq(AnyByte)
      /\ Len(v) = (IF n + 1 <= Len(w) THEN Len(w) - (n + 1) + 1 ELSE 0)
      /\ \A i \in 1 .. Len(w) - (n + 1) + 1 : v[i] = w[(n + 1) + i - 1]
  BY <1>1, <1>2, SubSeqProperties
<1>4. Len(v) = Len(w) - n
  BY <1>1, <1>3
<1>5. \A i \in 1 .. Len(w) - n : v[i] = w[n + i]
  <2> TAKE i \in 1 .. Len(w) - n
  <2>1. i \in 1 .. Len(w) - (n + 1) + 1 /\ (n + 1) + i - 1 = n + i
    BY <1>1
  <2> QED
    BY <1>3, <2>1
<1> HIDE DEF v
<1>6. PICK b : Layout(b, fs, w, pos)
  BY DEF Aligned
<1> DEFINE c == [i \in 0 .. Len(fs) |-> b[i] - n]
<1>7. Layout(c, fs, v, pos + n)
  <2>1. \A i \in 0 .. Len(fs) : b[i] \in Int /\ c[i] = b[i] - n /\ c[i] \in Int
    BY <1>1, <1>6 DEF Layout
  <2>2. c \in [0 .. Len(fs) -> Int]
    BY <2>1
  <2>3. 0 \in 0 .. Len(fs) /\ Len(fs) \in 0 .. Len(fs)
    BY <1>1
  <2>4. \A i \in 1 .. Len(fs) : i \in 0 .. Len(fs) /\ i - 1 \in 0 .. Len(fs)
    BY <1>1
  <2>5. /\ b[0] = 0 - pos /\ b[Len(fs)] = Len(w)
        /\ \A i \in 1 .. Len(fs) : b[i] = b[i - 1] + WireLen(fs[i])
        /\ \A i \in 0 .. Len(fs) : b[i] <= Len(w)
        /\ \A i \in 1 .. Len(fs) : \A j \in 1 .. WireLen(fs[i]) :
              b[i - 1] + j >= 1 => w[b[i - 1] + j] = Wire(fs[i])[j]
    BY <1>6 DEF Layout
  <2> HIDE DEF c
  <2>6. c[0] = 0 - (pos + n) /\ c[Len(fs)] = Len(v)
    <3>1. c[0] = b[0] - n /\ c[Len(fs)] = b[Len(fs)] - n
      BY <2>1, <2>3
    <3> QED
      BY <1>1, <1>4, <2>5, <3>1
  <2>7. ASSUME NEW i \in 1 .. Len(fs) PROVE c[i] = c[i - 1] + WireLen(fs[i])
    <3>1. WireLen(fs[i]) \in Nat
      BY FrameFacts DEF Wellformed
    <3>2. b[i] \in Int /\ b[i - 1] \in Int /\ c[i] = b[i] - n /\ c[i - 1] = b[i - 1] - n
      BY <2>1, <2>4
    <3>3. b[i] = b[i - 1] + WireLen(fs[i])
      BY <2>5
    <3> QED
      BY <1>1, <3>1, <3>2, <3>3
  <2>8. \A i \in 0 .. Len(fs) : c[i] <= Len(v)
    BY <1>1, <1>4, <2>1, <2>5, SMTT(60)
  <2>9. ASSUME NEW i \in 1 .. Len(fs), NEW j \in 1 .. WireLen(fs[i]), c[i - 1] + j >= 1
        PROVE  v[c[i - 1] + j] = Wire(fs[i])[j]
    <3>1. WireLen(fs[i]) \in Nat
      BY FrameFacts DEF Wellformed
    <3>2. /\ b[i] \in Int /\ b[i - 1] \in Int /\ c[i - 1] = b[i - 1] - n
          /\ b[i] = b[i - 1] + WireLen(fs[i]) /\ b[i] <= Len(w)
      BY <2>1, <2>4, <2>5
    <3>3. b[i - 1] + j >= 1 /\ c[i - 1] + j \in 1 .. Len(w) - n
          /\ n + (c[i - 1] + j) = b[i - 1] + j
      <4> DEFINE x == b[i - 1]
                 y == c[i - 1]
                 l == WireLen(fs[i])
                 t == Len(w)
      <4>1. /\ x \in Int /\ y \in Int /\ l \in Nat /\ t \in Nat /\ j \in 1 .. l
            /\ y = x - n /\ x + l <= t /\ y + j >= 1 /\ n \in Nat /\ n <= t
        BY <1>1, <2>9, <3>1, <3>2
      <4> HIDE DEF x, y, l, t
      <4>2. x + j >= 1 /\ y + j \in 1 .. t - n /\ n + (y + j) = x + j
        BY <4>1
      <4> QED
        BY <4>2 DEF x, y, l, t
    <3>4. w[b[i - 1] + j] = Wire(fs[i])[j]
      BY <2>5, <3>3
    <3> QED
      BY <1>5, <3>3, <3>4
  <2> QED
    BY <2>2, <2>6, <2>7, <2>8, <2>9 DEF Layout
<1> QED
  BY <1>3, <1>4, <1>7 DEF Aligned, v

\* A frame arrives behind the others.
LEMMA AlignedArrive ==
    ASSUME NEW fs, Wellformed(fs), NEW w \in Seq(AnyByte), NEW pos \in Nat,
           Aligned(fs, w, pos),
           NEW f \in AnyFrame, IsFrame(f)
    PROVE  /\ Aligned(Append(fs, f), w \o Wire(f), pos)
           /\ w \o Wire(f) \in Seq(AnyByte)
           /\ Wellformed(Append(fs, f))
<1> DEFINE gs == Append(fs, f)
           v == w \o Wire(f)
           n == Len(fs)
           l == WireLen(f)
           t == Len(w)
<1>1. n \in Nat /\ t \in Nat /\ l \in Nat
  BY FrameFacts DEF Wellformed
<1>2. Wire(f) \in Seq(AnyByte) /\ Len(Wire(f)) = l
  BY WireFacts
<1>3. /\ v \in Seq(AnyByte) /\ Len(v) = t + l
      /\ \A i \in 1 .. t + l : v[i] = IF i <= t THEN w[i] ELSE Wire(f)[i - t]
  BY <1>2, ConcatProperties
<1>4. /\ gs \in Seq(AnyFrame) /\ Len(gs) = n + 1
      /\ \A i \in 1 .. n : gs[i] = fs[i]
      /\ gs[n + 1] = f
  <2>1. fs \in Seq(AnyFrame) /\ f \in AnyFrame
    BY DEF Wellformed
  <2> QED
    BY <2>1, AppendProperties
<1> HIDE DEF v, gs, n, t, l
<1>5. Wellformed(gs)
  <2>1. \A i \in 1 .. n : IsFrame(fs[i])
    BY DEF Wellformed, n
  <2>2. \A i \in 1 .. n + 1 : i \in 1 .. n \/ i = n + 1
    BY <1>1
  <2> QED
    BY <1>4, <2>1, <2>2 DEF Wellformed
<1>6. PICK b : Layout(b, fs, w, pos)
  BY DEF Aligned
<1>7. /\ b \in [0 .. n -> Int] /\ b[0] = 0 - pos /\ b[n] = t
      /\ \A i \in 1 .. n : b[i] = b[i - 1] + WireLen(fs[i])
      /\ \A i \in 0 .. n : b[i] <= t
      /\ \A i \in 1 .. n : \A j \in 1 .. WireLen(fs[i]) :
            b[i - 1] + j >= 1 => w[b[i - 1] + j] = Wire(fs[i])[j]
  BY <1>6 DEF Layout, n, t
<1> DEFINE c == [i \in 0 .. n + 1 |-> IF i = n + 1 THEN t + l ELSE b[i]]
<1>8. /\ \A i \in 0 .. n : c[i] = b[i] /\ b[i] \in Int
      /\ c[n + 1] = t + l
  BY <1>1, <1>7
<1>9. c \in [0 .. n + 1 -> Int]
  BY <1>1, <1>7
<1> HIDE DEF c
<1>10. Layout(c, gs, v, pos)
  <2>1. \A i \in 1 .. n + 1 : i \in 1 .. n \/ i = n + 1
    BY <1>1
  <2>2. 0 \in 0 .. n /\ n \in 0 .. n /\ (n + 1) - 1 = n
    BY <1>1
  <2>3. c[0] = 0 - pos /\ c[n + 1] = Len(v) /\ c[n] = t
    BY <1>3, <1>7, <1>8, <2>2
  <2>4. ASSUME NEW i \in 1 .. n + 1 PROVE c[i] = c[i - 1] + WireLen(gs[i])
    <3>1. CASE i \in 1 .. n
      <4>1. i \in 0 .. n /\ i - 1 \in 0 .. n
        BY <1>1, <3>1
      <4> QED
        BY <1>4, <1>7, <1>8, <3>1, <4>1
    <3>2. CASE i = n + 1
      <4>1. c[i] = t + l /\ c[i - 1] = t /\ gs[i] = f
        BY <1>4, <1>8, <2>2, <2>3, <3>2
      <4> QED
        BY <4>1 DEF l
    <3> QED
      BY <2>1, <3>1, <3>2
  <2>5. ASSUME NEW i \in 0 .. n + 1 PROVE c[i] <= Len(v)
    <3>1. CASE i \in 0 .. n
      <4>1. c[i] = b[i] /\ b[i] \in Int /\ b[i] <= t
        BY <1>7, <1>8, <3>1
      <4> QED
        BY <1>1, <1>3, <4>1
    <3>2. CASE i = n + 1
      BY <1>1, <1>3, <1>8, <3>2
    <3>3. i \in 0 .. n \/ i = n + 1
      BY <1>1
    <3> QED
      BY <3>1, <3>2, <3>3
  <2>6. ASSUME NEW i \in 1 .. n + 1, NEW j \in 1 .. WireLen(gs[i]), c[i - 1] + j >= 1
        PROVE  v[c[i - 1] + j] = Wire(gs[i])[j]
    <3>1. CASE i \in 1 .. n
      <4>1. i \in 0 .. n /\ i - 1 \in 0 .. n /\ gs[i] = fs[i]
        BY <1>1, <1>4, <3>1
      <4>2. c[i - 1] = b[i - 1] /\ b[i - 1] \in Int /\ b[i] <= t
            /\ b[i] = b[i - 1] + WireLen(fs[i])
        BY <1>7, <1>8, <3>1, <4>1
      <4>3. WireLen(fs[i]) \in Nat
        BY <3>1, FrameFacts DEF Wellformed, n
      <4>4. c[i - 1] + j \in 1 .. t + l /\ c[i - 1] + j <= t
        <5> DEFINE x == b[i - 1]
                   m == WireLen(fs[i])
        <5>1. x \in Int /\ m \in Nat /\ x + m <= t /\ j \in 1 .. m /\ x + j >= 1
              /\ c[i - 1] = x
          BY <2>6, <4>1, <4>2, <4>3
        <5> HIDE DEF x, m
        <5> QED
          BY <1>1, <5>1
      <4>5. v[c[i - 1] + j] = w[c[i - 1] + j]
        BY <1>3, <4>4
      <4>6. w[b[i - 1] + j] = Wire(fs[i])[j]
        BY <1>7, <2>6, <3>1, <4>1, <4>2
      <4> QED
        BY <4>1, <4>2, <4>5, <4>6
    <3>2. CASE i = n + 1
      <4>1. c[i - 1] = t /\ gs[i] = f /\ j \in 1 .. l
        BY <1>4, <2>2, <2>3, <3>2 DEF l
      <4>2. t + j \in 1 .. t + l /\ ~(t + j <= t) /\ (t + j) - t = j
        BY <1>1, <4>1
      <4> QED
        BY <1>3, <4>1, <4>2
    <3> QED
      BY <2>1, <3>1, <3>2
  <2> QED
    BY <1>4, <1>9, <2>3, <2>4, <2>5, <2>6 DEF Layout
<1> QED
  BY <1>3, <1>5, <1>10 DEF Aligned, gs, v

\* The first frame was consumed.
LEMMA AlignedTail ==
    ASSUME NEW fs, Wellformed(fs), fs # <<>>, NEW w \in Seq(AnyByte),
           Aligned(fs, w, WireLen(fs[1]))
    PROVE  Aligned(Tail(fs), w, 0) /\ Wellformed(Tail(fs))
<1> DEFINE gs == Tail(fs)
           n == Len(gs)
           t == Len(w)
<1>1. /\ Len(fs) = n + 1 /\ n \in Nat /\ t \in Nat
      /\ \A i \in 1 .. n : gs[i] = fs[i + 1]
      /\ gs \in Seq(AnyFrame)
  BY HeadTailProperties DEF Wellformed
<1> HIDE DEF gs, n, t
<1>2. \A i \in 1 .. n + 1 : IsFrame(fs[i]) /\ WireLen(fs[i]) \in Nat
  BY <1>1, FrameFacts DEF Wellformed
<1>3. \A i \in 1 .. n : i + 1 \in 1 .. n + 1 /\ i + 1 \in 0 .. n + 1 /\ i \in 0 .. n + 1
                        /\ (i + 1) - 1 = i /\ (i - 1) + 1 = i /\ i - 1 \in 0 .. n /\ i \in 0 .. n
  BY <1>1
<1>4. Wellformed(gs)
  BY <1>1, <1>2, <1>3 DEF Wellformed, n
<1>5. PICK b : Layout(b, fs, w, WireLen(fs[1]))
  BY DEF Aligned
<1>6. /\ b \in [0 .. n + 1 -> Int] /\ b[0] = 0 - WireLen(fs[1]) /\ b[n + 1] = t
      /\ \A i \in 1 .. n + 1 : b[i] = b[i - 1] + WireLen(fs[i])
      /\ \A i \in 0 .. n + 1 : b[i] <= t
      /\ \A i \in 1 .. n + 1 : \A j \in 1 .. WireLen(fs[i]) :
            b[i - 1] + j >= 1 => w[b[i - 1] + j] = Wire(fs[i])[j]
  BY <1>1, <1>5 DEF Layout, t
<1> DEFINE c == [i \in 0 .. n |-> b[i + 1]]
<1>7. \A i \in 0 .. n : c[i] = b[i + 1] /\ b[i + 1] \in Int /\ b[i + 1] <= t
  <2> TAKE i \in 0 .. n
  <2>1. i + 1 \in 0 .. n + 1
    BY <1>1
  <2> QED
    BY <1>6, <2>1
<1>8. c \in [0 .. n -> Int]
  BY <1>7
<1> HIDE DEF c
<1>9. c[0] = 0
  <2>1. 1 \in 1 .. n + 1 /\ 0 \in 0 .. n /\ 1 - 1 = 0 /\ 0 + 1 = 1
    BY <1>1
  <2>2. b[1] = b[1 - 1] + WireLen(fs[1])
    BY <1>6, <2>1
  <2>3. c[0] = b[1] /\ WireLen(fs[1]) \in Nat
    BY <1>2, <1>7, <2>1
  <2> QED
    BY <1>6, <2>1, <2>2, <2>3
<1>10. Layout(c, gs, w, 0)
  <2>1. c[n] = t
    <3>1. n \in 0 .. n
      BY <1>1
    <3> QED
      BY <1>6, <1>7, <3>1
  <2>2. ASSUME NEW i \in 1 .. n PROVE c[i] = c[i - 1] + WireLen(gs[i])
    <3>1. c[i] = b[i + 1] /\ c[i - 1] = b[(i - 1) + 1] /\ gs[i] = fs[i + 1]
      BY <1>1, <1>3, <1>7
    <3>2. b[i + 1] = b[(i + 1) - 1] + WireLen(fs[i + 1])
      BY <1>3, <1>6
    <3> QED
      BY <1>3, <3>1, <3>2
  <2>3. ASSUME NEW i \in 1 .. n, NEW j \in 1 .. WireLen(gs[i]), c[i - 1] + j >= 1
        PROVE  w[c[i - 1] + j] = Wire(gs[i])[j]
    <3>1. c[i - 1] = b[(i - 1) + 1] /\ gs[i] = fs[i + 1]
      BY <1>1, <1>3, <1>7
    <3>2. b[(i + 1) - 1] + j >= 1 => w[b[(i + 1) - 1] + j] = Wire(fs[i + 1])[j]
      BY <1>3, <1>6, <3>1
    <3> QED
      BY <1>3, <2>3, <3>1, <3>2
  <2> QED
    <3>1. c[0] = 0 - 0
      BY <1>9
    <3>2. \A i \in 0 .. n : c[i] <= t
      BY <1>7
    <3> QED
      BY <1>8, <2>1, <2>2, <2>3, <3>1, <3>2 DEF Layout, n, t
<1> QED
  BY <1>4, <1>10 DEF Aligned, gs

-----------------------------------------------------------------------------
(***************************************************************************)
(* The message that a frame belongs to, when part of the frame was read.   *)
(***************************************************************************)

Msgs == [op : Opcodes, payload : Seq(PlainBytes), prepared_key : Seq(STRING),
         validator : States]

\* m ends with the first done bytes of the payload of f, its validator knows
\* them all, and its key is turned to the next one.
Holds(m, f, done) ==
    /\ m \in Msgs
    /\ m.validator = IF m.op = "TEXT" THEN Validate("accept", m.payload) ELSE "accept"
    /\ done <= Len(m.payload)
    /\ \A i \in 1 .. done : m.payload[Len(m.payload) - done + i] = f.payload[i]
    /\ f.op # "CONTINUATION" => Len(m.payload) = done /\ m.op = f.op
    /\ f.op = "CONTINUATION" => m.op \in {"TEXT", "BINARY"}
    /\ f.masked => /\ Len(m.prepared_key) = 4
                   /\ \A i \in 1 .. 4 :
                         m.prepared_key[i] = f.key[((done + i - 1) % 4) + 1]

\* What process_payload_bytes makes of m and the bytes in of frame f.
Processed(m, f, in) ==
    LET plain == IF f.masked THEN byte_mask_circ(in, m.prepared_key) ELSE in
    IN  [op |-> m.op,
         payload |-> m.payload \o plain,
         prepared_key |-> IF f.masked
                          THEN circshift_prepared_key(m.prepared_key, Len(in) % 4)
                          ELSE m.prepared_key,
         validator |-> IF m.op = "TEXT" THEN Validate(m.validator, plain)
                       ELSE m.validator]

\* Turned by o, a key begins with what was byte o.
LEMMA Turned ==
    ASSUME NEW key \in Seq(STRING), Len(key) = 4, NEW o \in 0 .. 3
    PROVE  LET t == circshift_prepared_key(key, o)
           IN  /\ t \in Seq(STRING) /\ Len(t) = 4
               /\ \A i \in 1 .. 4 : t[i] = key[((o + i - 1) % 4) + 1]
<1> DEFINE a == SubSeq(key, o + 1, 4)
           b == SubSeq(key, 1, o)
           t == a \o b
<1>1. \A i \in 1 .. 4 : key[i] \in STRING
  BY ElementOfSeq
<1>2. /\ a \in Seq(STRING) /\ Len(a) = 4 - o
      /\ \A i \in 1 .. 4 - o : a[i] = key[o + i]
  <2>1. \A i \in o + 1 .. 4 : key[i] \in STRING
    BY <1>1
  <2>2. /\ a \in Seq(STRING) /\ Len(a) = (IF o + 1 <= 4 THEN 4 - (o + 1) + 1 ELSE 0)
        /\ \A i \in 1 .. 4 - (o + 1) + 1 : a[i] = key[(o + 1) + i - 1]
    BY <2>1, SubSeqProperties
  <2>3. \A i \in 1 .. 4 - o : i \in 1 .. 4 - (o + 1) + 1 /\ (o + 1) + i - 1 = o + i
    OBVIOUS
  <2> HIDE DEF a
  <2> QED
    BY <2>2, <2>3
<1>3. /\ b \in Seq(STRING) /\ Len(b) = o
      /\ \A i \in 1 .. o : b[i] = key[i]
  <2>1. \A i \in 1 .. o : key[i] \in STRING
    BY <1>1
  <2>2. /\ b \in Seq(STRING) /\ Len(b) = (IF 1 <= o THEN o - 1 + 1 ELSE 0)
        /\ \A i \in 1 .. o - 1 + 1 : b[i] = key[1 + i - 1]
    BY <2>1, SubSeqProperties
  <2>3. \A i \in 1 .. o : i \in 1 .. o - 1 + 1 /\ 1 + i - 1 = i
    OBVIOUS
  <2> HIDE DEF b
  <2> QED
    BY <2>2, <2>3
<1>4. circshift_prepared_key(key, o) = t
  BY DEF circshift_prepared_key
<1> HIDE DEF a, b
<1>5. /\ t \in Seq(STRING) /\ Len(t) = 4
      /\ \A i \in 1 .. 4 : t[i] = IF i <= 4 - o THEN a[i] ELSE b[i - (4 - o)]
  <2>1. /\ t \in Seq(STRING) /\ Len(t) = Len(a) + Len(b)
        /\ \A i \in 1 .. Len(a) + Len(b) : t[i] = IF i <= Len(a) THEN a[i] ELSE b[i - Len(a)]
    BY <1>2, <1>3, ConcatProperties
  <2>2. Len(a) + Len(b) = 4
    BY <1>2, <1>3
  <2> HIDE DEF t
  <2> QED
    BY <1>2, <2>1, <2>2
<1>6. ASSUME NEW i \in 1 .. 4 PROVE t[i] = key[((o + i - 1) % 4) + 1]
  <2>1. CASE i <= 4 - o
    <3>1. i \in 1 .. 4 - o /\ ((o + i - 1) % 4) + 1 = o + i
      BY <2>1
    <3> HIDE DEF t
    <3> QED
      BY <1>2, <1>5, <2>1, <3>1
  <2>2. CASE ~(i <= 4 - o)
    <3>1. i - (4 - o) \in 1 .. o /\ ((o + i - 1) % 4) + 1 = i - (4 - o)
      BY <2>2
    <3> HIDE DEF t
    <3> QED
      BY <1>3, <1>5, <2>2, <3>1
  <2> QED
    BY <2>1, <2>2
<1> QED
  BY <1>4, <1>5, <1>6

\* The next bytes of the frame, unmasked, are those of its payload.
LEMMA PlainBytesRead ==
    ASSUME NEW f, IsFrame(f), NEW m, NEW done \in Nat, Holds(m, f, done),
           NEW in \in Seq(AnyByte), done + Len(in) <= f.size,
           \A i \in 1 .. Len(in) : in[i] = PayloadByte(f, done + i)
    PROVE  LET plain == IF f.masked THEN byte_mask_circ(in, m.prepared_key) ELSE in
           IN  /\ plain \in Seq(PlainBytes) /\ Len(plain) = Len(in)
               /\ \A i \in 1 .. Len(in) : plain[i] = f.payload[done + i]
<1> DEFINE plain == IF f.masked THEN byte_mask_circ(in, m.prepared_key) ELSE in
           n == Len(in)
<1>1. /\ n \in Nat /\ DOMAIN in = 1 .. n /\ f.size \in Nat
      /\ f.payload \in Seq(PlainBytes) /\ f.size = Len(f.payload)
  BY FrameFacts
<1>2. \A i \in 1 .. n : done + i \in 1 .. f.size /\ f.payload[done + i] \in PlainBytes
  BY <1>1, ElementOfSeq
<1>3. ASSUME f.masked, NEW i \in 1 .. n
      PROVE  (IF in[i][2] = m.prepared_key[((i - 1) % 4) + 1] THEN in[i][1] ELSE "garbage")
                = f.payload[done + i]
  <2>1. in[i] = <<f.payload[done + i], f.key[((done + i - 1) % 4) + 1]>>
    BY <1>3 DEF PayloadByte
  <2>2. ((i - 1) % 4) + 1 \in 1 .. 4
    BY <1>1
  <2>3. m.prepared_key[((i - 1) % 4) + 1] = f.key[((done + (((i - 1) % 4) + 1) - 1) % 4) + 1]
    BY <1>3, <2>2 DEF Holds
  <2>4. (done + (((i - 1) % 4) + 1) - 1) % 4 = (done + i - 1) % 4
    BY <1>1
  <2> QED
    BY <2>1, <2>3, <2>4
<1>4. \A i \in 1 .. n : plain[i] = f.payload[done + i]
  <2>1. CASE f.masked
    BY <1>1, <1>3, <2>1 DEF byte_mask_circ
  <2>2. CASE ~f.masked
    BY <2>2 DEF PayloadByte
  <2> QED
    BY <2>1, <2>2
<1>5. plain \in Seq(PlainBytes) /\ Len(plain) = n
  <2>1. CASE f.masked
    <3>1. plain = [i \in 1 .. n |->
                     IF in[i][2] = m.prepared_key[((i - 1) % 4) + 1] THEN in[i][1]
                     ELSE "garbage"]
      BY <1>1, <2>1 DEF byte_mask_circ
    <3>2. plain \in [1 .. n -> PlainBytes]
      <4>1. \A i \in 1 .. n : plain[i] \in PlainBytes
        BY <1>2, <1>4
      <4>2. DOMAIN plain = 1 .. n /\ plain = [i \in 1 .. n |-> plain[i]]
        BY <3>1
      <4> HIDE DEF plain
      <4> QED
        BY <4>1, <4>2
    <3> HIDE DEF plain
    <3> QED
      BY <1>1, <3>2, FunctionSeq
  <2>2. CASE ~f.masked
    <3>1. plain = in
      BY <2>2
    <3>2. \A i \in 1 .. n : in[i] \in PlainBytes
      BY <1>2, <1>4, <3>1
    <3>3. in \in [1 .. n -> PlainBytes]
      <4>1. in \in [1 .. n -> AnyByte]
        BY LenProperties
      <4> QED
        BY <3>2, <4>1
    <3> QED
      BY <1>1, <3>1, <3>3, FunctionSeq
  <2> QED
    BY <2>1, <2>2
<1> QED
  BY <1>4, <1>5

\* One text after another.
LEMMA Joined ==
    \A a, b, c : a \in Seq(PlainBytes) /\ b \in Seq(PlainBytes) /\ c = a \o b =>
           /\ c \in Seq(PlainBytes) /\ Len(c) = Len(a) + Len(b)
           /\ \A i \in 1 .. Len(a) : c[i] = a[i]
           /\ \A i \in 1 .. Len(b) : c[Len(a) + i] = b[i]
           /\ \A i \in 1 .. Len(a) + Len(b) :
                 c[i] = IF i <= Len(a) THEN a[i] ELSE b[i - Len(a)]
<1> TAKE a, b, c
<1> HAVE a \in Seq(PlainBytes) /\ b \in Seq(PlainBytes) /\ c = a \o b
<1>1. Len(a) \in Nat /\ Len(b) \in Nat
  OBVIOUS
<1>2. /\ c \in Seq(PlainBytes) /\ Len(c) = Len(a) + Len(b)
      /\ \A i \in 1 .. Len(a) + Len(b) :
            c[i] = IF i <= Len(a) THEN a[i] ELSE b[i - Len(a)]
  BY ConcatProperties
<1>3. \A i \in 1 .. Len(a) : i \in 1 .. Len(a) + Len(b) /\ i <= Len(a)
  BY <1>1
<1>4. \A i \in 1 .. Len(b) : /\ Len(a) + i \in 1 .. Len(a) + Len(b)
                             /\ ~(Len(a) + i <= Len(a)) /\ (Len(a) + i) - Len(a) = i
  BY <1>1
<1> QED
  BY ONLY <1>2, <1>3, <1>4

LEMMA HoldsProcessed ==
    ASSUME NEW f, IsFrame(f), NEW m, NEW done \in Nat, Holds(m, f, done),
           NEW in \in Seq(AnyByte), done + Len(in) <= f.size,
           \A i \in 1 .. Len(in) : in[i] = PayloadByte(f, done + i)
    PROVE  /\ Holds(Processed(m, f, in), f, done + Len(in))
           /\ Processed(m, f, in).op = m.op
           /\ Len(Processed(m, f, in).payload) = Len(m.payload) + Len(in)
           /\ \A i \in 1 .. Len(m.payload) :
                 Processed(m, f, in).payload[i] = m.payload[i]
<1> DEFINE plain == IF f.masked THEN byte_mask_circ(in, m.prepared_key) ELSE in
           n == Len(in)
           all == m.payload \o plain
           key == IF f.masked THEN circshift_prepared_key(m.prepared_key, n % 4)
                  ELSE m.prepared_key
           state == IF m.op = "TEXT" THEN Validate(m.validator, plain) ELSE m.validator
           p == Processed(m, f, in)
<1>1. /\ plain \in Seq(PlainBytes) /\ Len(plain) = n
      /\ \A i \in 1 .. n : plain[i] = f.payload[done + i]
  BY PlainBytesRead
<1>2. p = [op |-> m.op, payload |-> all, prepared_key |-> key, validator |-> state]
  BY DEF Processed
<1> HIDE DEF plain
<1>3. /\ m.op \in Opcodes /\ m.payload \in Seq(PlainBytes)
      /\ m.prepared_key \in Seq(STRING) /\ m.validator \in States
  BY DEF Holds, Msgs
<1>4. n \in Nat /\ Len(m.payload) \in Nat /\ done <= Len(m.payload)
  BY <1>3 DEF Holds
<1>5. /\ all \in Seq(PlainBytes) /\ Len(all) = Len(m.payload) + n
      /\ \A i \in 1 .. Len(m.payload) : all[i] = m.payload[i]
      /\ \A i \in 1 .. n : all[Len(m.payload) + i] = plain[i]
  <2> DEFINE mp == m.payload
  <2>1. mp \in Seq(PlainBytes) /\ plain \in Seq(PlainBytes) /\ all = mp \o plain
    BY <1>1, <1>3
  <2> HIDE DEF all, n, mp, key, state, p
  <2>2. /\ all \in Seq(PlainBytes) /\ Len(all) = Len(mp) + Len(plain)
        /\ \A i \in 1 .. Len(mp) : all[i] = mp[i]
        /\ \A i \in 1 .. Len(plain) : all[Len(mp) + i] = plain[i]
    BY ONLY <2>1, Joined
  <2> QED
    BY <1>1, <2>2 DEF mp
<1> HIDE DEF all, key, state, p, n
<1>6. state \in States
  BY <1>1, <1>3, ValidateType DEF state
<1>7. state = IF m.op = "TEXT" THEN Validate("accept", all) ELSE "accept"
  <2>1. CASE m.op = "TEXT"
    <3>1. m.validator = Validate("accept", m.payload)
      BY <2>1 DEF Holds
    <3>2. Validate("accept", all) = Validate(Validate("accept", m.payload), plain)
      BY <1>1, <1>3, ValidateConcat DEF all
    <3> QED
      BY <2>1, <3>1, <3>2 DEF state
  <2>2. CASE m.op # "TEXT"
    BY <2>2 DEF state, Holds
  <2> QED
    BY <2>1, <2>2
<1>8. /\ key \in Seq(STRING)
      /\ f.masked => /\ Len(key) = 4
                     /\ \A i \in 1 .. 4 : key[i] = f.key[((done + n + i - 1) % 4) + 1]
  <2>1. CASE ~f.masked
    BY <1>3, <2>1 DEF key
  <2>2. CASE f.masked
    <3>1. /\ Len(m.prepared_key) = 4
          /\ \A i \in 1 .. 4 : m.prepared_key[i] = f.key[((done + i - 1) % 4) + 1]
      BY <2>2 DEF Holds
    <3>2. n % 4 \in 0 .. 3
      BY <1>4
    <3>3. key = circshift_prepared_key(m.prepared_key, n % 4)
      BY <2>2 DEF key
    <3>4. /\ key \in Seq(STRING) /\ Len(key) = 4
          /\ \A i \in 1 .. 4 : key[i] = m.prepared_key[(((n % 4) + i - 1) % 4) + 1]
      BY <1>3, <3>1, <3>2, <3>3, Turned
    <3>5. ASSUME NEW i \in 1 .. 4 PROVE key[i] = f.key[((done + n + i - 1) % 4) + 1]
      <4> DEFINE j == (((n % 4) + i - 1) % 4) + 1
      <4>1. j \in 1 .. 4 /\ (done + j - 1) % 4 = (done + n + i - 1) % 4
        BY <1>4
      <4>2. key[i] = m.prepared_key[j]
        BY <3>4
      <4> HIDE DEF j
      <4>3. m.prepared_key[j] = f.key[((done + j - 1) % 4) + 1]
        BY <3>1, <4>1
      <4> QED
        BY <4>1, <4>2, <4>3
    <3> QED
      BY <3>4, <3>5
  <2> QED
    BY <2>1, <2>2
<1>9. p.op = m.op /\ p.payload = all /\ p.prepared_key = key /\ p.validator = state
  BY <1>2
<1>10. p \in Msgs
  BY <1>2, <1>3, <1>5, <1>6, <1>8 DEF Msgs
<1>11. ASSUME NEW i \in 1 .. done + n PROVE all[Len(all) - (done + n) + i] = f.payload[i]
  <2>1. Len(all) - (done + n) = Len(m.payload) - done /\ Len(m.payload) - done \in Nat
    BY <1>4, <1>5
  <2>2. CASE i <= done
    <3>1. i \in 1 .. done /\ Len(m.payload) - done + i \in 1 .. Len(m.payload)
      BY <1>4, <2>2
    <3>2. m.payload[Len(m.payload) - done + i] = f.payload[i]
      BY <3>1 DEF Holds
    <3> QED
      BY <1>5, <2>1, <3>1, <3>2
  <2>3. CASE ~(i <= done)
    <3>1. i - done \in 1 .. n /\ Len(m.payload) - done + i = Len(m.payload) + (i - done)
          /\ done + (i - done) = i
      BY <1>4, <2>3
    <3>2. all[Len(m.payload) + (i - done)] = plain[i - done]
      BY <1>5, <3>1
    <3>3. plain[i - done] = f.payload[done + (i - done)]
      BY <1>1, <3>1
    <3> QED
      BY <2>1, <3>1, <3>2, <3>3
  <2> QED
    BY <2>2, <2>3
<1>12. f.op # "CONTINUATION" => Len(all) = done + n /\ m.op = f.op
  BY <1>5 DEF Holds
<1>13. f.op = "CONTINUATION" => m.op \in {"TEXT", "BINARY"}
  BY DEF Holds
<1>14. done + n <= Len(all)
  BY <1>4, <1>5
<1>15. Holds(p, f, done + n)
  BY <1>7, <1>8, <1>9, <1>10, <1>11, <1>12, <1>13, <1>14 DEF Holds
<1> QED
  BY <1>5, <1>9, <1>15 DEF p, n

\* The message before the frame, and the frame whole, are the message now and
\* what is still to come of the frame.
LEMMA HoldsWhole ==
    ASSUME NEW f, IsFrame(f), NEW m, NEW done \in 0 .. f.size, Holds(m, f, done)
    PROVE  /\ SubSeq(m.payload, 1, Len(m.payload) - done) \in Seq(PlainBytes)
           /\ Len(SubSeq(m.payload, 1, Len(m.payload) - done)) = Len(m.payload) - done
           /\ SubSeq(f.payload, done + 1, f.size) \in Seq(PlainBytes)
           /\ SubSeq(m.payload, 1, Len(m.payload) - done) \o f.payload =
                 m.payload \o SubSeq(f.payload, done + 1, f.size)
           /\ f.op # "CONTINUATION" =>
                 f.payload = m.payload \o SubSeq(f.payload, done + 1, f.size)
<1> DEFINE l == Len(m.payload)
           a == SubSeq(m.payload, 1, l - done)
           z == SubSeq(f.payload, done + 1, f.size)
           left == a \o f.payload
           right == m.payload \o z
<1>1. /\ m.payload \in Seq(PlainBytes) /\ l \in Nat /\ done <= l
      /\ f.payload \in Seq(PlainBytes) /\ f.size = Len(f.payload) /\ f.size \in Nat
      /\ done \in Nat /\ done <= f.size
  BY FrameFacts DEF Holds, Msgs
<1>2. /\ a \in Seq(PlainBytes) /\ Len(a) = l - done
      /\ \A i \in 1 .. l - done : a[i] = m.payload[i]
  <2>1. \A i \in 1 .. l - done : m.payload[i] \in PlainBytes
    BY <1>1, ElementOfSeq
  <2>2. /\ a \in Seq(PlainBytes)
        /\ Len(a) = (IF 1 <= l - done THEN l - done - 1 + 1 ELSE 0)
        /\ \A i \in 1 .. l - done - 1 + 1 : a[i] = m.payload[1 + i - 1]
    BY <1>1, <2>1, SubSeqProperties
  <2>3. \A i \in 1 .. l - done : i \in 1 .. l - done - 1 + 1 /\ 1 + i - 1 = i
    BY <1>1
  <2> HIDE DEF a, l
  <2> QED
    BY <1>1, <2>2, <2>3
<1>3. /\ z \in Seq(PlainBytes) /\ Len(z) = f.size - done
      /\ \A i \in 1 .. f.size - done : z[i] = f.payload[done + i]
  <2>1. \A i \in done + 1 .. f.size : f.payload[i] \in PlainBytes
    BY <1>1, ElementOfSeq
  <2>2. /\ z \in Seq(PlainBytes)
        /\ Len(z) = (IF done + 1 <= f.size THEN f.size - (done + 1) + 1 ELSE 0)
        /\ \A i \in 1 .. f.size - (done + 1) + 1 : z[i] = f.payload[(done + 1) + i - 1]
    BY <1>1, <2>1, SubSeqProperties
  <2>3. \A i \in 1 .. f.size - done :
           i \in 1 .. f.size - (done + 1) + 1 /\ (done + 1) + i - 1 = done + i
    BY <1>1
  <2> HIDE DEF z
  <2> QED
    BY <1>1, <2>2, <2>3
<1> HIDE DEF a, z, l
<1>4. /\ left \in Seq(PlainBytes) /\ Len(left) = l - done + f.size
      /\ \A i \in 1 .. l - done + f.size :
            left[i] = IF i <= l - done THEN a[i] ELSE f.payload[i - (l - done)]
  <2> DEFINE fp == f.payload
             k == l - done
  <2>1. /\ a \in Seq(PlainBytes) /\ fp \in Seq(PlainBytes) /\ left = a \o fp
    BY <1>1, <1>2
  <2>4. Len(a) = k /\ Len(fp) = f.size
    BY <1>1, <1>2
  <2> HIDE DEF fp, k, left, right
  <2>2. /\ left \in Seq(PlainBytes) /\ Len(left) = Len(a) + Len(fp)
        /\ \A i \in 1 .. Len(a) + Len(fp) :
              left[i] = IF i <= Len(a) THEN a[i] ELSE fp[i - Len(a)]
    BY ONLY <2>1, Joined
  <2>3. /\ left \in Seq(PlainBytes) /\ Len(left) = k + f.size
        /\ \A i \in 1 .. k + f.size : left[i] = IF i <= k THEN a[i] ELSE fp[i - k]
    BY ONLY <2>4, <2>2
  <2> QED
    BY ONLY <2>3 DEF fp, k
<1>5. /\ right \in Seq(PlainBytes) /\ Len(right) = l + (f.size - done)
      /\ \A i \in 1 .. l + (f.size - done) :
            right[i] = IF i <= l THEN m.payload[i] ELSE z[i - l]
  <2> DEFINE mp == m.payload
             k == f.size - done
  <2>1. /\ mp \in Seq(PlainBytes) /\ z \in Seq(PlainBytes) /\ right = mp \o z
    BY <1>1, <1>3
  <2>4. Len(mp) = l /\ Len(z) = k
    BY <1>1, <1>3 DEF l
  <2> HIDE DEF mp, k, left, right
  <2>2. /\ right \in Seq(PlainBytes) /\ Len(right) = Len(mp) + Len(z)
        /\ \A i \in 1 .. Len(mp) + Len(z) :
              right[i] = IF i <= Len(mp) THEN mp[i] ELSE z[i - Len(mp)]
    BY ONLY <2>1, Joined
  <2>3. /\ right \in Seq(PlainBytes) /\ Len(right) = l + k
        /\ \A i \in 1 .. l + k : right[i] = IF i <= l THEN mp[i] ELSE z[i - l]
    BY ONLY <2>4, <2>2
  <2> QED
    BY ONLY <2>3 DEF mp, k
<1> HIDE DEF left, right
<1>6. ASSUME NEW i \in 1 .. Len(left) PROVE left[i] = right[i]
  <2>1. i \in 1 .. l - done + f.size /\ i \in 1 .. l + (f.size - done)
    BY <1>1, <1>4
  <2>2. CASE i <= l - done
    <3>1. i <= l /\ i \in 1 .. l - done
      BY <1>1, <2>2
    <3> QED
      BY <1>2, <1>4, <1>5, <2>1, <2>2, <3>1
  <2>3. CASE ~(i <= l - done) /\ i <= l
    <3>1. i - (l - done) \in 1 .. done /\ l - done + (i - (l - done)) = i
      BY <1>1, <2>3
    <3>2. m.payload[l - done + (i - (l - done))] = f.payload[i - (l - done)]
      BY <3>1 DEF Holds, l
    <3> QED
      BY <1>4, <1>5, <2>1, <2>3, <3>1, <3>2
  <2>4. CASE ~(i <= l)
    <3>1. ~(i <= l - done) /\ i - l \in 1 .. f.size - done /\ done + (i - l) = i - (l - done)
      BY <1>1, <2>1, <2>4
    <3>2. left[i] = f.payload[i - (l - done)] /\ right[i] = z[i - l]
      BY <1>4, <1>5, <2>1, <2>4, <3>1
    <3>3. z[i - l] = f.payload[done + (i - l)]
      BY <1>3, <3>1
    <3> QED
      BY <3>1, <3>2, <3>3
  <2> QED
    BY <2>2, <2>3, <2>4
<1>7. Len(left) = Len(right)
  BY <1>1, <1>4, <1>5
<1>8. left = right
  BY <1>4, <1>5, <1>6, <1>7, SeqEqual
<1>9. f.op # "CONTINUATION" => f.payload = right
  <2> SUFFICES ASSUME f.op # "CONTINUATION" PROVE f.payload = right
    OBVIOUS
  <2>1. l = done
    BY DEF Holds, l
  <2>2. a = <<>>
    BY <1>1, <1>2, <2>1, EmptySeq
  <2>3. <<>> \o f.payload = f.payload
    BY <1>1, ConcatEmptySeq
  <2> QED
    BY <1>8, <2>2, <2>3 DEF left
<1> QED
  BY <1>2, <1>3, <1>8, <1>9 DEF a, z, l, left, right

\* A message begins with its first frame, and goes on with the key of the next.
LEMMA HoldsNew ==
    ASSUME NEW f, IsFrame(f), f.op # "CONTINUATION"
    PROVE  Holds(Metadata(f.op, f.key), f, 0)
<1> DEFINE m == Metadata(f.op, f.key)
<1>1. f.op \in Opcodes /\ f.key \in Seq(STRING) /\ (f.masked => Len(f.key) = 4)
  BY FrameFacts
<1>2. m = [op |-> f.op, payload |-> <<>>, prepared_key |-> f.key, validator |-> "accept"]
  BY DEF Metadata
<1>3. <<>> \in Seq(PlainBytes) /\ Len(<<>>) = 0 /\ "accept" \in States
  BY DEF States
<1>4. m \in Msgs
  BY <1>1, <1>2, <1>3 DEF Msgs
<1>5. Validate("accept", <<>>) = "accept"
  BY ValidateEmpty
<1>6. \A i \in 1 .. 4 : ((0 + i - 1) % 4) + 1 = i
  OBVIOUS
<1> HIDE DEF m
<1> QED
  BY <1>1, <1>2, <1>3, <1>4, <1>5, <1>6 DEF Holds, m

LEMMA HoldsNext ==
    ASSUME NEW f, IsFrame(f), f.op = "CONTINUATION",
           NEW m \in Msgs, m.op \in {"TEXT", "BINARY"},
           m.validator = IF m.op = "TEXT" THEN Validate("accept", m.payload) ELSE "accept"
    PROVE  Holds([m EXCEPT !.prepared_key = f.key], f, 0)
<1> DEFINE p == [m EXCEPT !.prepared_key = f.key]
<1>1. f.key \in Seq(STRING) /\ (f.masked => Len(f.key) = 4)
  BY FrameFacts
<1>2. p \in Msgs /\ p.op = m.op /\ p.payload = m.payload /\ p.prepared_key = f.key
      /\ p.validator = m.validator
  BY <1>1 DEF Msgs
<1>3. Len(m.payload) \in Nat
  BY DEF Msgs
<1>4. \A i \in 1 .. 4 : ((0 + i - 1) % 4) + 1 = i
  OBVIOUS
<1> HIDE DEF p
<1> QED
  BY <1>1, <1>2, <1>3, <1>4 DEF Holds, p

-----------------------------------------------------------------------------
(***************************************************************************)
(* The invariant of the parser.                                            *)
(***************************************************************************)

\* A fragment's size added to that of a message within the limit is a size_t.
NoSizeWraps ==
    \A server \in Roles : \A f \in Frames(server) : MaxMessageSize + f.size < SizeT

TypedProc ==
    /\ m_server \in Roles
    /\ m_state \in {"HEADER_BASIC", "HEADER_EXTENDED", "APPLICATION", "READY"}
    /\ m_bytes_needed \in 0 .. SizeT - 1
    /\ m_basic_header \in Seq(AnyByte) /\ Len(m_basic_header) <= 2
    /\ m_extended_header \in Seq(AnyByte) /\ Len(m_extended_header) <= 12

TypedMsgs ==
    /\ m_current_msg \in {"none", "data", "control"}
    /\ m_data_msg = NoMsg \/ m_data_msg \in Msgs
    /\ NoSizeWraps /\ m_data_msg # NoMsg => Len(m_data_msg.payload) <= MaxMessageSize

TypedBuffer ==
    /\ wire \in Seq(AnyByte)
    /\ len \in 0 .. BufferSize /\ len <= Len(wire)
    /\ reading \in BOOLEAN

TypedFrames ==
    /\ frames \in Seq(Frames(m_server)) /\ Wellformed(frames)
    /\ sent \in 0 .. MaxFrames /\ delivered \in Nat
    /\ delivered + Len(frames) <= sent
    /\ honest \in BOOLEAN
    /\ err \in {"none", "protocol", "too_big", "invalid_utf8"}
    /\ honest => err \in {"none", "too_big"}

Typed == TypedProc /\ TypedMsgs /\ TypedBuffer /\ TypedFrames

\* A data message between its frames: its validator knows all of it.
DataOk(m) ==
    /\ m.op \in {"TEXT", "BINARY"}
    /\ m.validator = IF m.op = "TEXT" THEN Validate("accept", m.payload) ELSE "accept"
    /\ m.validator # "reject"

\* Part of the basic header of the first frame was read.
BasicRead ==
    /\ m_bytes_needed \in {1, 2}
    /\ Len(m_basic_header) = 2 - m_bytes_needed
    /\ m_bytes_needed = 1 => frames # <<>> /\ m_basic_header[1] = B0(frames[1])
    /\ Aligned(frames, wire, 2 - m_bytes_needed)
    /\ honest => m_data_msg = NoMsg

\* All of it, and part of its extended header.
ExtendedRead ==
    /\ frames # <<>>
    /\ m_basic_header = <<B0(frames[1]), B1(frames[1])>>
    /\ ValidBasicHeader(B0(frames[1]), B1(frames[1]), m_data_msg = NoMsg)
    /\ m_bytes_needed <= ExtLen(frames[1])
    /\ Len(m_extended_header) = ExtLen(frames[1]) - m_bytes_needed
    /\ \A i \in 1 .. Len(m_extended_header) : m_extended_header[i] = Wire(frames[1])[2 + i]
    /\ Aligned(frames, wire, 2 + ExtLen(frames[1]) - m_bytes_needed)
    /\ honest => m_data_msg = NoMsg

\* The header of f is one that the processor accepts.
Regular(f) ==
    /\ f.masked = m_server
    /\ ~f.rsv
    /\ ~reserved(f.op)
    /\ is_control(f.op) => f.fin /\ f.size <= BasicLimit
    /\ f.enc = BasicSize(f.size)

\* The message that frame f belongs to.
MsgOf(f) == IF is_control(f.op) THEN m_control_msg ELSE m_data_msg

\* All of its header, and part of its payload.
PayloadRead ==
    /\ frames # <<>>
    /\ m_basic_header = <<B0(frames[1]), B1(frames[1])>>
    /\ get_payload_size(B1(frames[1]), m_extended_header) = frames[1].size
    /\ Regular(frames[1])
    /\ m_bytes_needed <= frames[1].size
    /\ Aligned(frames, wire, WireLen(frames[1]) - m_bytes_needed)
    /\ m_current_msg = IF is_control(frames[1].op) THEN "control" ELSE "data"
    /\ Holds(MsgOf(frames[1]), frames[1], frames[1].size - m_bytes_needed)
    /\ MsgOf(frames[1]).validator # "reject"
    /\ NoSizeWraps /\ ~is_control(frames[1].op) =>
          Len(m_data_msg.payload) + m_bytes_needed <= MaxMessageSize
    /\ honest => /\ frames[1].op # "CONTINUATION"
                 /\ is_control(frames[1].op) => m_data_msg = NoMsg

FrameReady ==
    /\ m_bytes_needed = 0
    /\ frames[1].fin
    /\ frames[1].op = "TEXT" => m_data_msg.validator = "accept"

\* What the processor of the other end of server makes (FromProcessor).
PreparedBy(server, f) ==
    \/ /\ f.op \in {"TEXT", "BINARY"}
       /\ f \in prepare_data_frame(~server, f.op, f.payload, TRUE, f.key)
    \/ /\ f.op \in ControlOpcodes
       /\ f \in prepare_control(~server, f.op, f.payload, f.key)

Live ==
    /\ reading => m_state # "READY" /\ m_bytes_needed > 0
    /\ m_data_msg # NoMsg => DataOk(m_data_msg)
    /\ honest => \A i \in 1 .. Len(frames) : PreparedBy(m_server, frames[i])
    /\ m_state = "HEADER_BASIC" => BasicRead
    /\ m_state = "HEADER_EXTENDED" => ExtendedRead
    /\ m_state \in {"APPLICATION", "READY"} => PayloadRead
    /\ m_state = "READY" => FrameReady

HInv == Typed /\ (err = "none" => Live)

-----------------------------------------------------------------------------
(***************************************************************************)
(* What the actions have in common.                                        *)
(***************************************************************************)

LEMMA SizeTNat == SizeT \in Nat /\ 0 < SizeT /\ 255 < SizeT
  BY Powers

LEMMA FirstFrame ==
    ASSUME TypedProc, TypedFrames, frames # <<>>
    PROVE  /\ IsFrame(frames[1]) /\ frames[1] \in Frames(m_server)
           /\ Head(frames) = frames[1]
           /\ Len(frames) \in Nat /\ Len(frames) > 0 /\ 1 \in 1 .. Len(frames)
           /\ Len(Tail(frames)) = Len(frames) - 1
           /\ Tail(frames) \in Seq(Frames(m_server))
           /\ \A i \in 1 .. Len(frames) - 1 : Tail(frames)[i] = frames[i + 1]
<1> USE DEF TypedFrames, TypedProc
<1>1. frames \in Seq(Frames(m_server)) /\ Len(frames) \in Nat /\ Len(frames) > 0
      /\ 1 \in 1 .. Len(frames)
  BY EmptySeq
<1>2. frames[1] \in Frames(m_server)
  BY <1>1, ElementOfSeq
<1>3. IsFrame(frames[1])
  BY <1>2, FramesAssumption
<1> QED
  BY <1>1, <1>2, <1>3, HeadTailProperties

\* n bytes are taken from the buffer.
LEMMA Taking ==
    ASSUME Typed, NEW n, n = Chunk
    PROVE  /\ n \in Nat /\ n <= m_bytes_needed /\ m_bytes_needed \in Nat
           /\ n <= len /\ n \in 0 .. Len(wire)
           /\ n < m_bytes_needed => n = len
           /\ Bytes(n) \in Seq(AnyByte) /\ Len(Bytes(n)) = n
           /\ \A i \in 1 .. n : Bytes(n)[i] = wire[i]
<1>1. /\ m_bytes_needed \in Nat /\ len \in Nat /\ Len(wire) \in Nat /\ len <= Len(wire)
      /\ wire \in Seq(AnyByte)
  BY SizeTNat, SizeAssumption DEF Typed, TypedProc, TypedBuffer
<1>2. n \in Nat /\ n <= m_bytes_needed /\ n <= len /\ (n < m_bytes_needed => n = len)
  BY <1>1 DEF Chunk
<1>3. n \in 0 .. Len(wire)
  BY <1>1, <1>2
<1> DEFINE s == SubSeq(wire, 1, n)
<1>4. \A i \in 1 .. n : wire[i] \in AnyByte
  BY <1>1, <1>3, ElementOfSeq
<1>5. /\ s \in Seq(AnyByte) /\ Len(s) = (IF 1 <= n THEN n - 1 + 1 ELSE 0)
      /\ \A i \in 1 .. n - 1 + 1 : s[i] = wire[1 + i - 1]
  BY <1>1, <1>2, <1>4, SubSeqProperties
<1>6. \A i \in 1 .. n : i \in 1 .. n - 1 + 1 /\ 1 + i - 1 = i
  BY <1>2
<1>7. Bytes(n) = s
  BY DEF Bytes
<1> HIDE DEF s
<1> QED
  BY <1>1, <1>2, <1>3, <1>5, <1>6, <1>7

LEMMA BytesTaken ==
    ASSUME Typed, NEW n, n = Chunk, TakeBytes(n)
    PROVE  /\ wire' \in Seq(AnyByte) /\ Len(wire') = Len(wire) - n
           /\ len' \in 0 .. BufferSize /\ len' <= Len(wire')
           /\ \A pos \in Nat : Aligned(frames, wire, pos) => Aligned(frames, wire', pos + n)
<1>1. /\ n \in Nat /\ n <= len /\ n \in 0 .. Len(wire) /\ len \in 0 .. BufferSize
      /\ len <= Len(wire) /\ wire \in Seq(AnyByte) /\ Len(wire) \in Nat
      /\ Wellformed(frames) /\ BufferSize \in Nat
  BY Taking, SizeAssumption DEF Typed, TypedBuffer, TypedFrames
<1>2. wire' = SubSeq(wire, n + 1, Len(wire)) /\ len' = len - n
  BY DEF TakeBytes
<1>3. /\ SubSeq(wire, n + 1, Len(wire)) \in Seq(AnyByte)
      /\ Len(SubSeq(wire, n + 1, Len(wire))) = Len(wire) - n
  <2>1. \A i \in n + 1 .. Len(wire) : wire[i] \in AnyByte
    BY <1>1, ElementOfSeq
  <2> DEFINE s == SubSeq(wire, n + 1, Len(wire))
  <2>2. /\ s \in Seq(AnyByte)
        /\ Len(s) = (IF n + 1 <= Len(wire) THEN Len(wire) - (n + 1) + 1 ELSE 0)
    BY <1>1, <2>1, SubSeqProperties
  <2> HIDE DEF s
  <2>3. Len(s) = Len(wire) - n
    BY <1>1, <2>2
  <2> QED
    BY <2>2, <2>3 DEF s
<1>4. \A pos \in Nat : Aligned(frames, wire, pos) =>
                          Aligned(frames, SubSeq(wire, n + 1, Len(wire)), pos + n)
  BY <1>1, AlignedTake
<1> QED
  BY <1>1, <1>2, <1>3, <1>4

\* Bytes in the buffer are those of a frame.
LEMMA SomeFrame ==
    ASSUME Typed, Aligned(frames, wire, 0), Len(wire) > 0
    PROVE  frames # <<>>
<1>1. Len(wire) \in Nat
  BY DEF Typed, TypedBuffer
<1> QED
  BY <1>1, AlignedNone

\* Bytes pos + 1 to pos + n of the first frame.
LEMMA NextBytes ==
    ASSUME Typed, NEW n, n = Chunk, frames # <<>>, NEW pos \in Nat,
           Aligned(frames, wire, pos), pos + n <= WireLen(frames[1])
    PROVE  \A i \in 1 .. n : Bytes(n)[i] = Wire(frames[1])[pos + i]
<1>1. /\ n \in 0 .. Len(wire) /\ n \in Nat /\ \A i \in 1 .. n : Bytes(n)[i] = wire[i]
  BY Taking
<1>2. /\ wire \in Seq(AnyByte) /\ Wellformed(frames) /\ Len(wire) \in Nat
  BY DEF Typed, TypedBuffer, TypedFrames
<1>3. \A j \in 1 .. Len(wire) :
         pos + j <= WireLen(frames[1]) => wire[j] = Wire(frames[1])[pos + j]
  BY <1>2, AlignedHead
<1>4. WireLen(frames[1]) \in Nat
  BY <1>2, AlignedHead, FrameFacts
<1>5. \A i \in 1 .. n : i \in 1 .. Len(wire) /\ pos + i <= WireLen(frames[1])
  BY <1>1, <1>2, <1>4
<1> QED
  BY <1>1, <1>3, <1>5

\* The first frame is dealt with.
LEMMA FrameGone ==
    ASSUME Typed, frames # <<>>, frames' = Tail(frames), m_server' = m_server,
           sent' = sent, honest' = honest
    PROVE  /\ frames' \in Seq(Frames(m_server')) /\ Wellformed(frames')
           /\ sent' \in 0 .. MaxFrames /\ honest' \in BOOLEAN
           /\ Len(frames') = Len(frames) - 1
           /\ Len(frames) \in Nat /\ Len(frames) > 0
           /\ \A d \in Nat : d + Len(frames) <= sent => d + 1 + Len(frames') <= sent'
<1>1. /\ IsFrame(frames[1]) /\ Len(frames) \in Nat /\ Len(frames) > 0
      /\ Len(Tail(frames)) = Len(frames) - 1
      /\ Tail(frames) \in Seq(Frames(m_server))
      /\ \A i \in 1 .. Len(frames) - 1 : Tail(frames)[i] = frames[i + 1]
  BY FirstFrame DEF Typed
<1>2. /\ frames \in Seq(AnyFrame) /\ \A i \in 1 .. Len(frames) : IsFrame(frames[i])
      /\ sent \in 0 .. MaxFrames /\ honest \in BOOLEAN
  BY DEF Typed, TypedFrames, Wellformed
<1>3. Tail(frames) \in Seq(AnyFrame)
  BY <1>2, HeadTailProperties
<1>4. \A i \in 1 .. Len(frames) - 1 : i + 1 \in 1 .. Len(frames)
  BY <1>1
<1>5. Wellformed(Tail(frames))
  BY <1>1, <1>2, <1>3, <1>4 DEF Wellformed
<1>6. \A d \in Nat : d + Len(frames) <= sent => d + 1 + (Len(frames) - 1) <= sent
  BY <1>1, <1>2, SizeAssumption
<1> QED
  BY <1>1, <1>2, <1>5, <1>6

LEMMA Failed ==
    ASSUME Typed, frames # <<>>, NEW ec \in {"protocol", "too_big", "invalid_utf8"},
           Fail(ec), honest => ec = "too_big",
           m_server' = m_server, sent' = sent, honest' = honest, delivered' = delivered
    PROVE  TypedFrames' /\ err' # "none"
<1>1. frames' = Tail(frames) /\ err' = ec
  BY DEF Fail
<1>2. /\ frames' \in Seq(Frames(m_server')) /\ Wellformed(frames')
      /\ sent' \in 0 .. MaxFrames /\ honest' \in BOOLEAN
      /\ Len(frames') \in Nat /\ Len(frames) \in Nat
      /\ delivered + Len(frames) <= sent => delivered + 1 + Len(frames') <= sent'
      /\ delivered \in Nat /\ delivered + Len(frames) <= sent
  <2>1. delivered \in Nat /\ delivered + Len(frames) <= sent
    BY DEF Typed, TypedFrames
  <2>2. /\ frames' \in Seq(Frames(m_server')) /\ Wellformed(frames')
        /\ sent' \in 0 .. MaxFrames /\ honest' \in BOOLEAN
        /\ Len(frames') = Len(frames) - 1
        /\ Len(frames) \in Nat /\ Len(frames) > 0
        /\ \A d \in Nat : d + Len(frames) <= sent => d + 1 + Len(frames') <= sent'
    BY <1>1, FrameGone
  <2> QED
    BY <2>1, <2>2
<1>3. delivered' \in Nat /\ delivered' + Len(frames') <= sent'
  <2>1. sent' \in Nat
    BY <1>2, SizeAssumption
  <2> QED
    BY <1>2, <2>1
<1> QED
  BY <1>1, <1>2, <1>3 DEF TypedFrames

-----------------------------------------------------------------------------
(***************************************************************************)
(* The transport's steps.                                                  *)
(***************************************************************************)

LEMMA InitInv == Init => HInv
<1> SUFFICES ASSUME Init PROVE HInv
  OBVIOUS
<1> USE DEF Init
<1>1. /\ <<>> \in Seq(AnyByte) /\ Len(<<>>) = 0
      /\ <<>> \in Seq(Frames(m_server)) /\ <<>> \in Seq(AnyFrame)
      /\ \A x : x # <<>> => x # <<>>
  OBVIOUS
<1>2. 2 \in 0 .. SizeT - 1
  BY SizeTNat
<1>3. Typed
  <2>1. Wellformed(<<>>)
    BY <1>1 DEF Wellformed
  <2>2. 0 \in 0 .. BufferSize /\ 0 \in 0 .. MaxFrames
    BY SizeAssumption
  <2> QED
    BY <1>1, <1>2, <2>1, <2>2 DEF Typed, TypedProc, TypedMsgs, TypedBuffer, TypedFrames
<1>4. Aligned(<<>>, <<>>, 0)
  <2> DEFINE b == [i \in 0 .. 0 |-> 0]
  <2>1. b \in [0 .. 0 -> Int] /\ b[0] = 0 - 0 /\ \A i \in 0 .. 0 : b[i] = 0
    OBVIOUS
  <2> HIDE DEF b
  <2>2. Layout(b, <<>>, <<>>, 0)
    BY <1>1, <2>1 DEF Layout
  <2> QED
    BY <2>2 DEF Aligned
<1>5. Live
  <2>1. 2 - m_bytes_needed = 0 /\ m_bytes_needed # 1
    OBVIOUS
  <2>2. BasicRead
    BY <1>1, <1>4, <2>1 DEF BasicRead
  <2> QED
    BY <1>1, <2>2 DEF Live
<1> QED
  BY <1>3, <1>5 DEF HInv

LEMMA Arriving ==
    ASSUME Typed, NEW f \in Frames(m_server), wire' = wire \o Wire(f),
           frames' = Append(frames, f), m_server' = m_server,
           NEW pos \in Nat, Aligned(frames, wire, pos)
    PROVE  /\ Aligned(frames', wire', pos)
           /\ wire' \in Seq(AnyByte) /\ Len(wire') \in Nat /\ Len(wire) <= Len(wire')
           /\ frames' \in Seq(Frames(m_server')) /\ Wellformed(frames')
           /\ Len(frames') = Len(frames) + 1 /\ Len(frames) \in Nat
           /\ frames' # <<>>
           /\ frames # <<>> => frames'[1] = frames[1]
           /\ \A i \in 1 .. Len(frames) : frames'[i] = frames[i]
           /\ frames'[Len(frames) + 1] = f
<1>1. /\ wire \in Seq(AnyByte) /\ Wellformed(frames) /\ frames \in Seq(Frames(m_server))
      /\ m_server \in BOOLEAN /\ m_server \in Roles
  BY SizeAssumption DEF Typed, TypedBuffer, TypedFrames, TypedProc
<1>2. IsFrame(f) /\ f \in AnyFrame
  BY <1>1, FramesAssumption DEF AnyFrame
<1>3. /\ Aligned(Append(frames, f), wire \o Wire(f), pos)
      /\ wire \o Wire(f) \in Seq(AnyByte)
      /\ Wellformed(Append(frames, f))
  BY <1>1, <1>2, AlignedArrive
<1>4. /\ Append(frames, f) \in Seq(Frames(m_server))
      /\ Len(Append(frames, f)) = Len(frames) + 1 /\ Len(frames) \in Nat
      /\ \A i \in 1 .. Len(frames) : Append(frames, f)[i] = frames[i]
      /\ Append(frames, f)[Len(frames) + 1] = f
      /\ Append(frames, f) # <<>>
  BY <1>1, AppendProperties
<1>5. frames # <<>> => 1 \in 1 .. Len(frames)
  BY <1>1, EmptySeq
<1>6. Len(wire \o Wire(f)) = Len(wire) + Len(Wire(f)) /\ Len(wire) \in Nat
      /\ Len(Wire(f)) \in Nat
  <2>1. Wire(f) \in Seq(AnyByte)
    BY <1>2, WireFacts
  <2> QED
    BY <1>1, <2>1, ConcatProperties
<1>7. Len(wire') \in Nat /\ Len(wire) <= Len(wire')
  <2> DEFINE x == Len(wire)
             y == Len(Wire(f))
  <2>1. x \in Nat /\ y \in Nat /\ Len(wire') = x + y
    BY <1>6
  <2> HIDE DEF x, y
  <2>2. Len(wire') \in Nat /\ x <= Len(wire')
    BY <2>1
  <2> QED
    BY <2>2 DEF x
<1> QED
  BY <1>3, <1>4, <1>5, <1>7

\* How many bytes of the first frame were read.
LEMMA PayloadPos ==
    ASSUME Typed, PayloadRead
    PROVE  /\ WireLen(frames[1]) - m_bytes_needed \in Nat
           /\ Aligned(frames, wire, WireLen(frames[1]) - m_bytes_needed)
           /\ frames[1].size \in Nat /\ m_bytes_needed \in 0 .. frames[1].size
           /\ frames[1].size - m_bytes_needed \in 0 .. frames[1].size
           /\ WireLen(frames[1]) = 2 + ExtLen(frames[1]) + frames[1].size
           /\ ExtLen(frames[1]) \in 0 .. 12 /\ WireLen(frames[1]) \in Nat
<1> DEFINE a == frames[1].size
           e == ExtLen(frames[1])
           w == WireLen(frames[1])
<1>1. frames # <<>> /\ m_bytes_needed <= a /\ Aligned(frames, wire, w - m_bytes_needed)
  BY DEF PayloadRead
<1>2. a \in Nat /\ e \in 0 .. 12 /\ w \in Nat
  BY <1>1, FirstFrame, FrameFacts DEF Typed
<1>3. w = 2 + e + a
  BY DEF WireLen
<1>4. m_bytes_needed \in Nat
  BY SizeTNat DEF Typed, TypedProc
<1> HIDE DEF a, e, w
<1>5. w - m_bytes_needed \in Nat /\ m_bytes_needed \in 0 .. a
      /\ a - m_bytes_needed \in 0 .. a
  BY ONLY <1>1, <1>2, <1>3, <1>4
<1> QED
  BY <1>1, <1>2, <1>3, <1>5 DEF a, e, w

LEMMA ArriveInv ==
    ASSUME HInv, NEW f \in Frames(m_server), Arrive(f)
    PROVE  HInv'
<1> USE DEF Arrive, procVars, outVars
<1>1. Typed /\ Live /\ err = "none" /\ err' = "none" /\ reading
  BY DEF HInv
<1>2. m_server' = m_server /\ frames' = Append(frames, f) /\ wire' = wire \o Wire(f)
  OBVIOUS
<1>3. ASSUME NEW pos \in Nat, Aligned(frames, wire, pos), Live' PROVE HInv'
  <2>1. /\ wire' \in Seq(AnyByte) /\ Len(wire') \in Nat /\ Len(wire) <= Len(wire')
        /\ frames' \in Seq(Frames(m_server')) /\ Wellformed(frames')
        /\ Len(frames') = Len(frames) + 1 /\ Len(frames) \in Nat
    BY <1>1, <1>2, <1>3, Arriving
  <2>2. TypedProc'
    BY <1>1, <1>2 DEF Typed, TypedProc
  <2>3. TypedMsgs'
    BY <1>1, <1>2 DEF Typed, TypedMsgs, msgVars, NoSizeWraps, Arrive
  <2>4. TypedBuffer'
    BY <1>1, <1>2, <2>1, SizeAssumption DEF Typed, TypedBuffer
  <2>5. TypedFrames'
    <3>1. /\ delivered' = delivered /\ sent' = sent + 1 /\ sent < MaxFrames
          /\ sent \in 0 .. MaxFrames /\ delivered \in Nat
          /\ delivered + Len(frames) <= sent /\ honest \in BOOLEAN
          /\ honest' = (honest /\ FromProcessor(f))
      BY <1>1 DEF Typed, TypedFrames
    <3>2. sent' \in 0 .. MaxFrames /\ delivered' \in Nat /\ delivered' + Len(frames') <= sent'
      BY <2>1, <3>1, SizeAssumption
    <3> QED
      BY <1>1, <2>1, <3>1, <3>2 DEF TypedFrames
  <2> QED
    BY <1>3, <2>2, <2>3, <2>4, <2>5 DEF HInv, Typed
<1>4. /\ m_state' = m_state /\ m_bytes_needed' = m_bytes_needed
      /\ m_basic_header' = m_basic_header /\ m_extended_header' = m_extended_header
      /\ m_data_msg' = m_data_msg /\ m_control_msg' = m_control_msg
      /\ m_current_msg' = m_current_msg /\ reading' = reading
      /\ honest' => honest
  BY DEF msgVars
<1>5. m_state # "READY" /\ m_bytes_needed \in Nat
  BY <1>1, SizeTNat DEF Live, Typed, TypedProc
<1>6. ASSUME NEW pos \in Nat, Aligned(frames, wire, pos), honest'
      PROVE  \A i \in 1 .. Len(frames') : PreparedBy(m_server', frames'[i])
  <2>1. /\ Len(frames') = Len(frames) + 1 /\ Len(frames) \in Nat
        /\ \A i \in 1 .. Len(frames) : frames'[i] = frames[i]
        /\ frames'[Len(frames) + 1] = f
    BY <1>1, <1>2, <1>6, Arriving
  <2>2. \A i \in 1 .. Len(frames) : PreparedBy(m_server, frames[i])
    BY <1>1, <1>4, <1>6 DEF Live
  <2>3. PreparedBy(m_server, f)
    BY <1>6 DEF FromProcessor, PreparedBy
  <2>4. \A i \in 1 .. Len(frames) + 1 : i \in 1 .. Len(frames) \/ i = Len(frames) + 1
    BY <2>1
  <2> QED
    BY ONLY <1>2, <2>1, <2>2, <2>3, <2>4
<1>7. CASE m_state = "HEADER_BASIC"
  <2>1. BasicRead
    BY <1>1, <1>7 DEF Live
  <2> DEFINE pos == 2 - m_bytes_needed
  <2>2. pos \in Nat /\ Aligned(frames, wire, pos)
    BY <2>1 DEF BasicRead
  <2> HIDE DEF pos
  <2>3. /\ Aligned(frames', wire', pos) /\ frames' # <<>>
        /\ frames # <<>> => frames'[1] = frames[1]
    BY <1>1, <1>2, <2>2, Arriving
  <2>4. BasicRead'
    BY <1>4, <2>1, <2>3 DEF BasicRead, pos
  <2>5. Live'
    BY <1>1, <1>4, <1>6, <1>7, <2>2, <2>4 DEF Live, DataOk
  <2> QED
    BY <1>3, <2>2, <2>5
<1>8. CASE m_state = "HEADER_EXTENDED"
  <2>1. ExtendedRead
    BY <1>1, <1>8 DEF Live
  <2> DEFINE pos == 2 + ExtLen(frames[1]) - m_bytes_needed
  <2>2. pos \in Nat /\ Aligned(frames, wire, pos)
    <3>1. ExtLen(frames[1]) \in 0 .. 12
      BY <1>1, <2>1, FirstFrame, FrameFacts DEF Typed, ExtendedRead
    <3> QED
      BY <1>5, <2>1, <3>1 DEF ExtendedRead
  <2> HIDE DEF pos
  <2>3. /\ Aligned(frames', wire', pos) /\ frames' # <<>>
        /\ frames # <<>> => frames'[1] = frames[1]
    BY <1>1, <1>2, <2>2, Arriving
  <2>4. ExtendedRead'
    BY <1>2, <1>4, <2>1, <2>3, SMTT(60) DEF ExtendedRead, ValidBasicHeader, pos
  <2>5. Live'
    BY <1>1, <1>4, <1>6, <1>8, <2>2, <2>4 DEF Live, DataOk
  <2> QED
    BY <1>3, <2>2, <2>5
<1>9. CASE m_state = "APPLICATION"
  <2>1. PayloadRead
    BY <1>1, <1>9 DEF Live
  <2> DEFINE pos == WireLen(frames[1]) - m_bytes_needed
  <2>2. pos \in Nat /\ Aligned(frames, wire, pos)
    BY <1>1, <2>1, PayloadPos
  <2> HIDE DEF pos
  <2>3. /\ Aligned(frames', wire', pos) /\ frames' # <<>>
        /\ frames # <<>> => frames'[1] = frames[1]
    BY <1>1, <1>2, <2>2, Arriving
  <2>4. PayloadRead'
    <3>1. frames # <<>> /\ frames'[1] = frames[1]
      BY <2>1, <2>3 DEF PayloadRead
    <3>2. \A x : Regular(x) => Regular(x)'
      BY <1>2 DEF Regular
    <3> QED
      BY <1>2, <1>4, <2>1, <2>3, <3>1 DEF PayloadRead, Regular, MsgOf, NoSizeWraps, pos
  <2>5. Live'
    BY <1>1, <1>4, <1>6, <1>9, <2>2, <2>4 DEF Live, DataOk
  <2> QED
    BY <1>3, <2>2, <2>5
<1> QED
  BY <1>1, <1>5, <1>7, <1>8, <1>9 DEF Typed, TypedProc

LEMMA ReadInv ==
    ASSUME HInv, NEW n \in 1 .. BufferSize, Read(n)
    PROVE  HInv'
<1> USE DEF Read, procVars, msgVars, sentVars, outVars
<1>1. Typed /\ Live /\ err = "none" /\ err' = "none"
  BY DEF HInv
<1>2. Typed'
  <2>1. TypedProc' /\ TypedMsgs' /\ TypedFrames'
    BY <1>1 DEF Typed, TypedProc, TypedMsgs, TypedFrames, NoSizeWraps
  <2>2. TypedBuffer'
    <3>1. wire' = wire /\ len' = n /\ n <= Len(wire) /\ reading' = FALSE
      OBVIOUS
    <3>2. n \in 0 .. BufferSize
      BY SizeAssumption
    <3> QED
      BY <1>1, <3>1, <3>2 DEF Typed, TypedBuffer
  <2> QED
    BY <2>1, <2>2 DEF Typed
<1>3. m_server' = m_server /\ frames' = frames /\ honest' = honest
  OBVIOUS
<1>4. /\ BasicRead => BasicRead'
      /\ ExtendedRead => ExtendedRead'
      /\ PayloadRead => PayloadRead'
      /\ FrameReady => FrameReady'
  <2>1. BasicRead => BasicRead'
    BY DEF BasicRead
  <2>2. ExtendedRead => ExtendedRead'
    BY DEF ExtendedRead, ValidBasicHeader
  <2>3. PayloadRead => PayloadRead'
    BY DEF PayloadRead, Regular, MsgOf, NoSizeWraps
  <2>4. FrameReady => FrameReady'
    BY DEF FrameReady
  <2> QED
    BY <2>1, <2>2, <2>3, <2>4
<1>5. Live'
  BY <1>1, <1>3, <1>4 DEF Live, DataOk
<1> QED
  BY <1>2, <1>5 DEF HInv

LEMMA ReadMoreInv ==
    ASSUME HInv, ReadMore
    PROVE  HInv'
<1> USE DEF ReadMore, procVars, msgVars, bufVars, sentVars, outVars
<1>1. Typed /\ Live /\ err = "none" /\ err' = "none"
  BY DEF HInv
<1>2. Typed'
  BY <1>1 DEF Typed, TypedProc, TypedMsgs, TypedFrames, TypedBuffer, NoSizeWraps
<1>3. m_server' = m_server /\ frames' = frames /\ honest' = honest
  OBVIOUS
<1>4. /\ BasicRead => BasicRead'
      /\ ExtendedRead => ExtendedRead'
      /\ PayloadRead => PayloadRead'
      /\ FrameReady => FrameReady'
  <2>1. BasicRead => BasicRead'
    BY DEF BasicRead
  <2>2. ExtendedRead => ExtendedRead'
    BY DEF ExtendedRead, ValidBasicHeader
  <2>3. PayloadRead => PayloadRead'
    BY DEF PayloadRead, Regular, MsgOf, NoSizeWraps
  <2>4. FrameReady => FrameReady'
    BY DEF FrameReady
  <2> QED
    BY <2>1, <2>2, <2>3, <2>4
<1>5. m_bytes_needed > 0
  BY <1>1, SizeTNat DEF Consuming, Typed, TypedProc
<1>6. Live'
  BY <1>1, <1>3, <1>4, <1>5 DEF Live, DataOk
<1> QED
  BY <1>2, <1>6 DEF HInv

-----------------------------------------------------------------------------
(***************************************************************************)
(* The basic header.                                                       *)
(***************************************************************************)

\* What a processor prepares has a header that is accepted, at any time when
\* no data message is begun.
LEMMA PreparedIsRegular ==
    ASSUME TypedProc, NEW f, IsFrame(f), PreparedBy(m_server, f)
    PROVE  /\ Regular(f) /\ f.fin
           /\ f.op \in {"TEXT", "BINARY"} \cup ControlOpcodes
           /\ f.op = "TEXT" => Validate("accept", f.payload) = "accept"
           /\ ValidBasicHeader(B0(f), B1(f), TRUE)
<1>1. m_server \in BOOLEAN /\ f.size = Len(f.payload) /\ f.size \in Nat
      /\ f.masked \in BOOLEAN
  BY FrameFacts, SizeAssumption DEF TypedProc
<1>2. /\ f = Prepared(~m_server, f.op, f.payload, TRUE, f.key)
      /\ \/ f.op \in {"TEXT", "BINARY"}
         \/ f.op \in ControlOpcodes /\ f.size <= BasicLimit
      /\ f.op = "TEXT" => Validate("accept", f.payload) = "accept"
  <2>1. CASE /\ f.op \in {"TEXT", "BINARY"}
             /\ f \in prepare_data_frame(~m_server, f.op, f.payload, TRUE, f.key)
    BY <2>1 DEF prepare_data_frame
  <2>2. CASE /\ f.op \in ControlOpcodes
             /\ f \in prepare_control(~m_server, f.op, f.payload, f.key)
    <3>1. /\ f = Prepared(~m_server, f.op, f.payload, TRUE, f.key)
          /\ ~(Len(f.payload) > BasicLimit)
      BY <2>2 DEF prepare_control
    <3>2. f.size <= BasicLimit
      BY <1>1, <3>1, RadixAssumption
    <3> QED
      BY <2>2, <3>1, <3>2 DEF ControlOpcodes
  <2> QED
    BY <2>1, <2>2 DEF PreparedBy
<1>3. f.fin = TRUE /\ f.rsv = FALSE /\ f.enc = BasicSize(f.size)
      /\ f.masked = ~(~m_server)
  <2> DEFINE r == Prepared(~m_server, f.op, f.payload, TRUE, f.key)
  <2>1. /\ r.fin = TRUE /\ r.rsv = FALSE /\ r.enc = BasicSize(Len(f.payload))
        /\ r.masked = ~(~m_server)
    BY DEF Prepared
  <2> HIDE DEF r
  <2> QED
    BY <1>1, <1>2, <2>1 DEF r
<1>4. f.masked = m_server
  BY <1>1, <1>3
<1>5. ~reserved(f.op) /\ (is_control(f.op) => f.size <= BasicLimit)
  BY <1>2 DEF reserved, ReservedOpcodes, is_control, ControlOpcodes
<1>6. is_control(f.op) => ~(f.enc > BasicLimit)
  BY <1>1, <1>3, <1>5, RadixAssumption DEF BasicSize
<1>7. ValidBasicHeader(B0(f), B1(f), TRUE)
  BY <1>2, <1>3, <1>4, <1>5, <1>6
     DEF ValidBasicHeader, B0, B1, is_control, ControlOpcodes
<1> QED
  BY <1>2, <1>3, <1>4, <1>5, <1>7 DEF Regular

LEMMA TwoBytes ==
    \A s, a, b : s \in Seq(AnyByte) /\ Len(s) = 2 /\ s[1] = a /\ s[2] = b => s = <<a, b>>
<1> TAKE s, a, b
<1> HAVE s \in Seq(AnyByte) /\ Len(s) = 2 /\ s[1] = a /\ s[2] = b
<1>1. 1 \in 1 .. Len(s) /\ 2 \in 1 .. Len(s)
  OBVIOUS
<1>2. a \in AnyByte /\ b \in AnyByte
  BY <1>1, ElementOfSeq
<1>3. <<a, b>> \in Seq(AnyByte) /\ Len(<<a, b>>) = 2
  BY <1>2
<1>4. \A i \in 1 .. Len(s) : s[i] = <<a, b>>[i]
  OBVIOUS
<1> QED
  BY <1>3, <1>4, SeqEqual

\* The basic header so far is that of the first frame.
LEMMA BasicBytes ==
    ASSUME Typed, BasicRead, NEW c, c = Chunk, NEW h, h = m_basic_header \o Bytes(c)
    PROVE  /\ m_bytes_needed - c \in {0, 1, 2} /\ c \in {0, 1, 2}
           /\ h \in Seq(AnyByte) /\ Len(h) = 2 - (m_bytes_needed - c)
           /\ Len(h) >= 1 => frames # <<>> /\ h[1] = B0(frames[1])
           /\ Len(h) = 2 => h = <<B0(frames[1]), B1(frames[1])>>
<1> DEFINE pos == 2 - m_bytes_needed
           g == m_basic_header
           t == Bytes(c)
<1>1. /\ m_bytes_needed \in {1, 2} /\ Len(g) = pos
      /\ m_bytes_needed = 1 => frames # <<>> /\ g[1] = B0(frames[1])
      /\ Aligned(frames, wire, pos)
  BY DEF BasicRead
<1>2. /\ c \in Nat /\ c <= m_bytes_needed /\ c \in 0 .. Len(wire)
      /\ t \in Seq(AnyByte) /\ Len(t) = c
      /\ g \in Seq(AnyByte) /\ Len(wire) \in Nat
  BY Taking DEF Typed, TypedProc, TypedBuffer
<1>3. c \in {0, 1, 2} /\ m_bytes_needed - c \in {0, 1, 2} /\ pos \in {0, 1}
  BY <1>1, <1>2
<1>4. /\ h \in Seq(AnyByte) /\ Len(h) = pos + c
      /\ \A i \in 1 .. pos + c : h[i] = IF i <= pos THEN g[i] ELSE t[i - pos]
  <2>1. /\ h \in Seq(AnyByte) /\ Len(h) = Len(g) + Len(t)
        /\ \A i \in 1 .. Len(g) + Len(t) :
              h[i] = IF i <= Len(g) THEN g[i] ELSE t[i - Len(g)]
    BY <1>2, ConcatProperties
  <2> QED
    BY <1>1, <1>2, <2>1
<1>5. pos + c = 2 - (m_bytes_needed - c)
  BY <1>1, <1>3
<1>6. c >= 1 => frames # <<>>
  <2> SUFFICES ASSUME c >= 1 PROVE frames # <<>>
    OBVIOUS
  <2>1. CASE pos = 0
    <3>1. Len(wire) > 0
      BY <1>2
    <3> HIDE DEF pos
    <3> QED
      BY <1>1, <2>1, <3>1, SomeFrame
  <2>2. CASE pos = 1
    BY <1>1, <2>2
  <2> QED
    BY <1>3, <2>1, <2>2
<1>7. frames # <<>> =>
         /\ \A i \in 1 .. c : t[i] = Wire(frames[1])[pos + i]
         /\ Wire(frames[1])[1] = B0(frames[1]) /\ Wire(frames[1])[2] = B1(frames[1])
  <2> SUFFICES ASSUME frames # <<>>
               PROVE  /\ \A i \in 1 .. c : t[i] = Wire(frames[1])[pos + i]
                      /\ Wire(frames[1])[1] = B0(frames[1])
                      /\ Wire(frames[1])[2] = B1(frames[1])
    OBVIOUS
  <2>1. IsFrame(frames[1])
    BY FirstFrame DEF Typed
  <2>2. pos + c <= WireLen(frames[1])
    <3>1. ExtLen(frames[1]) \in 0 .. 12 /\ frames[1].size \in Nat
      BY <2>1, FrameFacts
    <3> DEFINE e == ExtLen(frames[1])
               s == frames[1].size
    <3>2. WireLen(frames[1]) = 2 + e + s /\ e \in 0 .. 12 /\ s \in Nat
      BY <3>1 DEF WireLen
    <3> HIDE DEF e, s
    <3>3. pos + c <= 2 /\ pos + c \in Nat
      BY <1>1, <1>3, <1>2
    <3> HIDE DEF pos
    <3> QED
      BY <3>2, <3>3
  <2>3. pos \in Nat
    BY <1>3
  <2> HIDE DEF pos
  <2>4. \A i \in 1 .. c : Bytes(c)[i] = Wire(frames[1])[pos + i]
    BY <1>1, <2>2, <2>3, NextBytes
  <2> QED
    BY <2>1, <2>4, WireFacts
<1> HIDE DEF g, t
<1>8. ASSUME pos + c >= 1 PROVE frames # <<>> /\ h[1] = B0(frames[1])
  <2>1. CASE pos = 1
    <3>1. 1 \in 1 .. pos + c /\ m_bytes_needed = 1
      BY <1>1, <1>2, <2>1
    <3>2. h[1] = g[1]
      BY <1>4, <2>1, <3>1
    <3> QED
      BY <1>1, <3>1, <3>2 DEF g
  <2>2. CASE pos = 0
    <3>1. c >= 1 /\ 1 \in 1 .. c /\ 1 \in 1 .. pos + c /\ ~(1 <= pos) /\ 1 - pos = 1 /\ pos + 1 = 1
      BY <1>2, <1>8, <2>2
    <3>2. h[1] = t[1] /\ t[1] = Wire(frames[1])[1]
      BY <1>4, <1>6, <1>7, <3>1
    <3> QED
      BY <1>6, <1>7, <3>1, <3>2
  <2> QED
    BY <1>3, <2>1, <2>2
<1>9. ASSUME pos + c = 2 PROVE h = <<B0(frames[1]), B1(frames[1])>>
  <2>1. c >= 1 /\ c \in 1 .. c /\ 2 \in 1 .. pos + c /\ ~(2 <= pos) /\ 2 - pos = c /\ pos + c >= 1
    BY <1>3, <1>9
  <2>2. h[2] = t[c] /\ t[c] = Wire(frames[1])[pos + c]
    BY <1>4, <1>6, <1>7, <2>1
  <2>3. h[2] = B1(frames[1]) /\ h[1] = B0(frames[1])
    BY <1>6, <1>7, <1>8, <1>9, <2>1, <2>2
  <2>4. h \in Seq(AnyByte) /\ Len(h) = 2
    BY <1>4, <1>9
  <2> QED
    BY ONLY <2>3, <2>4, TwoBytes
<1> HIDE DEF pos
<1> QED
  BY <1>3, <1>4, <1>5, <1>8, <1>9

\* The three ways in which a step of ConsumeBasicHeader may go.
LEMMA BasicCases ==
    ASSUME ConsumeBasicHeader, NEW c, c = Chunk, NEW h, h = m_basic_header \o Bytes(c)
    PROVE  /\ ~reading /\ err = "none" /\ m_state = "HEADER_BASIC"
           /\ m_basic_header' = h /\ TakeBytes(c)
           /\ UNCHANGED <<m_server, msgVars, reading, sentVars, outVars>>
           /\ \/ /\ m_bytes_needed > c
                 /\ m_bytes_needed' = m_bytes_needed - c
                 /\ UNCHANGED <<m_state, m_extended_header, err, frames>>
              \/ /\ m_bytes_needed = c
                 /\ ~ValidBasicHeader(h[1], h[2], m_data_msg = NoMsg)
                 /\ m_bytes_needed' = 0
                 /\ UNCHANGED <<m_state, m_extended_header>>
                 /\ Fail("protocol")
              \/ /\ ~(m_bytes_needed > c)
                 /\ ~(m_bytes_needed = c /\ ~ValidBasicHeader(h[1], h[2], m_data_msg = NoMsg))
                 /\ m_state' = "HEADER_EXTENDED"
                 /\ m_extended_header' = <<>>
                 /\ m_bytes_needed' = ExtendedLength(h[2])
                 /\ UNCHANGED <<err, frames>>
  BY DEF ConsumeBasicHeader, Consuming, Fine

LEMMA BasicInv ==
    ASSUME HInv, ConsumeBasicHeader
    PROVE  HInv'
<1> DEFINE c == Chunk
           h == m_basic_header \o Bytes(c)
           f == frames[1]
           n == m_bytes_needed
<1>1. /\ ~reading /\ err = "none" /\ m_state = "HEADER_BASIC"
      /\ m_basic_header' = h /\ TakeBytes(c)
      /\ UNCHANGED <<m_server, msgVars, reading, sentVars, outVars>>
      /\ \/ /\ n > c
            /\ m_bytes_needed' = n - c
            /\ UNCHANGED <<m_state, m_extended_header, err, frames>>
         \/ /\ n = c
            /\ ~ValidBasicHeader(h[1], h[2], m_data_msg = NoMsg)
            /\ m_bytes_needed' = 0
            /\ UNCHANGED <<m_state, m_extended_header>>
            /\ Fail("protocol")
         \/ /\ ~(n > c)
            /\ ~(n = c /\ ~ValidBasicHeader(h[1], h[2], m_data_msg = NoMsg))
            /\ m_state' = "HEADER_EXTENDED"
            /\ m_extended_header' = <<>>
            /\ m_bytes_needed' = ExtendedLength(h[2])
            /\ UNCHANGED <<err, frames>>
  BY BasicCases
<1>2. Typed /\ Live /\ BasicRead
  BY <1>1 DEF HInv, Live
<1>3. /\ n - c \in {0, 1, 2} /\ c \in {0, 1, 2}
      /\ h \in Seq(AnyByte) /\ Len(h) = 2 - (n - c)
      /\ Len(h) >= 1 => frames # <<>> /\ h[1] = B0(f)
      /\ Len(h) = 2 => h = <<B0(f), B1(f)>>
  BY <1>2, BasicBytes
<1>4. n \in {1, 2} /\ Aligned(frames, wire, 2 - n) /\ (honest => m_data_msg = NoMsg)
  BY <1>2 DEF BasicRead
<1> HIDE DEF c, h
<1>5. /\ wire' \in Seq(AnyByte) /\ len' \in 0 .. BufferSize /\ len' <= Len(wire')
      /\ \A pos \in Nat : Aligned(frames, wire, pos) => Aligned(frames, wire', pos + c)
  BY <1>1, <1>2, BytesTaken DEF c
<1>6. /\ m_server' = m_server /\ m_data_msg' = m_data_msg /\ m_current_msg' = m_current_msg
      /\ m_control_msg' = m_control_msg
      /\ reading' = reading /\ sent' = sent /\ honest' = honest /\ delivered' = delivered
      /\ reading = FALSE
  BY <1>1, <1>2 DEF msgVars, sentVars, outVars, Typed, TypedBuffer
<1>7. TypedMsgs' /\ TypedBuffer'
  BY <1>2, <1>5, <1>6 DEF Typed, TypedMsgs, TypedBuffer, NoSizeWraps
<1>8. Aligned(frames, wire', 2 - (n - c))
  <2>1. 2 - n \in Nat /\ (2 - n) + c = 2 - (n - c)
    BY <1>3, <1>4
  <2>2. Aligned(frames, wire', (2 - n) + c)
    BY <1>4, <1>5, <2>1
  <2> QED
    BY <2>1, <2>2
<1>9. Len(h) <= 2
  BY <1>3
<1>10. TypedFrames /\ TypedProc /\ SizeT \in Nat /\ 255 < SizeT
  BY <1>2, SizeTNat DEF Typed
<1>11. CASE /\ n > c
            /\ m_bytes_needed' = n - c
            /\ UNCHANGED <<m_state, m_extended_header, err, frames>>
  <2>1. n - c \in {1, 2} /\ n - c \in 0 .. SizeT - 1
    BY <1>3, <1>4, <1>10, <1>11
  <2>2. TypedProc'
    BY <1>1, <1>3, <1>6, <1>9, <1>10, <1>11, <2>1 DEF TypedProc
  <2>3. TypedFrames'
    BY <1>6, <1>10, <1>11 DEF TypedFrames
  <2>4. n - c = 1 => frames # <<>> /\ h[1] = B0(f)
    BY <1>3
  <2>5. BasicRead'
    <3> DEFINE d == n - c
    <3>1. /\ d \in {1, 2} /\ Len(h) = 2 - d /\ (d = 1 => frames # <<>> /\ h[1] = B0(f))
          /\ Aligned(frames, wire', 2 - d) /\ m_bytes_needed' = d
      BY <1>3, <1>8, <1>11, <2>1, <2>4
    <3> HIDE DEF d
    <3> QED
      BY <1>1, <1>4, <1>6, <1>11, <3>1 DEF BasicRead
  <2>6. Live'
    BY <1>1, <1>2, <1>6, <1>11, <2>5 DEF Live, DataOk
  <2> QED
    BY <1>7, <2>2, <2>3, <2>6 DEF HInv, Typed
<1>12. ASSUME n = c
       PROVE  frames # <<>> /\ h = <<B0(f), B1(f)>> /\ h[1] = B0(f) /\ h[2] = B1(f)
              /\ IsFrame(f)
  <2>1. Len(h) = 2 /\ Len(h) >= 1
    BY <1>3, <1>4, <1>12
  <2>2. frames # <<>> /\ h = <<B0(f), B1(f)>>
    BY <1>3, <2>1
  <2>3. IsFrame(f)
    BY <1>2, <2>2, FirstFrame DEF Typed
  <2>4. \A s, a, b : s = <<a, b>> => s[1] = a /\ s[2] = b
    OBVIOUS
  <2> QED
    BY <2>2, <2>3, <2>4
<1>13. CASE /\ n = c
            /\ ~ValidBasicHeader(h[1], h[2], m_data_msg = NoMsg)
            /\ m_bytes_needed' = 0
            /\ UNCHANGED <<m_state, m_extended_header>>
            /\ Fail("protocol")
  <2>1. ~honest
    <3> SUFFICES ASSUME honest PROVE FALSE
      OBVIOUS
    <3>1. PreparedBy(m_server, f)
      <4>1. 1 \in 1 .. Len(frames)
        BY <1>12, <1>13, <1>2, FirstFrame DEF Typed
      <4> QED
        BY <1>2, <4>1 DEF Live
    <3>2. ValidBasicHeader(B0(f), B1(f), TRUE)
      BY <1>10, <1>12, <1>13, <3>1, PreparedIsRegular
    <3>3. (m_data_msg = NoMsg) = TRUE
      BY <1>4
    <3> QED
      BY <1>12, <1>13, <3>2, <3>3
  <2>2. TypedFrames' /\ err' # "none"
    BY <1>2, <1>6, <1>12, <1>13, <2>1, Failed
  <2>3. TypedProc'
    BY <1>1, <1>3, <1>6, <1>9, <1>10, <1>13 DEF TypedProc
  <2> QED
    BY <1>7, <2>2, <2>3 DEF HInv, Typed
<1>14. CASE /\ ~(n > c)
            /\ ~(n = c /\ ~ValidBasicHeader(h[1], h[2], m_data_msg = NoMsg))
            /\ m_state' = "HEADER_EXTENDED"
            /\ m_extended_header' = <<>>
            /\ m_bytes_needed' = ExtendedLength(h[2])
            /\ UNCHANGED <<err, frames>>
  <2>1. n = c
    BY <1>3, <1>4, <1>14
  <2>2. ValidBasicHeader(B0(f), B1(f), m_data_msg = NoMsg)
    BY <1>12, <1>14, <2>1
  <2>3. m_bytes_needed' = ExtLen(f) /\ ExtLen(f) \in 0 .. 12
    BY <1>12, <1>14, <2>1, FrameFacts DEF ExtLen
  <2>4. TypedProc'
    <3>1. ExtLen(f) \in 0 .. SizeT - 1
      BY <1>10, <2>3
    <3>2. <<>> \in Seq(AnyByte) /\ Len(<<>>) <= 12
      OBVIOUS
    <3> QED
      BY <1>1, <1>3, <1>6, <1>9, <1>10, <1>14, <2>3, <3>1, <3>2 DEF TypedProc
  <2>5. TypedFrames'
    BY <1>6, <1>10, <1>14 DEF TypedFrames
  <2>6. ExtendedRead'
    <3> DEFINE e == ExtLen(f)
    <3>1. e \in 0 .. 12 /\ e - e = 0 /\ 2 + e - e = 2 /\ Len(<<>>) = 0 /\ e <= e
      BY <2>3
    <3>2. Aligned(frames, wire', 2)
      <4>1. 2 - (n - c) = 2
        BY <1>4, <2>1
      <4> QED
        BY <1>8, <4>1
    <3> HIDE DEF e
    <3>3. /\ frames' = frames /\ m_basic_header' = <<B0(f), B1(f)>> /\ frames # <<>>
          /\ m_bytes_needed' = e /\ m_extended_header' = <<>>
      BY <1>1, <1>12, <1>14, <2>1, <2>3 DEF e
    <3>4. ValidBasicHeader(B0(f), B1(f), m_data_msg = NoMsg)'
      BY <1>6, <1>14, <2>2 DEF ValidBasicHeader
    <3>5. e = ExtLen(f)
      BY DEF e
    <3> QED
      BY <1>4, <1>6, <3>1, <3>2, <3>3, <3>4, <3>5 DEF ExtendedRead
  <2>7. Live'
    BY <1>1, <1>2, <1>6, <1>14, <2>6 DEF Live, DataOk
  <2> QED
    BY <1>7, <2>4, <2>5, <2>7 DEF HInv, Typed
<1> QED
  BY <1>1, <1>11, <1>13, <1>14

-----------------------------------------------------------------------------
(***************************************************************************)
(* The extended header.                                                    *)
(***************************************************************************)

\* The size is accepted exactly if it is written as shortly as possible.
LEMMA MinimalSize ==
    ASSUME NEW f, IsFrame(f)
    PROVE  ValidExtendedHeader(B1(f), f.size) <=> f.enc = BasicSize(f.size)
<1> DEFINE n == f.size
           e == f.enc
           X == payload_size_extended
<1>1. /\ n \in Nat /\ e \in 0 .. BasicLimit + 2 /\ BasicLimit \in Nat
      /\ e <= BasicLimit => n = e
      /\ e = BasicLimit + 1 => n <= X
  BY FrameFacts, RadixAssumption
     DEF IsFrame, payload_size_code_16bit, payload_size_code_64bit
<1>2. X \in Int /\ BasicLimit <= X
  <2> DEFINE r == Radix * Radix
  <2>1. r \in Int /\ BasicLimit < r
    BY RadixAssumption
  <2>2. X = r - 1
    BY DEF payload_size_extended
  <2> HIDE DEF r, X
  <2> QED
    BY <1>1, <2>1, <2>2
<1>3. B1(f).size = e
  BY DEF B1
<1>4. ValidExtendedHeader(B1(f), n) <=> /\ ~(e = BasicLimit + 1 /\ n <= BasicLimit)
                                        /\ ~(e = BasicLimit + 2 /\ n <= X)
  BY <1>3 DEF ValidExtendedHeader, payload_size_code_16bit, payload_size_code_64bit
<1>5. BasicSize(n) = IF n <= BasicLimit THEN n ELSE IF n <= X THEN BasicLimit + 1
                     ELSE BasicLimit + 2
  BY DEF BasicSize, payload_size_code_16bit, payload_size_code_64bit
<1> HIDE DEF n, e, X
<1>6. ValidExtendedHeader(B1(f), n) <=> e = BasicSize(n)
  BY <1>1, <1>2, <1>4, <1>5
<1> QED
  BY <1>6 DEF n, e

LEMMA HeaderIsRegular ==
    ASSUME NEW f, IsFrame(f), NEW new, ValidBasicHeader(B0(f), B1(f), new),
           f.enc = BasicSize(f.size)
    PROVE  Regular(f)
<1>1. B0(f).fin = f.fin /\ B0(f).rsv = f.rsv /\ B0(f).op = f.op
      /\ B1(f).masked = f.masked /\ B1(f).size = f.enc
  BY DEF B0, B1
<1>2. /\ ~(is_control(f.op) /\ f.enc > BasicLimit)
      /\ ~f.rsv /\ ~reserved(f.op) /\ ~(is_control(f.op) /\ ~f.fin)
      /\ f.masked = m_server
  BY <1>1 DEF ValidBasicHeader
<1>3. f.size \in Nat /\ BasicLimit \in Nat
  BY FrameFacts, RadixAssumption
<1>4. ~(BasicSize(f.size) > BasicLimit) => f.size <= BasicLimit
  BY <1>3 DEF BasicSize, payload_size_code_16bit, payload_size_code_64bit
<1> QED
  BY <1>2, <1>4 DEF Regular

LEMMA ExtBytes ==
    ASSUME Typed, ExtendedRead, NEW c, c = Chunk, NEW x, x = m_extended_header \o Bytes(c)
    PROVE  /\ c \in 0 .. m_bytes_needed /\ m_bytes_needed \in 0 .. ExtLen(frames[1])
           /\ ExtLen(frames[1]) \in 0 .. 12
           /\ x \in Seq(AnyByte) /\ Len(x) = ExtLen(frames[1]) - (m_bytes_needed - c)
           /\ \A i \in 1 .. Len(x) : x[i] = Wire(frames[1])[2 + i]
           /\ c = m_bytes_needed => /\ get_payload_size(B1(frames[1]), x) = frames[1].size
                                    /\ get_masking_key(B1(frames[1]), x) = frames[1].key
<1> DEFINE g == m_extended_header
           t == Bytes(c)
           f == frames[1]
           e == ExtLen(f)
           p == e - m_bytes_needed
<1>1. /\ frames # <<>> /\ m_bytes_needed <= e /\ Len(g) = p
      /\ \A i \in 1 .. Len(g) : g[i] = Wire(f)[2 + i]
      /\ Aligned(frames, wire, 2 + e - m_bytes_needed)
  BY DEF ExtendedRead
<1>2. /\ c \in Nat /\ c <= m_bytes_needed /\ m_bytes_needed \in Nat
      /\ t \in Seq(AnyByte) /\ Len(t) = c /\ g \in Seq(AnyByte)
  BY Taking DEF Typed, TypedProc
<1>3. IsFrame(f) /\ e \in 0 .. 12 /\ f.size \in Nat
  BY <1>1, FirstFrame, FrameFacts DEF Typed
<1>4. /\ x \in Seq(AnyByte) /\ Len(x) = p + c
      /\ \A i \in 1 .. p + c : x[i] = IF i <= p THEN g[i] ELSE t[i - p]
  <2>1. /\ x \in Seq(AnyByte) /\ Len(x) = Len(g) + Len(t)
        /\ \A i \in 1 .. Len(g) + Len(t) :
              x[i] = IF i <= Len(g) THEN g[i] ELSE t[i - Len(g)]
    BY <1>2, ConcatProperties
  <2> HIDE DEF p
  <2> QED
    BY <1>1, <1>2, <2>1
<1>5. WireLen(f) = 2 + e + f.size
  BY DEF WireLen
<1> DEFINE w == WireLen(f)
           s == f.size
<1> HIDE DEF e, w, s
<1>6. /\ p \in Nat /\ 2 + p \in Nat /\ 2 + e - m_bytes_needed = 2 + p /\ p + c <= e
      /\ p + c = e - (m_bytes_needed - c) /\ (2 + p) + c <= w
  <2>1. w = 2 + e + s /\ s \in Nat
    BY <1>3, <1>5 DEF w, s
  <2> DEFINE n == m_bytes_needed
  <2>2. n \in Nat /\ c \in Nat /\ c <= n /\ n <= e /\ e \in Nat
    BY <1>1, <1>2, <1>3
  <2>3. p = e - n
    OBVIOUS
  <2> HIDE DEF p, n
  <2>4. /\ p \in Nat /\ 2 + p \in Nat /\ 2 + e - n = 2 + p /\ p + c <= e
        /\ p + c = e - (n - c) /\ (2 + p) + c <= w
    BY ONLY <2>1, <2>2, <2>3
  <2> QED
    BY ONLY <2>4 DEF n
<1> HIDE DEF p
<1>7. \A i \in 1 .. c : t[i] = Wire(f)[(2 + p) + i]
  <2>1. Aligned(frames, wire, 2 + p) /\ (2 + p) + c <= WireLen(frames[1])
    BY <1>1, <1>6 DEF w
  <2> QED
    BY <1>1, <1>6, <2>1, NextBytes
<1> HIDE DEF g, t, f
<1>8. ASSUME NEW i \in 1 .. p + c PROVE x[i] = Wire(f)[2 + i]
  <2>1. CASE i <= p
    <3>1. i \in 1 .. p
      BY <1>6, <2>1
    <3> QED
      BY <1>1, <1>4, <2>1, <3>1
  <2>2. CASE ~(i <= p)
    <3>1. i - p \in 1 .. c /\ (2 + p) + (i - p) = 2 + i
      BY <1>2, <1>6, <2>2
    <3> QED
      BY <1>4, <1>7, <2>2, <3>1
  <2> QED
    BY <2>1, <2>2
<1>9. c = m_bytes_needed => get_payload_size(B1(f), x) = f.size /\ get_masking_key(B1(f), x) = f.key
  <2> SUFFICES ASSUME c = m_bytes_needed
               PROVE  get_payload_size(B1(f), x) = f.size /\ get_masking_key(B1(f), x) = f.key
    OBVIOUS
  <2>1. p + c = e
    BY <1>2, <1>3, <1>6
  <2>2. Len(x) = ExtLen(f) /\ \A i \in 1 .. ExtLen(f) : x[i] = Wire(f)[2 + i]
    BY <1>4, <1>8, <2>1 DEF e
  <2> QED
    BY <1>3, <1>4, <2>2, ExtFacts
<1>10. Len(x) = e - (m_bytes_needed - c) /\ c \in 0 .. m_bytes_needed /\ m_bytes_needed \in 0 .. e
  BY <1>1, <1>2, <1>3, <1>4, <1>6
<1> QED
  BY <1>3, <1>4, <1>8, <1>9, <1>10 DEF e, f

LEMMA ExtCases ==
    ASSUME ConsumeExtendedHeader, NEW c, c = Chunk, NEW x, x = m_extended_header \o Bytes(c),
           NEW op, op = m_basic_header[1].op,
           NEW size, size = get_payload_size(m_basic_header[2], x),
           NEW key, key = get_masking_key(m_basic_header[2], x)
    PROVE  /\ ~reading /\ err = "none" /\ m_state = "HEADER_EXTENDED"
           /\ m_extended_header' = x /\ TakeBytes(c)
           /\ UNCHANGED <<m_server, m_basic_header, reading, sentVars, outVars>>
           /\ \/ /\ m_bytes_needed > c
                 /\ m_bytes_needed' = m_bytes_needed - c
                 /\ UNCHANGED <<m_state, msgVars, err, frames>>
              \/ /\ ~(m_bytes_needed > c)
                 /\ ~ValidExtendedHeader(m_basic_header[2], size)
                 /\ m_bytes_needed' = 0
                 /\ UNCHANGED <<m_state, msgVars>>
                 /\ Fail("protocol")
              \/ /\ ~(m_bytes_needed > c)
                 /\ ValidExtendedHeader(m_basic_header[2], size)
                 /\ m_state' = "APPLICATION"
                 /\ m_bytes_needed' = size
                 /\ \/ /\ is_control(op)
                       /\ m_control_msg' = Metadata(op, key)
                       /\ m_current_msg' = "control"
                       /\ UNCHANGED <<m_data_msg, err, frames>>
                    \/ /\ ~is_control(op) /\ TooBig(size)
                       /\ UNCHANGED msgVars
                       /\ Fail("too_big")
                    \/ /\ ~is_control(op) /\ ~TooBig(size)
                       /\ m_data_msg' = IF m_data_msg = NoMsg THEN Metadata(op, key)
                                        ELSE NextFragment(key)
                       /\ m_current_msg' = "data"
                       /\ UNCHANGED <<m_control_msg, err, frames>>
<1>1. /\ ~reading /\ err = "none" /\ m_state = "HEADER_EXTENDED"
      /\ m_extended_header' = x /\ TakeBytes(c)
      /\ UNCHANGED <<m_server, m_basic_header, reading, sentVars, outVars>>
  BY DEF ConsumeExtendedHeader, Consuming
<1>2. IF m_bytes_needed > c
      THEN /\ m_bytes_needed' = m_bytes_needed - c
           /\ UNCHANGED <<m_state, msgVars>>
           /\ Fine
      ELSE IF ~ValidExtendedHeader(m_basic_header[2], size)
      THEN /\ m_bytes_needed' = 0
           /\ UNCHANGED <<m_state, msgVars>>
           /\ Fail("protocol")
      ELSE /\ m_state' = "APPLICATION"
           /\ m_bytes_needed' = size
           /\ CASE is_control(op) ->
                     /\ m_control_msg' = Metadata(op, key)
                     /\ m_current_msg' = "control"
                     /\ UNCHANGED m_data_msg
                     /\ Fine
                [] ~is_control(op) /\ TooBig(size) ->
                     /\ UNCHANGED msgVars
                     /\ Fail("too_big")
                [] OTHER ->
                     /\ m_data_msg' = IF m_data_msg = NoMsg
                                      THEN Metadata(op, key)
                                      ELSE NextFragment(key)
                     /\ m_current_msg' = "data"
                     /\ UNCHANGED m_control_msg
                     /\ Fine
  BY DEF ConsumeExtendedHeader
<1> QED
  BY <1>1, <1>2 DEF Fine

\* A frame whose header was accepted begins: none of its payload was read.
LEMMA PayloadBegins ==
    ASSUME Typed', m_state' = "APPLICATION",
           NEW f, IsFrame(f), frames # <<>>, f = frames[1], frames' = frames,
           m_basic_header' = <<B0(f), B1(f)>>,
           get_payload_size(B1(f), m_extended_header') = f.size,
           m_bytes_needed' = f.size, Regular(f), m_server' = m_server,
           Aligned(frames, wire', 2 + ExtLen(f)),
           m_current_msg' = IF is_control(f.op) THEN "control" ELSE "data",
           NEW m, m = IF is_control(f.op) THEN m_control_msg' ELSE m_data_msg',
           Holds(m, f, 0), m.validator # "reject",
           NoSizeWraps /\ ~is_control(f.op) => Len(m_data_msg'.payload) + f.size <= MaxMessageSize,
           honest' => /\ f.op # "CONTINUATION"
                      /\ is_control(f.op) => m_data_msg' = NoMsg
    PROVE  PayloadRead'
<1>1. f.size \in Nat /\ f.size <= f.size /\ f.size - f.size = 0
      /\ WireLen(f) - f.size = 2 + ExtLen(f)
  <2>1. f.size \in Nat /\ ExtLen(f) \in 0 .. 12
    BY FrameFacts
  <2>2. \A s, e : s \in Nat /\ e \in 0 .. 12 => s <= s /\ s - s = 0 /\ 2 + e + s - s = 2 + e
    OBVIOUS
  <2> QED
    BY <2>1, <2>2 DEF WireLen
<1>2. frames'[1] = f /\ frames' # <<>>
  OBVIOUS
<1>3. Regular(f)'
  BY DEF Regular
<1>4. MsgOf(f)' = m
  BY DEF MsgOf
<1>5. /\ m_bytes_needed' <= frames'[1].size
      /\ frames'[1].size - m_bytes_needed' = 0
      /\ WireLen(frames'[1]) - m_bytes_needed' = 2 + ExtLen(f)
  BY <1>1, <1>2
<1>6. /\ Aligned(frames', wire', WireLen(frames'[1]) - m_bytes_needed')
      /\ Holds(MsgOf(f)', f, frames'[1].size - m_bytes_needed')
  BY <1>4, <1>5
<1>7. Regular(frames[1])' /\ MsgOf(frames[1])' = m
  BY <1>2, <1>3, <1>4 DEF Regular, MsgOf
<1>8. /\ Holds(MsgOf(frames[1]), frames[1], frames[1].size - m_bytes_needed)'
      /\ (MsgOf(frames[1]).validator # "reject")'
  <2>1. Holds(m, f, frames'[1].size - m_bytes_needed')
    BY <1>4, <1>6
  <2> QED
    BY <1>2, <1>7, <2>1
<1>9. (NoSizeWraps /\ ~is_control(frames[1].op) =>
          Len(m_data_msg.payload) + m_bytes_needed <= MaxMessageSize)'
  BY <1>2 DEF NoSizeWraps
<1> QED
  BY <1>2, <1>5, <1>6, <1>7, <1>8, <1>9 DEF PayloadRead

LEMMA ExtendedInv ==
    ASSUME HInv, ConsumeExtendedHeader
    PROVE  HInv'
<1> DEFINE c == Chunk
           x == m_extended_header \o Bytes(c)
           f == frames[1]
           n == m_bytes_needed
<1>1. Typed /\ Live /\ ExtendedRead /\ err = "none" /\ m_state = "HEADER_EXTENDED"
  BY DEF HInv, Live, ConsumeExtendedHeader, Consuming
<1>2. /\ c \in 0 .. n /\ n \in 0 .. ExtLen(f) /\ ExtLen(f) \in 0 .. 12
      /\ x \in Seq(AnyByte) /\ Len(x) = ExtLen(f) - (n - c)
      /\ \A i \in 1 .. Len(x) : x[i] = Wire(f)[2 + i]
      /\ c = n => /\ get_payload_size(B1(f), x) = f.size
                  /\ get_masking_key(B1(f), x) = f.key
  BY <1>1, ExtBytes
<1>3. /\ frames # <<>> /\ m_basic_header = <<B0(f), B1(f)>>
      /\ ValidBasicHeader(B0(f), B1(f), m_data_msg = NoMsg)
      /\ Aligned(frames, wire, 2 + ExtLen(f) - n)
      /\ honest => m_data_msg = NoMsg
  BY <1>1 DEF ExtendedRead
<1>4. IsFrame(f) /\ f.size \in Nat /\ f.size < SizeT /\ f \in Frames(m_server)
      /\ 1 \in 1 .. Len(frames)
  BY <1>1, <1>3, FirstFrame, FrameFacts DEF Typed
<1>5. m_basic_header[1].op = f.op /\ m_basic_header[2] = B1(f)
  BY <1>3 DEF B0
<1> DEFINE size == get_payload_size(m_basic_header[2], x)
           key == get_masking_key(m_basic_header[2], x)
<1> HIDE DEF c, x, f
<1>6. /\ ~reading /\ err = "none" /\ m_state = "HEADER_EXTENDED"
      /\ m_extended_header' = x /\ TakeBytes(c)
      /\ UNCHANGED <<m_server, m_basic_header, reading, sentVars, outVars>>
      /\ \/ /\ n > c
            /\ m_bytes_needed' = n - c
            /\ UNCHANGED <<m_state, msgVars, err, frames>>
         \/ /\ ~(n > c)
            /\ ~ValidExtendedHeader(m_basic_header[2], size)
            /\ m_bytes_needed' = 0
            /\ UNCHANGED <<m_state, msgVars>>
            /\ Fail("protocol")
         \/ /\ ~(n > c)
            /\ ValidExtendedHeader(m_basic_header[2], size)
            /\ m_state' = "APPLICATION"
            /\ m_bytes_needed' = size
            /\ \/ /\ is_control(f.op)
                  /\ m_control_msg' = Metadata(f.op, key)
                  /\ m_current_msg' = "control"
                  /\ UNCHANGED <<m_data_msg, err, frames>>
               \/ /\ ~is_control(f.op) /\ TooBig(size)
                  /\ UNCHANGED msgVars
                  /\ Fail("too_big")
               \/ /\ ~is_control(f.op) /\ ~TooBig(size)
                  /\ m_data_msg' = IF m_data_msg = NoMsg THEN Metadata(f.op, key)
                                   ELSE NextFragment(key)
                  /\ m_current_msg' = "data"
                  /\ UNCHANGED <<m_control_msg, err, frames>>
  BY <1>5, ExtCases DEF c, x
<1>7. c = n => size = f.size /\ key = f.key
  BY <1>2, <1>5
<1> HIDE DEF size, key
<1>8. n \in Nat /\ c \in Nat /\ (~(n > c) => c = n)
  BY <1>2
<1>9. /\ wire' \in Seq(AnyByte) /\ len' \in 0 .. BufferSize /\ len' <= Len(wire')
      /\ \A pos \in Nat : Aligned(frames, wire, pos) => Aligned(frames, wire', pos + c)
  BY <1>1, <1>6, BytesTaken DEF c
<1>10. /\ m_server' = m_server /\ m_basic_header' = m_basic_header
       /\ reading' = reading /\ sent' = sent /\ honest' = honest /\ delivered' = delivered
       /\ reading = FALSE
  BY <1>1, <1>6 DEF sentVars, outVars, Typed, TypedBuffer
<1>11. TypedBuffer'
  BY <1>1, <1>9, <1>10 DEF Typed, TypedBuffer
<1>12. Aligned(frames, wire', 2 + ExtLen(f) - (n - c))
  <2> DEFINE e == ExtLen(f)
  <2>1. e \in 0 .. 12 /\ n \in 0 .. e /\ c \in 0 .. n /\ Aligned(frames, wire, 2 + e - n)
    BY <1>2, <1>3
  <2> HIDE DEF e
  <2>2. 2 + e - n \in Nat /\ (2 + e - n) + c = 2 + e - (n - c)
    BY <2>1
  <2>3. Aligned(frames, wire', (2 + e - n) + c)
    BY <1>9, <2>1, <2>2
  <2>4. Aligned(frames, wire', 2 + e - (n - c))
    BY <2>2, <2>3
  <2> QED
    BY <2>4 DEF e
<1>13. TypedFrames /\ TypedProc /\ TypedMsgs /\ SizeT \in Nat /\ 255 < SizeT
       /\ MaxMessageSize \in Nat
  BY <1>1, SizeTNat, SizeAssumption DEF Typed
<1>14. Len(x) <= 12
  BY <1>2
<1>15. ASSUME m_state' \in {"HEADER_BASIC", "HEADER_EXTENDED", "APPLICATION", "READY"},
              m_bytes_needed' \in 0 .. SizeT - 1
       PROVE  TypedProc'
  BY <1>2, <1>6, <1>10, <1>13, <1>14, <1>15 DEF TypedProc
<1>16. honest => PreparedBy(m_server, f)
  BY <1>1, <1>4 DEF Live, f
<1>17. CASE /\ n > c
            /\ m_bytes_needed' = n - c
            /\ UNCHANGED <<m_state, msgVars, err, frames>>
  <2>1. n - c \in 0 .. 12 /\ n - c > 0 /\ n - c <= ExtLen(f) /\ n - c \in 0 .. SizeT - 1
    <3> DEFINE e == ExtLen(f)
    <3>1. e \in 0 .. 12 /\ n \in 0 .. e /\ c \in 0 .. n /\ n > c /\ SizeT \in Nat /\ 255 < SizeT
      BY <1>2, <1>13, <1>17
    <3> HIDE DEF e, n
    <3>2. n - c \in 0 .. 12 /\ n - c > 0 /\ n - c <= e /\ n - c \in 0 .. SizeT - 1
      BY ONLY <3>1
    <3> QED
      BY ONLY <3>2 DEF e
  <2>2. TypedProc'
    BY <1>6, <1>15, <1>17, <2>1
  <2>3. TypedFrames' /\ TypedMsgs'
    BY <1>10, <1>13, <1>17 DEF TypedFrames, TypedMsgs, msgVars, NoSizeWraps
  <2>4. ExtendedRead'
    <3> DEFINE d == n - c
    <3>1. /\ m_bytes_needed' = d /\ d <= ExtLen(f) /\ Len(x) = ExtLen(f) - d
          /\ Aligned(frames, wire', 2 + ExtLen(f) - d)
      BY <1>2, <1>12, <1>17, <2>1
    <3> HIDE DEF d
    <3>2. ValidBasicHeader(B0(f), B1(f), m_data_msg = NoMsg)'
      BY <1>3, <1>10, <1>17 DEF ValidBasicHeader, msgVars, f
    <3> QED
      BY <1>2, <1>3, <1>6, <1>10, <1>17, <3>1, <3>2 DEF ExtendedRead, msgVars, f
  <2>5. Live'
    BY <1>1, <1>6, <1>10, <1>17, <2>4 DEF Live, DataOk, msgVars
  <2> QED
    BY <1>11, <2>2, <2>3, <2>5 DEF HInv, Typed
<1>18. CASE /\ ~(n > c)
            /\ ~ValidExtendedHeader(m_basic_header[2], size)
            /\ m_bytes_needed' = 0
            /\ UNCHANGED <<m_state, msgVars>>
            /\ Fail("protocol")
  <2>1. ~honest
    <3> SUFFICES ASSUME honest PROVE FALSE
      OBVIOUS
    <3>1. f.enc = BasicSize(f.size)
      BY <1>4, <1>13, <1>16, PreparedIsRegular DEF Regular
    <3> QED
      BY <1>4, <1>5, <1>7, <1>8, <1>18, <3>1, MinimalSize
  <2>2. TypedFrames' /\ err' # "none"
    BY <1>1, <1>3, <1>10, <1>18, <2>1, Failed
  <2>3. TypedProc'
    <3>1. 0 \in 0 .. SizeT - 1
      BY <1>13
    <3> QED
      BY <1>6, <1>15, <1>18, <3>1
  <2>4. TypedMsgs'
    BY <1>13, <1>18 DEF TypedMsgs, msgVars, NoSizeWraps
  <2> QED
    BY <1>11, <2>2, <2>3, <2>4 DEF HInv, Typed
<1>19. ASSUME ~(n > c), ValidExtendedHeader(m_basic_header[2], size),
              m_state' = "APPLICATION", m_bytes_needed' = size
       PROVE  /\ TypedProc' /\ size = f.size /\ key = f.key /\ Regular(f)
              /\ m_basic_header' = <<B0(f), B1(f)>>
              /\ get_payload_size(B1(f), m_extended_header') = f.size
              /\ Aligned(frames, wire', 2 + ExtLen(f))
  <2>1. c = n /\ size = f.size /\ key = f.key
    BY <1>7, <1>8, <1>19
  <2>2. f.size \in 0 .. SizeT - 1
    BY <1>4, <1>13
  <2>3. TypedProc'
    BY <1>15, <1>19, <2>1, <2>2
  <2>4. Regular(f)
    <3>1. ValidExtendedHeader(B1(f), f.size)
      BY <1>5, <1>19, <2>1
    <3>2. f.enc = BasicSize(f.size)
      BY <1>4, <3>1, MinimalSize
    <3> QED
      BY <1>3, <1>4, <3>2, HeaderIsRegular
  <2>5. 2 + ExtLen(f) - (n - c) = 2 + ExtLen(f)
    BY <1>2, <1>8, <2>1
  <2> QED
    BY <1>2, <1>3, <1>6, <1>10, <1>12, <2>1, <2>3, <2>4, <2>5
<1>20. CASE /\ ~(n > c)
            /\ ValidExtendedHeader(m_basic_header[2], size)
            /\ m_state' = "APPLICATION"
            /\ m_bytes_needed' = size
            /\ is_control(f.op)
            /\ m_control_msg' = Metadata(f.op, key)
            /\ m_current_msg' = "control"
            /\ UNCHANGED <<m_data_msg, err, frames>>
  <2>1. /\ TypedProc' /\ size = f.size /\ key = f.key /\ Regular(f)
        /\ m_basic_header' = <<B0(f), B1(f)>>
        /\ get_payload_size(B1(f), m_extended_header') = f.size
        /\ Aligned(frames, wire', 2 + ExtLen(f))
    BY <1>19, <1>20
  <2>2. f.op # "CONTINUATION"
    BY <1>20 DEF is_control, ControlOpcodes
  <2>3. Holds(Metadata(f.op, f.key), f, 0) /\ Metadata(f.op, f.key).validator # "reject"
    <3>1. Holds(Metadata(f.op, f.key), f, 0)
      BY <1>4, <2>2, HoldsNew
    <3> QED
      BY <3>1 DEF Metadata
  <2>4. TypedMsgs' /\ TypedFrames'
    BY <1>10, <1>13, <1>20 DEF TypedMsgs, TypedFrames, NoSizeWraps
  <2>5. Typed'
    BY <1>11, <2>1, <2>4 DEF Typed
  <2>6. PayloadRead'
    <3>1. honest' => m_data_msg' = NoMsg
      BY <1>3, <1>10, <1>20
    <3>2. m_control_msg' = Metadata(f.op, f.key)
      BY <1>20, <2>1
    <3> DEFINE m == Metadata(f.op, f.key)
    <3>3. Holds(m, f, 0) /\ m.validator # "reject" /\ m_control_msg' = m
      BY <2>3, <3>2
    <3> HIDE DEF m
    <3>4. m = IF is_control(f.op) THEN m_control_msg' ELSE m_data_msg'
      BY <1>20, <3>3
    <3>5. f = frames[1] /\ m_current_msg' = (IF is_control(f.op) THEN "control" ELSE "data")
          /\ m_bytes_needed' = f.size
      BY <1>20, <2>1 DEF f
    <3> QED
      BY <1>3, <1>4, <1>10, <1>20, <2>1, <2>2, <2>5, <3>1, <3>3, <3>4, <3>5, PayloadBegins
  <2>7. Live'
    BY <1>1, <1>10, <1>20, <2>6 DEF Live, DataOk
  <2> QED
    BY <2>5, <2>7 DEF HInv
<1>21. CASE /\ ~(n > c)
            /\ ValidExtendedHeader(m_basic_header[2], size)
            /\ m_state' = "APPLICATION"
            /\ m_bytes_needed' = size
            /\ ~is_control(f.op) /\ TooBig(size)
            /\ UNCHANGED msgVars
            /\ Fail("too_big")
  <2>1. TypedProc'
    BY <1>19, <1>21
  <2>2. TypedFrames' /\ err' # "none"
    BY <1>1, <1>3, <1>10, <1>21, Failed
  <2>3. TypedMsgs'
    BY <1>13, <1>21 DEF TypedMsgs, msgVars, NoSizeWraps
  <2> QED
    BY <1>11, <2>1, <2>2, <2>3 DEF HInv, Typed
<1>22. CASE /\ ~(n > c)
            /\ ValidExtendedHeader(m_basic_header[2], size)
            /\ m_state' = "APPLICATION"
            /\ m_bytes_needed' = size
            /\ ~is_control(f.op) /\ ~TooBig(size)
            /\ m_data_msg' = IF m_data_msg = NoMsg THEN Metadata(f.op, key)
                             ELSE NextFragment(key)
            /\ m_current_msg' = "data"
            /\ UNCHANGED <<m_control_msg, err, frames>>
  <2>1. /\ TypedProc' /\ size = f.size /\ key = f.key /\ Regular(f)
        /\ m_basic_header' = <<B0(f), B1(f)>>
        /\ get_payload_size(B1(f), m_extended_header') = f.size
        /\ Aligned(frames, wire', 2 + ExtLen(f))
    BY <1>19, <1>22
  <2> DEFINE m == m_data_msg'
  <2>2. /\ Holds(m, f, 0) /\ DataOk(m) /\ m \in Msgs /\ Len(m.payload) \in Nat
        /\ NoSizeWraps => Len(m.payload) + f.size <= MaxMessageSize
        /\ honest => f.op # "CONTINUATION"
    <3>1. CASE m_data_msg = NoMsg
      <4>1. m = Metadata(f.op, f.key)
        BY <1>22, <2>1, <3>1
      <4>2. f.op # "CONTINUATION"
        <5>1. (m_data_msg = NoMsg) = TRUE
          BY <3>1
        <5> QED
          BY <1>3, <5>1 DEF ValidBasicHeader, B0
      <4>3. Holds(m, f, 0)
        BY <1>4, <4>1, <4>2, HoldsNew
      <4>4. m.op = f.op /\ m.payload = <<>> /\ m.validator = "accept"
        BY <4>1 DEF Metadata
      <4>5. m.op \in {"TEXT", "BINARY"}
        BY <1>4, <1>22, <2>1, <4>2, <4>4, FrameFacts
           DEF Regular, reserved, ReservedOpcodes, is_control, Opcodes, ControlOpcodes
      <4>6. DataOk(m)
        BY <4>4, <4>5, ValidateEmpty DEF DataOk
      <4>7. Len(m.payload) = 0 /\ f.size <= MaxMessageSize
        BY <1>4, <1>13, <1>22, <2>1, <3>1, <4>4 DEF TooBig
      <4> HIDE DEF m
      <4>8. Len(m.payload) \in Nat /\ Len(m.payload) + f.size <= MaxMessageSize
        <5> DEFINE s == f.size
        <5>1. s \in Nat /\ s <= MaxMessageSize
          BY <1>4, <4>7
        <5> HIDE DEF s
        <5>2. 0 + s <= MaxMessageSize
          BY <1>13, <5>1
        <5> QED
          BY <4>7, <5>2 DEF s
      <4> QED
        BY <4>2, <4>3, <4>6, <4>8 DEF Holds
    <3>2. CASE m_data_msg # NoMsg
      <4>1. m = [m_data_msg EXCEPT !.prepared_key = f.key]
        BY <1>22, <2>1, <3>2 DEF NextFragment
      <4>2. m_data_msg \in Msgs /\ DataOk(m_data_msg)
            /\ (NoSizeWraps => Len(m_data_msg.payload) <= MaxMessageSize)
        BY <1>1, <1>13, <3>2 DEF TypedMsgs, Live
      <4>3. f.op = "CONTINUATION"
        <5>1. (m_data_msg = NoMsg) = FALSE
          BY <3>2
        <5> QED
          BY <1>3, <1>22, <5>1 DEF ValidBasicHeader, B0
      <4>4. Holds(m, f, 0)
        BY <1>4, <4>1, <4>2, <4>3, HoldsNext DEF DataOk
      <4>5. m \in Msgs /\ m.op = m_data_msg.op /\ m.payload = m_data_msg.payload
            /\ m.validator = m_data_msg.validator
        BY <4>1, <4>2, <4>4 DEF Msgs, Holds
      <4>6. DataOk(m)
        BY <4>2, <4>5 DEF DataOk
      <4>7. NoSizeWraps => Len(m.payload) + f.size <= MaxMessageSize
        <5> SUFFICES ASSUME NoSizeWraps PROVE Len(m.payload) + f.size <= MaxMessageSize
          OBVIOUS
        <5> DEFINE l == Len(m_data_msg.payload)
                   s == f.size
        <5>1. l \in Nat /\ s \in Nat /\ l <= MaxMessageSize
          BY <1>4, <4>2 DEF Msgs
        <5>2. MaxMessageSize + s < SizeT
          BY <1>4, <1>13 DEF NoSizeWraps, TypedProc
        <5>3. ~((l + s) % SizeT > MaxMessageSize)
          BY <1>22, <2>1, <3>2 DEF TooBig
        <5> HIDE DEF l, s
        <5>4. l + s \in Nat /\ l + s < SizeT
          BY <1>13, <5>1, <5>2
        <5>5. (l + s) % SizeT = l + s
          BY <1>13, <5>4
        <5>6. l + s <= MaxMessageSize
          BY <1>13, <5>3, <5>4, <5>5
        <5> QED
          BY <4>5, <5>6 DEF l, s
      <4>8. ~honest
        BY <1>3, <3>2
      <4> HIDE DEF m
      <4>9. Len(m.payload) \in Nat
        BY <4>5 DEF Msgs
      <4> QED
        BY <4>4, <4>5, <4>6, <4>7, <4>8, <4>9
    <3> QED
      BY <3>1, <3>2
  <2>3. NoSizeWraps => Len(m.payload) <= MaxMessageSize
    <3> DEFINE l == Len(m.payload)
               s == f.size
    <3>1. l \in Nat /\ s \in Nat /\ (NoSizeWraps => l + s <= MaxMessageSize)
      BY <1>4, <2>2
    <3> HIDE DEF l, s
    <3>2. NoSizeWraps => l <= MaxMessageSize
      BY <1>13, <3>1
    <3> QED
      BY <3>2 DEF l
  <2>4. TypedMsgs' /\ TypedFrames'
    <3>1. TypedFrames'
      BY <1>10, <1>13, <1>22 DEF TypedFrames
    <3>2. TypedMsgs'
      BY <1>22, <2>2, <2>3 DEF TypedMsgs, NoSizeWraps
    <3> QED
      BY <3>1, <3>2
  <2>5. Typed'
    BY <1>11, <2>1, <2>4 DEF Typed
  <2>6. PayloadRead'
    <3>1. m.validator # "reject"
      BY <2>2 DEF DataOk
    <3>2. f = frames[1] /\ m_current_msg' = (IF is_control(f.op) THEN "control" ELSE "data")
          /\ m_bytes_needed' = f.size
          /\ m = (IF is_control(f.op) THEN m_control_msg' ELSE m_data_msg')
          /\ (honest' => f.op # "CONTINUATION")
          /\ frames' = frames
      BY <1>10, <1>22, <2>1, <2>2 DEF f
    <3>3. NoSizeWraps /\ ~is_control(f.op) => Len(m_data_msg'.payload) + f.size <= MaxMessageSize
      BY <2>2
    <3>4. honest' => (is_control(f.op) => m_data_msg' = NoMsg)
      BY <1>22
    <3>5. Holds(m, f, 0)
      BY <2>2
    <3> HIDE DEF m
    <3> QED
      BY <1>3, <1>4, <1>10, <1>22, <2>1, <2>5, <3>1, <3>2, <3>3, <3>4, <3>5, PayloadBegins
  <2>7. Live'
    BY <1>1, <1>10, <1>22, <2>2, <2>6 DEF Live
  <2> QED
    BY <2>5, <2>7 DEF HInv
<1> QED
  BY <1>6, <1>17, <1>18, <1>20, <1>21, <1>22

-----------------------------------------------------------------------------
(***************************************************************************)
(* The payload.                                                            *)
(***************************************************************************)

LEMMA MsgsNotNull == \A m \in Msgs : m # NoMsg
  BY NoMsgAssumption DEF Msgs, States

\* The text of a message with the whole of a frame, when part of it was read.
LEMMA WholeText ==
    \A f, m, d, w :
       /\ IsFrame(f) /\ d \in 0 .. f.size /\ Holds(m, f, d)
       /\ w = SubSeq(m.payload, 1, Len(m.payload) - d) \o f.payload
       => /\ w \in Seq(PlainBytes)
          /\ f.op # "CONTINUATION" => w = f.payload
          /\ d = f.size => w = m.payload
          /\ m.op = "TEXT" =>
                /\ m.validator = "reject" => Validate("accept", w) = "reject"
                /\ d = f.size => Validate("accept", w) = m.validator
<1> TAKE f, m, d, w
<1> HAVE /\ IsFrame(f) /\ d \in 0 .. f.size /\ Holds(m, f, d)
         /\ w = SubSeq(m.payload, 1, Len(m.payload) - d) \o f.payload
<1> DEFINE z == SubSeq(f.payload, d + 1, f.size)
           mp == m.payload
<1>1. mp \in Seq(PlainBytes) /\ f.payload \in Seq(PlainBytes) /\ f.size \in Nat
      /\ d \in Nat /\ Len(mp) \in Nat /\ d <= Len(mp)
  BY FrameFacts DEF Holds, Msgs
<1>2. /\ SubSeq(mp, 1, Len(mp) - d) \in Seq(PlainBytes)
      /\ z \in Seq(PlainBytes)
      /\ w = mp \o z
      /\ f.op # "CONTINUATION" => f.payload = mp \o z
  BY HoldsWhole
<1>3. d = f.size => z = <<>>
  BY <1>1
<1>4. m.op = "TEXT" => m.validator = Validate("accept", mp)
  BY DEF Holds
<1> HIDE DEF z, mp
<1>5. Validate("accept", mp \o z) = Validate(Validate("accept", mp), z)
  BY <1>1, <1>2, ValidateConcat
<1>6. mp \o <<>> = mp /\ Validate("reject", z) = "reject"
      /\ \A s : Validate(s, <<>>) = s
  BY <1>1, <1>2, ConcatEmptySeq, ValidateReject, ValidateEmpty
<1>7. mp \o z \in Seq(PlainBytes)
  BY <1>1, <1>2, ConcatProperties
<1> QED
  BY <1>2, <1>3, <1>4, <1>5, <1>6, <1>7 DEF mp

LEMMA PayloadBytes ==
    ASSUME Typed, PayloadRead, NEW c, c = Chunk, NEW f, f = frames[1],
           NEW p, p = ProcessPayload(CurrentMsg, c), NEW d, d = f.size - m_bytes_needed + c
    PROVE  /\ c \in 0 .. m_bytes_needed /\ m_bytes_needed \in 0 .. f.size
           /\ IsFrame(f) /\ f.size \in Nat
           /\ d \in 0 .. f.size /\ (c = m_bytes_needed => d = f.size)
           /\ d = f.size - (m_bytes_needed - c)
           /\ CurrentMsg = MsgOf(f)
           /\ Holds(p, f, d) /\ p.op = MsgOf(f).op
           /\ Len(p.payload) = Len(MsgOf(f).payload) + c
           /\ \A i \in 1 .. Len(MsgOf(f).payload) : p.payload[i] = MsgOf(f).payload[i]
<1> DEFINE in == Bytes(c)
           m == MsgOf(f)
           done == f.size - m_bytes_needed
           e == ExtLen(f)
           n == m_bytes_needed
           s == f.size
<1>1. /\ frames # <<>> /\ m_basic_header = <<B0(f), B1(f)>>
      /\ m_current_msg = (IF is_control(f.op) THEN "control" ELSE "data")
      /\ Holds(m, f, done)
  BY DEF PayloadRead
<1>2. /\ WireLen(f) - n \in Nat /\ Aligned(frames, wire, WireLen(f) - n)
      /\ s \in Nat /\ n \in 0 .. s /\ done \in 0 .. s
      /\ WireLen(f) = 2 + e + s /\ e \in 0 .. 12
  BY PayloadPos
<1>3. IsFrame(f)
  BY <1>1, FirstFrame DEF Typed
<1>4. /\ c \in Nat /\ c <= n /\ in \in Seq(AnyByte) /\ Len(in) = c
  BY Taking
<1>5. done = s - n
  OBVIOUS
<1> HIDE DEF in, done, e, n, s
<1>6. /\ WireLen(f) - n = 2 + e + done /\ done \in Nat /\ done + c <= s
      /\ (WireLen(f) - n) + c <= WireLen(f) /\ c \in 0 .. n
      /\ done + c \in 0 .. s /\ (c = n => done + c = s) /\ done + c = s - (n - c)
  <2> DEFINE w == WireLen(f)
  <2>1. w = 2 + e + s /\ s \in Nat /\ n \in 0 .. s /\ e \in 0 .. 12 /\ c \in Nat /\ c <= n
        /\ done = s - n
    BY <1>2, <1>4, <1>5
  <2> HIDE DEF w
  <2>2. /\ w - n = 2 + e + done /\ done \in Nat /\ done + c <= s
        /\ (w - n) + c <= w /\ c \in 0 .. n
        /\ done + c \in 0 .. s /\ (c = n => done + c = s) /\ done + c = s - (n - c)
    BY ONLY <2>1
  <2> QED
    BY ONLY <2>2 DEF w
<1>7. \A i \in 1 .. c : in[i] = PayloadByte(f, done + i)
  <2>1. \A i \in 1 .. c : in[i] = Wire(f)[(WireLen(f) - n) + i]
    BY <1>1, <1>2, <1>6, NextBytes DEF in, n
  <2>2. \A i \in 1 .. s : Wire(f)[2 + e + i] = PayloadByte(f, i)
    BY <1>3, WireFacts DEF e, s
  <2> TAKE i \in 1 .. c
  <2>3. done + i \in 1 .. s /\ 2 + e + (done + i) = 2 + e + done + i
    <3>1. done \in Nat /\ s \in Nat /\ e \in 0 .. 12 /\ c \in Nat /\ done + c <= s /\ i \in 1 .. c
      BY <1>2, <1>4, <1>6
    <3> QED
      BY ONLY <3>1
  <2>4. in[i] = Wire(f)[2 + e + done + i]
    BY <1>6, <2>1
  <2> QED
    BY <2>2, <2>3, <2>4
<1>8. CurrentMsg = m
  BY <1>1 DEF CurrentMsg, MsgOf
<1>9. p = Processed(m, f, in)
  <2>1. m_basic_header[2].masked = f.masked
    BY <1>1 DEF B1
  <2> HIDE DEF m
  <2> QED
    BY <1>4, <1>8, <2>1 DEF ProcessPayload, Processed, in
<1> HIDE DEF m
<1>10. /\ Holds(Processed(m, f, in), f, done + Len(in))
       /\ Processed(m, f, in).op = m.op
       /\ Len(Processed(m, f, in).payload) = Len(m.payload) + Len(in)
       /\ \A i \in 1 .. Len(m.payload) : Processed(m, f, in).payload[i] = m.payload[i]
  <2>1. done \in Nat /\ done + Len(in) <= f.size
        /\ \A i \in 1 .. Len(in) : in[i] = PayloadByte(f, done + i)
    BY <1>4, <1>6, <1>7 DEF s
  <2>2. IsFrame(f) /\ Holds(m, f, done) /\ in \in Seq(AnyByte)
    BY <1>1, <1>3, <1>4
  <2> QED
    BY ONLY <2>1, <2>2, HoldsProcessed
<1>11. d = done + c
  BY DEF done
<1> QED
  BY <1>2, <1>3, <1>4, <1>6, <1>8, <1>9, <1>10, <1>11 DEF n, s, m

LEMMA PayloadCases ==
    ASSUME ConsumePayload, NEW c, c = Chunk, NEW p, p = ProcessPayload(CurrentMsg, c)
    PROVE  /\ ~reading /\ err = "none" /\ m_state = "APPLICATION"
           /\ SetCurrentMsg(p)
           /\ UNCHANGED <<m_server, m_current_msg, reading, sentVars, outVars>>
           /\ \/ /\ p.validator = "reject"
                 /\ UNCHANGED <<bufVars, procVars>>
                 /\ Fail("invalid_utf8")
              \/ /\ p.validator # "reject"
                 /\ TakeBytes(c)
                 /\ \/ /\ m_bytes_needed > c
                       /\ m_bytes_needed' = m_bytes_needed - c
                       /\ UNCHANGED <<m_state, m_basic_header, m_extended_header, err, frames>>
                    \/ /\ ~(m_bytes_needed > c) /\ ~m_basic_header[1].fin
                       /\ ResetHeaders
                       /\ frames' = Tail(frames) /\ UNCHANGED err
                    \/ /\ ~(m_bytes_needed > c) /\ m_basic_header[1].fin /\ Finalizable(p)
                       /\ m_bytes_needed' = 0
                       /\ UNCHANGED <<m_basic_header, m_extended_header>>
                       /\ m_state' = "READY" /\ UNCHANGED <<err, frames>>
                    \/ /\ ~(m_bytes_needed > c) /\ m_basic_header[1].fin /\ ~Finalizable(p)
                       /\ m_bytes_needed' = 0
                       /\ UNCHANGED <<m_basic_header, m_extended_header, m_state>>
                       /\ Fail("invalid_utf8")
<1>1. /\ ~reading /\ err = "none" /\ m_state = "APPLICATION"
      /\ SetCurrentMsg(p)
      /\ UNCHANGED <<m_server, m_current_msg, reading, sentVars, outVars>>
      /\ IF p.validator = "reject" THEN UNCHANGED bufVars ELSE TakeBytes(c)
  BY DEF ConsumePayload, Consuming
<1>2. (CASE p.validator = "reject" ->
               /\ UNCHANGED procVars
               /\ Fail("invalid_utf8")
          [] p.validator # "reject" /\ m_bytes_needed > c ->
               /\ m_bytes_needed' = m_bytes_needed - c
               /\ UNCHANGED <<m_state, m_basic_header, m_extended_header>>
               /\ Fine
          [] OTHER ->
               IF ~m_basic_header[1].fin
               THEN ResetHeaders /\ frames' = Tail(frames) /\ UNCHANGED err
               ELSE /\ m_bytes_needed' = 0
                    /\ UNCHANGED <<m_basic_header, m_extended_header>>
                    /\ IF Finalizable(p)
                       THEN m_state' = "READY" /\ Fine
                       ELSE UNCHANGED m_state /\ Fail("invalid_utf8"))
  BY DEF ConsumePayload
<1> QED
  BY <1>1, <1>2 DEF Fine

\* Part of a text that is UTF-8 is not rejected.
LEMMA HonestText ==
    ASSUME Typed, NEW f, IsFrame(f), PreparedBy(m_server, f),
           NEW p, NEW d \in 0 .. f.size, Holds(p, f, d)
    PROVE  /\ p.validator # "reject"
           /\ d = f.size /\ f.op = "TEXT" => p.validator = "accept"
<1>1. /\ f.op \in {"TEXT", "BINARY"} \cup ControlOpcodes
      /\ f.op = "TEXT" => Validate("accept", f.payload) = "accept"
  BY PreparedIsRegular DEF Typed
<1>2. f.op # "CONTINUATION"
  BY <1>1 DEF ControlOpcodes
<1>3. p.op = f.op /\ (p.op # "TEXT" => p.validator = "accept")
  BY <1>2 DEF Holds
<1> DEFINE w == SubSeq(p.payload, 1, Len(p.payload) - d) \o f.payload
<1>4. /\ w = f.payload
      /\ p.op = "TEXT" => /\ p.validator = "reject" => Validate("accept", w) = "reject"
                          /\ d = f.size => Validate("accept", w) = p.validator
  BY <1>2, WholeText, ZenonT(60)
<1> HIDE DEF w
<1> QED
  BY <1>1, <1>3, <1>4

\* Frames are prepared by the other end still when the first of them is gone.
LEMMA StillPrepared ==
    ASSUME Typed, Live, frames # <<>>, frames' = Tail(frames), m_server' = m_server,
           honest' = honest
    PROVE  honest' => \A i \in 1 .. Len(frames') : PreparedBy(m_server', frames'[i])
<1> SUFFICES ASSUME honest PROVE \A i \in 1 .. Len(frames') : PreparedBy(m_server, frames'[i])
  OBVIOUS
<1>1. /\ Len(frames) \in Nat /\ Len(frames') = Len(frames) - 1
      /\ \A i \in 1 .. Len(frames) - 1 : frames'[i] = frames[i + 1]
  BY FirstFrame DEF Typed
<1>2. \A i \in 1 .. Len(frames) : PreparedBy(m_server, frames[i])
  BY DEF Live
<1>3. \A i \in 1 .. Len(frames) - 1 : i + 1 \in 1 .. Len(frames)
  BY <1>1
<1> QED
  BY ONLY <1>1, <1>2, <1>3

LEMMA PayloadInv ==
    ASSUME HInv, ConsumePayload
    PROVE  HInv'
<1> DEFINE c == Chunk
           f == frames[1]
           n == m_bytes_needed
           p == ProcessPayload(CurrentMsg, c)
           d == f.size - m_bytes_needed + c
           ctrl == is_control(f.op)
           m == MsgOf(f)
<1>1. /\ ~reading /\ err = "none" /\ m_state = "APPLICATION"
      /\ SetCurrentMsg(p)
      /\ UNCHANGED <<m_server, m_current_msg, reading, sentVars, outVars>>
      /\ \/ /\ p.validator = "reject"
            /\ UNCHANGED <<bufVars, procVars>>
            /\ Fail("invalid_utf8")
         \/ /\ p.validator # "reject"
            /\ TakeBytes(c)
            /\ \/ /\ n > c
                  /\ m_bytes_needed' = n - c
                  /\ UNCHANGED <<m_state, m_basic_header, m_extended_header, err, frames>>
               \/ /\ ~(n > c) /\ ~m_basic_header[1].fin
                  /\ ResetHeaders
                  /\ frames' = Tail(frames) /\ UNCHANGED err
               \/ /\ ~(n > c) /\ m_basic_header[1].fin /\ Finalizable(p)
                  /\ m_bytes_needed' = 0
                  /\ UNCHANGED <<m_basic_header, m_extended_header>>
                  /\ m_state' = "READY" /\ UNCHANGED <<err, frames>>
               \/ /\ ~(n > c) /\ m_basic_header[1].fin /\ ~Finalizable(p)
                  /\ m_bytes_needed' = 0
                  /\ UNCHANGED <<m_basic_header, m_extended_header, m_state>>
                  /\ Fail("invalid_utf8")
  BY PayloadCases
<1>2. Typed /\ Live /\ PayloadRead
  BY <1>1 DEF HInv, Live
<1>3. /\ c \in 0 .. n /\ n \in 0 .. f.size
      /\ IsFrame(f) /\ f.size \in Nat
      /\ d \in 0 .. f.size /\ (c = n => d = f.size)
      /\ d = f.size - (n - c)
      /\ Holds(p, f, d) /\ p.op = m.op
      /\ Len(p.payload) = Len(m.payload) + c
  BY <1>2, PayloadBytes
<1>4. /\ frames # <<>> /\ m_basic_header = <<B0(f), B1(f)>>
      /\ get_payload_size(B1(f), m_extended_header) = f.size
      /\ Regular(f) /\ Aligned(frames, wire, WireLen(f) - n)
      /\ m_current_msg = (IF ctrl THEN "control" ELSE "data")
      /\ NoSizeWraps /\ ~ctrl => Len(m_data_msg.payload) + n <= MaxMessageSize
      /\ honest => f.op # "CONTINUATION" /\ (ctrl => m_data_msg = NoMsg)
      /\ m = IF ctrl THEN m_control_msg ELSE m_data_msg
      /\ Holds(m, f, f.size - n)
  BY <1>2 DEF PayloadRead, MsgOf
<1>5. m_basic_header[1].op = f.op /\ m_basic_header[1].fin = f.fin
  BY <1>4 DEF B0
<1> HIDE DEF c, p, d
<1>6. n \in Nat /\ c \in Nat /\ (~(n > c) => c = n /\ n - c = 0)
  <2>1. f.size \in Nat
    BY <1>3
  <2> QED
    BY <1>3, <2>1
<1> HIDE DEF f, m, n
<1>7. /\ m_server' = m_server /\ m_current_msg' = m_current_msg
      /\ reading' = reading /\ sent' = sent /\ honest' = honest /\ delivered' = delivered
      /\ reading = FALSE
  BY <1>1, <1>2 DEF sentVars, outVars, Typed, TypedBuffer
<1>8. TypedFrames /\ TypedProc /\ TypedMsgs /\ TypedBuffer /\ SizeT \in Nat /\ 255 < SizeT
      /\ MaxMessageSize \in Nat
  BY <1>2, SizeTNat, SizeAssumption DEF Typed
<1>9. /\ ctrl => m_control_msg' = p /\ m_data_msg' = m_data_msg
      /\ ~ctrl => m_data_msg' = p /\ m_control_msg' = m_control_msg
  BY <1>1, <1>4 DEF SetCurrentMsg
<1>10. p \in Msgs /\ p # NoMsg /\ Len(p.payload) \in Nat
  <2>1. p \in Msgs
    BY <1>3 DEF Holds
  <2>2. p.payload \in Seq(PlainBytes)
    BY <2>1 DEF Msgs
  <2> QED
    BY <2>1, <2>2, MsgsNotNull
<1>11. ~ctrl => /\ m = m_data_msg /\ m_data_msg \in Msgs /\ m_data_msg # NoMsg
                /\ DataOk(m_data_msg)
  <2> SUFFICES ASSUME ~ctrl PROVE m_data_msg \in Msgs /\ m_data_msg # NoMsg /\ DataOk(m_data_msg)
    BY <1>4
  <2>1. m_data_msg \in Msgs
    BY <1>4 DEF Holds
  <2> QED
    BY <1>2, <2>1, MsgsNotNull DEF Live
<1>12. NoSizeWraps /\ ~ctrl => /\ Len(p.payload) + (n - c) <= MaxMessageSize
                               /\ Len(p.payload) <= MaxMessageSize
  <2> SUFFICES ASSUME NoSizeWraps, ~ctrl
               PROVE  /\ Len(p.payload) + (n - c) <= MaxMessageSize
                      /\ Len(p.payload) <= MaxMessageSize
    OBVIOUS
  <2> DEFINE l == Len(m_data_msg.payload)
             q == Len(p.payload)
  <2>1. l + n <= MaxMessageSize /\ q = l + c /\ q \in Nat
    BY <1>3, <1>4, <1>10, <1>11
  <2>2. l \in Nat
    <3>1. m_data_msg.payload \in Seq(PlainBytes)
      BY <1>11 DEF Msgs
    <3> QED
      BY <3>1
  <2>3. c \in 0 .. n
    BY <1>3
  <2> HIDE DEF l, q
  <2>4. q + (n - c) <= MaxMessageSize /\ q <= MaxMessageSize
    BY <1>6, <1>8, <2>1, <2>2, <2>3
  <2> QED
    BY <2>4 DEF q
<1>13. TypedMsgs'
  <2>1. CASE ctrl
    BY <1>7, <1>8, <1>9, <2>1 DEF TypedMsgs, NoSizeWraps
  <2>2. CASE ~ctrl
    BY <1>7, <1>8, <1>9, <1>10, <1>12, <2>2 DEF TypedMsgs, NoSizeWraps
  <2> QED
    BY <2>1, <2>2
<1>14. honest => /\ PreparedBy(m_server, f) /\ f.fin
                 /\ p.validator # "reject"
                 /\ d = f.size /\ f.op = "TEXT" => p.validator = "accept"
  <2> SUFFICES ASSUME honest
               PROVE  /\ PreparedBy(m_server, f) /\ f.fin
                      /\ p.validator # "reject"
                      /\ d = f.size /\ f.op = "TEXT" => p.validator = "accept"
    OBVIOUS
  <2>1. 1 \in 1 .. Len(frames)
    BY <1>2, <1>4, FirstFrame DEF Typed
  <2>2. PreparedBy(m_server, f)
    BY <1>2, <2>1 DEF Live, f
  <2>3. f.fin
    BY <1>3, <1>8, <2>2, PreparedIsRegular
  <2>4. /\ p.validator # "reject"
        /\ d = f.size /\ f.op = "TEXT" => p.validator = "accept"
    BY <1>2, <1>3, <2>2, HonestText
  <2> QED
    BY <2>2, <2>3, <2>4
<1>15. CASE /\ p.validator = "reject"
            /\ UNCHANGED <<bufVars, procVars>>
            /\ Fail("invalid_utf8")
  <2>1. ~honest
    BY <1>14, <1>15
  <2>2. TypedFrames' /\ err' # "none"
    BY <1>2, <1>4, <1>7, <1>15, <2>1, Failed
  <2>3. TypedProc' /\ TypedBuffer'
    BY <1>7, <1>8, <1>15 DEF TypedProc, TypedBuffer, procVars, bufVars
  <2> QED
    BY <1>13, <2>2, <2>3 DEF HInv, Typed
<1>16. ASSUME TakeBytes(c)
       PROVE  TypedBuffer' /\ wire' \in Seq(AnyByte)
              /\ Aligned(frames, wire', WireLen(f) - (n - c))
  <2>1. /\ wire' \in Seq(AnyByte) /\ len' \in 0 .. BufferSize /\ len' <= Len(wire')
        /\ \A pos \in Nat : Aligned(frames, wire, pos) => Aligned(frames, wire', pos + c)
    BY <1>2, <1>16, BytesTaken DEF c
  <2>2. TypedBuffer'
    BY <1>7, <1>8, <2>1 DEF TypedBuffer
  <2>3. WireLen(f) - n \in Nat
    BY <1>2, PayloadPos DEF f, n
  <2>4. (WireLen(f) - n) + c = WireLen(f) - (n - c)
    <3>1. WireLen(f) \in Nat
      BY <1>3, FrameFacts
    <3> QED
      BY <1>6, <3>1
  <2>5. Aligned(frames, wire', (WireLen(f) - n) + c)
    BY <1>4, <2>1, <2>3
  <2> QED
    BY <2>1, <2>2, <2>4, <2>5
<1>17. ASSUME p.validator # "reject" PROVE m_data_msg' # NoMsg => DataOk(m_data_msg')
  <2>1. CASE ctrl
    BY <1>2, <1>9, <2>1 DEF Live
  <2>2. CASE ~ctrl
    <3>1. p.op \in {"TEXT", "BINARY"}
      BY <1>3, <1>11, <2>2 DEF DataOk
    <3>2. DataOk(p)
      BY <1>3, <1>17, <3>1 DEF DataOk, Holds
    <3> QED
      BY <1>9, <2>2, <3>2
  <2> QED
    BY <2>1, <2>2
<1>18. ASSUME p.validator # "reject", TakeBytes(c), m_bytes_needed' = n - c,
              UNCHANGED <<m_basic_header, m_extended_header, frames>>
       PROVE  PayloadRead'
  <2> DEFINE k == n - c
  <2>1. /\ k \in Nat /\ k <= f.size /\ d = f.size - k /\ m_bytes_needed' = k
        /\ Aligned(frames, wire', WireLen(f) - k)
    <3> DEFINE s == f.size
    <3>1. s \in Nat /\ n \in 0 .. s /\ c \in 0 .. n
      BY <1>3
    <3> HIDE DEF s
    <3>2. n - c \in Nat /\ n - c <= s
      BY <3>1
    <3> QED
      BY <1>3, <1>16, <1>18, <3>2 DEF s
  <2>2. NoSizeWraps /\ ~ctrl => Len(p.payload) + k <= MaxMessageSize
    BY <1>12
  <2> HIDE DEF k
  <2>3. frames' = frames /\ frames'[1] = f /\ frames' # <<>>
        /\ m_basic_header' = m_basic_header /\ m_extended_header' = m_extended_header
    BY <1>4, <1>18 DEF f
  <2>4. Regular(frames[1])' /\ MsgOf(frames[1])' = p
    BY <1>4, <1>7, <1>9, <2>3 DEF Regular, MsgOf
  <2>5. (Holds(MsgOf(frames[1]), frames[1], frames[1].size - m_bytes_needed))'
        /\ (MsgOf(frames[1]).validator # "reject")'
    <3>1. Holds(p, f, f.size - k)
      BY <1>3, <2>1
    <3> QED
      BY <1>18, <2>1, <2>3, <2>4, <3>1
  <2>6. (NoSizeWraps /\ ~is_control(frames[1].op) =>
            Len(m_data_msg.payload) + m_bytes_needed <= MaxMessageSize)'
    BY <1>9, <2>1, <2>2, <2>3 DEF NoSizeWraps
  <2>7. (honest => /\ frames[1].op # "CONTINUATION"
                   /\ is_control(frames[1].op) => m_data_msg = NoMsg)'
    BY <1>4, <1>7, <1>9, <2>3
  <2>8. /\ m_basic_header' = <<B0(f), B1(f)>>
        /\ get_payload_size(B1(f), m_extended_header') = f.size
        /\ m_current_msg' = (IF is_control(f.op) THEN "control" ELSE "data")
        /\ Aligned(frames', wire', WireLen(f) - k)
    BY <1>4, <1>7, <2>1, <2>3
  <2> QED
    BY <2>1, <2>3, <2>4, <2>5, <2>6, <2>7, <2>8 DEF PayloadRead
<1>19. CASE /\ p.validator # "reject"
            /\ TakeBytes(c)
            /\ n > c
            /\ m_bytes_needed' = n - c
            /\ UNCHANGED <<m_state, m_basic_header, m_extended_header, err, frames>>
  <2>1. PayloadRead'
    BY <1>18, <1>19
  <2>2. n - c \in 0 .. SizeT - 1
    <3>1. n \in 0 .. SizeT - 1 /\ c \in 0 .. n
      BY <1>3, <1>8 DEF TypedProc, n
    <3> QED
      BY <1>8, <3>1
  <2>3. TypedProc' /\ TypedFrames'
    BY <1>7, <1>8, <1>19, <2>2 DEF TypedProc, TypedFrames
  <2>4. Live'
    BY <1>1, <1>2, <1>7, <1>17, <1>19, <2>1 DEF Live
  <2> QED
    BY <1>13, <1>16, <1>19, <2>3, <2>4 DEF HInv, Typed
<1>20. CASE /\ p.validator # "reject"
            /\ TakeBytes(c)
            /\ ~(n > c) /\ ~m_basic_header[1].fin
            /\ ResetHeaders
            /\ frames' = Tail(frames) /\ UNCHANGED err
  <2>1. ~f.fin /\ ~honest
    BY <1>5, <1>14, <1>20
  <2>2. /\ m_state' = "HEADER_BASIC" /\ m_bytes_needed' = 2
        /\ m_basic_header' = <<>> /\ m_extended_header' = <<>>
    BY <1>20 DEF ResetHeaders
  <2>3. TypedProc'
    <3>1. 2 \in 0 .. SizeT - 1 /\ <<>> \in Seq(AnyByte) /\ Len(<<>>) = 0
      BY <1>8
    <3> QED
      BY <1>7, <1>8, <2>2, <3>1 DEF TypedProc
  <2>4. TypedFrames'
    <3>1. /\ frames' \in Seq(Frames(m_server')) /\ Wellformed(frames')
          /\ sent' \in 0 .. MaxFrames /\ honest' \in BOOLEAN
          /\ Len(frames') = Len(frames) - 1
          /\ Len(frames) \in Nat /\ Len(frames) > 0
      BY <1>2, <1>4, <1>7, <1>20, FrameGone
    <3>2. delivered \in Nat /\ delivered + Len(frames) <= sent /\ sent \in Nat
      BY <1>8, SizeAssumption DEF TypedFrames
    <3>3. delivered' + Len(frames') <= sent'
      BY <1>7, <3>1, <3>2
    <3> QED
      BY <1>7, <1>8, <1>20, <2>1, <3>1, <3>3 DEF TypedFrames
  <2>5. Aligned(frames', wire', 0)
    <3>1. WireLen(f) - (n - c) = WireLen(f)
      <4>1. WireLen(f) \in Nat
        BY <1>3, FrameFacts
      <4> QED
        BY <1>6, <1>20, <4>1
    <3>2. Aligned(frames, wire', WireLen(frames[1])) /\ wire' \in Seq(AnyByte)
      BY <1>16, <1>20, <3>1 DEF f
    <3> QED
      BY <1>4, <1>8, <1>20, <3>2, AlignedTail DEF TypedFrames
  <2>6. BasicRead'
    BY <1>7, <2>1, <2>2, <2>5 DEF BasicRead
  <2>7. Live'
    BY <1>1, <1>7, <1>17, <1>20, <2>1, <2>2, <2>6 DEF Live
  <2> QED
    BY <1>13, <1>16, <1>20, <2>3, <2>4, <2>7 DEF HInv, Typed
<1>21. CASE /\ p.validator # "reject"
            /\ TakeBytes(c)
            /\ ~(n > c) /\ m_basic_header[1].fin /\ Finalizable(p)
            /\ m_bytes_needed' = 0
            /\ UNCHANGED <<m_basic_header, m_extended_header>>
            /\ m_state' = "READY" /\ UNCHANGED <<err, frames>>
  <2>1. PayloadRead'
    BY <1>6, <1>18, <1>21
  <2>2. FrameReady'
    <3>1. f.op = "TEXT" => p.validator = "accept" /\ ~ctrl
      BY <1>5, <1>21 DEF Finalizable, is_control, ControlOpcodes
    <3>2. frames'[1] = f /\ f.fin
      BY <1>5, <1>21 DEF f
    <3> QED
      BY <1>9, <1>21, <3>1, <3>2 DEF FrameReady
  <2>3. TypedProc' /\ TypedFrames'
    <3>1. 0 \in 0 .. SizeT - 1
      BY <1>8
    <3> QED
      BY <1>7, <1>8, <1>21, <3>1 DEF TypedProc, TypedFrames
  <2>4. Live'
    BY <1>1, <1>2, <1>7, <1>17, <1>21, <2>1, <2>2 DEF Live
  <2> QED
    BY <1>13, <1>16, <1>21, <2>3, <2>4 DEF HInv, Typed
<1>22. CASE /\ p.validator # "reject"
            /\ TakeBytes(c)
            /\ ~(n > c) /\ m_basic_header[1].fin /\ ~Finalizable(p)
            /\ m_bytes_needed' = 0
            /\ UNCHANGED <<m_basic_header, m_extended_header, m_state>>
            /\ Fail("invalid_utf8")
  <2>1. ~honest
    <3>1. f.op = "TEXT" /\ p.validator # "accept"
      BY <1>5, <1>22 DEF Finalizable
    <3>2. d = f.size
      BY <1>3, <1>6, <1>22
    <3> QED
      BY <1>14, <3>1, <3>2
  <2>2. TypedFrames' /\ err' # "none"
    BY <1>2, <1>4, <1>7, <1>22, <2>1, Failed
  <2>3. TypedProc'
    <3>1. 0 \in 0 .. SizeT - 1
      BY <1>8
    <3> QED
      BY <1>7, <1>8, <1>22, <3>1 DEF TypedProc
  <2> QED
    BY <1>13, <1>16, <1>22, <2>2, <2>3 DEF HInv, Typed
<1> QED
  BY <1>1, <1>15, <1>19, <1>20, <1>21, <1>22

LEMMA DispatchInv ==
    ASSUME HInv, Dispatch
    PROVE  HInv'
<1> DEFINE f == frames[1]
           ctrl == is_control(f.op)
<1>1. /\ ~reading /\ err = "none" /\ err' = "none" /\ m_state = "READY"
      /\ delivered' = delivered + 1 /\ frames' = Tail(frames) /\ GetMessage /\ ResetHeaders
      /\ reading' = (len = 0) /\ m_server' = m_server /\ wire' = wire /\ len' = len
      /\ sent' = sent /\ honest' = honest
  BY DEF Dispatch, bufVars, sentVars
<1>2. Typed /\ Live /\ PayloadRead /\ FrameReady
  BY <1>1 DEF HInv, Live
<1>3. /\ frames # <<>> /\ m_current_msg = (IF ctrl THEN "control" ELSE "data")
      /\ Aligned(frames, wire, WireLen(f) - m_bytes_needed)
      /\ honest => (ctrl => m_data_msg = NoMsg)
      /\ m_bytes_needed = 0
  BY <1>2 DEF PayloadRead, FrameReady
<1>4. /\ m_state' = "HEADER_BASIC" /\ m_bytes_needed' = 2
      /\ m_basic_header' = <<>> /\ m_extended_header' = <<>>
  BY <1>1 DEF ResetHeaders
<1>5. /\ m_current_msg' = m_current_msg
      /\ ctrl => m_data_msg' = m_data_msg
      /\ ~ctrl => m_data_msg' = NoMsg
  BY <1>1, <1>3 DEF GetMessage
<1>6. TypedFrames /\ TypedProc /\ TypedMsgs /\ TypedBuffer /\ SizeT \in Nat /\ 255 < SizeT
  BY <1>2, SizeTNat DEF Typed
<1>7. TypedProc'
  <2>1. 2 \in 0 .. SizeT - 1 /\ <<>> \in Seq(AnyByte) /\ Len(<<>>) = 0
    BY <1>6
  <2> QED
    BY <1>1, <1>4, <1>6, <2>1 DEF TypedProc
<1>8. TypedMsgs'
  BY <1>5, <1>6 DEF TypedMsgs, NoSizeWraps
<1>9. TypedBuffer'
  BY <1>1, <1>6 DEF TypedBuffer
<1>10. TypedFrames'
  <2>1. /\ frames' \in Seq(Frames(m_server')) /\ Wellformed(frames')
        /\ sent' \in 0 .. MaxFrames /\ honest' \in BOOLEAN
        /\ Len(frames') = Len(frames) - 1
        /\ Len(frames) \in Nat /\ Len(frames) > 0
    BY <1>1, <1>2, <1>3, FrameGone
  <2>2. delivered \in Nat /\ delivered + Len(frames) <= sent /\ sent \in Nat
    BY <1>6, SizeAssumption DEF TypedFrames
  <2>3. delivered' \in Nat /\ delivered' + Len(frames') <= sent'
    BY <1>1, <2>1, <2>2
  <2> QED
    BY <1>1, <1>6, <2>1, <2>3 DEF TypedFrames
<1>11. Aligned(frames', wire', 0)
  <2>1. WireLen(f) - m_bytes_needed = WireLen(f)
    <3>1. WireLen(f) \in Nat
      BY <1>2, PayloadPos
    <3> QED
      BY <1>3, <3>1
  <2>2. Aligned(frames, wire, WireLen(frames[1])) /\ wire \in Seq(AnyByte)
    BY <1>3, <1>6, <2>1 DEF TypedBuffer
  <2> QED
    BY <1>1, <1>3, <1>6, <2>2, AlignedTail DEF TypedFrames
<1>12. BasicRead'
  <2>1. honest' => m_data_msg' = NoMsg
    BY <1>1, <1>3, <1>5
  <2> QED
    BY <1>4, <1>11, <2>1 DEF BasicRead
<1>13. honest' => \A i \in 1 .. Len(frames') : PreparedBy(m_server', frames'[i])
  BY <1>1, <1>2, <1>3, StillPrepared
<1>14. m_data_msg' # NoMsg => DataOk(m_data_msg')
  BY <1>2, <1>5 DEF Live
<1>15. Live'
  BY <1>4, <1>12, <1>13, <1>14 DEF Live
<1> QED
  BY <1>7, <1>8, <1>9, <1>10, <1>15 DEF HInv, Typed

LEMMA HInvNext == HInv /\ [Next]_vars => HInv'
<1> SUFFICES ASSUME HInv, [Next]_vars PROVE HInv'
  OBVIOUS
<1>1. CASE Next
  <2>1. ASSUME NEW f \in Frames(m_server), Arrive(f) PROVE HInv'
    BY <2>1, ArriveInv
  <2>2. ASSUME NEW n \in 1 .. BufferSize, Read(n) PROVE HInv'
    BY <2>2, ReadInv
  <2> QED
    BY <1>1, <2>1, <2>2, BasicInv, ExtendedInv, PayloadInv, DispatchInv, ReadMoreInv DEF Next
<1>2. CASE UNCHANGED vars
  <2> USE <1>2 DEF vars, procVars, msgVars, bufVars, sentVars, outVars
  <2>1. Typed => Typed'
    BY DEF Typed, TypedProc, TypedMsgs, TypedBuffer, TypedFrames, NoSizeWraps
  <2>2. /\ BasicRead => BasicRead'
        /\ ExtendedRead => ExtendedRead'
        /\ PayloadRead => PayloadRead'
        /\ FrameReady => FrameReady'
    <3>1. BasicRead => BasicRead'
      BY DEF BasicRead
    <3>2. ExtendedRead => ExtendedRead'
      BY DEF ExtendedRead, ValidBasicHeader
    <3>3. PayloadRead => PayloadRead'
      BY DEF PayloadRead, Regular, MsgOf, NoSizeWraps
    <3>4. FrameReady => FrameReady'
      BY DEF FrameReady
    <3> QED
      BY <3>1, <3>2, <3>3, <3>4
  <2>3. Live => Live'
    BY <2>2 DEF Live, DataOk
  <2> QED
    BY <2>1, <2>3 DEF HInv
<1> QED
  BY <1>1, <1>2

\* The bytes not yet consumed are those of the frames not yet dealt with, the
\* headers, the message and its validator are what was read of the first of
\* them: the invariant of the parser.
THEOREM ParserInvariant == Spec => []HInv
<1> QED
  BY InitInv, HInvNext, PTL DEF Spec

\* What the processor of the other end prepares is understood: honest frames of
\* any sizes, opcodes and keys, cut into reads in any way, give no error but
\* too_big.
THEOREM PeerUnderstoodAlways == Spec => []PeerUnderstood
<1>1. HInv => PeerUnderstood
  BY DEF HInv, Typed, TypedFrames, PeerUnderstood
<1> QED
  BY <1>1, ParserInvariant, PTL

\* The types and the bounds of the variables; a data message stays within the
\* maximum size; and a frame is dealt with as soon as its last byte is read.
LEMMA TypeOKHolds == HInv => TypeOK
<1> SUFFICES ASSUME HInv PROVE TypeOK
  OBVIOUS
<1>1. Typed
  BY DEF HInv
<1>2. m_server \in BOOLEAN
  BY <1>1, SizeAssumption DEF Typed, TypedProc
<1>3. delivered \in 0 .. MaxFrames
  <2>1. delivered \in Nat /\ delivered + Len(frames) <= sent /\ sent \in 0 .. MaxFrames
        /\ Len(frames) \in Nat
    BY <1>1 DEF Typed, TypedFrames
  <2> QED
    BY <2>1, SizeAssumption
<1> QED
  BY <1>1, <1>2, <1>3 DEF Typed, TypedProc, TypedMsgs, TypedBuffer, TypedFrames, TypeOK

LEMMA WithinMaxSizeHolds == HInv /\ NoSizeWraps => WithinMaxSize
  BY DEF HInv, Typed, TypedMsgs, WithinMaxSize

LEMMA PromptHolds == HInv => Prompt
<1> SUFFICES ASSUME HInv, reading, err = "none", wire = <<>>, frames # <<>> PROVE FALSE
  <2>1. frames = <<>> => DOMAIN frames = {}
    OBVIOUS
  <2> QED
    BY <2>1 DEF Prompt
<1>1. /\ Typed /\ Live /\ m_state # "READY" /\ m_bytes_needed > 0
  BY DEF HInv, Live
<1>2. /\ IsFrame(frames[1]) /\ Wellformed(frames) /\ wire \in Seq(AnyByte)
      /\ Len(wire) = 0 /\ m_bytes_needed \in Nat
  BY <1>1, FirstFrame, SizeTNat DEF Typed, TypedProc, TypedBuffer, TypedFrames
<1>3. \A pos \in Nat : Aligned(frames, wire, pos) => WireLen(frames[1]) - pos <= 0
  BY <1>2, AlignedHead
<1> DEFINE e == ExtLen(frames[1])
           s == frames[1].size
           w == WireLen(frames[1])
           n == m_bytes_needed
<1>4. e \in 0 .. 12 /\ s \in Nat /\ w = 2 + e + s /\ n \in Nat /\ n > 0
  BY <1>1, <1>2, FrameFacts DEF WireLen
<1>5. CASE m_state = "HEADER_BASIC"
  <2>1. n \in {1, 2} /\ Aligned(frames, wire, 2 - n)
    BY <1>1, <1>5 DEF Live, BasicRead
  <2> HIDE DEF e, s, w, n
  <2>2. 2 - n \in Nat /\ ~(w - (2 - n) <= 0)
    BY <1>4, <2>1
  <2> QED
    BY <1>3, <2>1, <2>2 DEF w
<1>6. CASE m_state = "HEADER_EXTENDED"
  <2>1. n <= e /\ Aligned(frames, wire, 2 + e - n)
    BY <1>1, <1>6 DEF Live, ExtendedRead
  <2> HIDE DEF e, s, w, n
  <2>2. 2 + e - n \in Nat /\ ~(w - (2 + e - n) <= 0)
    BY <1>4, <2>1
  <2> QED
    BY <1>3, <2>1, <2>2 DEF w
<1>7. CASE m_state = "APPLICATION"
  <2>1. n <= s /\ Aligned(frames, wire, w - n)
    BY <1>1, <1>7 DEF Live, PayloadRead
  <2> HIDE DEF e, s, w, n
  <2>2. w - n \in Nat /\ ~(w - (w - n) <= 0)
    BY <1>4, <2>1
  <2> QED
    BY <1>3, <2>1, <2>2 DEF w
<1> QED
  BY <1>1, <1>5, <1>6, <1>7 DEF Typed, TypedProc

-----------------------------------------------------------------------------
(***************************************************************************)
(* The parser implements MessageStream, when sizes do not wrap.  A step    *)
(* that ends a frame takes it, whatever number of steps read its bytes;    *)
(* all other steps change nothing that MessageStream speaks of.            *)
(***************************************************************************)

\* The operators of the instance are those of this module.
LEMMA StreamOperators ==
    /\ \A op : Stream!is_control(op) = is_control(op)
    /\ Stream!ReservedOpcodes = ReservedOpcodes
    /\ \A size : Stream!BasicSize(size) = BasicSize(size)
    /\ \A state, bytes : Stream!Validate(state, bytes) = Validate(state, bytes)
<1>1. \A op : Stream!is_control(op) = is_control(op)
  BY DEF Stream!is_control, Stream!ControlOpcodes, is_control, ControlOpcodes
<1>2. Stream!ReservedOpcodes = ReservedOpcodes
  BY DEF Stream!ReservedOpcodes, ReservedOpcodes
<1>3. \A size : Stream!BasicSize(size) = BasicSize(size)
  BY DEF Stream!BasicSize, Stream!payload_size_extended, Stream!payload_size_code_16bit,
         Stream!payload_size_code_64bit, BasicSize, payload_size_extended,
         payload_size_code_16bit, payload_size_code_64bit
<1>4. \A state, byte : Stream!decode(state, byte) = decode(state, byte)
  BY DEF Stream!decode, decode
<1>5. \A state, bytes : Stream!Validate(state, bytes) = Validate(state, bytes)
  BY <1>4 DEF Stream!Validate, Validate
<1> QED
  BY <1>1, <1>2, <1>3, <1>5

\* What MessageStream keeps of a data message, and of one without the last
\* done bytes.
Plain(m) == [op |-> m.op, payload |-> m.payload]
Before(m, done) ==
    [op |-> m.op, payload |-> SubSeq(m.payload, 1, Len(m.payload) - done)]

\* A data frame is being read into the data message.
InDataFrame == m_current_msg = "data" /\ m_state \in {"APPLICATION", "READY"}

CommittedIs ==
    /\ err # "none" \/ m_data_msg = NoMsg => Committed = NoMsg
    /\ err = "none" /\ m_data_msg # NoMsg =>
          /\ ~InDataFrame => Committed = Plain(m_data_msg)
          /\ InDataFrame =>
                Committed = IF m_basic_header[1].op # "CONTINUATION" THEN NoMsg
                            ELSE Before(m_data_msg,
                                        get_payload_size(m_basic_header[2], m_extended_header)
                                        - m_bytes_needed)

LEMMA CommittedCases == CommittedIs /\ CommittedIs'
<1>1. \A o, p, d :
         [[op |-> o, payload |-> p] EXCEPT !.payload = SubSeq(@, 1, Len(@) - d)] =
            [op |-> o, payload |-> SubSeq(p, 1, Len(p) - d)]
  <2>1. \A o, p : [op |-> o, payload |-> p].payload = p
    OBVIOUS
  <2>2. \A o, p, q : [[op |-> o, payload |-> p] EXCEPT !.payload = q] =
                        [op |-> o, payload |-> q]
    OBVIOUS
  <2> QED
    BY <2>1, <2>2, Zenon
<1>2. Committed =
         IF err # "none" \/ m_data_msg = NoMsg THEN NoMsg
         ELSE IF ~InDataFrame THEN Plain(m_data_msg)
         ELSE IF m_basic_header[1].op # "CONTINUATION" THEN NoMsg
         ELSE Before(m_data_msg, get_payload_size(m_basic_header[2], m_extended_header)
                                 - m_bytes_needed)
  BY <1>1 DEF Committed, InDataFrame, Plain, Before
<1>3. (Committed =
         IF err # "none" \/ m_data_msg = NoMsg THEN NoMsg
         ELSE IF ~InDataFrame THEN Plain(m_data_msg)
         ELSE IF m_basic_header[1].op # "CONTINUATION" THEN NoMsg
         ELSE Before(m_data_msg, get_payload_size(m_basic_header[2], m_extended_header)
                                 - m_bytes_needed))'
  BY <1>1 DEF Committed, InDataFrame, Plain, Before
<1>4. CommittedIs
  BY <1>2 DEF CommittedIs
<1>5. CommittedIs'
  BY <1>3 DEF CommittedIs
<1> QED
  BY <1>4, <1>5

\* Neither of them is NoMsg.
LEMMA PlainIsMsg ==
    /\ \A m \in Msgs : Plain(m) # NoMsg
    /\ \A m, done : m.op \in Opcodes /\ SubSeq(m.payload, 1, Len(m.payload) - done) \in Seq(PlainBytes)
          => Before(m, done) # NoMsg
<1>1. \A o, p : o \in Opcodes /\ p \in Seq(PlainBytes) => [op |-> o, payload |-> p] # NoMsg
  BY NoMsgAssumption
<1>2. \A m \in Msgs : m.op \in Opcodes /\ m.payload \in Seq(PlainBytes)
  BY DEF Msgs
<1> QED
  BY <1>1, <1>2 DEF Plain, Before

\* Malformed, in the terms of the parser.
LEMMA MalformedIs ==
    ASSUME NEW f
    PROVE  Stream!Malformed(f) <=>
              \/ f.op \in ReservedOpcodes
              \/ f.rsv
              \/ f.masked # m_server
              \/ f.enc # BasicSize(f.size)
              \/ is_control(f.op) /\ (~f.fin \/ f.size > BasicLimit)
              \/ f.op = "CONTINUATION" /\ Committed = NoMsg
              \/ f.op \in {"TEXT", "BINARY"} /\ Committed # NoMsg
  BY StreamOperators DEF Stream!Malformed, Stream!Minimal

\* Between frames, and in the header of one, a frame that does not pass the
\* checks of the header is malformed, and one that does is not.
LEMMA MalformedBetween ==
    ASSUME HInv, err = "none", m_state \in {"HEADER_BASIC", "HEADER_EXTENDED"},
           NEW f, IsFrame(f)
    PROVE  /\ Committed = NoMsg <=> m_data_msg = NoMsg
           /\ m_data_msg # NoMsg => m_data_msg \in Msgs /\ Committed = Plain(m_data_msg)
           /\ ~ValidBasicHeader(B0(f), B1(f), m_data_msg = NoMsg) => Stream!Malformed(f)
           /\ ValidBasicHeader(B0(f), B1(f), m_data_msg = NoMsg) =>
                 (Stream!Malformed(f) <=> f.enc # BasicSize(f.size))
<1>1. m_data_msg = NoMsg \/ m_data_msg \in Msgs
  BY DEF HInv, Typed, TypedMsgs
<1>2. CommittedIs /\ ~InDataFrame
  BY CommittedCases DEF InDataFrame
<1>3. Committed = IF m_data_msg = NoMsg THEN NoMsg ELSE Plain(m_data_msg)
  BY <1>2 DEF CommittedIs
<1>4. /\ Committed = NoMsg <=> m_data_msg = NoMsg
      /\ m_data_msg # NoMsg => m_data_msg \in Msgs /\ Committed = Plain(m_data_msg)
  BY <1>1, <1>3, PlainIsMsg
<1>5. /\ B0(f).fin = f.fin /\ B0(f).rsv = f.rsv /\ B0(f).op = f.op
      /\ B1(f).masked = f.masked /\ B1(f).size = f.enc
  BY DEF B0, B1
<1>6. f.op \in Opcodes /\ f.size \in Nat /\ BasicLimit \in Nat /\ f.enc \in Int
  BY FrameFacts, RadixAssumption
     DEF IsFrame, payload_size_code_64bit
<1> DEFINE new == m_data_msg = NoMsg
<1>7. ValidBasicHeader(B0(f), B1(f), new) <=>
         /\ ~(is_control(f.op) /\ f.enc > BasicLimit)
         /\ ~f.rsv
         /\ ~reserved(f.op)
         /\ ~(is_control(f.op) /\ ~f.fin)
         /\ ~(new /\ f.op = "CONTINUATION")
         /\ ~(~new /\ ~is_control(f.op) /\ f.op # "CONTINUATION")
         /\ f.masked = m_server
  BY <1>5 DEF ValidBasicHeader
<1>8. Stream!Malformed(f) <=>
         \/ f.op \in ReservedOpcodes
         \/ f.rsv
         \/ f.masked # m_server
         \/ f.enc # BasicSize(f.size)
         \/ is_control(f.op) /\ (~f.fin \/ f.size > BasicLimit)
         \/ f.op = "CONTINUATION" /\ new
         \/ f.op \in {"TEXT", "BINARY"} /\ ~new
  BY <1>4, MalformedIs
<1>9. ~(f.enc > BasicLimit) /\ f.enc = BasicSize(f.size) => f.size <= BasicLimit
  BY <1>6 DEF BasicSize, payload_size_code_16bit, payload_size_code_64bit
<1>10. f.enc > BasicLimit /\ f.enc = BasicSize(f.size) => f.size > BasicLimit
  BY <1>6 DEF BasicSize
<1>11. /\ f.op \in {"CONTINUATION", "TEXT", "BINARY"} \cup ControlOpcodes \cup ReservedOpcodes
       /\ is_control(f.op) <=> f.op \in ControlOpcodes \cup {"CONTROL_RSVB"}
       /\ reserved(f.op) <=> f.op \in ReservedOpcodes
  BY <1>6 DEF Opcodes, is_control, reserved
<1> HIDE DEF new
<1>12. ~ValidBasicHeader(B0(f), B1(f), new) => Stream!Malformed(f)
  BY <1>6, <1>7, <1>8, <1>10, <1>11 DEF ControlOpcodes
<1>13. ValidBasicHeader(B0(f), B1(f), new) =>
          (Stream!Malformed(f) <=> f.enc # BasicSize(f.size))
  BY <1>6, <1>7, <1>8, <1>9, <1>11 DEF ControlOpcodes
<1> QED
  BY <1>4, <1>12, <1>13 DEF new

\* The steps of MessageStream.
LEMMA TakesFrame ==
    ASSUME err = "none", frames # <<>>, NEW f, f = Head(frames), frames' = Tail(frames),
           m_server' = m_server,
           Stream!TakeMalformed(f) \/ Stream!TakeControl(f) \/ Stream!TakeData(f)
    PROVE  Stream!Next
  BY DEF Stream!Next, Stream!Take

LEMMA Stays ==
    ASSUME m_server' = m_server, frames' = frames, err' = err, UNCHANGED outVars,
           Committed' = Committed
    PROVE  UNCHANGED Stream!svars
  BY DEF Stream!svars, outVars

\* The stream stops with an error.
LEMMA Stops ==
    ASSUME NEW ec, ec # "none", Fail(ec), UNCHANGED outVars
    PROVE  Stream!Stop(ec)
<1>1. err' = ec
  BY DEF Fail
<1>2. Committed' = NoMsg
  BY <1>1, CommittedCases DEF CommittedIs
<1> QED
  BY <1>1, <1>2 DEF Stream!Stop, outVars

\* What a data frame does to the message.
LEMMA TakesData ==
    ASSUME NEW f, ~Stream!Malformed(f), ~is_control(f.op),
           NEW m, m = Stream!Extended(f),
           NEW before, before = IF Committed = NoMsg THEN 0 ELSE Len(Committed.payload),
           \/ before + f.size > MaxMessageSize /\ Stream!Stop("too_big")
           \/ /\ ~(before + f.size > MaxMessageSize) /\ ~Stream!ValidText(m, f)
              /\ Stream!Stop("invalid_utf8")
           \/ /\ ~(before + f.size > MaxMessageSize) /\ Stream!ValidText(m, f) /\ f.fin
              /\ Stream!Deliver(m) /\ Committed' = NoMsg
           \/ /\ ~(before + f.size > MaxMessageSize) /\ Stream!ValidText(m, f) /\ ~f.fin
              /\ Committed' = m /\ UNCHANGED outVars /\ err' = err
    PROVE  Stream!TakeData(f)
<1>1. ~Stream!is_control(f.op)
  BY StreamOperators
<1>2. IF before + f.size > MaxMessageSize THEN Stream!Stop("too_big")
      ELSE IF ~Stream!ValidText(m, f) THEN Stream!Stop("invalid_utf8")
      ELSE IF f.fin THEN Stream!Deliver(m) /\ Committed' = NoMsg
      ELSE Committed' = m /\ UNCHANGED <<last, delivered, err>>
  BY DEF outVars
<1> QED
  BY <1>1, <1>2 DEF Stream!TakeData

LEMMA ArriveStep ==
    ASSUME NEW f \in Frames(m_server), Arrive(f)
    PROVE  Stream!Next
<1>1. Committed' = Committed
  BY DEF Arrive, Committed, procVars, msgVars
<1>2. /\ frames' = Append(frames, f)
      /\ UNCHANGED <<m_server, last, delivered, err>>
  BY DEF Arrive, outVars
<1>3. Stream!Arrive(f)
  BY <1>1, <1>2 DEF Stream!Arrive
<1> QED
  BY <1>3 DEF Stream!Next

LEMMA ReadStep ==
    ASSUME ReadMore \/ \E n \in 1 .. BufferSize : Read(n)
    PROVE  UNCHANGED Stream!svars
<1>1. UNCHANGED <<m_server, procVars, msgVars, frames, outVars, err>>
  BY DEF ReadMore, Read
<1>2. Committed' = Committed
  BY <1>1 DEF Committed, procVars, msgVars
<1> QED
  BY <1>1, <1>2, Stays

LEMMA MessageKept ==
    ASSUME ~InDataFrame, ~InDataFrame', err' = err, m_data_msg' = m_data_msg
    PROVE  Committed' = Committed
  BY CommittedCases DEF CommittedIs

LEMMA BasicStep ==
    ASSUME HInv, ConsumeBasicHeader
    PROVE  Stream!Next \/ UNCHANGED Stream!svars
<1> DEFINE c == Chunk
           h == m_basic_header \o Bytes(c)
           f == frames[1]
           n == m_bytes_needed
<1>1. /\ err = "none" /\ m_state = "HEADER_BASIC"
      /\ UNCHANGED <<m_server, msgVars, outVars>>
      /\ \/ UNCHANGED <<m_state, err, frames>>
         \/ /\ n = c
            /\ ~ValidBasicHeader(h[1], h[2], m_data_msg = NoMsg)
            /\ Fail("protocol")
         \/ m_state' = "HEADER_EXTENDED" /\ UNCHANGED <<err, frames>>
  BY BasicCases
<1>2. Typed /\ BasicRead
  BY <1>1 DEF HInv, Live
<1>3. /\ n - c \in {0, 1, 2} /\ c \in {0, 1, 2}
      /\ Len(h) = 2 - (n - c)
      /\ Len(h) = 2 => h = <<B0(f), B1(f)>>
      /\ Len(h) >= 1 => frames # <<>>
  BY <1>2, BasicBytes
<1> HIDE DEF c, h
<1>4. CASE UNCHANGED <<err, frames>> /\ m_state' \in {"HEADER_BASIC", "HEADER_EXTENDED"}
  <2>1. Committed' = Committed
    BY <1>1, <1>4, MessageKept DEF InDataFrame, msgVars
  <2> QED
    BY <1>1, <1>4, <2>1, Stays
<1>5. CASE /\ n = c
           /\ ~ValidBasicHeader(h[1], h[2], m_data_msg = NoMsg)
           /\ Fail("protocol")
  <2>1. n \in {1, 2}
    BY <1>2 DEF BasicRead
  <2>2. Len(h) = 2 /\ Len(h) >= 1
    BY <1>3, <1>5, <2>1
  <2>3. h[1] = B0(f) /\ h[2] = B1(f) /\ frames # <<>>
    <3>1. \A s, a, b : s = <<a, b>> => s[1] = a /\ s[2] = b
      OBVIOUS
    <3> QED
      BY <1>3, <2>2, <3>1
  <2>4. IsFrame(f) /\ Head(frames) = f
    BY <1>2, <2>3, FirstFrame DEF Typed
  <2>5. Stream!Malformed(f)
    BY <1>1, <1>5, <2>3, <2>4, MalformedBetween
  <2>6. Stream!TakeMalformed(f)
    BY <1>1, <1>5, <2>5, Stops DEF Stream!TakeMalformed
  <2>7. frames' = Tail(frames)
    BY <1>5 DEF Fail
  <2> QED
    BY <1>1, <2>3, <2>4, <2>6, <2>7, TakesFrame
<1> QED
  BY <1>1, <1>4, <1>5

\* A data frame with which the message is too big.
LEMMA TakesTooBig ==
    ASSUME HInv, err = "none", m_state \in {"HEADER_BASIC", "HEADER_EXTENDED"},
           NEW f, IsFrame(f), ~Stream!Malformed(f), ~is_control(f.op),
           TooBig(f.size), Fail("too_big"), UNCHANGED outVars
    PROVE  Stream!TakeData(f)
<1> DEFINE before == IF Committed = NoMsg THEN 0 ELSE Len(Committed.payload)
           l == Len(m_data_msg.payload)
           s == f.size
<1>1. /\ s \in Nat /\ MaxMessageSize \in Nat /\ SizeT \in Nat /\ 0 < SizeT
  BY FrameFacts, SizeAssumption, SizeTNat
<1>2. /\ Committed = NoMsg <=> m_data_msg = NoMsg
      /\ m_data_msg # NoMsg => m_data_msg \in Msgs /\ Committed = Plain(m_data_msg)
  BY MalformedBetween
<1>3. m_data_msg # NoMsg => before = l /\ l \in Nat
  <2> SUFFICES ASSUME m_data_msg # NoMsg PROVE before = l /\ l \in Nat
    OBVIOUS
  <2>1. Committed.payload = m_data_msg.payload
    BY <1>2 DEF Plain
  <2>2. m_data_msg.payload \in Seq(PlainBytes)
    BY <1>2 DEF Msgs
  <2> QED
    BY <1>2, <2>1, <2>2
<1>4. m_data_msg = NoMsg => before = 0
  BY <1>2
<1>5. IF m_data_msg = NoMsg THEN s > MaxMessageSize ELSE (l + s) % SizeT > MaxMessageSize
  BY DEF TooBig
<1> HIDE DEF before, l, s
<1>6. before + s > MaxMessageSize
  <2>1. CASE m_data_msg = NoMsg
    BY <1>1, <1>4, <1>5, <2>1
  <2>2. CASE m_data_msg # NoMsg
    <3>1. \A x, d \in Nat : d > 0 => x % d <= x /\ x % d \in Nat
      OBVIOUS
    <3>2. l + s \in Nat
      BY <1>1, <1>3, <2>2
    <3>3. (l + s) % SizeT <= l + s /\ (l + s) % SizeT \in Nat
      BY <1>1, <3>1, <3>2
    <3> QED
      BY <1>1, <1>3, <1>5, <2>2, <3>2, <3>3
  <2> QED
    BY <2>1, <2>2
<1>7. Stream!Stop("too_big")
  BY Stops
<1>8. before + f.size > MaxMessageSize
  BY <1>6 DEF s
<1> QED
  BY <1>7, <1>8, TakesData DEF before

LEMMA ExtendedStep ==
    ASSUME HInv, ConsumeExtendedHeader
    PROVE  Stream!Next \/ UNCHANGED Stream!svars
<1> DEFINE c == Chunk
           x == m_extended_header \o Bytes(c)
           f == frames[1]
           n == m_bytes_needed
           size == get_payload_size(m_basic_header[2], x)
           key == get_masking_key(m_basic_header[2], x)
<1>1. Typed /\ Live /\ ExtendedRead /\ err = "none" /\ m_state = "HEADER_EXTENDED"
  BY DEF HInv, Live, ConsumeExtendedHeader, Consuming
<1>2. /\ c \in 0 .. n /\ n \in 0 .. ExtLen(f) /\ ExtLen(f) \in 0 .. 12
      /\ c = n => get_payload_size(B1(f), x) = f.size
  BY <1>1, ExtBytes
<1>3. /\ frames # <<>> /\ m_basic_header = <<B0(f), B1(f)>>
      /\ ValidBasicHeader(B0(f), B1(f), m_data_msg = NoMsg)
  BY <1>1 DEF ExtendedRead
<1>4. IsFrame(f) /\ Head(frames) = f
  BY <1>1, <1>3, FirstFrame DEF Typed
<1>5. m_basic_header[1].op = f.op /\ m_basic_header[2] = B1(f)
  BY <1>3 DEF B0
<1> HIDE DEF c, x, f
<1>6. /\ m_extended_header' = x /\ TakeBytes(c)
      /\ UNCHANGED <<m_server, m_basic_header, reading, sentVars, outVars>>
      /\ \/ /\ n > c
            /\ m_bytes_needed' = n - c
            /\ UNCHANGED <<m_state, msgVars, err, frames>>
         \/ /\ ~(n > c)
            /\ ~ValidExtendedHeader(m_basic_header[2], size)
            /\ m_bytes_needed' = 0
            /\ UNCHANGED <<m_state, msgVars>>
            /\ Fail("protocol")
         \/ /\ ~(n > c)
            /\ ValidExtendedHeader(m_basic_header[2], size)
            /\ m_state' = "APPLICATION"
            /\ m_bytes_needed' = size
            /\ \/ /\ is_control(f.op)
                  /\ m_control_msg' = Metadata(f.op, key)
                  /\ m_current_msg' = "control"
                  /\ UNCHANGED <<m_data_msg, err, frames>>
               \/ /\ ~is_control(f.op) /\ TooBig(size)
                  /\ UNCHANGED msgVars
                  /\ Fail("too_big")
               \/ /\ ~is_control(f.op) /\ ~TooBig(size)
                  /\ m_data_msg' = IF m_data_msg = NoMsg THEN Metadata(f.op, key)
                                   ELSE NextFragment(key)
                  /\ m_current_msg' = "data"
                  /\ UNCHANGED <<m_control_msg, err, frames>>
  BY <1>5, ExtCases DEF c, x
<1>7. ~(n > c) => size = f.size
  BY <1>2, <1>5
<1>8. /\ ~InDataFrame /\ (Stream!Malformed(f) <=> f.enc # BasicSize(f.size))
      /\ ValidExtendedHeader(B1(f), f.size) <=> f.enc = BasicSize(f.size)
  BY <1>1, <1>3, <1>4, MalformedBetween, MinimalSize DEF InDataFrame
<1> HIDE DEF size, key
<1>9. CASE UNCHANGED <<m_state, msgVars, err, frames>>
  <2>1. Committed' = Committed
    BY <1>1, <1>9, MessageKept DEF InDataFrame, msgVars
  <2> QED
    BY <1>6, <1>9, <2>1, Stays
<1>10. CASE /\ ~(n > c)
            /\ ~ValidExtendedHeader(m_basic_header[2], size)
            /\ Fail("protocol")
  <2>1. Stream!Malformed(f)
    BY <1>5, <1>7, <1>8, <1>10
  <2>2. Stream!TakeMalformed(f)
    BY <1>6, <1>10, <2>1, Stops DEF Stream!TakeMalformed
  <2>3. frames' = Tail(frames)
    BY <1>10 DEF Fail
  <2> QED
    BY <1>1, <1>3, <1>4, <1>6, <2>2, <2>3, TakesFrame
<1>11. CASE m_current_msg' = "control" /\ UNCHANGED <<m_data_msg, err, frames>>
  <2>1. Committed' = Committed
    BY <1>8, <1>11, MessageKept DEF InDataFrame
  <2> QED
    BY <1>6, <1>11, <2>1, Stays
<1>12. CASE /\ ~(n > c) /\ ValidExtendedHeader(m_basic_header[2], size)
            /\ ~is_control(f.op) /\ TooBig(size)
            /\ Fail("too_big")
  <2>1. ~Stream!Malformed(f)
    BY <1>5, <1>7, <1>8, <1>12
  <2>2. Stream!TakeData(f)
    BY <1>1, <1>4, <1>6, <1>7, <1>12, <2>1, TakesTooBig
  <2>3. frames' = Tail(frames)
    BY <1>12 DEF Fail
  <2> QED
    BY <1>1, <1>3, <1>4, <1>6, <2>2, <2>3, TakesFrame
<1>13. CASE /\ ~(n > c)
            /\ m_state' = "APPLICATION"
            /\ m_bytes_needed' = size
            /\ m_data_msg' = IF m_data_msg = NoMsg THEN Metadata(f.op, key)
                             ELSE NextFragment(key)
            /\ m_current_msg' = "data" /\ ~is_control(f.op)
            /\ UNCHANGED <<err, frames>>
  <2>1. InDataFrame' /\ err' = "none"
    BY <1>1, <1>13 DEF InDataFrame
  <2>2. m_basic_header'[1].op = f.op /\ m_basic_header'[2] = B1(f)
    BY <1>5, <1>6
  <2>3. /\ get_payload_size(m_basic_header'[2], m_extended_header') - m_bytes_needed' = 0
        /\ f.size \in Nat
    <3>1. f.size \in Nat
      BY <1>4, FrameFacts
    <3>2. size = get_payload_size(m_basic_header'[2], m_extended_header')
      BY <1>5, <1>6, <2>2 DEF size
    <3> QED
      BY <1>7, <1>13, <3>1, <3>2
  <2>4. m_data_msg = NoMsg => f.op # "CONTINUATION"
    BY <1>3 DEF ValidBasicHeader, B0
  <2>5. m_data_msg # NoMsg => f.op = "CONTINUATION"
    BY <1>3, <1>13 DEF ValidBasicHeader, B0
  <2>6. Committed = IF m_data_msg = NoMsg THEN NoMsg ELSE Plain(m_data_msg)
    BY <1>1, <1>8, CommittedCases DEF CommittedIs
  <2>7. m_data_msg = NoMsg \/ m_data_msg \in Msgs
    BY <1>1 DEF Typed, TypedMsgs
  <2>8. Committed' = Committed
    <3>1. CASE m_data_msg = NoMsg
      <4>1. Committed' = NoMsg
        BY <2>1, <2>2, <2>4, <3>1, CommittedCases DEF CommittedIs
      <4> QED
        BY <2>6, <3>1, <4>1
    <3>2. CASE m_data_msg # NoMsg
      <4>1. /\ m_data_msg' = [m_data_msg EXCEPT !.prepared_key = key]
            /\ m_data_msg \in Msgs
        BY <1>13, <2>7, <3>2 DEF NextFragment
      <4>2. /\ m_data_msg'.op = m_data_msg.op /\ m_data_msg'.payload = m_data_msg.payload
            /\ m_data_msg.payload \in Seq(PlainBytes)
        BY <4>1 DEF Msgs
      <4>3. m_data_msg' # NoMsg
        <5>1. key \in Seq(STRING)
          <6>1. key = f.key
            <7>1. c = n
              BY <1>2, <1>13
            <7>2. get_masking_key(B1(f), x) = f.key
              BY <1>1, <7>1, ExtBytes DEF c, x, f
            <7> QED
              BY <1>5, <7>2 DEF key
          <6> QED
            BY <1>4, <6>1, FrameFacts
        <5>2. m_data_msg' \in Msgs
          BY <4>1, <5>1 DEF Msgs
        <5> QED
          BY <5>2, MsgsNotNull
      <4>4. Committed' = Before(m_data_msg', 0)
        BY <2>1, <2>2, <2>3, <2>5, <3>2, <4>3, CommittedCases DEF CommittedIs
      <4>5. \A s \in Seq(PlainBytes) : SubSeq(s, 1, Len(s) - 0) = s
        OBVIOUS
      <4>6. Before(m_data_msg', 0) = Plain(m_data_msg)
        BY <4>2, <4>5 DEF Before, Plain
      <4> QED
        BY <2>6, <3>2, <4>4, <4>6
    <3> QED
      BY <3>1, <3>2
  <2> QED
    BY <1>6, <1>13, <2>8, Stays
<1> QED
  BY <1>6, <1>9, <1>10, <1>11, <1>12, <1>13

\* In a frame, the message before it, and the message with the whole of it.
LEMMA InFrame ==
    ASSUME HInv, err = "none", m_state \in {"APPLICATION", "READY"},
           NEW f, f = frames[1], NEW m, m = MsgOf(f),
           NEW done, done = f.size - m_bytes_needed,
           NEW w, w = SubSeq(m.payload, 1, Len(m.payload) - done) \o f.payload
    PROVE  /\ ~Stream!Malformed(f)
           /\ is_control(f.op) =>
                 ~InDataFrame /\ Committed = (IF m_data_msg = NoMsg THEN NoMsg ELSE Plain(m_data_msg))
           /\ ~is_control(f.op) =>
                 /\ InDataFrame
                 /\ Committed = IF f.op # "CONTINUATION" THEN NoMsg ELSE Before(m, done)
                 /\ Stream!Extended(f) = [op |-> m.op, payload |-> w]
                 /\ NoSizeWraps =>
                       ~((IF Committed = NoMsg THEN 0 ELSE Len(Committed.payload)) + f.size
                           > MaxMessageSize)
<1>1. Typed /\ PayloadRead
  BY DEF HInv, Live
<1>2. /\ frames # <<>> /\ m_basic_header = <<B0(f), B1(f)>>
      /\ get_payload_size(B1(f), m_extended_header) = f.size
      /\ Regular(f) /\ m_bytes_needed <= f.size
      /\ m_current_msg = (IF is_control(f.op) THEN "control" ELSE "data")
      /\ Holds(m, f, done)
      /\ NoSizeWraps /\ ~is_control(f.op) =>
            Len(m_data_msg.payload) + m_bytes_needed <= MaxMessageSize
  BY <1>1 DEF PayloadRead
<1>3. IsFrame(f) /\ m_bytes_needed \in Nat
  BY <1>1, <1>2, FirstFrame, SizeTNat DEF Typed, TypedProc
<1>4. f.size \in Nat /\ f.op \in Opcodes /\ done \in 0 .. f.size
  <2>1. f.size \in Nat /\ f.op \in Opcodes
    BY <1>3, FrameFacts
  <2> DEFINE s == f.size
             n == m_bytes_needed
  <2>2. s \in Nat /\ n \in Nat /\ n <= s /\ done = s - n
    BY <1>2, <1>3, <2>1
  <2> HIDE DEF s, n
  <2>3. done \in 0 .. s
    BY ONLY <2>2
  <2> QED
    BY <2>1, <2>3 DEF s
<1>5. m_basic_header[1].op = f.op /\ m_basic_header[2] = B1(f)
  BY <1>2 DEF B0
<1>6. CommittedIs
  BY CommittedCases
<1>7. is_control(f.op) =>
         ~InDataFrame /\ Committed = (IF m_data_msg = NoMsg THEN NoMsg ELSE Plain(m_data_msg))
  BY <1>2, <1>6 DEF InDataFrame, CommittedIs
<1>8. /\ m \in Msgs /\ m # NoMsg /\ m.payload \in Seq(PlainBytes) /\ m.op \in Opcodes
      /\ done <= Len(m.payload)
      /\ f.op # "CONTINUATION" => Len(m.payload) = done /\ m.op = f.op
  BY <1>2, MsgsNotNull DEF Holds, Msgs
<1>9. ~is_control(f.op) => m = m_data_msg
  BY DEF MsgOf
<1>10. ~is_control(f.op) =>
         /\ InDataFrame
         /\ Committed = IF f.op # "CONTINUATION" THEN NoMsg ELSE Before(m, done)
  BY <1>2, <1>5, <1>6, <1>8, <1>9 DEF InDataFrame, CommittedIs
<1>11. /\ SubSeq(m.payload, 1, Len(m.payload) - done) \in Seq(PlainBytes)
       /\ Len(SubSeq(m.payload, 1, Len(m.payload) - done)) = Len(m.payload) - done
       /\ f.op # "CONTINUATION" => w = f.payload
  <2>1. /\ SubSeq(m.payload, 1, Len(m.payload) - done) \in Seq(PlainBytes)
        /\ Len(SubSeq(m.payload, 1, Len(m.payload) - done)) = Len(m.payload) - done
    BY <1>2, <1>3, <1>4, HoldsWhole
  <2>2. w = SubSeq(m.payload, 1, Len(m.payload) - done) \o f.payload
    OBVIOUS
  <2>3. f.op # "CONTINUATION" => w = f.payload
    BY ONLY <1>2, <1>3, <1>4, <2>2, WholeText
  <2> QED
    BY <2>1, <2>3
<1>12. Before(m, done) # NoMsg
  BY <1>8, <1>11, PlainIsMsg
<1>13. ~is_control(f.op) => (Committed = NoMsg <=> f.op # "CONTINUATION")
  BY <1>10, <1>12
<1>14. ~Stream!Malformed(f)
  <2>1. /\ f.masked = m_server /\ ~f.rsv /\ f.op \notin ReservedOpcodes
        /\ is_control(f.op) => f.fin /\ f.size <= BasicLimit
        /\ f.enc = BasicSize(f.size)
    BY <1>2 DEF Regular, reserved
  <2>2. BasicLimit \in Nat
    BY RadixAssumption
  <2>3. is_control(f.op) => f.op \notin {"CONTINUATION", "TEXT", "BINARY"}
    BY DEF is_control, ControlOpcodes
  <2>4. is_control(f.op) => f.fin /\ ~(f.size > BasicLimit)
    BY <1>4, <2>1, <2>2
  <2>5. Stream!Malformed(f) <=>
           \/ f.op \in ReservedOpcodes
           \/ f.rsv
           \/ f.masked # m_server
           \/ f.enc # BasicSize(f.size)
           \/ is_control(f.op) /\ (~f.fin \/ f.size > BasicLimit)
           \/ f.op = "CONTINUATION" /\ Committed = NoMsg
           \/ f.op \in {"TEXT", "BINARY"} /\ Committed # NoMsg
    BY MalformedIs
  <2>6. "CONTINUATION" \notin {"TEXT", "BINARY"}
    OBVIOUS
  <2> QED
    BY ONLY <1>13, <2>1, <2>3, <2>4, <2>5, <2>6
<1>15. ~is_control(f.op) => Stream!Extended(f) = [op |-> m.op, payload |-> w]
  <2>1. Stream!Extended(f) =
           IF Committed = NoMsg THEN [op |-> f.op, payload |-> f.payload]
           ELSE [Committed EXCEPT !.payload = Committed.payload \o f.payload]
    BY DEF Stream!Extended
  <2>2. \A o, p, q : [[op |-> o, payload |-> p] EXCEPT !.payload = q] =
                        [op |-> o, payload |-> q]
    OBVIOUS
  <2>3. Before(m, done).payload = SubSeq(m.payload, 1, Len(m.payload) - done)
    BY DEF Before
  <2>4. [Before(m, done) EXCEPT !.payload = Before(m, done).payload \o f.payload] =
           [op |-> m.op, payload |-> w]
    <3> DEFINE a == SubSeq(m.payload, 1, Len(m.payload) - done)
    <3>1. Before(m, done) = [op |-> m.op, payload |-> a]
      BY DEF Before
    <3>2. w = a \o f.payload /\ Before(m, done).payload = a
      BY <2>3
    <3> HIDE DEF a
    <3>3. [[op |-> m.op, payload |-> a] EXCEPT !.payload = w] = [op |-> m.op, payload |-> w]
      BY ONLY <2>2
    <3>4. Before(m, done).payload \o f.payload = w
      BY <3>2
    <3> QED
      BY ONLY <3>1, <3>3, <3>4, Zenon
  <2>5. f.op # "CONTINUATION" =>
           [op |-> f.op, payload |-> f.payload] = [op |-> m.op, payload |-> w]
    BY <1>8, <1>11
  <2> QED
    BY <1>10, <1>13, <2>1, <2>4, <2>5
<1>16. ~is_control(f.op) /\ NoSizeWraps =>
          ~((IF Committed = NoMsg THEN 0 ELSE Len(Committed.payload)) + f.size
               > MaxMessageSize)
  <2> SUFFICES ASSUME ~is_control(f.op), NoSizeWraps
               PROVE  ~((IF Committed = NoMsg THEN 0 ELSE Len(Committed.payload)) + f.size
                           > MaxMessageSize)
    OBVIOUS
  <2> DEFINE before == IF Committed = NoMsg THEN 0 ELSE Len(Committed.payload)
             l == Len(m.payload)
             s == f.size
             n == m_bytes_needed
  <2>1. l + n <= MaxMessageSize /\ l \in Nat /\ s \in Nat /\ n \in Nat /\ done = s - n
        /\ MaxMessageSize \in Nat
    BY <1>2, <1>3, <1>4, <1>8, <1>9, SizeAssumption
  <2>2. before = l - done
    <3>1. Before(m, done).payload = SubSeq(m.payload, 1, Len(m.payload) - done)
      BY DEF Before
    <3>2. CASE f.op = "CONTINUATION"
      BY <1>10, <1>11, <1>13, <3>1, <3>2
    <3>3. CASE f.op # "CONTINUATION"
      <4>1. before = 0 /\ l = done
        BY <1>8, <1>13, <3>3
      <4> HIDE DEF l, s, n, before
      <4> QED
        BY <2>1, <4>1
    <3> QED
      BY <3>2, <3>3
  <2> HIDE DEF before, l, s, n
  <2>3. ~(before + s > MaxMessageSize)
    BY <2>1, <2>2
  <2> QED
    BY <2>3 DEF before, s
<1> QED
  BY <1>7, <1>10, <1>14, <1>15, <1>16

\* ValidText of a message with the operation o and the text w.
LEMMA ValidTextIs ==
    ASSUME NEW f, NEW o, NEW w
    PROVE  Stream!ValidText([op |-> o, payload |-> w], f) <=>
              (o = "TEXT" =>
                 /\ Validate("accept", w) # "reject"
                 /\ f.op = "TEXT" /\ f.fin => Validate("accept", w) = "accept")
  BY StreamOperators DEF Stream!ValidText

LEMMA DispatchStep ==
    ASSUME HInv, NoSizeWraps, Dispatch
    PROVE  Stream!Next
<1> DEFINE f == frames[1]
           m == MsgOf(f)
           done == f.size - m_bytes_needed
           w == SubSeq(m.payload, 1, Len(m.payload) - done) \o f.payload
<1>1. /\ err = "none" /\ err' = "none" /\ m_state = "READY" /\ m_state' = "HEADER_BASIC"
      /\ delivered' = delivered + 1 /\ frames' = Tail(frames) /\ GetMessage
      /\ m_server' = m_server
      /\ last' = [op |-> CurrentMsg.op, payload |-> CurrentMsg.payload]
  BY DEF Dispatch, ResetHeaders
<1>2. Typed /\ Live /\ PayloadRead /\ FrameReady
  BY <1>1 DEF HInv, Live
<1>3. /\ frames # <<>> /\ m_current_msg = (IF is_control(f.op) THEN "control" ELSE "data")
      /\ Holds(m, f, done) /\ m.validator # "reject"
      /\ m_bytes_needed = 0 /\ f.fin /\ (f.op = "TEXT" => m_data_msg.validator = "accept")
  BY <1>2 DEF PayloadRead, FrameReady
<1>4. IsFrame(f) /\ Head(frames) = f
  BY <1>2, <1>3, FirstFrame DEF Typed
<1>5. done = f.size /\ done \in 0 .. f.size
  <2>1. f.size \in Nat
    BY <1>4, FrameFacts
  <2> QED
    BY <1>3, <2>1
<1>6. CurrentMsg = m /\ (~is_control(f.op) => m = m_data_msg)
  BY <1>3 DEF CurrentMsg, MsgOf
<1>7. /\ ~Stream!Malformed(f)
      /\ is_control(f.op) => Committed = (IF m_data_msg = NoMsg THEN NoMsg ELSE Plain(m_data_msg))
      /\ ~is_control(f.op) =>
            /\ Stream!Extended(f) = [op |-> m.op, payload |-> w]
            /\ ~((IF Committed = NoMsg THEN 0 ELSE Len(Committed.payload)) + f.size
                   > MaxMessageSize)
  BY <1>1, InFrame
<1>8. w = SubSeq(m.payload, 1, Len(m.payload) - done) \o f.payload
  OBVIOUS
<1> HIDE DEF f, m, done, w
<1>9. /\ f.op # "CONTINUATION" => w = f.payload /\ m.op = f.op
      /\ w = m.payload
      /\ m.op = "TEXT" => Validate("accept", w) = m.validator
  <2>1. /\ f.op # "CONTINUATION" => w = f.payload
        /\ w = m.payload
        /\ m.op = "TEXT" => Validate("accept", w) = m.validator
    <3>1. done \in 0 .. f.size /\ Holds(m, f, done)
      BY <1>3, <1>5
    <3>2. /\ f.op # "CONTINUATION" => w = f.payload
          /\ done = f.size => w = m.payload
          /\ m.op = "TEXT" => (done = f.size => Validate("accept", w) = m.validator)
      BY ONLY <1>4, <1>8, <3>1, WholeText, ZenonT(60)
    <3> QED
      BY <1>5, <3>2
  <2>2. f.op # "CONTINUATION" => m.op = f.op
    BY <1>3 DEF Holds
  <2> QED
    BY <2>1, <2>2
<1>10. last' = [op |-> m.op, payload |-> w]
  BY <1>1, <1>6, <1>9
<1>11. ~InDataFrame'
  BY <1>1 DEF InDataFrame
<1>12. CASE is_control(f.op)
  <2>1. f.op # "CONTINUATION"
    BY <1>12 DEF is_control, ControlOpcodes
  <2>2. last' = [op |-> f.op, payload |-> f.payload]
    BY <1>9, <1>10, <2>1
  <2>3. m_data_msg' = m_data_msg
    BY <1>1, <1>3, <1>12 DEF GetMessage
  <2>4. Committed' = Committed
    BY <1>1, <1>7, <1>11, <1>12, <2>3, CommittedCases DEF CommittedIs
  <2>5. Stream!TakeControl(f)
    BY <1>1, <1>7, <1>12, <2>2, <2>4, StreamOperators DEF Stream!TakeControl, Stream!Deliver
  <2> QED
    BY <1>1, <1>3, <1>4, <2>5, TakesFrame
<1>13. CASE ~is_control(f.op)
  <2>1. m_data_msg' = NoMsg
    BY <1>1, <1>3, <1>13 DEF GetMessage
  <2>2. Committed' = NoMsg
    BY <2>1, CommittedCases DEF CommittedIs
  <2>3. Stream!ValidText([op |-> m.op, payload |-> w], f)
    BY <1>3, <1>6, <1>9, <1>13, ValidTextIs
  <2>4. Stream!Deliver([op |-> m.op, payload |-> w])
    BY <1>1, <1>10 DEF Stream!Deliver
  <2>5. Stream!TakeData(f)
    BY <1>3, <1>7, <1>13, <2>2, <2>3, <2>4, TakesData
  <2> QED
    BY <1>1, <1>3, <1>4, <2>5, TakesFrame
<1> QED
  BY <1>12, <1>13

LEMMA SamePrefix ==
    \A a, b, k :
       /\ a \in Seq(PlainBytes) /\ b \in Seq(PlainBytes) /\ k \in 0 .. Len(a) /\ k <= Len(b)
       /\ \A i \in 1 .. Len(a) : b[i] = a[i]
       => SubSeq(b, 1, k) = SubSeq(a, 1, k)
<1> TAKE a, b, k
<1> HAVE /\ a \in Seq(PlainBytes) /\ b \in Seq(PlainBytes) /\ k \in 0 .. Len(a) /\ k <= Len(b)
         /\ \A i \in 1 .. Len(a) : b[i] = a[i]
<1>1. Len(a) \in Nat /\ k \in Nat /\ \A i \in 1 .. k : i \in 1 .. Len(a)
  OBVIOUS
<1>2. /\ Len(SubSeq(a, 1, k)) = k /\ SubSeq(a, 1, k) \in Seq(PlainBytes)
      /\ \A i \in 1 .. k : SubSeq(a, 1, k)[i] = a[i]
  OBVIOUS
<1>3. /\ Len(SubSeq(b, 1, k)) = k /\ SubSeq(b, 1, k) \in Seq(PlainBytes)
      /\ \A i \in 1 .. k : SubSeq(b, 1, k)[i] = b[i]
  OBVIOUS
<1> DEFINE x == SubSeq(a, 1, k)
           y == SubSeq(b, 1, k)
<1>4. /\ Len(x) = k /\ x \in Seq(PlainBytes) /\ Len(y) = k /\ y \in Seq(PlainBytes)
      /\ \A i \in 1 .. k : y[i] = x[i]
  BY <1>1, <1>2, <1>3
<1> HIDE DEF x, y
<1>5. y = x
  BY ONLY <1>4, SeqEqual
<1> QED
  BY <1>5 DEF x, y

\* A part of a payload leaves the message before the frame as it was.
LEMMA PayloadSame ==
    ASSUME HInv, ConsumePayload, NEW c, c = Chunk, NEW p, p = ProcessPayload(CurrentMsg, c),
           SetCurrentMsg(p), UNCHANGED <<m_basic_header, m_extended_header, m_current_msg>>,
           err' = err, m_state' \in {"APPLICATION", "READY"},
           m_bytes_needed' = m_bytes_needed - c
    PROVE  Committed' = Committed
<1> DEFINE f == frames[1]
           m == MsgOf(f)
           n == m_bytes_needed
           done == f.size - n
           d == f.size - n + c
<1>1. Typed /\ PayloadRead /\ err = "none" /\ m_state = "APPLICATION"
  BY DEF HInv, Live, ConsumePayload, Consuming
<1>2. /\ c \in 0 .. n /\ n \in 0 .. f.size /\ f.size \in Nat /\ d = f.size - (n - c)
      /\ d \in 0 .. f.size
      /\ Holds(p, f, d) /\ p.op = m.op
      /\ Len(p.payload) = Len(m.payload) + c
      /\ \A i \in 1 .. Len(m.payload) : p.payload[i] = m.payload[i]
  BY <1>1, PayloadBytes, SMTT(60)
<1>3. /\ m_basic_header = <<B0(f), B1(f)>>
      /\ get_payload_size(B1(f), m_extended_header) = f.size
      /\ m_current_msg = (IF is_control(f.op) THEN "control" ELSE "data")
      /\ Holds(m, f, done)
      /\ m = IF is_control(f.op) THEN m_control_msg ELSE m_data_msg
  BY <1>1 DEF PayloadRead, MsgOf
<1>4. m_basic_header[1].op = f.op /\ m_basic_header[2] = B1(f)
  BY <1>3 DEF B0
<1>5. /\ m.payload \in Seq(PlainBytes) /\ p.payload \in Seq(PlainBytes)
      /\ done <= Len(m.payload) /\ p # NoMsg /\ m # NoMsg
  BY <1>2, <1>3, MsgsNotNull DEF Holds, Msgs
<1>6. CASE is_control(f.op)
  <2>1. ~InDataFrame /\ ~InDataFrame' /\ m_data_msg' = m_data_msg
    BY <1>3, <1>6 DEF InDataFrame, SetCurrentMsg
  <2> QED
    BY <2>1, MessageKept
<1>7. CASE ~is_control(f.op)
  <2>1. InDataFrame /\ InDataFrame' /\ m_data_msg' = p /\ m_data_msg = m /\ err' = "none"
    BY <1>1, <1>3, <1>7 DEF InDataFrame, SetCurrentMsg
  <2>2. Committed = IF f.op # "CONTINUATION" THEN NoMsg ELSE Before(m, done)
    BY <1>1, <1>3, <1>4, <1>5, <2>1, CommittedCases DEF CommittedIs
  <2>3. /\ m_basic_header'[1].op = f.op
        /\ get_payload_size(m_basic_header'[2], m_extended_header') - m_bytes_needed' = d
    BY <1>2, <1>3, <1>4
  <2>4. Committed' = IF f.op # "CONTINUATION" THEN NoMsg ELSE Before(p, d)
    BY <1>5, <2>1, <2>3, CommittedCases DEF CommittedIs
  <2>5. Before(p, d) = Before(m, done)
    <3> DEFINE a == m.payload
               b == p.payload
               k == Len(a) - done
               s == f.size
    <3>1. /\ Len(a) \in Nat /\ Len(b) = Len(a) + c /\ done <= Len(a) /\ s \in Nat
          /\ n \in 0 .. s /\ c \in 0 .. n /\ d = s - n + c /\ done = s - n
      BY <1>2, <1>5
    <3>2. a \in Seq(PlainBytes) /\ b \in Seq(PlainBytes)
          /\ \A i \in 1 .. Len(a) : b[i] = a[i]
      BY <1>2, <1>5
    <3> HIDE DEF a, b, s, n, d, done
    <3>3. k \in 0 .. Len(a) /\ k <= Len(b) /\ Len(b) - d = k
      BY ONLY <3>1
    <3> HIDE DEF k
    <3>4. SubSeq(b, 1, k) = SubSeq(a, 1, k)
      BY ONLY <3>2, <3>3, SamePrefix
    <3>5. SubSeq(b, 1, Len(b) - d) = SubSeq(a, 1, Len(a) - done)
      BY <3>3, <3>4 DEF k
    <3> QED
      BY <1>2, <3>5 DEF Before, a, b
  <2> QED
    BY <2>2, <2>4, <2>5
<1> QED
  BY <1>6, <1>7

LEMMA PayloadStep ==
    ASSUME HInv, NoSizeWraps, ConsumePayload
    PROVE  Stream!Next \/ UNCHANGED Stream!svars
<1> DEFINE c == Chunk
           f == frames[1]
           n == m_bytes_needed
           p == ProcessPayload(CurrentMsg, c)
           d == f.size - n + c
           m == MsgOf(f)
           done == f.size - n
           w == SubSeq(m.payload, 1, Len(m.payload) - done) \o f.payload
           whole == [op |-> m.op, payload |-> w]
           before == IF Committed = NoMsg THEN 0 ELSE Len(Committed.payload)
<1>1. /\ err = "none" /\ m_state = "APPLICATION"
      /\ SetCurrentMsg(p)
      /\ UNCHANGED <<m_server, m_current_msg, reading, sentVars, outVars>>
      /\ \/ /\ p.validator = "reject"
            /\ UNCHANGED <<bufVars, procVars>>
            /\ Fail("invalid_utf8")
         \/ /\ p.validator # "reject"
            /\ TakeBytes(c)
            /\ \/ /\ n > c
                  /\ m_bytes_needed' = n - c
                  /\ UNCHANGED <<m_state, m_basic_header, m_extended_header, err, frames>>
               \/ /\ ~(n > c) /\ ~m_basic_header[1].fin
                  /\ ResetHeaders
                  /\ frames' = Tail(frames) /\ UNCHANGED err
               \/ /\ ~(n > c) /\ m_basic_header[1].fin /\ Finalizable(p)
                  /\ m_bytes_needed' = 0
                  /\ UNCHANGED <<m_basic_header, m_extended_header>>
                  /\ m_state' = "READY" /\ UNCHANGED <<err, frames>>
               \/ /\ ~(n > c) /\ m_basic_header[1].fin /\ ~Finalizable(p)
                  /\ m_bytes_needed' = 0
                  /\ UNCHANGED <<m_basic_header, m_extended_header, m_state>>
                  /\ Fail("invalid_utf8")
  BY PayloadCases
<1>2. Typed /\ PayloadRead
  BY <1>1 DEF HInv, Live
<1>3. /\ c \in 0 .. n /\ n \in 0 .. f.size
      /\ IsFrame(f) /\ f.size \in Nat
      /\ d \in 0 .. f.size /\ (c = n => d = f.size)
      /\ d = f.size - (n - c)
      /\ Holds(p, f, d) /\ p.op = m.op
      /\ Len(p.payload) = Len(m.payload) + c
      /\ \A i \in 1 .. Len(m.payload) : p.payload[i] = m.payload[i]
  BY <1>2, PayloadBytes
<1>4. /\ frames # <<>> /\ m_basic_header = <<B0(f), B1(f)>>
      /\ m_current_msg = (IF is_control(f.op) THEN "control" ELSE "data")
      /\ Holds(m, f, done) /\ Head(frames) = f
  BY <1>2, FirstFrame DEF PayloadRead, Typed
<1>5. m_basic_header[1].op = f.op /\ m_basic_header[1].fin = f.fin
  BY <1>4 DEF B0
<1>6. /\ ~Stream!Malformed(f)
      /\ ~is_control(f.op) =>
            Stream!Extended(f) = whole /\ ~(before + f.size > MaxMessageSize)
  BY <1>1, InFrame
<1> HIDE DEF c, p, before
<1>7. ~(n > c) => c = n /\ d = f.size /\ n - c = 0
  <2>1. n \in Nat
    BY <1>3
  <2>2. ~(n > c) => c = n /\ n - c = 0
    BY <1>3, <2>1
  <2> QED
    BY <1>3, <2>2
<1>8. /\ m.payload \in Seq(PlainBytes) /\ p.payload \in Seq(PlainBytes)
      /\ done <= Len(m.payload) /\ p \in Msgs /\ p # NoMsg
      /\ p.op # "TEXT" => p.validator = "accept"
      /\ f.op # "CONTINUATION" => p.op = f.op
  BY <1>3, <1>4, MsgsNotNull DEF Holds, Msgs
<1>9. w = SubSeq(p.payload, 1, Len(p.payload) - d) \o f.payload
  <2> DEFINE a == m.payload
             b == p.payload
             k == Len(a) - done
             s == f.size
  <2>1. /\ Len(a) \in Nat /\ Len(b) = Len(a) + c /\ done <= Len(a) /\ s \in Nat
        /\ n \in 0 .. s /\ c \in 0 .. n /\ d = s - n + c /\ done = s - n
    BY <1>3, <1>8
  <2>2. a \in Seq(PlainBytes) /\ b \in Seq(PlainBytes)
        /\ \A i \in 1 .. Len(a) : b[i] = a[i]
    BY <1>3, <1>8
  <2>3. w = SubSeq(a, 1, k) \o f.payload
    OBVIOUS
  <2> HIDE DEF a, b, s, n, d, done
  <2>4. k \in 0 .. Len(a) /\ k <= Len(b) /\ Len(b) - d = k
    BY ONLY <2>1
  <2> HIDE DEF k, w
  <2>5. SubSeq(b, 1, k) = SubSeq(a, 1, k)
    BY ONLY <2>2, <2>4, SamePrefix
  <2>6. w = SubSeq(b, 1, Len(b) - d) \o f.payload
    BY ONLY <2>3, <2>4, <2>5
  <2> QED
    BY <2>6 DEF b
<1> HIDE DEF w, d, done, f, m, n
<1>10. /\ d = f.size => w = p.payload
       /\ p.op = "TEXT" =>
             /\ p.validator = "reject" => Validate("accept", w) = "reject"
             /\ d = f.size => Validate("accept", w) = p.validator
  <2>1. IsFrame(f) /\ d \in 0 .. f.size /\ Holds(p, f, d)
    BY <1>3
  <2>2. (/\ IsFrame(f) /\ d \in 0 .. f.size /\ Holds(p, f, d)
         /\ w = SubSeq(p.payload, 1, Len(p.payload) - d) \o f.payload)
        => /\ w \in Seq(PlainBytes)
           /\ f.op # "CONTINUATION" => w = f.payload
           /\ d = f.size => w = p.payload
           /\ p.op = "TEXT" =>
                /\ p.validator = "reject" => Validate("accept", w) = "reject"
                /\ d = f.size => Validate("accept", w) = p.validator
    BY ONLY WholeText, Zenon
  <2> QED
    BY ONLY <1>9, <2>1, <2>2, Zenon
<1>11. Stream!ValidText(whole, f) <=>
          (p.op = "TEXT" =>
              /\ Validate("accept", w) # "reject"
              /\ f.op = "TEXT" /\ f.fin => Validate("accept", w) = "accept")
  BY <1>3, ValidTextIs
<1> HIDE DEF whole
<1>12. is_control(f.op) => f.fin /\ f.op \notin {"CONTINUATION", "TEXT"}
  <2>1. is_control(f.op) => f.op \notin {"CONTINUATION", "TEXT"}
    BY DEF is_control, ControlOpcodes
  <2> QED
    BY <1>6, <2>1, MalformedIs
<1>13. CASE p.validator = "reject" /\ Fail("invalid_utf8")
  <2>1. p.op = "TEXT" /\ ~is_control(f.op)
    BY <1>8, <1>12, <1>13
  <2>2. ~Stream!ValidText(whole, f)
    BY <1>10, <1>11, <1>13, <2>1
  <2>3. Stream!Stop("invalid_utf8") /\ frames' = Tail(frames)
    BY <1>1, <1>13, Stops DEF Fail
  <2>4. Stream!TakeData(f)
    BY <1>6, <2>1, <2>2, <2>3, TakesData DEF before
  <2> QED
    BY <1>1, <1>4, <2>3, <2>4, TakesFrame
<1>14. CASE /\ UNCHANGED <<m_basic_header, m_extended_header, err, frames>>
            /\ m_state' \in {"APPLICATION", "READY"} /\ m_bytes_needed' = n - c
  <2>1. Committed' = Committed
    BY <1>1, <1>14, PayloadSame DEF c, p, n
  <2> QED
    BY <1>1, <1>14, <2>1, Stays
<1>15. CASE /\ p.validator # "reject" /\ ~(n > c) /\ ~m_basic_header[1].fin
            /\ ResetHeaders
            /\ frames' = Tail(frames) /\ UNCHANGED err
  <2>1. ~f.fin /\ ~is_control(f.op) /\ err' = err
    BY <1>5, <1>12, <1>15
  <2>2. m_data_msg' = p /\ ~InDataFrame' /\ err' = "none"
    BY <1>1, <1>4, <1>15, <2>1 DEF SetCurrentMsg, InDataFrame, ResetHeaders
  <2>3. Committed' = Plain(p)
    BY <1>8, <2>2, CommittedCases DEF CommittedIs
  <2>4. Committed' = whole
    BY <1>3, <1>7, <1>10, <1>15, <2>3 DEF Plain, whole
  <2>5. Stream!ValidText(whole, f)
    BY <1>7, <1>10, <1>11, <1>15, <2>1
  <2>6. UNCHANGED outVars
    BY <1>1
  <2>7. Stream!TakeData(f)
    BY <1>6, <2>1, <2>4, <2>5, <2>6, TakesData DEF before
  <2> QED
    BY <1>1, <1>4, <1>15, <2>7, TakesFrame
<1>16. CASE /\ p.validator # "reject" /\ ~(n > c) /\ m_basic_header[1].fin /\ ~Finalizable(p)
            /\ Fail("invalid_utf8")
  <2>1. f.fin /\ f.op = "TEXT" /\ p.validator # "accept"
    BY <1>5, <1>16 DEF Finalizable
  <2>2. p.op = "TEXT" /\ ~is_control(f.op)
    BY <1>8, <1>12, <2>1
  <2>3. ~Stream!ValidText(whole, f)
    BY <1>7, <1>10, <1>11, <1>16, <2>1, <2>2
  <2>4. Stream!Stop("invalid_utf8") /\ frames' = Tail(frames)
    BY <1>1, <1>16, Stops DEF Fail
  <2>5. Stream!TakeData(f)
    BY <1>6, <2>2, <2>3, <2>4, TakesData DEF before
  <2> QED
    BY <1>1, <1>4, <2>4, <2>5, TakesFrame
<1> QED
  BY <1>1, <1>7, <1>13, <1>14, <1>15, <1>16

LEMMA StreamInit == Init => Stream!Init
<1> SUFFICES ASSUME Init PROVE Stream!Init
  OBVIOUS
<1>1. m_data_msg = NoMsg /\ m_server \in BOOLEAN
  BY SizeAssumption DEF Init
<1>2. Committed = NoMsg
  BY <1>1, CommittedCases DEF CommittedIs
<1> QED
  BY <1>1, <1>2 DEF Init, Stream!Init

LEMMA StreamNext == HInv /\ NoSizeWraps /\ [Next]_vars => [Stream!Next]_(Stream!svars)
<1> SUFFICES ASSUME HInv, NoSizeWraps, [Next]_vars
             PROVE  Stream!Next \/ UNCHANGED Stream!svars
  OBVIOUS
<1>1. CASE Next
  <2>1. ASSUME NEW f \in Frames(m_server), Arrive(f) PROVE Stream!Next
    BY <2>1, ArriveStep
  <2>2. ASSUME ReadMore \/ \E n \in 1 .. BufferSize : Read(n) PROVE UNCHANGED Stream!svars
    BY <2>2, ReadStep
  <2> QED
    BY <1>1, <2>1, <2>2, BasicStep, ExtendedStep, PayloadStep, DispatchStep DEF Next
<1>2. CASE UNCHANGED vars
  <2>1. UNCHANGED <<m_server, procVars, msgVars, frames, outVars, err>>
    BY <1>2 DEF vars
  <2>2. Committed' = Committed
    BY <2>1 DEF Committed, procVars, msgVars
  <2> QED
    BY <2>1, <2>2, Stays
<1> QED
  BY <1>1, <1>2

\* The parser implements MessageStream, for frames of any sizes, opcodes and
\* keys, a payload limit and a maximum message size of any value, and reads cut
\* anywhere: if the size of a fragment added to a message within the limit is a
\* size_t, a frame is taken when its last byte is consumed, or refused as soon
\* as its header or its text breaks a rule, and delivers, extends or stops
\* exactly what MessageStream does with the whole frame.
THEOREM ParsesFramesAlways == ASSUME NoSizeWraps PROVE Spec => ParsesFrames
<1>1. Init => Stream!Init
  BY StreamInit
<1>2. HInv /\ [Next]_vars => [Stream!Next]_(Stream!svars)
  BY StreamNext
<1>3. Spec => []HInv
  BY ParserInvariant
<1> QED
  BY <1>1, <1>2, <1>3, PTL DEF Spec, ParsesFrames, Stream!Spec

=============================================================================
