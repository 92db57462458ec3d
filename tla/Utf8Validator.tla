---------------------------- MODULE Utf8Validator ----------------------------
(***************************************************************************)
(* utf8_validator.hpp: the table driven validator that text messages and   *)
(* close reasons pass through, byte by byte and across frames, against the *)
(* definition of UTF-8 by the code points that it encodes.                 *)
(***************************************************************************)
EXTENDS Integers, Sequences

CONSTANT Octets  \* the bytes that are fed to the validator

BytesAssumption == Octets \subseteq 0 .. 255

VARIABLES
    m_state,      \* state of the validator
    m_codepoint,  \* the code point it is decoding
    pending,      \* history: the bytes of the character that is not complete
    bad,          \* history: the input is not a prefix of UTF-8
    value         \* history: the code point of a character that just ended

vars == <<m_state, m_codepoint, pending, bad, value>>

utf8_accept == 0
utf8_reject == 1

-----------------------------------------------------------------------------
(***************************************************************************)
(* The table utf8d.                                                        *)
(***************************************************************************)

\* Mutant: 0xed, the first byte of a surrogate, is like its neighbours.
Type_Surrogates(byte) ==
    CASE byte \in 0 .. 127 -> 0
      [] byte \in 128 .. 143 -> 1
      [] byte \in 144 .. 159 -> 9
      [] byte \in 160 .. 191 -> 7
      [] byte \in {192, 193} \cup 245 .. 255 -> 8
      [] byte \in 194 .. 223 -> 2
      [] byte = 224 -> 10
      [] byte \in 225 .. 239 -> 3
      [] byte = 240 -> 11
      [] byte \in 241 .. 243 -> 6
      [] byte = 244 -> 5

\* The first 256 entries: the type of a byte.
Type(byte) ==
    CASE byte \in 0 .. 127 -> 0
      [] byte \in 128 .. 143 -> 1
      [] byte \in 144 .. 159 -> 9
      [] byte \in 160 .. 191 -> 7
      [] byte \in {192, 193} \cup 245 .. 255 -> 8
      [] byte \in 194 .. 223 -> 2
      [] byte = 224 -> 10
      [] byte = 237 -> 4
      [] byte \in 225 .. 239 \ {237} -> 3
      [] byte = 240 -> 11
      [] byte \in 241 .. 243 -> 6
      [] byte = 244 -> 5

\* The other entries: where a state goes with a byte of a type.  Every pair
\* that is not here goes to utf8_reject.
Transition(state, type) ==
    CASE state = 0 /\ type = 0 -> 0
      [] state = 0 /\ type = 2 -> 2
      [] state = 0 /\ type = 3 -> 3
      [] state = 0 /\ type = 4 -> 5
      [] state = 0 /\ type = 5 -> 8
      [] state = 0 /\ type = 6 -> 7
      [] state = 0 /\ type = 10 -> 4
      [] state = 0 /\ type = 11 -> 6
      [] state = 2 /\ type \in {1, 7, 9} -> 0
      [] state = 3 /\ type \in {1, 7, 9} -> 2
      [] state = 4 /\ type = 7 -> 2
      [] state = 5 /\ type \in {1, 9} -> 2
      [] state = 6 /\ type \in {7, 9} -> 3
      [] state = 7 /\ type \in {1, 7, 9} -> 3
      [] state = 8 /\ type = 1 -> 3
      [] OTHER -> utf8_reject

\* (0xff >> type) & byte
FirstBits(byte) ==
    byte % (CASE Type(byte) = 0 -> 256
              [] Type(byte) = 1 -> 128
              [] Type(byte) = 2 -> 64
              [] Type(byte) = 3 -> 32
              [] Type(byte) = 4 -> 16
              [] Type(byte) = 5 -> 8
              [] Type(byte) = 6 -> 4
              [] Type(byte) = 7 -> 2
              [] OTHER -> 1)

\* The code point after a byte.
Codepoint(byte) ==
    IF m_state # utf8_accept THEN m_codepoint * 64 + (byte % 64)
    ELSE FirstBits(byte)

-----------------------------------------------------------------------------
(***************************************************************************)
(* UTF-8 by its definition: characters of one to four bytes, the shortest  *)
(* that hold the code point, no surrogates, and nothing above 0x10ffff.    *)
(***************************************************************************)
Length(lead) ==
    CASE lead < 128 -> 1
      [] lead \in 192 .. 223 -> 2
      [] lead \in 224 .. 239 -> 3
      [] lead \in 240 .. 247 -> 4
      [] OTHER -> 0

LeadBits(lead) == lead % (CASE Length(lead) = 1 -> 128
                            [] Length(lead) = 2 -> 32
                            [] Length(lead) = 3 -> 16
                            [] OTHER -> 8)

\* The code points of n bytes, as ranges.
Ranges(n) ==
    CASE n = 1 -> {<<0, 127>>}
      [] n = 2 -> {<<128, 2047>>}
      [] n = 3 -> {<<2048, 55295>>, <<57344, 65535>>}
      [] n = 4 -> {<<65536, 1114111>>}
      [] OTHER -> {}

\* What the bits of a beginning of a character amount to.
Bits(bytes) ==
    LET first[n \in 1 .. Len(bytes)] ==
            IF n = 1 THEN LeadBits(bytes[1])
            ELSE first[n - 1] * 64 + (bytes[n] % 64)
    IN  first[Len(bytes)]

\* How many code points n more bytes tell apart.
Choices(n) ==
    CASE n = 0 -> 1
      [] n = 1 -> 64
      [] n = 2 -> 4096
      [] n = 3 -> 262144

\* Some code point is encoded by bytes and what may follow them.
Viable(bytes) ==
    LET n == Length(bytes[1])
        rest == Choices(n - Len(bytes))
    IN /\ Len(bytes) <= n
       /\ \A i \in 2 .. Len(bytes) : bytes[i] \in 128 .. 191
       /\ \E r \in Ranges(n) :
             /\ Bits(bytes) * rest <= r[2]
             /\ Bits(bytes) * rest + rest - 1 >= r[1]

-----------------------------------------------------------------------------
Init ==
    /\ m_state = utf8_accept
    /\ m_codepoint = 0
    /\ pending = <<>>
    /\ bad = FALSE
    /\ value = 0

\* decode() of one byte; after an error the validator is not used again until
\* it is reset.
Decode(byte) ==
    /\ m_state # utf8_reject
    /\ m_codepoint' = Codepoint(byte)
    /\ m_state' = Transition(m_state, Type(byte))
    /\ LET bytes == Append(pending, byte)
       IN /\ bad' = ~Viable(bytes)
          /\ IF Viable(bytes) /\ Len(bytes) = Length(bytes[1])
             THEN pending' = <<>> /\ value' = Bits(bytes)
             ELSE pending' = bytes /\ value' = 0

\* reset(), for the next message.
Reset ==
    /\ m_state' = utf8_accept
    /\ m_codepoint' = 0
    /\ pending' = <<>>
    /\ bad' = FALSE
    /\ value' = 0

Next == Reset \/ \E byte \in Octets : Decode(byte)

Spec == Init /\ [][Next]_vars

-----------------------------------------------------------------------------
\* consume() and decode() report an error at the very byte after which no input
\* can be UTF-8, neither later nor earlier; complete() is true exactly between
\* characters, and m_codepoint is then the code point of the last one.
Agrees ==
    /\ m_state = utf8_reject <=> bad
    /\ m_state = utf8_accept <=> ~bad /\ pending = <<>>
    /\ m_state = utf8_accept => m_codepoint = value

=============================================================================
