------------------------------- MODULE Base64 -------------------------------
(***************************************************************************)
(* base64/base64.hpp.  A character of the alphabet is its position in      *)
(* base64_chars, 0 to 63; any other character is greater.                  *)
(***************************************************************************)
EXTENDS Integers, Sequences, SequencesExt, FiniteSetsExt

Padding == 64   \* '='
Npos == 255     \* what base64_chars.find gives for a character it has not

\* The four characters for three bytes.
char_array_4(b) ==
    << b[1] \div 4, (b[1] % 4) * 16 + b[2] \div 16,
       (b[2] % 16) * 4 + b[3] \div 64, b[3] % 64 >>

\* The three bytes for four characters; a byte has eight bits.
char_array_3(c) ==
    << (c[1] * 4 + (c[2] % 64) \div 16) % 256,
       ((c[2] % 16) * 16 + (c[3] % 64) \div 4) % 256,
       ((c[3] % 4) * 64 + c[4]) % 256 >>

\* The n-th group of `size` elements, filled up; how many it has of its own.
Group(s, size, n, fill) ==
    [i \in 1 .. size |->
       IF (n - 1) * size + i <= Len(s) THEN s[(n - 1) * size + i] ELSE fill]
Groups(s, size) == (Len(s) + size - 1) \div size
Own(s, size, n) == LET left == Len(s) - (n - 1) * size
                   IN  IF left < size THEN left ELSE size

base64_encode(input) ==
    FlattenSeq([n \in 1 .. Groups(input, 3) |->
       LET chars == char_array_4(Group(input, 3, n, 0))
       IN  [i \in 1 .. 4 |-> IF i <= Own(input, 3, n) + 1 THEN chars[i] ELSE Padding]])

\* Decoding ends at the first character that is not of the alphabet.  A group
\* that is not full is filled with zero bytes, for which find gives npos.
base64_decode(input) ==
    LET stop == {i \in DOMAIN input : input[i] >= Padding}
        s == IF stop = {} THEN input ELSE SubSeq(input, 1, Min(stop) - 1)
    IN  FlattenSeq([n \in 1 .. Groups(s, 4) |->
           SubSeq(char_array_3(Group(s, 4, n, Npos)), 1, Own(s, 4, n) - 1)])

-----------------------------------------------------------------------------
(***************************************************************************)
(* Properties.                                                             *)
(***************************************************************************)

\* Bytes of any number are those that decoding their encoding gives, also
\* where the decoder computes with the 255 that a missing character becomes;
\* the text has four characters for each three bytes begun, and text behind
\* the padding is ignored.
Base64ReadsBack(bytes, more) ==
    /\ base64_decode(base64_encode(bytes)) = bytes
    /\ Len(base64_encode(bytes)) = 4 * ((Len(bytes) + 2) \div 3)
    /\ Len(bytes) % 3 # 0 => base64_decode(base64_encode(bytes) \o more) = bytes

=============================================================================
