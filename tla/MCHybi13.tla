------------------------------ MODULE MCHybi13 ------------------------------
(***************************************************************************)
(* Hybi13 with base 2 digits and payload_size_basic = 2: payloads of up to *)
(* two bytes have their size in the basic header, of three bytes in two    *)
(* extended bytes, and from four bytes on in eight.                        *)
(***************************************************************************)
EXTENDS Hybi13

CONSTANT CutOnly  \* only the frames of CutText below are sent

K1 == <<"k1", "k2", "k3", "k4">>
K2 == <<"l1", "l2", "l3", "l4">>

A(n) == [i \in 1 .. n |-> "a"]

\* Data messages whole and in fragments, with each encoding of the size and
\* text that is cut inside a character, and control frames between them.
WellFormed(F(_, _, _, _)) ==
    {F("TEXT", <<"a", "h", "t">>, TRUE, K1), F("TEXT", <<"h">>, FALSE, K1),
     F("TEXT", <<>>, TRUE, K1), F("BINARY", A(6), FALSE, K1),
     F("CONTINUATION", <<"t">>, TRUE, K2), F("CONTINUATION", <<"t", "a">>, FALSE, K2),
     F("PING", A(1), TRUE, K2), F("CLOSE", <<>>, TRUE, K1)}

\* Frames that are malformed in themselves, and text that is not UTF-8.
IllFormed(F(_, _, _, _)) ==
    {[F("PING", A(1), TRUE, K1) EXCEPT !.fin = FALSE],
     F("PING", A(3), TRUE, K1),
     [F("TEXT", A(1), TRUE, K1) EXCEPT !.op = "RSV3"],
     [F("TEXT", A(1), TRUE, K1) EXCEPT !.rsv = TRUE],
     [F("BINARY", A(2), TRUE, K1) EXCEPT !.enc = payload_size_code_16bit],
     [F("BINARY", A(3), TRUE, K1) EXCEPT !.enc = payload_size_code_64bit],
     F("TEXT", <<"a", "t", "a">>, TRUE, K1), F("TEXT", <<"h">>, TRUE, K1),
     F("BINARY", A(9), TRUE, K1)}

\* A fragmented text message whose last fragment ends inside a character.
CutText(F(_, _, _, _)) ==
    {F("TEXT", <<"a">>, FALSE, K1), F("CONTINUATION", <<"h">>, TRUE, K2)}

\* What the other end of a server or of a client sends, and a frame that is
\* masked when it should not be or the reverse.
MCFrames(server) ==
    LET F(op, payload, fin, key) == Prepared(~server, op, payload, fin, key)
    IN IF CutOnly THEN CutText(F)
       ELSE WellFormed(F) \cup IllFormed(F)
            \cup {Prepared(server, "TEXT", A(1), TRUE, K1)}

=============================================================================
