-------------------------------- MODULE Frame --------------------------------
(***************************************************************************)
(* frame.hpp: the header of a WebSocket frame, its masking key, and the    *)
(* streaming UTF-8 validator of utf8_validator.hpp.                        *)
(*                                                                         *)
(* The two basic header bytes are records of their bit fields.  The bytes  *)
(* of an extended payload size are digits in base Radix; with Radix = 256  *)
(* and BasicLimit = 125 these are the code's numbers, and with smaller     *)
(* values the code's structure (a size in the header, in two bytes or in   *)
(* eight) fits frames that TLC can enumerate.  size_t holds what eight     *)
(* bytes hold.                                                             *)
(*                                                                         *)
(* A masked payload byte is the pair of the plain byte and the key byte it *)
(* was combined with; unmasking it with another key byte gives garbage.    *)
(***************************************************************************)
EXTENDS Integers, SequencesExt

CONSTANTS
    Radix,       \* number of values of a byte that holds part of a size
    BasicLimit   \* limits::payload_size_basic

ASSUME RadixAssumption ==
    /\ Radix \in Nat /\ Radix > 1
    /\ BasicLimit \in Nat /\ BasicLimit < Radix * Radix

-----------------------------------------------------------------------------
(***************************************************************************)
(* Opcodes.                                                                *)
(***************************************************************************)
ControlOpcodes == {"CLOSE", "PING", "PONG"}
ReservedOpcodes == {"RSV3", "CONTROL_RSVB"}
Opcodes == {"CONTINUATION", "TEXT", "BINARY"} \cup ControlOpcodes \cup ReservedOpcodes

is_control(op) == op \in ControlOpcodes \cup {"CONTROL_RSVB"}
reserved(op) == op \in ReservedOpcodes

-----------------------------------------------------------------------------
(***************************************************************************)
(* Payload sizes.                                                          *)
(***************************************************************************)
payload_size_code_16bit == BasicLimit + 1
payload_size_code_64bit == BasicLimit + 2

payload_size_extended == Radix * Radix - 1

\* The n digits of size, most significant first, as _htonll puts them.
Digits(size, n) ==
    LET rest[k \in 0 .. n] == IF k = 0 THEN size ELSE rest[k - 1] \div Radix
    IN [i \in 1 .. n |-> rest[n - i] % Radix]

\* The number that a sequence of digits stands for.
Number(digits) ==
    LET first[k \in 0 .. Len(digits)] ==
            IF k = 0 THEN 0 ELSE first[k - 1] * Radix + digits[k]
    IN  first[Len(digits)]

\* The size field that the constructor of basic_header writes.
BasicSize(size) ==
    IF size <= BasicLimit THEN size
    ELSE IF size <= payload_size_extended THEN payload_size_code_16bit
    ELSE payload_size_code_64bit

get_masking_key_offset(basic_size) ==
    IF basic_size = payload_size_code_16bit THEN 2
    ELSE IF basic_size = payload_size_code_64bit THEN 8
    ELSE 0

\* get_header_len(h) - BASIC_HEADER_LENGTH
ExtendedLength(b1) ==
    get_masking_key_offset(b1.size) + (IF b1.masked THEN 4 ELSE 0)

get_payload_size(b1, ext) ==
    IF b1.size <= BasicLimit THEN b1.size
    ELSE IF b1.size = payload_size_code_16bit THEN Number(SubSeq(ext, 1, 2))
    ELSE Number(SubSeq(ext, 1, 8))

-----------------------------------------------------------------------------
(***************************************************************************)
(* Masking.  A key is four bytes; no key is <<>>.                          *)
(***************************************************************************)
get_masking_key(b1, ext) ==
    IF b1.masked
    THEN LET offset == get_masking_key_offset(b1.size)
         IN SubSeq(ext, offset + 1, offset + 4)
    ELSE <<>>

\* Mutant: the key is not rotated after a part of a payload.
circshift_prepared_key_None(key, offset) == key

\* The key rotated so that byte offset comes first.
circshift_prepared_key(key, offset) ==
    SubSeq(key, offset + 1, Len(key)) \o SubSeq(key, 1, offset)

Masked(plain, key) ==
    [i \in DOMAIN plain |-> <<plain[i], key[((i - 1) % 4) + 1]>>]

\* The output of byte_mask_circ for masked input.
byte_mask_circ(bytes, key) ==
    [i \in DOMAIN bytes |->
        IF bytes[i][2] = key[((i - 1) % 4) + 1] THEN bytes[i][1] ELSE "garbage"]

-----------------------------------------------------------------------------
(***************************************************************************)
(* UTF-8.  Plain bytes are "a", a character of its own, "h", the first     *)
(* byte of a two byte character, and "t", the second one.                  *)
(***************************************************************************)

PlainBytes == {"a", "h", "t"}

decode(state, byte) ==
    CASE state = "accept" /\ byte = "a" -> "accept"
      [] state = "accept" /\ byte = "h" -> "partial"
      [] state = "partial" /\ byte = "t" -> "accept"
      [] OTHER -> "reject"

\* The validator's state after it has read bytes.
Validate(state, bytes) ==
    LET after[k \in 0 .. Len(bytes)] ==
            IF k = 0 THEN state ELSE decode(after[k - 1], bytes[k])
    IN  after[Len(bytes)]

==============================================================================
