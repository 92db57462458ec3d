-------------------------- MODULE PermessageDeflate --------------------------
(***************************************************************************)
(* extensions/permessage_deflate/enabled.hpp: the settings of one          *)
(* permessage-deflate extension and what an offer or a response does to    *)
(* them.  Attributes come in the order of the map that holds them, by name. *)
(***************************************************************************)
EXTENDS Integers, Sequences, SequencesExt

Empty == -1   \* the value of an attribute without one

Modes == {"accept", "decline", "largest", "smallest"}

default_max_window_bits == 15
min_max_window_bits == 8

LessOf(a, b) == IF a < b THEN a ELSE b

\* uint8_t(atoi(value)).
Bits(value) == IF value = Empty THEN 0 ELSE value % 256

ValidBits(bits) == bits \in min_max_window_bits .. default_max_window_bits

NineForEight(bits) == IF bits = 8 THEN 9 ELSE bits

\* A new extension; set_server_max_window_bits and set_client_max_window_bits
\* were called with valid bits, enable_..._no_context_takeover with the flags.
Settings(server_bits, server_mode, client_bits, client_mode, snct, cnct) ==
    [enabled |-> FALSE, initialized |-> FALSE,
     server_no_context_takeover |-> snct, client_no_context_takeover |-> cnct,
     server_bits |-> NineForEight(server_bits), server_mode |-> server_mode,
     client_bits |-> NineForEight(client_bits), client_mode |-> client_mode,
     deflate_bits |-> 0, inflate_bits |-> 0, flush |-> "none"]

DefaultSettings == Settings(15, "accept", 15, "accept", FALSE, FALSE)

-----------------------------------------------------------------------------
\* The value that a mode makes of what the peer named and of one's own.
Chosen(mode, bits, own) ==
    NineForEight(CASE mode = "decline" -> default_max_window_bits
                   [] mode = "accept" -> bits
                   [] mode = "largest" -> LessOf(bits, own)
                   [] mode = "smallest" -> min_max_window_bits)

\* Each negotiate_... function: the settings after it, and its error code.
Ok(st) == [st |-> st, ec |-> "ok"]
InvalidValue(st) == [st |-> st, ec |-> "invalid_attribute_value"]

negotiate_server_no_context_takeover(st, value) ==
    IF value # Empty THEN InvalidValue(st)
    ELSE Ok([st EXCEPT !.server_no_context_takeover = TRUE])

negotiate_client_no_context_takeover(st, value) ==
    IF value # Empty THEN InvalidValue(st)
    ELSE Ok([st EXCEPT !.client_no_context_takeover = TRUE])

negotiate_server_max_window_bits(st, value) ==
    IF ~ValidBits(Bits(value))
    THEN InvalidValue([st EXCEPT !.server_bits = default_max_window_bits])
    ELSE Ok([st EXCEPT !.server_bits = Chosen(st.server_mode, Bits(value), @)])

negotiate_client_max_window_bits(st, value) ==
    LET bits == IF value = Empty THEN default_max_window_bits ELSE Bits(value)
    IN IF ~ValidBits(bits)
       THEN InvalidValue([st EXCEPT !.client_bits = default_max_window_bits])
       ELSE Ok([st EXCEPT !.client_bits = Chosen(st.client_mode, bits, @)])

NegotiateAttribute(st, name, value) ==
    CASE name = "server_no_context_takeover" -> negotiate_server_no_context_takeover(st, value)
      [] name = "client_no_context_takeover" -> negotiate_client_no_context_takeover(st, value)
      [] name = "server_max_window_bits" -> negotiate_server_max_window_bits(st, value)
      [] name = "client_max_window_bits" -> negotiate_client_max_window_bits(st, value)
      [] OTHER -> [st |-> st, ec |-> "invalid_attributes"]

\* The attributes of the response: those that differ from the defaults.
generate_response(st) ==
    LET given == {n \in {"server_no_context_takeover", "client_no_context_takeover"} : st[n]}
                 \cup (IF st.server_bits < 15 THEN {"server_max_window_bits"} ELSE {})
                 \cup (IF st.client_bits < 15 THEN {"client_max_window_bits"} ELSE {})
    IN [n \in given |-> CASE n = "server_max_window_bits" -> st.server_bits
                          [] n = "client_max_window_bits" -> st.client_bits
                          [] OTHER -> Empty]

\* One attribute of an offer: the first that fails ends the negotiation.
Consider(acc, offer, name) ==
    IF acc.ec # "ok" \/ name \notin DOMAIN offer THEN acc
    ELSE NegotiateAttribute(acc.st, name, offer[name])

\* negotiate(offer): attribute by attribute until one fails, in the order of
\* the map, with names before and after the known ones for those that are not.
negotiate(st, offer) ==
    LET before == Consider(Ok(st), offer, "another")
        cmwb == Consider(before, offer, "client_max_window_bits")
        cnct == Consider(cmwb, offer, "client_no_context_takeover")
        smwb == Consider(cnct, offer, "server_max_window_bits")
        snct == Consider(smwb, offer, "server_no_context_takeover")
        after == Consider(snct, offer, "unknown")
    IN IF after.ec # "ok" THEN after ELSE Ok([after.st EXCEPT !.enabled = TRUE])

generate_offer ==
    [n \in {"client_no_context_takeover", "client_max_window_bits"} |-> Empty]

\* Mutant: each end inflates with the window it deflates with.
init_OneWindow(st, role) ==
    LET own == IF role = "server" THEN st.server_bits ELSE st.client_bits
    IN [st EXCEPT !.initialized = TRUE, !.deflate_bits = own, !.inflate_bits = own,
          !.flush = "sync"]

\* init(is_server), for the role "server" or "client", when zlib makes its two states.
init(st, role) ==
    LET own_takeover == IF role = "server" THEN st.server_no_context_takeover
                                     ELSE st.client_no_context_takeover
    IN [st EXCEPT !.initialized = TRUE,
          !.deflate_bits = IF role = "server" THEN st.server_bits ELSE st.client_bits,
          !.inflate_bits = IF role = "server" THEN st.client_bits ELSE st.server_bits,
          !.flush = IF own_takeover THEN "full" ELSE "sync"]

\* Whether zlib makes its states when an extension is initialised.
Zlib == {"ok", "fails"}

\* negotiate_extensions_helper of the processor: the offers are tried in turn
\* until one succeeds, with the settings as the ones before left them; a failure
\* of zlib ends the search.
Attempt(acc, offer, role, zlib) ==
    IF acc.done THEN acc
    ELSE LET n == negotiate(acc.st, offer)
         IN IF n.ec # "ok" THEN [acc EXCEPT !.st = n.st]
            ELSE IF zlib = "ok"
                 THEN [done |-> TRUE, ec |-> "ok", st |-> init(n.st, role),
                       reply |-> <<generate_response(n.st)>>]
                 ELSE [acc EXCEPT !.done = TRUE, !.ec = "zlib_error", !.st = n.st]

negotiate_extensions(st, offers, role, zlib) ==
    LET tried[i \in 0 .. Len(offers)] ==
            IF i = 0 THEN [done |-> FALSE, ec |-> "ok", st |-> st, reply |-> <<>>]
            ELSE Attempt(tried[i - 1], offers[i], role, zlib)
    IN tried[Len(offers)]

=============================================================================
