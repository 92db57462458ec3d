------------------------------ MODULE MCHybi00 ------------------------------
(* Hybi00 with the streams that clients send: two messages and an end. *)
EXTENDS Hybi00

Payloads == SeqOf({"00", "x", "bad"}, 2)

\* Whole messages, the end of the stream, and bytes between frames.
MCStreams ==
    {prepare_data_frame(p) \o prepare_data_frame(q) \o end :
        p \in Payloads, q \in Payloads, end \in {<<>>, prepare_close, <<"x">>}}
      \cup {<<msg_hdr>> \o p \o <<msg_ftr, "x">> : p \in Payloads}
=============================================================================
