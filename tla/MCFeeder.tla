------------------------------ MODULE MCFeeder ------------------------------
(***************************************************************************)
(* The market data feeder: its threads, Feeder, and its binary messages,   *)
(* FeederCodec.  part says which of them a behaviour is about.             *)
(***************************************************************************)
EXTENDS Feeder

CONSTANTS Radix, sizeArray, Inputs

VARIABLES part, input

C == INSTANCE FeederCodec

Tried == INSTANCE MCFeederCodec WITH Inputs <- {}
MCInputs == Tried!MCInputs

ASSUME CodecAssumption == C!RadixAssumption /\ C!SlotsAssumption

MCInit ==
    \/ part = "threads" /\ Init /\ input = "unused"
    \/ part = "messages" /\ Init /\ ~niftyUnreal /\ C!Init

MCNext ==
    \/ part = "threads" /\ Next /\ UNCHANGED <<part, input>>
    \/ part = "messages" /\ C!Next /\ UNCHANGED <<part, vars>>

MCSpec ==
    /\ MCInit /\ [][MCNext]_<<part, vars, input>>
    /\ WF_vars(part = "threads" /\ Handling)
    /\ WF_vars(part = "threads" /\ Publishing)

-----------------------------------------------------------------------------
\* Every message is read as it was made: acknowledgements carry the number of
\* the message they answer, requests can be read back by their lengths,
\* parseData pushes the fields of every update, and the sums come from the
\* values of the message exactly if it fills every slot.
MessagesRead ==
    part = "messages" =>
       C!AckEchoes /\ C!RequestsReadable /\ C!UpdatesPushed /\ C!SumsFromMessage

=============================================================================
