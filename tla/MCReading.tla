------------------------------ MODULE MCReading ------------------------------
(***************************************************************************)
(* What reads and writes bytes, as in MCParsing, and the text of headers   *)
(* and addresses: the part "text" of a behaviour is one input of MCText.   *)
(***************************************************************************)
EXTENDS MCParsing

VARIABLE input

T == INSTANCE MCText

ReadingInit ==
    /\ MCInit
    /\ IF part = "text" THEN T!Init ELSE Unused(input)

TextNext ==
    /\ part = "text" /\ T!Next
    /\ UNCHANGED allVars

ReadingNext == (MCNext /\ UNCHANGED input) \/ TextNext

ReadingSpec == ReadingInit /\ [][ReadingNext]_<<allVars, input>>

-----------------------------------------------------------------------------
\* What append_header and the attributes of a header make, the parser of lists
\* reads back.
TextReadBack == part = "text" => T!ListsReadBack /\ T!LinesAppended

\* A uri, and the Host header made of it, names the same host, port and
\* resource when it is read back, and base64 gives back the bytes.
AddressesReadBack == part = "text" => T!UrisReadBack /\ T!BytesReadBack

=============================================================================
