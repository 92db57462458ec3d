------------------------------- MODULE MCText -------------------------------
(* Inputs for HttpText, Uri and Base64: the state is one input, and the
   invariants evaluate the functions on it. *)
EXTENDS HttpText

U == INSTANCE Uri
B == INSTANCE Base64

VARIABLE input

Chars == {"t", " ", ";", ",", "=", "\"", "\\"}
Names == {<<"t">>, <<"u", "t">>}
Attributes ==
    [name : Names, form : {"none"}, value : {<<>>}]
      \cup [name : Names, form : {"token"}, value : Names]
      \cup [name : Names, form : {"quoted"},
            value : {v \in SeqOf({"t", " ", ",", ";", "\"", "\\"}, 2) :
                       v = <<>> \/ Last(v) # "\\"}]
Lists ==
    {<<[name |-> n, attributes |-> as]>> : n \in {<<"t">>}, as \in SeqOf(Attributes, 2)}
      \cup [1 .. 2 -> [name : Names, attributes : SeqOf({a \in Attributes : Len(a.value) < 2}, 1)]]
Spaces == {<<>>, <<" ">>, <<"\r", "\n", " ">>}

Host == {<<>>, <<"h">>, <<"h", "h">>, <<"[", ":", ":", "1", "]">>, <<"[", "1">>}
Port == {<<>>, <<":">>, <<":", "8", "0">>, <<":", "4", "4", "3">>, <<":", "0">>,
         <<":", "9", "h">>, <<":", "h">>, <<":", "6", "5", "5", "3", "5">>,
         <<":", "6", "5", "5", "3", "6">>}
Resource == {<<>>, <<"/">>, <<"/", "h", "/", ":", "1">>, <<":", "/">>, <<"]">>}
UriTexts == {h \o p \o r : h \in Host, p \in Port, r \in Resource}

Inputs == [kind : {"list"}, list : Lists, ws : Spaces]
            \cup [kind : {"lines"}, first : SeqOf(Chars, 3), second : SeqOf(Chars, 2)]
            \cup [kind : {"uri"}, scheme : U!Range(U!Prefix), text : UriTexts]
            \cup [kind : {"bytes"}, more : SeqOf({3, 64}, 1),
                  bytes : UNION {[1 .. n -> {0, 1, 3, 15, 64, 200, 255}] : n \in 0 .. 4}]
Init == input \in Inputs
Next == UNCHANGED input
Spec == Init /\ [][Next]_input

\* The attribute lists that headers carry are read back as they were written.
ListsReadBack == input.kind = "list" => ListReadsBack(input.list, input.ws)
\* A header that comes twice is one list.
LinesAppended == input.kind = "lines" => LinesAppend(input.first, input.second)
\* An address is read back from its text and from the Host header made of it.
UrisReadBack == input.kind = "uri" => U!UriReadsBack(<<input.scheme>> \o input.text)
\* Bytes are read back from their base64 text.
BytesReadBack == input.kind = "bytes" => B!Base64ReadsBack(input.bytes, input.more)
=============================================================================
