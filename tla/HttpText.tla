------------------------------ MODULE HttpText ------------------------------
(***************************************************************************)
(* http/parser.hpp: the functions that read the value of a header with a   *)
(* list of parameters, such as Sec-WebSocket-Protocol and                  *)
(* Sec-WebSocket-Extensions.  Text is a sequence of characters, of which   *)
(* "t" and "u" stand for those of tokens.  An iterator is the position of  *)
(* a character, and end is the position behind the last one.               *)
(***************************************************************************)
EXTENDS Integers, Sequences, SequencesExt, FiniteSetsExt

End(s) == Len(s) + 1

is_token_char(c) == c \in {"t", "u"}
is_whitespace_char(c) == c = " "

Find(s, i, Test(_)) ==
    LET found == {j \in i .. Len(s) : Test(s[j])}
    IN  IF found = {} THEN End(s) ELSE Min(found)

Between(s, i, j) == SubSeq(s, i, j - 1)

\* Every extract_... function: what it read, and the next position.
Read(value, at) == [value |-> value, at |-> at]

extract_token(s, i) ==
    LET end == Find(s, i, LAMBDA c : ~is_token_char(c))
    IN  Read(Between(s, i, end), end)

\* Mutant: the backslash in front of a quote is kept.
extract_quoted_string_Raw(s, i) ==
    LET closing == {j \in i + 1 .. Len(s) : s[j] = "\"" /\ s[j - 1] # "\\"}
    IN  IF i = End(s) \/ closing = {} THEN Read(<<>>, i)
        ELSE IF s[i] # "\"" THEN Read(<<>>, i)
        ELSE Read(Between(s, i + 1, Min(closing)), Min(closing) + 1)

\* The string ends with the first quote behind a character other than a
\* backslash; the backslash of the other quotes is left out.
extract_quoted_string(s, i) ==
    LET closing == {j \in i + 1 .. Len(s) : s[j] = "\"" /\ s[j - 1] # "\\"}
        kept == {k \in i + 1 .. Min(closing) - 1 : s[k] # "\\" \/ s[k + 1] # "\""}
    IN  IF i = End(s) \/ closing = {} THEN Read(<<>>, i)
        ELSE IF s[i] # "\"" THEN Read(<<>>, i)
        ELSE Read([n \in 1 .. Cardinality(kept) |-> s[SetToSortSeq(kept, <)[n]]],
                  Min(closing) + 1)

\* Whitespace, and one end of line in front of it.
extract_lws(s, i) ==
    LET folded == /\ End(s) - i > 2
                  /\ s[i] = "\r" /\ s[i + 1] = "\n" /\ is_whitespace_char(s[i + 2])
    IN  Find(s, IF folded THEN i + 3 ELSE i, LAMBDA c : ~is_whitespace_char(c))

RECURSIVE extract_all_lws(_, _)
extract_all_lws(s, i) ==
    LET next == extract_lws(s, i)
    IN  IF next = End(s) \/ next = i THEN next ELSE extract_all_lws(s, next)

\* attributes[name] = value
Put(attributes, name, value) ==
    [n \in DOMAIN attributes \cup {name} |->
       IF n = name THEN value ELSE attributes[n]]

NoAttributes == [n \in {} |-> <<>>]

\* A value is a quoted string or a token.
ValueAt(s, i) ==
    LET quoted == extract_quoted_string(s, i)
    IN  IF quoted.at # i THEN quoted ELSE extract_token(s, i)

\* The loop of extract_attributes, whose parts begin at a separator, at "=" and
\* behind it.  An error is the position `begin`.
RECURSIVE AttributesFrom(_, _, _, _, _), Named(_, _, _, _),
          EqualsAt(_, _, _, _, _), Valued(_, _, _, _, _, _)
AttributesFrom(s, begin, at, first, attributes) ==
    LET start == extract_all_lws(s, at)
    IN  IF at = End(s) \/ start = End(s) THEN Read(attributes, start)
        ELSE IF ~first /\ s[start] # ";" THEN Read(attributes, start)
        ELSE Named(s, begin, extract_token(s, extract_all_lws(s,
                                IF first THEN start ELSE start + 1)), attributes)

Named(s, begin, name, attributes) ==
    IF name.value = <<>> THEN Read(attributes, begin)
    ELSE EqualsAt(s, begin, name.value, extract_all_lws(s, name.at), attributes)

EqualsAt(s, begin, name, equals, attributes) ==
    IF equals = End(s) THEN Read(Put(attributes, name, <<>>), equals)
    ELSE IF s[equals] # "="
    THEN AttributesFrom(s, begin, equals, FALSE, Put(attributes, name, <<>>))
    ELSE Valued(s, begin, name, extract_all_lws(s, equals + 1),
                ValueAt(s, extract_all_lws(s, equals + 1)), attributes)

Valued(s, begin, name, from, value, attributes) ==
    IF from = End(s) \/ value.at = from THEN Read(attributes, begin)
    ELSE AttributesFrom(s, begin, value.at, FALSE, Put(attributes, name, value.value))

extract_attributes(s, begin) ==
    AttributesFrom(s, begin, begin, TRUE, NoAttributes)

\* The loop of extract_parameters.
RECURSIVE ParametersFrom(_, _, _, _), ParameterAt(_, _, _, _, _),
          Parameter(_, _, _, _, _, _)
ParametersFrom(s, begin, at, parameters) ==
    LET start == extract_all_lws(s, at)
        name == extract_token(s, start)
    IN  IF at = End(s) \/ start = End(s) THEN Read(parameters, start)
        ELSE IF name.value = <<>> THEN Read(parameters, begin)
        ELSE ParameterAt(s, begin, name.value, extract_all_lws(s, name.at), parameters)

ParameterAt(s, begin, name, behind, parameters) ==
    IF behind # End(s) /\ s[behind] = ";"
    THEN Parameter(s, begin, name, behind + 1, extract_attributes(s, behind + 1), parameters)
    ELSE Parameter(s, begin, name, 0, Read(NoAttributes, behind), parameters)

\* read are the attributes from the position `from`, if there are any.
Parameter(s, begin, name, from, read, parameters) ==
    LET after == extract_all_lws(s, read.at)
        added == Append(parameters, [name |-> name, attributes |-> read.value])
    IN  IF read.at = from THEN Read(parameters, begin)
        ELSE IF after = End(s) THEN Read(added, after)
        ELSE IF s[after] # "," THEN Read(added, after)
        ELSE IF after + 1 = End(s) THEN Read(added, begin)
        ELSE ParametersFrom(s, begin, after + 1, added)

extract_parameters(s) == ParametersFrom(s, 1, 1, <<>>)

\* parse_parameter_list, which returns whether there was an error.
parse_parameter_list(s) ==
    [error |-> s # <<>> /\ extract_parameters(s).at = 1,
     list |-> extract_parameters(s).value]

\* strip_lws.  Read backwards an end of line is no folded one.
strip_lws(s) ==
    LET begin == extract_all_lws(s, 1)
        rbegin == extract_all_lws(Reverse(s), 1)
    IN  IF begin = End(s) \/ rbegin = End(s) THEN <<>>
        ELSE Between(s, begin, End(s) - rbegin + 1)

\* A header that is there already gets the new value behind a comma.
append_header(old, val) == IF old = <<>> THEN val ELSE old \o <<",", " ">> \o val

-----------------------------------------------------------------------------
(***************************************************************************)
(* Properties.                                                             *)
(***************************************************************************)

\* The text of a parameter list as RFC 2616 has it; `ws` is the whitespace
\* around every separator.
Escaped(value) ==
    FlattenSeq([i \in DOMAIN value |->
                  IF value[i] = "\"" THEN <<"\\", "\"">> ELSE <<value[i]>>])

AttributeText(a, ws) ==
    <<";">> \o ws \o a.name \o ws
      \o CASE a.form = "none" -> <<>>
           [] a.form = "token" -> <<"=">> \o ws \o a.value \o ws
           [] a.form = "quoted" -> <<"=">> \o ws \o <<"\"">> \o Escaped(a.value)
                                     \o <<"\"">> \o ws

ParameterText(p, ws) ==
    p.name \o ws
      \o FlattenSeq([i \in DOMAIN p.attributes |-> AttributeText(p.attributes[i], ws)])

ListText(ps, ws) ==
    FlattenSeq([i \in DOMAIN ps |->
       (IF i = 1 THEN <<>> ELSE <<",">> \o ws) \o ParameterText(ps[i], ws)])

\* A list of parameters is read back from its text to the end, with the last
\* of several values of an attribute, whatever the whitespace, and whatever
\* is in the quoted values: commas, semicolons, quotes, and backslashes that
\* are not their last character.
ListReadsBack(ps, ws) ==
    LET s == ListText(ps, ws)
        \* as a map: the last attribute of a name counts
        Map(as) == [n \in {as[i].name : i \in DOMAIN as} |->
                      as[Max({i \in DOMAIN as : as[i].name = n})].value]
    IN  extract_parameters(s)
          = Read([i \in DOMAIN ps |->
                    [name |-> ps[i].name, attributes |-> Map(ps[i].attributes)]],
                 End(s))

\* Two header lines of one name, each with a list that is read to its end, are
\* read as the two lists, one behind the other, once append_header has put
\* them together.
LinesAppend(first, second) ==
    LET a == strip_lws(first)
        b == strip_lws(second)
        WholeList(s) == s # <<>> /\ ~parse_parameter_list(s).error
                          /\ extract_parameters(s).at = End(s)
    IN  WholeList(a) /\ WholeList(b) =>
          parse_parameter_list(append_header(a, b))
            = [error |-> FALSE,
               list |-> parse_parameter_list(a).list \o parse_parameter_list(b).list]

=============================================================================
