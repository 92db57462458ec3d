----------------------------- MODULE FeederCodec -----------------------------
(***************************************************************************)
(* examples/print_client_tls: the bytes the feeder exchanges with the      *)
(* market data server (ByteBuffer.hpp, SubUnsub.hpp and the two helpers of *)
(* print_client_tls.cpp that build and read messages).  Radix stands for   *)
(* the 256 values of a byte; int is four bytes wide, u_long eight.  An     *)
(* u_long of the upper half is written as the negative number it is        *)
(* congruent to.  Text is a sequence of bytes.                             *)
(***************************************************************************)
EXTENDS Integers, Sequences, SequencesExt

CONSTANTS
    Radix,       \* values of a byte
    sizeArray,   \* slots of the arrays that an index is computed from
    Inputs       \* what one check gives to the functions below

RadixAssumption == Radix \in Nat /\ Radix > 24 /\ Radix % 2 = 0
SlotsAssumption == sizeArray \in Nat \ {0}

VARIABLE input

SNAP == 19
UPDATE == 21

-----------------------------------------------------------------------------
\* Writing.

put(value) == <<value % Radix>>

addShort(endPos) == <<(endPos \div Radix) % Radix, endPos % Radix>>

\* Mutant: the second byte is taken with the mask of the first.
addInt_Twice(endPos) ==
    [i \in 1 .. 4 |-> (endPos \div Radix^(IF i = 2 THEN 3 ELSE 4 - i)) % Radix]

addInt(endPos) == [i \in 1 .. 4 |-> (endPos \div Radix^(4 - i)) % Radix]

getMessageBuf(ack) ==
    addShort(11) \o put(3) \o put(1) \o put(1) \o addShort(4) \o addInt(ack)

Source == <<1, 2, 3>>   \* "JS_API"

prepareConnectionRequest2(jwt, redis) ==
    addShort(Len(Source) + Len(jwt) + Len(redis) + 11) \o put(1) \o put(3)
      \o put(1) \o addShort(Len(jwt)) \o jwt
      \o put(2) \o addShort(Len(redis)) \o redis
      \o put(3) \o addShort(Len(Source)) \o Source

Bar == <<7>>   \* "|"

\* The scrips are what boost::split makes of the text at each "&".
getScripByteBuffer(scrips, a) ==
    LET Named(s) == a \o Bar \o s
    IN  addShort(Len(scrips))
          \o FlattenSeq([i \in DOMAIN scrips |->
                 put(Len(Named(scrips[i]))) \o Named(scrips[i])])

prepareSubsUnSubsRequest(scrips, d, e, a) ==
    LET data == getScripByteBuffer(scrips, e)
    IN  addShort(Len(data) + 11) \o put(d) \o put(2) \o put(1)
          \o addShort(Len(data)) \o data \o put(2) \o addShort(1) \o put(a)

-----------------------------------------------------------------------------
\* Reading.  jj << (i * 8) is an int: the fourth byte carries its sign into
\* the u_long, and a shift of 32 or more is taken modulo 32.
Shifted(byte, i) ==
    LET v == byte * Radix^(i % 4)
    IN  IF i % 4 = 3 /\ byte >= Radix \div 2 THEN v - Radix^4 ELSE v

long(bytes) ==
    FoldLeftDomain(LAMBDA val, j : val + Shifted(bytes[j], Len(bytes) - j),
                   0, bytes)

Get(s, at, n) == SubSeq(s, at, at + n - 1)
getLong(s, at, n) == long(Get(s, at, n))

\* uint32_t of an int of an u_long.
Narrowed(val) == val % Radix^4

parseMessageNumber(s, at) == getLong(s, at, 4)

\* Behind a field of status text, whose length comes first, the field of the
\* acknowledgement count.
parseAck(s, at) ==
    LET val == getLong(s, at + 2, 2)
        next == at + 4 + val
    IN  getLong(s, next + 3, getLong(s, next + 1, 2))

\* The loop over the fields of an update counts fcount down, so that the
\* field read first has the highest number.  The numbers whose values go
\* into the text that is pushed to the publisher, in the order of the text:
PushedFields(topicId, fcount) ==
    IF topicId = 0 /\ fcount > 12
    THEN << SelectSeq(<<17, 13, 12>>, LAMBDA f : f < fcount) >>
    ELSE IF topicId = 1 /\ fcount > 5 THEN << <<5>> >> ELSE <<>>

Field(s, at, fcount, f) == getLong(s, at + 4 * (fcount - 1 - f), 4)

\* The position after `count` strings that each follow a number and a length.
RECURSIVE AfterStrings(_, _, _)
AfterStrings(s, at, count) ==
    IF count = 0 THEN at
    ELSE AfterStrings(s, at + 2 + getLong(s, at + 1, 1), count - 1)

\* The parts of a snapshot whose response type is at `at`.
SnapAt(s, at) ==
    LET topic == getLong(s, at + 1, 4)
        len == getLong(s, at + 5, 1)
        fcount == getLong(s, at + 6 + len, 1)
        fields == at + 7 + len
        strings == fields + 4 * fcount
    IN  [topic |-> topic, fcount |-> fcount, fields |-> fields,
         after |-> AfterStrings(s, strings + 1, getLong(s, strings, 1))]

UpdateAt(s, at) ==
    LET fcount == getLong(s, at + 5, 1)
    IN  [topic |-> getLong(s, at + 1, 4), fcount |-> fcount, fields |-> at + 6,
         after |-> at + 6 + 4 * fcount]

\* parseData from the record at `at`, g records to go: what is pushed.  A
\* record of another response type has no length: the next one is looked for
\* behind its first three bytes.
RECURSIVE RecordsFrom(_, _, _)
RecordsFrom(s, at, g) ==
    IF g = 0 THEN <<>>
    ELSE LET responseType == getLong(s, at + 2, 1)
         IN  IF responseType = SNAP
             THEN RecordsFrom(s, SnapAt(s, at + 2).after, g - 1)
             ELSE IF responseType = UPDATE
             THEN LET u == UpdateAt(s, at + 2)
                      Values(fs) == [i \in DOMAIN fs |->
                                       Field(s, u.fields, u.fcount, fs[i])]
                      pushed == PushedFields(u.topic, u.fcount)
                  IN  [i \in DOMAIN pushed |-> Values(pushed[i])]
                        \o RecordsFrom(s, u.after, g - 1)
             ELSE RecordsFrom(s, at + 3, g - 1)

parseData(s) == RecordsFrom(s, 3, getLong(s, 1, 2))

\* parseDataUnreal: the slots of the four arrays that the snapshots of the
\* message write.  The arrays are new, and not initialised, with every message.
ArrayField == [vol |-> 20, price |-> 19, buy |-> 17, sell |-> 16]
Arrays == [a \in DOMAIN ArrayField |-> {}]

getFvalueSnap(arrays, snap) ==
    [a \in DOMAIN arrays |->
       arrays[a] \cup {t \in {snap.topic % sizeArray} : ArrayField[a] < snap.fcount}]

RECURSIVE SlotsFrom(_, _, _, _)
SlotsFrom(arrays, s, at, g) ==
    IF g = 0 THEN arrays
    ELSE LET responseType == getLong(s, at + 2, 1)
         IN  IF responseType = SNAP
             THEN LET snap == SnapAt(s, at + 2)
                  IN  SlotsFrom(getFvalueSnap(arrays, snap), s, snap.after, g - 1)
             ELSE IF responseType = UPDATE
             THEN SlotsFrom(arrays, s, UpdateAt(s, at + 2).after, g - 1)
             ELSE SlotsFrom(arrays, s, at + 3, g - 1)

parseDataUnreal(s) == SlotsFrom(Arrays, s, 3, getLong(s, 1, 2))

\* The sums of storeSums read every slot of their arrays.
SumsDefined(arrays) == \A a \in DOMAIN arrays : arrays[a] = 0 .. sizeArray - 1

-----------------------------------------------------------------------------
\* The server's side of the format, as the requests above are addressed to it
\* and the loops above expect it.

FieldOf(s, at) == Get(s, at + 2, getLong(s, at, 2))

\* The names in a scrip buffer.
RECURSIVE NamesFrom(_, _, _)
NamesFrom(s, at, n) ==
    IF n = 0 THEN <<>>
    ELSE LET len == getLong(s, at, 1)
         IN  <<Get(s, at + 1, len)>> \o NamesFrom(s, at + 1 + len, n - 1)

SnapBytes(r) ==
    addShort(0) \o put(SNAP) \o addInt(r.topic) \o put(Len(r.name)) \o r.name
      \o put(Len(r.values)) \o FlattenSeq([i \in DOMAIN r.values |-> addInt(r.values[i])])
      \o put(Len(r.strings))
      \o FlattenSeq([i \in DOMAIN r.strings |->
                        put(i) \o put(Len(r.strings[i])) \o r.strings[i]])

UpdateBytes(r) ==
    addShort(0) \o put(UPDATE) \o addInt(r.topic) \o put(Len(r.values))
      \o FlattenSeq([i \in DOMAIN r.values |-> addInt(r.values[i])])

RecordBytes(r) == IF r.type = SNAP THEN SnapBytes(r) ELSE UpdateBytes(r)

AckBytes(status, count) ==
    put(1) \o put(1) \o addShort(Len(status)) \o status
      \o put(2) \o addShort(2) \o addShort(count)

DataBytes(records) ==
    addShort(Len(records))
      \o FlattenSeq([i \in DOMAIN records |-> RecordBytes(records[i])])

Init == input \in Inputs
Next == UNCHANGED input
Spec == Init /\ [][Next]_input

-----------------------------------------------------------------------------
(***************************************************************************)
(* Properties.                                                             *)
(***************************************************************************)

\* The acknowledgement of a data message carries the four bytes of its
\* number, those included whose first byte makes getLong return a number of
\* the upper half of an u_long, which main keeps in an int.  The count that
\* the server asks for is found behind a status text of any length.
AckEchoes ==
    /\ input.kind = "number" =>
         LET ack == getMessageBuf(Narrowed(parseMessageNumber(input.bytes, 1)))
         IN  SubSeq(ack, 8, 11) = input.bytes
    /\ input.kind = "ack" =>
         parseAck(AckBytes(input.status, input.count), 1) = input.count

\* The requests can be read back by the lengths in them, whatever the token,
\* the session and the scrips, as long as a scrip and its prefix are shorter
\* than a byte can say; the size in front of a connection request counts the
\* bytes behind it, the one in front of a subscription also its own two.
RequestsReadable ==
    /\ input.kind = "connect" =>
         LET m == prepareConnectionRequest2(input.jwt, input.sid)
             sid == 8 + Len(input.jwt)
             src == sid + 3 + Len(input.sid)
         IN  /\ getLong(m, 1, 2) = Len(m) - 2
             /\ FieldOf(m, 6) = input.jwt
             /\ FieldOf(m, sid + 1) = input.sid
             /\ FieldOf(m, src + 1) = Source
             /\ src + 2 + Len(Source) = Len(m)
    /\ input.kind = "subscribe" =>
         LET m == prepareSubsUnSubsRequest(input.scrips, input.type, input.prefix, 1)
             data == FieldOf(m, 6)
         IN  /\ getLong(m, 1, 2) = Len(m)
             /\ Len(data) + 11 = Len(m)
             /\ (\A i \in DOMAIN input.scrips :
                    Len(input.prefix \o Bar \o input.scrips[i]) < Radix)
                <=> NamesFrom(data, 3, getLong(data, 1, 2))
                      = [i \in DOMAIN input.scrips |->
                           input.prefix \o Bar \o input.scrips[i]]

\* parseData finds every record of a message, whatever snapshots lie between
\* the updates, and pushes the fields that the server put in the last places
\* but 17, 13 and 12 of an update of the first topic, all of the same update.
UpdatesPushed ==
    input.kind = "data" =>
        LET FromEnd(r, f) == r.values[Len(r.values) - f]
            Told(r) == SelectSeq(IF r.topic = 0 THEN <<17, 13, 12>> ELSE <<5>>,
                                 LAMBDA f : f < Len(r.values))
            Text(r) == [i \in DOMAIN Told(r) |-> FromEnd(r, Told(r)[i])]
            Pushing == SelectSeq(input.records, LAMBDA r :
                      /\ r.type = UPDATE
                      /\ \/ r.topic = 0 /\ Len(r.values) > 12
                         \/ r.topic = 1 /\ Len(r.values) > 5)
        IN  parseData(DataBytes(input.records)) 
             = [i \in DOMAIN Pushing |-> Text(Pushing[i])]

\* storeSums reads only values of the message it follows exactly if the
\* snapshots of the message, by the remainder of their topic, are of every
\* slot, with all their fields: with one scrip fewer, or one topic number
\* that has the remainder of another, it reads memory never written.
SumsFromMessage ==
    input.kind = "data" =>
        LET Full == {r \in ToSet(input.records) : r.type = SNAP /\ Len(r.values) > 20}
        IN  (\A t \in 0 .. sizeArray - 1 : \E r \in Full : r.topic % sizeArray = t)
              <=> SumsDefined(parseDataUnreal(DataBytes(input.records)))

=============================================================================
