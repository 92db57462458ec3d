---------------------------- MODULE MCFeederCodec ----------------------------
(* Inputs for FeederCodec. *)
EXTENDS FeederCodec

Edges == {0, 1, Radix \div 2 - 1, Radix \div 2, Radix - 1}
Text(n) == [i \in 1 .. n |-> (i % 5) + 1]
Numbers(n) == [i \in 1 .. n |-> i + 100]
Snap(t, n, s) == [type |-> SNAP, topic |-> t, name |-> Text(2),
                  values |-> Numbers(n), strings |-> [i \in 1 .. s |-> Text(i)]]
Update(t, n) == [type |-> UPDATE, topic |-> t, values |-> Numbers(n)]

Records == {Snap(0, 21, 0), Snap(1, 20, 1), Snap(2, 21, 2), Snap(4, 21, 1)}
             \cup {Update(t, n) : t \in {0, 1, 2}, n \in {5, 6, 12, 13, 14, 17, 18}}

MCInputs ==
    [kind : {"number"}, bytes : [1 .. 4 -> Edges]]
      \cup [kind : {"ack"}, status : {Text(n) : n \in {0, 5, Radix + 3}},
            count : {0, 1, Radix - 1, Radix, Radix^2 - 1}]
      \cup [kind : {"connect"}, jwt : {Text(n) : n \in {0, 1, 40}},
            sid : {Text(n) : n \in {0, 3, 33}}]
      \cup [kind : {"subscribe"}, type : {4, 9}, prefix : {Text(2)},
            scrips : SeqOf({Text(n) : n \in {0, 3, 28, 29}}, 3) \ {<<>>}]
      \cup [kind : {"data"}, records : SeqOf(Records, 2)]
      \cup [kind : {"data"}, records : [1 .. 3 -> {r \in Records : r.type = SNAP}]]
=============================================================================
