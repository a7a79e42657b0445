----------------------------- MODULE MCProtoFormat -----------------------------
(* Instances of ProtoFormat for TLC: bytes carry 5 bits, an int has 8 and a      *)
(* field number 4.                                                              *)
EXTENDS ProtoFormat

\* Lengths 0 to 4, tags of the fields 0 to 3 with every wire type, and bytes that
\* continue a varint with no, the lowest but one, and all bits set.
Alphabet == {0, 1, 3, 4, 10, 18, 24, 25, 26, 27, 28, 29, 30, 32, 42, 63}

\* Longer strings than one group can count, and short ones.
MCAuthorities == {<< >>, <<7>>, <<63, 0>>, [i \in 1 .. 31 |-> 1], [i \in 1 .. 32 |-> 1],
                  [i \in 1 .. 40 |-> i]}

MCMessages == {"MsgUpdateParams", "GenesisState", "Module", "Params"}

\* Both fields, the first one twice, and groups within groups around a field.
Longer == {<<10, 1, 63, 18, 2, 24, 0>>, <<10, 2, 1, 1, 10, 1, 3>>, <<18, 3, 27, 28, 24, 10, 0>>,
           <<27, 27, 24, 1, 28, 29, 9, 28, 10, 0>>, <<27, 26, 1, 28, 27, 28>>}

MCInputs ==
    UNION {[1 .. n -> Alphabet] : n \in 0 .. 4}
        \cup Longer
        \cup {Marshal(type, a) : type \in MCMessages, a \in MCAuthorities}
=============================================================================
