------------------------------ MODULE ProtoFormat ------------------------------
(***************************************************************************)
(* What a buffer means as a message of x/tatcore, read off its fields from *)
(* left to right, without indices, machine integers or early returns: the  *)
(* reference that the decoder of ProtoWire is compared with.               *)
(*                                                                         *)
(* Three habits of the generated code are part of the meaning: a varint    *)
(* stands for its value modulo 2^64, a field number for its value modulo   *)
(* 2^32 as a signed number, and the numbers of groups and of the fields in *)
(* them are not compared.                                                  *)
(***************************************************************************)
EXTENDS ProtoWire, FiniteSetsExt

Bad == [ok |-> FALSE]

\* The values of the groups of s, least significant first.
Digits(s) == [k \in DOMAIN s |-> (s[k] % Base) * Pow[k - 1]]

\* The varint at the head of s: its value and what follows it.  Its last group has
\* to start within the width of a uint64.
Varint(s) ==
    LET stops == {k \in DOMAIN s : s[k] < Base}
        n == Min(stops)
    IN  IF stops = {} THEN Bad
        ELSE IF Pow[n - 1] >= Word THEN Bad
        ELSE [ok |-> TRUE,
              value |-> MapThenSumSet(LAMBDA k : Digits(s)[k], 1 .. n) % Word,
              rest |-> SubSeq(s, n + 1, Len(s))]

\* The n first bytes of s and what follows them; a length that is negative as a
\* signed number is more than any buffer holds.
Bytestring(s) ==
    LET v == Varint(s)
    IN  IF ~v.ok THEN Bad
        ELSE IF v.value > Len(v.rest) THEN Bad
        ELSE [ok |-> TRUE, bytes |-> SubSeq(v.rest, 1, v.value),
              rest |-> SubSeq(v.rest, v.value + 1, Len(v.rest))]

Drop(n, s) ==
    IF n > Len(s) THEN Bad ELSE [ok |-> TRUE, rest |-> SubSeq(s, n + 1, Len(s))]

\* What follows a field in open groups that begins with the tag: a group has no more
\* than its tag, the fields in it are fields of their own.
FieldEnd(tag, open) ==
    LET type == tag.value % 8
    IN  CASE type = 0 -> Varint(tag.rest)
          [] type = 1 -> Drop(Fixed64, tag.rest)
          [] type = 2 -> Bytestring(tag.rest)
          [] type = 3 -> Drop(0, tag.rest)
          [] type = 4 -> IF open = 0 THEN Bad ELSE Drop(0, tag.rest)
          [] type = 5 -> Drop(Fixed32, tag.rest)
          [] OTHER    -> Bad

OpenAfter(tag, open) ==
    CASE tag.value % 8 = 3 -> open + 1 [] tag.value % 8 = 4 -> open - 1 [] OTHER -> open

\* What follows the unknown field at the head of the rest, within open groups.
AfterField[x \in [rest : Seq(Bytes), open : Nat]] ==
    LET tag == Varint(x.rest)
        end == FieldEnd(tag, x.open)
        inside == OpenAfter(tag, x.open)
    IN  IF ~tag.ok THEN Bad
        ELSE IF ~end.ok THEN Bad
        ELSE IF inside = 0 THEN Drop(0, end.rest)
        ELSE AfterField[[rest |-> end.rest, open |-> inside]]

FieldNumber(tag) ==
    LET n == (tag \div 8) % (2 * FieldHalf) IN IF n < FieldHalf THEN n ELSE n - 2 * FieldHalf

\* A message of which the rest is still to be read, and the authority read so far.
Unread(type, rest, a) == [type |-> type, rest |-> rest, authority |-> a]

\* The message it becomes: a later field replaces an earlier one.
Meaning[m \in [type : DOMAIN Schema, rest : Seq(Bytes), authority : Seq(Bytes)]] ==
    LET tag == Varint(m.rest)
        num == FieldNumber(tag.value)
        field == Bytestring(tag.rest)
        unknown == AfterField[[rest |-> m.rest, open |-> 0]]
    IN  IF m.rest = << >> THEN [ok |-> TRUE, authority |-> m.authority]
        ELSE IF ~tag.ok THEN Bad
        ELSE IF tag.value % 8 = 4 \/ num =< 0 THEN Bad
        ELSE IF num \in DOMAIN Schema[m.type]
        THEN IF tag.value % 8 # 2 THEN Bad
             ELSE IF ~field.ok THEN Bad
             ELSE IF Schema[m.type][num] = "string"
             THEN Meaning[Unread(m.type, field.rest, field.bytes)]
             ELSE IF ~Meaning[Unread("Params", field.bytes, << >>)].ok THEN Bad
             ELSE Meaning[Unread(m.type, field.rest, m.authority)]
        ELSE IF ~unknown.ok THEN Bad
        ELSE Meaning[Unread(m.type, unknown.rest, m.authority)]

\* The decoder accepts exactly the buffers that mean something, and decodes what
\* they mean: truncated fields, wrapped lengths, unbalanced groups and wrong types
\* are rejected, unknown fields are skipped to their exact end.
DecodesMeaning ==
    pc \in Ends =>
        LET m == Meaning[Unread(root, input, << >>)]
        IN  /\ (pc = "done") = m.ok
            /\ m.ok => authority = m.authority
=============================================================================
