------------------------------- MODULE ProtoWire -------------------------------
(***************************************************************************)
(* The wire codec of x/tatcore (x/tatcore/types/*.pb.go).  Every message   *)
(* of the module has its own generated Unmarshal, and every file its own   *)
(* copy of the skipping function; they differ only in the fields they      *)
(* know.  Here they are one decoder and a schema for each message.         *)
(*                                                                         *)
(* The decoder runs byte by byte over a buffer, with indices and lengths   *)
(* that are machine integers, and calls itself for an embedded message and *)
(* the skipping function for an unknown field.  Every index of the code is *)
(* kept: an access outside of the buffer is a panic.                       *)
(*                                                                         *)
(* Go's sizes are constants: Base = 2^7, Half = 2^63, FieldHalf = 2^31,    *)
(* Fixed32 = 4 and Fixed64 = 8 bytes.                                      *)
(***************************************************************************)
EXTENDS Integers, Sequences

CONSTANTS
    Base,       \* a byte below Base ends a varint, and carries that many values
    Half,       \* int holds -Half .. Half - 1
    FieldHalf,  \* int32 holds -FieldHalf .. FieldHalf - 1
    Fixed32,
    Fixed64,
    Messages,   \* the messages that are decoded
    Inputs,     \* the buffers that are decoded
    Authorities \* the values of the Authority field that are encoded

Word == 2 * Half

Bytes == 0 .. (2 * Base - 1)

ASSUME WireAssumption ==
    /\ Base \in Nat \ {0, 1}
    /\ Half \in Nat \ {0}
    /\ FieldHalf \in Nat \ {0}
    /\ Fixed32 \in 1 .. (Half - 1) /\ Fixed64 \in 1 .. (Half - 1)
    /\ Inputs \subseteq Seq(Bytes) /\ Authorities \subseteq Seq(Bytes)

\* Go has no slice of 2^63 bytes or more.
ASSUME LengthAssumption == \A data \in Inputs \cup Authorities : Len(data) < Half

-----------------------------------------------------------------------------
(* The messages: the kinds of their fields 1, 2, ...  An entry stands for that   *)
(* message's generated Unmarshal and, in the last of each file, for the file's  *)
(* copy of the skipping function.                                               *)

NoFields == << >>

MsgUpdateParams == <<"string", "message">>

MsgUpdateParamsResponse == NoFields

Params == NoFields

QueryParamsRequest == NoFields

QueryParamsResponse == <<"message">>

GenesisState == <<"message">>

Module == <<"string">>

Schema ==
    [MsgUpdateParams |-> MsgUpdateParams,
     MsgUpdateParamsResponse |-> MsgUpdateParamsResponse,
     Params |-> Params,
     QueryParamsRequest |-> QueryParamsRequest,
     QueryParamsResponse |-> QueryParamsResponse,
     GenesisState |-> GenesisState,
     Module |-> Module]

ASSUME MessageAssumption == Messages \subseteq DOMAIN Schema

\* The tags of these fields, of wire type 2, are varints of one byte.
ASSUME TagAssumption == 18 < Base /\ 18 < Half /\ 2 < FieldHalf

VARIABLES
    root,       \* the message asked for
    input,      \* the buffer it was given
    message,    \* the message being decoded, root or one embedded in it
    dAtA,       \* its part of the input
    iNdEx,      \* index of the next byte
    preIndex,   \* index of the field's tag
    callers,    \* the decoders waiting for this one, with the index they resume at
    skipIndex,  \* the skipping function's own index, from the tag on
    depth,      \* groups it is in
    acc,        \* the varint read so far
    weight,     \* 2^shift
    pc,         \* what the decoder does next
    authority   \* the decoded Authority field

frameVars == <<message, dAtA, iNdEx, preIndex, callers>>
skipVars == <<skipIndex, depth>>
varintVars == <<acc, weight>>
vars == <<root, input, frameVars, skipVars, varintVars, pc, authority>>

\* The varints the decoder reads, and what follows each.
Varints == {"tag", "string", "message", "skipTag", "skipVarint", "skipLength"}

SkipVarints == {"skipTag", "skipVarint", "skipLength"}

After(varint) ==
    CASE varint = "tag"        -> "field"
      [] varint = "string"     -> "takeString"
      [] varint = "message"    -> "takeMessage"
      [] varint = "skipTag"    -> "skipField"
      [] varint = "skipVarint" -> "skipped"
      [] varint = "skipLength" -> "skipBytes"

Ends == {"done", "rejected", "panicked"}

Goto(p) == pc' = p

Reject == Goto("rejected")

\* Conversions of Go: uint64 and sums of ints to int, and a field number to int32.
Int64(x) == IF x % Word < Half THEN x % Word ELSE (x % Word) - Word

Int32(x) ==
    LET y == x % (2 * FieldHalf) IN IF y < FieldHalf THEN y ELSE y - 2 * FieldHalf

fieldNum == Int32(acc \div 8)

wireType == acc % 8

-----------------------------------------------------------------------------
(* The loops that read a varint. *)

Begin(varint) ==
    /\ Goto(varint)
    /\ acc' = 0
    /\ weight' = 1

\* Index of the byte that is read next: skipTx gets the slice dAtA[preIndex:].
Position == IF pc \in SkipVarints THEN preIndex + skipIndex ELSE iNdEx

IntOverflow ==
    /\ pc \in Varints
    /\ weight >= Word
    /\ Reject
    /\ UNCHANGED <<root, input, frameVars, skipVars, varintVars, authority>>

UnexpectedEOF ==
    /\ pc \in Varints
    /\ weight < Word
    /\ Position >= Len(dAtA)
    /\ Reject
    /\ UNCHANGED <<root, input, frameVars, skipVars, varintVars, authority>>

\* Mutant: the bits that do not fit in a uint64 are kept.
ReadWideByte ==
    /\ pc \in Varints
    /\ weight < Word
    /\ Position < Len(dAtA)
    /\ LET b == dAtA[Position + 1]
       IN  /\ acc' = acc + (b % Base) * weight
           /\ Goto(IF b < Base THEN After(pc) ELSE pc)
    /\ weight' = weight * Base
    /\ IF pc \in SkipVarints
         THEN skipIndex' = skipIndex + 1 /\ UNCHANGED iNdEx
         ELSE iNdEx' = iNdEx + 1 /\ UNCHANGED skipIndex
    /\ UNCHANGED <<root, input, message, dAtA, preIndex, callers, depth, authority>>

ReadByte ==
    /\ pc \in Varints
    /\ weight < Word
    /\ Position < Len(dAtA)
    /\ LET b == dAtA[Position + 1]
       IN  /\ acc' = (acc + (b % Base) * weight) % Word
           /\ Goto(IF b < Base THEN After(pc) ELSE pc)
    /\ weight' = weight * Base
    /\ IF pc \in SkipVarints
         THEN skipIndex' = skipIndex + 1 /\ UNCHANGED iNdEx
         ELSE iNdEx' = iNdEx + 1 /\ UNCHANGED skipIndex
    /\ UNCHANGED <<root, input, message, dAtA, preIndex, callers, depth, authority>>

-----------------------------------------------------------------------------
(* Unmarshal. *)

\* for iNdEx < l: the next field.
NextField ==
    /\ pc = "loop"
    /\ iNdEx < Len(dAtA)
    /\ preIndex' = iNdEx
    /\ Begin("tag")
    /\ UNCHANGED <<root, input, message, dAtA, iNdEx, callers, skipVars, authority>>

\* The end of the buffer: the message is decoded, and its caller resumes.
Return ==
    /\ pc = "loop"
    /\ iNdEx >= Len(dAtA)
    /\ IF iNdEx > Len(dAtA) THEN Reject /\ UNCHANGED frameVars
       ELSE IF callers = << >> THEN Goto("done") /\ UNCHANGED frameVars
       ELSE LET caller == callers[Len(callers)]
            IN  /\ Goto("loop")
                /\ message' = caller.message
                /\ dAtA' = caller.dAtA
                /\ iNdEx' = caller.postIndex
                /\ callers' = SubSeq(callers, 1, Len(callers) - 1)
                /\ UNCHANGED preIndex
    /\ UNCHANGED <<root, input, skipVars, varintVars, authority>>

\* An end-group tag, a field number that is not positive, or a known field with
\* another wire type.
IllegalField ==
    /\ pc = "field"
    /\ \/ wireType = 4
       \/ fieldNum =< 0
       \/ fieldNum \in DOMAIN Schema[message] /\ wireType # 2
    /\ Reject
    /\ UNCHANGED <<root, input, frameVars, skipVars, varintVars, authority>>

KnownField ==
    /\ pc = "field"
    /\ wireType = 2
    /\ fieldNum > 0 /\ fieldNum \in DOMAIN Schema[message]
    /\ Begin(Schema[message][fieldNum])
    /\ UNCHANGED <<root, input, frameVars, skipVars, authority>>

\* Any other field goes to the skipping function, from its tag on.
UnknownField ==
    /\ pc = "field"
    /\ wireType # 4
    /\ fieldNum > 0 /\ fieldNum \notin DOMAIN Schema[message]
    /\ iNdEx' = preIndex
    /\ skipIndex' = 0
    /\ depth' = 0
    /\ Goto("skip")
    /\ UNCHANGED <<root, input, message, dAtA, preIndex, callers, varintVars, authority>>

length == Int64(acc)

postIndex == Int64(iNdEx + length)

\* Mutant: the end of the buffer is not compared.
NegativeOnly == length < 0 \/ postIndex < 0

\* A length that is negative or overflows the index, or more than the buffer has.
BadLength == length < 0 \/ postIndex < 0 \/ postIndex > Len(dAtA)

\* dAtA[iNdEx:postIndex] panics outside of the buffer.
InSlice == iNdEx =< postIndex /\ postIndex =< Len(dAtA)

RejectLength ==
    /\ pc \in {"takeString", "takeMessage"}
    /\ BadLength
    /\ Reject
    /\ UNCHANGED <<root, input, frameVars, skipVars, varintVars, authority>>

TakeString ==
    /\ pc = "takeString"
    /\ ~BadLength
    /\ IF InSlice
         THEN /\ Goto("loop")
              /\ authority' = SubSeq(dAtA, iNdEx + 1, postIndex)
              /\ iNdEx' = postIndex
         ELSE /\ Goto("panicked")
              /\ UNCHANGED <<authority, iNdEx>>
    /\ UNCHANGED <<root, input, message, dAtA, preIndex, callers, skipVars, varintVars>>

\* Mutant: iNdEx = postIndex is missing.
TakeMessageInPlace ==
    /\ pc = "takeMessage"
    /\ ~BadLength
    /\ IF InSlice
         THEN /\ Goto("loop")
              /\ callers' = Append(callers,
                              [message |-> message, dAtA |-> dAtA, postIndex |-> iNdEx])
              /\ message' = "Params"
              /\ dAtA' = SubSeq(dAtA, iNdEx + 1, postIndex)
              /\ iNdEx' = 0
              /\ UNCHANGED preIndex
         ELSE Goto("panicked") /\ UNCHANGED frameVars
    /\ UNCHANGED <<root, input, skipVars, varintVars, authority>>

\* m.Params.Unmarshal(dAtA[iNdEx:postIndex]).
TakeMessage ==
    /\ pc = "takeMessage"
    /\ ~BadLength
    /\ IF InSlice
         THEN /\ Goto("loop")
              /\ callers' = Append(callers,
                              [message |-> message, dAtA |-> dAtA, postIndex |-> postIndex])
              /\ message' = "Params"
              /\ dAtA' = SubSeq(dAtA, iNdEx + 1, postIndex)
              /\ iNdEx' = 0
              /\ UNCHANGED preIndex
         ELSE Goto("panicked") /\ UNCHANGED frameVars
    /\ UNCHANGED <<root, input, skipVars, varintVars, authority>>

-----------------------------------------------------------------------------
(* skipTx, and its copies skipQuery, skipGenesis, skipModule and skipParams. *)

SkipNext ==
    /\ pc = "skip"
    /\ preIndex + skipIndex < Len(dAtA)
    /\ Begin("skipTag")
    /\ UNCHANGED <<root, input, frameVars, skipVars, authority>>

\* Mutant: the loop goes on at the end of the buffer.
SkipAgain ==
    /\ pc = "skip"
    /\ preIndex + skipIndex >= Len(dAtA)
    /\ UNCHANGED vars

SkipEOF ==
    /\ pc = "skip"
    /\ preIndex + skipIndex >= Len(dAtA)
    /\ Reject
    /\ UNCHANGED <<root, input, frameVars, skipVars, varintVars, authority>>

SkipFixed ==
    /\ pc = "skipField"
    /\ wireType \in {1, 5}
    /\ skipIndex' = Int64(skipIndex + (IF wireType = 1 THEN Fixed64 ELSE Fixed32))
    /\ Goto("skipped")
    /\ UNCHANGED <<root, input, frameVars, depth, varintVars, authority>>

SkipVarintOrBytes ==
    /\ pc = "skipField"
    /\ wireType \in {0, 2}
    /\ Begin(IF wireType = 0 THEN "skipVarint" ELSE "skipLength")
    /\ UNCHANGED <<root, input, frameVars, skipVars, authority>>

SkipBytes ==
    /\ pc = "skipBytes"
    /\ IF length < 0
         THEN Reject /\ UNCHANGED skipIndex
         ELSE Goto("skipped") /\ skipIndex' = Int64(skipIndex + length)
    /\ UNCHANGED <<root, input, frameVars, depth, varintVars, authority>>

StartGroup ==
    /\ pc = "skipField"
    /\ wireType = 3
    /\ depth' = depth + 1
    /\ Goto("skipped")
    /\ UNCHANGED <<root, input, frameVars, skipIndex, varintVars, authority>>

EndGroup ==
    /\ pc = "skipField"
    /\ wireType = 4
    /\ IF depth = 0
         THEN Reject /\ UNCHANGED depth
         ELSE Goto("skipped") /\ depth' = depth - 1
    /\ UNCHANGED <<root, input, frameVars, skipIndex, varintVars, authority>>

IllegalWireType ==
    /\ pc = "skipField"
    /\ wireType > 5
    /\ Reject
    /\ UNCHANGED <<root, input, frameVars, skipVars, varintVars, authority>>

\* Mutant: the first end of a group ends the field.
SkippedInnermost ==
    /\ pc = "skipped"
    /\ IF skipIndex < 0
         THEN Reject /\ UNCHANGED iNdEx
         ELSE IF depth > 1 THEN Goto("skip") /\ UNCHANGED iNdEx
         ELSE IF Int64(iNdEx + skipIndex) < 0 \/ iNdEx + skipIndex > Len(dAtA)
         THEN Reject /\ UNCHANGED iNdEx
         ELSE Goto("loop") /\ iNdEx' = iNdEx + skipIndex
    /\ UNCHANGED <<root, input, message, dAtA, preIndex, callers, skipVars,
                   varintVars, authority>>

\* Outside of all groups skipTx returns skippy, and Unmarshal checks it again.
Skipped ==
    /\ pc = "skipped"
    /\ IF skipIndex < 0
         THEN Reject /\ UNCHANGED iNdEx
         ELSE IF depth > 0 THEN Goto("skip") /\ UNCHANGED iNdEx
         ELSE IF Int64(iNdEx + skipIndex) < 0 \/ iNdEx + skipIndex > Len(dAtA)
         THEN Reject /\ UNCHANGED iNdEx
         ELSE Goto("loop") /\ iNdEx' = iNdEx + skipIndex
    /\ UNCHANGED <<root, input, message, dAtA, preIndex, callers, skipVars,
                   varintVars, authority>>

-----------------------------------------------------------------------------
Init ==
    /\ root \in Messages
    /\ input \in Inputs
    /\ message = root
    /\ dAtA = input
    /\ iNdEx = 0
    /\ preIndex = 0
    /\ callers = << >>
    /\ skipIndex = 0
    /\ depth = 0
    /\ acc = 0
    /\ weight = 1
    /\ pc = "loop"
    /\ authority = << >>

Next ==
    \/ IntOverflow \/ UnexpectedEOF \/ ReadByte
    \/ NextField \/ Return
    \/ IllegalField \/ KnownField \/ UnknownField
    \/ RejectLength \/ TakeString \/ TakeMessage
    \/ SkipNext \/ SkipEOF
    \/ SkipFixed \/ SkipVarintOrBytes \/ SkipBytes
    \/ StartGroup \/ EndGroup \/ IllegalWireType
    \/ Skipped

Spec == Init /\ [][Next]_vars

\* Unmarshal is a function call: it keeps executing.
FairSpec == Spec /\ WF_vars(Next)

-----------------------------------------------------------------------------
(* Size, Marshal and MarshalToSizedBuffer. *)

\* The weight of the n-th group of a varint.
Pow[n \in Nat] == IF n = 0 THEN 1 ELSE Base * Pow[n - 1]

\* Mutant: a length of 2^7 is written in one byte.
SovShort(x) == CHOOSE n \in 1 .. Half : x =< Pow[n] /\ \A k \in 1 .. (n - 1) : x > Pow[k]

\* sovTx: the groups of a varint.
Sov(x) == CHOOSE n \in 1 .. Half : x < Pow[n] /\ \A k \in 1 .. (n - 1) : x >= Pow[k]

EncodeVarint(v) ==
    [k \in 1 .. Sov(v) |->
        ((v \div Pow[k - 1]) % Base) + (IF k < Sov(v) THEN Base ELSE 0)]

\* A field of wire type 2, as it is written from the back of the buffer.
Field(num, bytes) == <<8 * num + 2>> \o EncodeVarint(Len(bytes)) \o bytes

\* Params and the messages without fields are empty; an embedded Params is written
\* even so, a string only if it is not empty.
AuthorityField(num, a) == IF a = << >> THEN << >> ELSE Field(num, a)

Content(type, a) ==
    CASE type = "MsgUpdateParams" -> AuthorityField(1, a) \o Field(2, << >>)
      [] type = "Module" -> AuthorityField(1, a)
      [] type \in {"QueryParamsResponse", "GenesisState"} -> Field(1, << >>)
      [] OTHER -> << >>

SizeOfString(a) == IF a = << >> THEN 0 ELSE 1 + Len(a) + Sov(Len(a))

Size(type, a) ==
    CASE type = "MsgUpdateParams" -> SizeOfString(a) + 1 + Sov(0)
      [] type = "Module" -> SizeOfString(a)
      [] type \in {"QueryParamsResponse", "GenesisState"} -> 1 + Sov(0)
      [] OTHER -> 0

\* Marshal allocates Size bytes, fills them from the back, and returns as many from
\* the front: a wrong size would shift the content or not hold it.
Marshal(type, a) ==
    LET size == Size(type, a)
        content == Content(type, a)
        gap == size - Len(content)
    IN  [i \in 1 .. Len(content) |-> IF i > gap THEN content[i - gap] ELSE 0]

-----------------------------------------------------------------------------
(* What the decoder promises. *)

Frames == [message : DOMAIN Schema, dAtA : Seq(Bytes), postIndex : Nat]

\* Types of all variables: accumulators fit in 64 bits, indices and depth are never
\* negative, lengths of buffers are below 2^63.
TypeOK ==
    /\ root \in DOMAIN Schema /\ message \in DOMAIN Schema
    /\ input \in Seq(Bytes) /\ dAtA \in Seq(Bytes)
    /\ Len(dAtA) < Half
    /\ iNdEx \in Nat /\ preIndex \in Nat
    /\ callers \in Seq(Frames)
    /\ skipIndex \in Int
    /\ depth \in Nat
    /\ acc \in 0 .. (Word - 1)
    /\ weight \in Nat \ {0}
    /\ pc \in {"loop", "field", "takeString", "takeMessage", "skip", "skipField",
               "skipBytes", "skipped"} \cup Varints \cup Ends
    /\ authority \in Seq(Bytes)

\* No input, however long its lengths and varints claim to be, makes the decoder
\* index or slice outside of a buffer, and every index stays inside the buffer it
\* belongs to, in embedded messages and in the callers that wait for them.
InBounds ==
    /\ pc # "panicked"
    /\ iNdEx =< Len(dAtA)
    /\ \A i \in 1 .. Len(callers) : callers[i].postIndex =< Len(callers[i].dAtA)

HasAuthority(type) == "string" \in {Schema[type][num] : num \in DOMAIN Schema[type]}

\* What Marshal writes for a message, Unmarshal reads back.
RoundTrip ==
    pc \in Ends =>
        \A a \in (IF HasAuthority(root) THEN Authorities ELSE {<< >>}) :
            input = Marshal(root, a) => pc = "done" /\ authority = a

\* Every call of Unmarshal returns, also for groups and lengths that wrap around:
\* each turn of each loop moves an index forward.
DecodeEnds == <>(pc \in Ends)

Skipping == {"skip", "skipTag", "skipField", "skipVarint", "skipLength", "skipBytes", "skipped"}

\* What is left from the current field on, in this buffer and in its caller's.
Remaining ==
    Len(dAtA) - (IF pc = "loop" THEN iNdEx ELSE preIndex)
        + (IF callers = << >> THEN 0 ELSE Len(callers[1].dAtA) - callers[1].postIndex)

\* An index that has wrapped around is behind every buffer.
Index == IF pc \notin Skipping THEN iNdEx
         ELSE IF skipIndex < 0 THEN Word ELSE preIndex + skipIndex

StepsWithoutByte ==
    CASE pc \in {"skipField", "skipBytes"} -> 3
      [] pc = "skipped" -> 2
      [] pc \in {"loop", "field", "skip"} -> 1
      [] OTHER -> 0

Variant == <<Remaining, Len(callers), IF pc \in Skipping THEN 0 ELSE 1, Word - Index,
             StepsWithoutByte>>

Smaller(s, t) ==
    \E i \in DOMAIN t : s[i] \in 0 .. (t[i] - 1) /\ \A j \in 1 .. (i - 1) : s[j] = t[j]

\* Every step of Unmarshal and skipTx that does not end the call comes closer to its
\* end: it consumes a field, returns to the caller, moves an index forward, or is one
\* of the few steps before it does.  A varint cut short, an embedded message, a group
\* that is never closed or a length that wraps around cannot send it back.
DecodeAdvances == [][pc' \in Ends \/ Smaller(Variant', Variant)]_vars
=============================================================================
