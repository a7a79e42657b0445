--------------------------- MODULE ProtoWireProofs ---------------------------
(***************************************************************************)
(* The decoder is safe for every buffer, schema-conforming message and     *)
(* machine width, and it finds the meaning of the buffer.                  *)
(*                                                                         *)
(* InBounds is not inductive: that a slice stays in its buffer rests on    *)
(* the index before it, on lengths below Half (so that a sum that wraps    *)
(* around is negative and is refused), and in the skipping function on     *)
(* iNdEx having been set back to the field's tag.  Inv adds these facts.   *)
(*                                                                         *)
(* DecodesMeaning speaks of the end of a call.  MeaningInv says before it  *)
(* that what is still to be done means, to the reference of ProtoFormat,   *)
(* what the whole buffer means; RoundTrip follows, as the reference reads  *)
(* in what Marshal writes the message it was written for.                  *)
(*                                                                         *)
(* ProgressInv, beside both, gives the variant that falls in every step.   *)
(***************************************************************************)
EXTENDS ProtoFormat, SumProofs, SequenceTheorems

\* The tag of the current field lies before iNdEx; skipTx works on dAtA[preIndex:].
TagBehind ==
    /\ pc \in {"tag", "field"} => preIndex =< iNdEx
    /\ pc \in Skipping => iNdEx = preIndex
    /\ pc \in Skipping \ {"skipped"} => skipIndex >= 0

CallersShort == \A i \in 1 .. Len(callers) : Len(callers[i].dAtA) < Half

Inv == TypeOK /\ InBounds /\ TagBehind /\ CallersShort

-----------------------------------------------------------------------------
(* Arithmetic. *)

LEMMA WidthTypes == Base \in Nat \ {0, 1} /\ Half \in Nat \ {0} /\ FieldHalf \in Nat \ {0} /\ Word \in Nat \ {0}
BY WireAssumption DEF Word

LEMMA ModRange == ASSUME NEW x \in Int, NEW w \in Nat \ {0} PROVE x % w \in 0 .. (w - 1)
BY SMT

LEMMA ModSmall == ASSUME NEW w \in Nat \ {0}, NEW x \in 0 .. (w - 1) PROVE x % w = x
BY SMT

LEMMA ProductPositive == ASSUME NEW a \in Nat \ {0}, NEW b \in Nat \ {0} PROVE a * b \in Nat \ {0}
BY SMT

LEMMA DivMod ==
    ASSUME NEW x \in Int, NEW w \in Nat, w > 0
    PROVE  x = w * (x \div w) + (x % w) /\ x % w \in 0 .. (w - 1) /\ x \div w \in Int
<1>1. x \div w \in Int
  BY SMT
<1>2. x % w \in 0 .. (w - 1)
  BY SMT
<1>3. x = w * (x \div w) + (x % w)
  BY Z3
<1> QED
  BY <1>1, <1>2, <1>3

LEMMA MultiplesApart ==
    ASSUME NEW a \in Int, NEW b \in Int, NEW w \in Nat, w > 0, a < b
    PROVE  w * a + w =< w * b
<1>1. w * b - w * a = w * (b - a)
  BY SMT
<1>2. w * (b - a) >= w
  BY SMT
<1> QED
  BY <1>1, <1>2

\* Quotient and remainder are unique.
LEMMA DivUnique ==
    ASSUME NEW q \in Int, NEW w \in Nat, w > 0, NEW r \in 0 .. (w - 1)
    PROVE  (w * q + r) % w = r /\ (w * q + r) \div w = q
<1> DEFINE x == w * q + r
<1>1. x \in Int /\ x = w * q + r
  OBVIOUS
<1> HIDE DEF x
<1>2. x = w * (x \div w) + (x % w) /\ x % w \in 0 .. (w - 1) /\ x \div w \in Int
  BY <1>1, DivMod
<1>3. w * q \in Int /\ w * (x \div w) \in Int
  BY <1>2
<1>4. ~(q < x \div w)
  <2> SUFFICES ASSUME q < x \div w PROVE FALSE
    OBVIOUS
  <2>1. w * q + w =< w * (x \div w)
    BY <1>2, MultiplesApart
  <2> QED
    BY <1>1, <1>2, <1>3, <2>1
<1>5. ~(x \div w < q)
  <2> SUFFICES ASSUME x \div w < q PROVE FALSE
    OBVIOUS
  <2>1. w * (x \div w) + w =< w * q
    BY <1>2, MultiplesApart
  <2> QED
    BY <1>1, <1>2, <1>3, <2>1
<1>6. x \div w = q
  BY <1>2, <1>4, <1>5
<1>7. x % w = r
  BY <1>1, <1>2, <1>6
<1> QED
  BY <1>6, <1>7 DEF x

\* A sum wraps around as often as its parts do.
LEMMA ModAdd ==
    ASSUME NEW x \in Int, NEW d \in Int, NEW w \in Nat, w > 0
    PROVE  ((x % w) + d) % w = (x + d) % w
<1>1. PICK q \in Int, m \in 0 .. (w - 1) : x = w * q + m /\ m = x % w
  BY DivMod
<1>2. m + d \in Int
  OBVIOUS
<1>3. PICK p \in Int, r \in 0 .. (w - 1) : m + d = w * p + r /\ r = (m + d) % w
  BY <1>2, DivMod
<1>4. x + d = w * (q + p) + r
  <2>1. w * (q + p) = w * q + w * p
    BY SMT
  <2>2. w * q \in Int /\ w * p \in Int
    OBVIOUS
  <2> QED
    BY <1>1, <1>3, <2>1, <2>2
<1> DEFINE c == q + p
<1>5. c \in Int /\ x + d = w * c + r
  BY <1>4
<1> HIDE DEF c
<1>6. (w * c + r) % w = r
  BY <1>5, DivUnique
<1>7. (x + d) % w = r
  BY <1>5, <1>6
<1>8. (m + d) % w = r
  BY <1>3
<1> QED
  BY <1>1, <1>7, <1>8

LEMMA Int64Type == ASSUME NEW x \in Int PROVE Int64(x) \in Int /\ Int64(x) >= -Half /\ Int64(x) < Half
<1>1. x % Word \in 0 .. (Word - 1)
  BY WidthTypes, ModRange
<1> QED
  BY <1>1, WidthTypes DEF Int64, Word

\* Two lengths below 2^63 whose sum is not negative as an int did not overflow.
LEMMA NoWrap ==
    ASSUME NEW x \in 0 .. (Half - 1), NEW y \in 0 .. (Half - 1), Int64(x + y) >= 0
    PROVE  Int64(x + y) = x + y
<1>1. x + y \in 0 .. (Word - 1)
  BY WidthTypes DEF Word
<1>2. (x + y) % Word = x + y
  BY <1>1, WidthTypes, ModSmall
<1> QED
  BY <1>1, <1>2, WidthTypes DEF Int64, Word

-----------------------------------------------------------------------------
(* The schema. *)

LEMMA SchemaDomain ==
    DOMAIN Schema = {"MsgUpdateParams", "MsgUpdateParamsResponse", "Params", "QueryParamsRequest",
                     "QueryParamsResponse", "GenesisState", "Module"}
BY DEF Schema

LEMMA FieldKinds ==
    ASSUME NEW m \in DOMAIN Schema, NEW n \in DOMAIN Schema[m]
    PROVE  Schema[m][n] \in {"string", "message"}
BY SchemaDomain DEF Schema, NoFields, MsgUpdateParams, MsgUpdateParamsResponse, Params,
   QueryParamsRequest, QueryParamsResponse, GenesisState, Module

-----------------------------------------------------------------------------
(* The invariant. *)

LEMMA InitInv == Init => Inv
<1> SUFFICES ASSUME Init PROVE Inv
  OBVIOUS
<1>1. input \in Seq(Bytes) /\ Len(input) < Half /\ root \in DOMAIN Schema
  BY WireAssumption, LengthAssumption, MessageAssumption DEF Init
<1>2. << >> \in Seq(Frames) /\ << >> \in Seq(Bytes) /\ Len(<< >>) = 0
  OBVIOUS
<1>3. TypeOK
  BY <1>1, <1>2, WidthTypes DEF Init, TypeOK, Word
<1> QED
  BY <1>1, <1>2, <1>3 DEF Init, Inv, InBounds, TagBehind, CallersShort, Skipping, Varints

\* Steps that leave buffers and indices alone keep Inv, if the next label does.
LEMMA QuietStep ==
    ASSUME Inv, UNCHANGED <<root, input, frameVars, authority>>,
           acc' \in 0 .. (Word - 1), weight' \in Nat \ {0}, skipIndex' \in Int, depth' \in Nat,
           pc' \in {"loop", "field", "takeString", "takeMessage", "skip", "skipField",
                    "skipBytes", "skipped"} \cup Varints \cup Ends,
           pc' # "panicked", TagBehind'
    PROVE  Inv'
<1>1. TypeOK'
  BY DEF Inv, TypeOK, frameVars
<1> QED
  BY <1>1 DEF Inv, InBounds, CallersShort, frameVars

LEMMA RejectStep ==
    ASSUME Inv, Reject, UNCHANGED <<root, input, frameVars, skipVars, varintVars, authority>>
    PROVE  Inv'
<1>1. TagBehind'
  BY DEF Reject, Goto, TagBehind, Skipping
<1> QED
  BY <1>1, QuietStep DEF Reject, Goto, Ends, skipVars, varintVars, Inv, TypeOK

\* The byte that a loop reads is in its buffer.
LEMMA ReadByteStep == ASSUME Inv, ReadByte PROVE Inv'
<1> DEFINE b == dAtA[Position + 1]
<1>1. Position + 1 \in 1 .. Len(dAtA)
  BY DEF ReadByte, Position, Inv, TypeOK, TagBehind, Skipping, SkipVarints
<1>2. b \in Nat
  BY <1>1, WidthTypes DEF Inv, TypeOK, Bytes
<1>3. b % Base \in Nat
  BY <1>2, WidthTypes, ModRange
<1>4. (b % Base) * weight \in Nat
  BY <1>3 DEF Inv, TypeOK
<1>5. acc' \in 0 .. (Word - 1)
  <2>1. acc + (b % Base) * weight \in Nat
    BY <1>4, WidthTypes DEF Inv, TypeOK
  <2>2. acc' = (acc + (b % Base) * weight) % Word
    BY DEF ReadByte
  <2> DEFINE sum == acc + (b % Base) * weight
  <2>3. sum \in Int /\ acc' = sum % Word
    BY <2>1, <2>2
  <2> HIDE DEF sum
  <2> QED
    BY <2>3, WidthTypes, ModRange
<1>6. weight' \in Nat \ {0}
  BY WidthTypes, ProductPositive DEF ReadByte, Inv, TypeOK
<1>7. pc' \in {"loop", "field", "takeString", "takeMessage", "skip", "skipField",
                "skipBytes", "skipped"} \cup Varints
  BY DEF ReadByte, Goto, After, Varints
<1>8. CASE pc \in SkipVarints
  <2>1. TagBehind'
    BY <1>8 DEF ReadByte, Goto, After, Inv, TypeOK, TagBehind, Skipping, SkipVarints
  <2> QED
    BY <1>5, <1>6, <1>7, <1>8, <2>1, QuietStep
    DEF ReadByte, frameVars, Inv, TypeOK, Varints, SkipVarints, Ends
<1>9. CASE pc \notin SkipVarints
  <2>1. iNdEx' = iNdEx + 1 /\ iNdEx < Len(dAtA)
    BY <1>9 DEF ReadByte, Position, Inv, TypeOK
  <2>2. TypeOK'
    BY <1>5, <1>6, <1>7, <1>9, <2>1 DEF ReadByte, Inv, TypeOK
  <2>3. InBounds'
    BY <1>7, <2>1 DEF ReadByte, Inv, TypeOK, InBounds, Varints
  <2>4. TagBehind'
    BY <1>9, <2>1
    DEF ReadByte, Goto, After, Inv, TypeOK, TagBehind, Skipping, SkipVarints, Varints
  <2> QED
    BY <2>2, <2>3, <2>4 DEF ReadByte, Inv, CallersShort
<1> QED
  BY <1>8, <1>9

LEMMA NextFieldStep == ASSUME Inv, NextField PROVE Inv'
<1>1. TypeOK'
  BY WidthTypes DEF NextField, Begin, Goto, Inv, TypeOK, Varints, frameVars, skipVars, Word
<1> QED
  BY <1>1 DEF NextField, Begin, Goto, Inv, TypeOK, InBounds, TagBehind, Skipping, CallersShort, skipVars

\* The index a caller resumes at is one of its own buffer.
LEMMA ReturnStep == ASSUME Inv, Return PROVE Inv'
<1>1. CASE callers = << >>
  <2>1. TagBehind'
    BY <1>1 DEF Return, Reject, Goto, Inv, TypeOK, TagBehind, Skipping
  <2>2. UNCHANGED frameVars
    BY <1>1 DEF Return, Inv, InBounds, TypeOK
  <2> QED
    BY <1>1, <2>1, <2>2, QuietStep
    DEF Return, Reject, Goto, Inv, TypeOK, InBounds, skipVars, varintVars, Ends
<1>2. CASE callers # << >>
  <2>1. Len(callers) \in 1 .. Len(callers) /\ callers[Len(callers)] \in Frames
    BY <1>2 DEF Inv, TypeOK
  <2>2. /\ Goto("loop")
        /\ message' = callers[Len(callers)].message
        /\ dAtA' = callers[Len(callers)].dAtA
        /\ iNdEx' = callers[Len(callers)].postIndex
        /\ callers' = SubSeq(callers, 1, Len(callers) - 1)
        /\ UNCHANGED <<preIndex, root, input, skipVars, varintVars, authority>>
    BY <1>2 DEF Return, Inv, InBounds, TypeOK
  <2>3. callers' \in Seq(Frames) /\ Len(callers') = Len(callers) - 1
        /\ \A i \in 1 .. Len(callers') : callers'[i] = callers[i]
    <3>1. callers \in Seq(Frames) /\ Len(callers) - 1 \in Nat /\ Len(callers) \in Nat
      BY <2>1 DEF Inv, TypeOK
    <3>2. \A i \in 1 .. (Len(callers) - 1) : callers[i] \in Frames
      BY <3>1
    <3> DEFINE n == Len(callers) - 1
    <3>3. n \in Nat /\ callers' = SubSeq(callers, 1, n)
      BY <2>2, <3>1
    <3> HIDE DEF n
    <3>4. /\ callers' \in Seq(Frames)
          /\ Len(callers') = IF 1 =< n THEN n - 1 + 1 ELSE 0
          /\ \A i \in 1 .. (n - 1 + 1) : callers'[i] = callers[1 + i - 1]
      BY <3>2, <3>3, SubSeqProperties DEF n
    <3>5. Len(callers') = n /\ \A i \in 1 .. n : callers'[i] = callers[1 + i - 1]
      BY <3>3, <3>4
    <3>6. \A i \in 1 .. n : callers'[i] = callers[i]
      BY <3>3, <3>5
    <3> QED
      BY <3>4, <3>5, <3>6 DEF n
  <2>4. TypeOK'
    BY <2>1, <2>2, <2>3 DEF Goto, Inv, TypeOK, CallersShort, Frames, skipVars, varintVars
  <2>5. callers[Len(callers)].postIndex =< Len(callers[Len(callers)].dAtA)
    BY <2>1 DEF Inv, InBounds
  <2>6. \A i \in 1 .. Len(callers') : i \in 1 .. Len(callers)
    BY <2>1, <2>3
  <2>7. InBounds' /\ CallersShort'
    BY <2>2, <2>3, <2>5, <2>6 DEF Goto, Inv, InBounds, CallersShort
  <2>8. TagBehind'
    BY <2>2 DEF Goto, TagBehind, Skipping
  <2> QED
    BY <2>4, <2>7, <2>8 DEF Inv
<1> QED
  BY <1>1, <1>2

LEMMA KnownFieldStep == ASSUME Inv, KnownField PROVE Inv'
<1>1. pc' \in {"string", "message"}
  BY FieldKinds DEF KnownField, Begin, Goto, Inv, TypeOK
<1>2. TagBehind'
  BY <1>1 DEF TagBehind, Skipping
<1> QED
  BY <1>1, <1>2, QuietStep, WidthTypes
  DEF KnownField, Begin, skipVars, Inv, TypeOK, Varints, Word

LEMMA UnknownFieldStep == ASSUME Inv, UnknownField PROVE Inv'
<1>1. TypeOK'
  BY DEF UnknownField, Goto, Inv, TypeOK, varintVars
<1> QED
  BY <1>1
  DEF UnknownField, Goto, Inv, TypeOK, InBounds, TagBehind, Skipping, CallersShort

-----------------------------------------------------------------------------
(* Lengths. *)

\* A length that is not refused ends inside the buffer, at or after iNdEx.
LEMMA LengthInSlice ==
    ASSUME Inv, ~BadLength
    PROVE  InSlice /\ postIndex \in Nat /\ length \in Nat
<1>1. length \in Int /\ length < Half /\ acc \in Int
  BY Int64Type DEF length, Inv, TypeOK
<1>2. length \in 0 .. (Half - 1) /\ iNdEx \in 0 .. (Half - 1)
  BY <1>1, WidthTypes DEF BadLength, Inv, TypeOK, InBounds
<1>3. Int64(iNdEx + length) \in Int
  BY <1>2, Int64Type, WidthTypes
<1>4. Int64(iNdEx + length) >= 0
  BY <1>3 DEF BadLength, postIndex
<1>5. postIndex = iNdEx + length
  BY <1>2, <1>4, NoWrap DEF postIndex
<1> QED
  BY <1>1, <1>2, <1>5, WidthTypes DEF InSlice, BadLength, Inv, TypeOK

LEMMA TakeStringStep == ASSUME Inv, TakeString PROVE Inv'
<1>1. InSlice /\ postIndex \in Nat /\ ~BadLength
  BY LengthInSlice DEF TakeString
<1>2. authority' = SubSeq(dAtA, iNdEx + 1, postIndex) /\ iNdEx' = postIndex /\ pc' = "loop"
  BY <1>1 DEF TakeString, Goto
<1>3. authority' \in Seq(Bytes)
  BY <1>1, <1>2 DEF InSlice, Inv, TypeOK
<1>4. TypeOK'
  BY <1>1, <1>2, <1>3 DEF TakeString, Inv, TypeOK, skipVars, varintVars
<1> QED
  BY <1>1, <1>2, <1>4
  DEF TakeString, InSlice, Inv, InBounds, TagBehind, Skipping, CallersShort

LEMMA TakeMessageStep == ASSUME Inv, TakeMessage PROVE Inv'
<1> DEFINE caller == [message |-> message, dAtA |-> dAtA, postIndex |-> postIndex]
<1>1. InSlice /\ postIndex \in Nat
  BY LengthInSlice DEF TakeMessage
<1>2. /\ callers' = Append(callers, caller) /\ message' = "Params"
      /\ dAtA' = SubSeq(dAtA, iNdEx + 1, postIndex) /\ iNdEx' = 0
      /\ pc' = "loop" /\ UNCHANGED <<preIndex, root, input, skipVars, varintVars, authority>>
  BY <1>1 DEF TakeMessage, Goto
<1>3. caller \in Frames
  BY <1>1 DEF Frames, Inv, TypeOK
<1>4. callers' \in Seq(Frames) /\ Len(callers') = Len(callers) + 1
      /\ callers'[Len(callers')] = caller
      /\ \A i \in 1 .. Len(callers) : callers'[i] = callers[i]
  BY <1>2, <1>3 DEF Inv, TypeOK
<1>5. dAtA' \in Seq(Bytes) /\ Len(dAtA') =< Len(dAtA) /\ Len(dAtA') \in Nat
  BY <1>1, <1>2 DEF InSlice, Inv, TypeOK
<1>6. TypeOK'
  BY <1>2, <1>4, <1>5, SchemaDomain, WidthTypes DEF Inv, TypeOK, skipVars, varintVars
<1>7. \A i \in 1 .. Len(callers') : callers'[i].postIndex =< Len(callers'[i].dAtA)
                                   /\ Len(callers'[i].dAtA) < Half
  <2> SUFFICES ASSUME NEW i \in 1 .. Len(callers')
               PROVE  callers'[i].postIndex =< Len(callers'[i].dAtA) /\ Len(callers'[i].dAtA) < Half
    OBVIOUS
  <2>1. CASE i = Len(callers')
    BY <1>1, <1>4, <2>1 DEF InSlice, Inv, TypeOK
  <2>2. CASE i # Len(callers')
    <3>1. i \in 1 .. Len(callers) /\ callers'[i] = callers[i]
      <4>1. Len(callers) \in Nat
        BY DEF Inv, TypeOK
      <4> QED
        BY <1>4, <2>2, <4>1
    <3>2. callers[i].postIndex =< Len(callers[i].dAtA) /\ Len(callers[i].dAtA) < Half
      BY <3>1 DEF Inv, InBounds, CallersShort
    <3> QED
      BY <3>1, <3>2
  <2> QED
    BY <2>1, <2>2
<1> QED
  BY <1>2, <1>5, <1>6, <1>7 DEF Inv, InBounds, TagBehind, Skipping, CallersShort

-----------------------------------------------------------------------------
(* The skipping function. *)

LEMMA SkipNextStep == ASSUME Inv, SkipNext PROVE Inv'
<1>1. TagBehind'
  BY DEF SkipNext, Begin, Goto, frameVars, skipVars, Inv, TagBehind, Skipping
<1> QED
  BY <1>1, QuietStep, WidthTypes
  DEF SkipNext, Begin, Goto, skipVars, Inv, TypeOK, Varints, Word

LEMMA SkipFixedStep == ASSUME Inv, SkipFixed PROVE Inv'
<1>1. skipIndex + Fixed64 \in Int /\ skipIndex + Fixed32 \in Int
  BY WireAssumption DEF Inv, TypeOK
<1>2. skipIndex' \in Int
  BY <1>1, Int64Type DEF SkipFixed
<1>3. TagBehind'
  BY DEF SkipFixed, Goto, frameVars, Inv, TagBehind, Skipping
<1> QED
  BY <1>2, <1>3, QuietStep DEF SkipFixed, Goto, varintVars, Inv, TypeOK

LEMMA SkipVarintOrBytesStep == ASSUME Inv, SkipVarintOrBytes PROVE Inv'
<1>1. TagBehind'
  BY DEF SkipVarintOrBytes, Begin, Goto, frameVars, skipVars, Inv, TagBehind, Skipping
<1> QED
  BY <1>1, QuietStep, WidthTypes
  DEF SkipVarintOrBytes, Begin, Goto, skipVars, Inv, TypeOK, Varints, Word

LEMMA SkipBytesStep == ASSUME Inv, SkipBytes PROVE Inv'
<1>1. acc \in Int
  BY DEF Inv, TypeOK
<1>2. length \in Int
  BY <1>1, Int64Type DEF length
<1>3. skipIndex \in Int /\ skipIndex + length \in Int
  BY <1>2 DEF Inv, TypeOK
<1>4. skipIndex' \in Int
  BY <1>3, Int64Type DEF SkipBytes
<1>5. TagBehind'
  BY DEF SkipBytes, Reject, Goto, frameVars, Inv, TagBehind, Skipping
<1> QED
  BY <1>4, <1>5, QuietStep DEF SkipBytes, Reject, Goto, varintVars, Inv, TypeOK, Ends

LEMMA GroupStep == ASSUME Inv, StartGroup \/ EndGroup PROVE Inv'
<1>1. depth' \in Nat
  BY DEF StartGroup, EndGroup, Inv, TypeOK
<1>2. TagBehind'
  BY DEF StartGroup, EndGroup, Reject, Goto, frameVars, Inv, TagBehind, Skipping
<1> QED
  BY <1>1, <1>2, QuietStep
  DEF StartGroup, EndGroup, Reject, Goto, varintVars, Inv, TypeOK, Ends

\* iNdEx + skippy is not negative as an int and not behind the buffer.
LEMMA SkippedStep == ASSUME Inv, Skipped PROVE Inv'
<1>1. CASE pc' \in {"skip", "rejected"}
  <2>1. UNCHANGED <<root, input, frameVars, skipVars, varintVars, authority>>
    BY <1>1 DEF Skipped, Reject, Goto, frameVars, skipVars, varintVars
  <2>2. TagBehind'
    BY <1>1, <2>1 DEF Skipped, Reject, Goto, frameVars, skipVars, Inv, TypeOK, TagBehind, Skipping
  <2> QED
    BY <1>1, <2>1, <2>2, QuietStep DEF skipVars, varintVars, Inv, TypeOK, Ends
<1>2. CASE pc' \notin {"skip", "rejected"}
  <2>1. pc' = "loop" /\ iNdEx' = iNdEx + skipIndex /\ skipIndex >= 0 /\ iNdEx' =< Len(dAtA)
    BY <1>2 DEF Skipped, Reject, Goto, Inv, TypeOK
  <2>2. TypeOK'
    BY <2>1 DEF Skipped, Inv, TypeOK, skipVars, varintVars
  <2> QED
    BY <2>1, <2>2 DEF Skipped, Inv, InBounds, TagBehind, Skipping, CallersShort
<1> QED
  BY <1>1, <1>2

-----------------------------------------------------------------------------
(* Every step. *)

LEMMA StepInv == ASSUME Inv, [Next]_vars PROVE Inv'
<1>1. CASE IntOverflow \/ UnexpectedEOF \/ IllegalField \/ RejectLength \/ SkipEOF \/ IllegalWireType
  BY <1>1, RejectStep
  DEF IntOverflow, UnexpectedEOF, IllegalField, RejectLength, SkipEOF, IllegalWireType
<1>2. CASE UNCHANGED vars
  <2>1. TagBehind'
    BY <1>2 DEF vars, frameVars, skipVars, Inv, TagBehind
  <2> QED
    BY <1>2, <2>1, QuietStep DEF vars, skipVars, varintVars, Inv, TypeOK, InBounds
<1> QED
  BY <1>1, <1>2, ReadByteStep, NextFieldStep, ReturnStep, KnownFieldStep, UnknownFieldStep,
     TakeStringStep, TakeMessageStep, SkipNextStep, SkipFixedStep, SkipVarintOrBytesStep,
     SkipBytesStep, GroupStep, SkippedStep
  DEF Next

-----------------------------------------------------------------------------
\* For every buffer, message and width of the machine's integers the variables of the
\* decoder keep their types: no index or depth of Unmarshal and skipTx is ever negative.
THEOREM TypeCorrect == Spec => []TypeOK
<1>1. Inv => TypeOK
  BY DEF Inv
<1> QED
  BY <1>1, InitInv, StepInv, PTL DEF Spec

\* For every buffer Unmarshal and skipTx neither index nor slice outside of it: a
\* length or a sum of lengths that overflows int is refused before it is used.
THEOREM DecoderStaysInBounds == Spec => []InBounds
<1>1. Inv => InBounds
  BY DEF Inv
<1> QED
  BY <1>1, InitInv, StepInv, PTL DEF Spec

-----------------------------------------------------------------------------
(* What is left of a buffer. *)

From(s, i) == SubSeq(s, i + 1, Len(s))

LEMMA FromProperties ==
    ASSUME NEW s \in Seq(Bytes), NEW i \in 0 .. Len(s)
    PROVE  /\ From(s, i) \in Seq(Bytes)
           /\ Len(From(s, i)) = Len(s) - i
           /\ \A j \in 1 .. (Len(s) - i) : From(s, i)[j] = s[i + j]
<1>1. Len(s) \in Nat /\ i \in Nat /\ \A j \in (i + 1) .. Len(s) : s[j] \in Bytes
  OBVIOUS
<1> DEFINE n == Len(s)
           m == i + 1
<1>2. n \in Nat /\ m \in Int /\ n \in Int /\ \A j \in m .. n : s[j] \in Bytes
  BY <1>1
<1> HIDE DEF n, m
<1>3. /\ SubSeq(s, m, n) \in Seq(Bytes)
      /\ Len(SubSeq(s, m, n)) = IF m <= n THEN n - m + 1 ELSE 0
      /\ \A j \in 1 .. (n - m + 1) : SubSeq(s, m, n)[j] = s[m + j - 1]
  BY <1>2, SubSeqProperties
<1>4. n - m + 1 = Len(s) - i /\ (IF m <= n THEN n - m + 1 ELSE 0) = Len(s) - i
  BY <1>1 DEF n, m
<1>5. \A j \in 1 .. (Len(s) - i) : m + j - 1 = i + j
  BY <1>1 DEF m
<1> QED
  BY <1>3, <1>4, <1>5 DEF From, n, m

\* Sequences of the same length and bytes are the same.
LEMMA SameBytes ==
    ASSUME NEW s \in Seq(Bytes), NEW t \in Seq(Bytes), Len(s) = Len(t),
           \A i \in 1 .. Len(s) : s[i] = t[i]
    PROVE  s = t
BY SeqEqual

LEMMA FromStart == ASSUME NEW s \in Seq(Bytes) PROVE From(s, 0) = s
<1>1. SubSeq(s, 1, Len(s)) = s
  BY SubSeqFull
<1> QED
  BY <1>1 DEF From

LEMMA FromFrom ==
    ASSUME NEW s \in Seq(Bytes), NEW i \in 0 .. Len(s), NEW j \in 0 .. (Len(s) - i)
    PROVE  From(From(s, i), j) = From(s, i + j)
<1>1. Len(s) \in Nat /\ i \in Nat /\ j \in Nat /\ i + j \in 0 .. Len(s)
  OBVIOUS
<1> DEFINE t == From(s, i)
           k == i + j
<1>2. t \in Seq(Bytes) /\ Len(t) = Len(s) - i /\ \A x \in 1 .. (Len(s) - i) : t[x] = s[i + x]
  BY FromProperties
<1>3. k \in 0 .. Len(s) /\ k = i + j
  BY <1>1
<1>4. j \in 0 .. Len(t)
  BY <1>2
<1> HIDE DEF t, k
<1>5. From(t, j) \in Seq(Bytes) /\ Len(From(t, j)) = Len(t) - j
      /\ \A x \in 1 .. (Len(t) - j) : From(t, j)[x] = t[j + x]
  BY <1>2, <1>4, FromProperties
<1>6. From(s, k) \in Seq(Bytes) /\ Len(From(s, k)) = Len(s) - k
      /\ \A x \in 1 .. (Len(s) - k) : From(s, k)[x] = s[k + x]
  BY <1>3, FromProperties
<1>7. Len(t) - j = Len(s) - k
  BY <1>1, <1>2, <1>3
<1>8. \A x \in 1 .. (Len(s) - k) : t[j + x] = s[k + x]
  <2>1. SUFFICES ASSUME NEW x \in 1 .. (Len(s) - k) PROVE t[j + x] = s[k + x]
    OBVIOUS
  <2>2. j + x \in 1 .. (Len(s) - i) /\ i + (j + x) = k + x
    BY <1>1, <1>3
  <2> QED
    BY <1>2, <2>2
<1>9. From(t, j) = From(s, k)
  BY <1>5, <1>6, <1>7, <1>8, SameBytes
<1> QED
  BY <1>9 DEF t, k

\* The first bytes of what is left.
LEMMA HeadOfFrom ==
    ASSUME NEW s \in Seq(Bytes), NEW i \in 0 .. Len(s), NEW n \in 0 .. (Len(s) - i)
    PROVE  SubSeq(From(s, i), 1, n) = SubSeq(s, i + 1, i + n) /\ SubSeq(s, i + 1, i + n) \in Seq(Bytes)
<1>1. Len(s) \in Nat /\ i \in Nat /\ n \in Nat
  OBVIOUS
<1> DEFINE t == From(s, i)
           a == i + 1
           b == i + n
<1>2. t \in Seq(Bytes) /\ Len(t) = Len(s) - i /\ \A x \in 1 .. (Len(s) - i) : t[x] = s[i + x]
  BY FromProperties
<1>3. a \in Int /\ b \in Int /\ a = i + 1 /\ b = i + n
  BY <1>1
<1> HIDE DEF t, a, b
<1>4. \A x \in 1 .. n : t[x] \in Bytes
  BY <1>1, <1>2
<1>5. \A x \in a .. b : s[x] \in Bytes
  BY <1>1, <1>3
<1>6. 1 \in Int /\ n \in Int
  BY <1>1
<1>7. /\ SubSeq(t, 1, n) \in Seq(Bytes) /\ Len(SubSeq(t, 1, n)) = IF 1 <= n THEN n - 1 + 1 ELSE 0
      /\ \A x \in 1 .. (n - 1 + 1) : SubSeq(t, 1, n)[x] = t[1 + x - 1]
  BY <1>4, <1>6, SubSeqProperties
<1>8. /\ SubSeq(s, a, b) \in Seq(Bytes) /\ Len(SubSeq(s, a, b)) = IF a <= b THEN b - a + 1 ELSE 0
      /\ \A x \in 1 .. (b - a + 1) : SubSeq(s, a, b)[x] = s[a + x - 1]
  BY <1>3, <1>5, SubSeqProperties
<1>9. Len(SubSeq(t, 1, n)) = n /\ Len(SubSeq(s, a, b)) = n
  BY <1>1, <1>3, <1>7, <1>8
<1>10. \A x \in 1 .. n : SubSeq(t, 1, n)[x] = SubSeq(s, a, b)[x]
  <2>1. SUFFICES ASSUME NEW x \in 1 .. n PROVE SubSeq(t, 1, n)[x] = SubSeq(s, a, b)[x]
    OBVIOUS
  <2>2. /\ x \in 1 .. (n - 1 + 1) /\ 1 + x - 1 = x
        /\ x \in 1 .. (b - a + 1) /\ a + x - 1 = i + x /\ x \in 1 .. (Len(s) - i)
    BY <1>1, <1>3
  <2> QED
    BY <1>2, <1>7, <1>8, <2>2
<1>11. SubSeq(t, 1, n) = SubSeq(s, a, b)
  BY <1>7, <1>8, <1>9, <1>10, SameBytes
<1> QED
  BY <1>8, <1>11 DEF t, a, b

-----------------------------------------------------------------------------
(* Powers. *)

LEMMA PowUnfolds ==
    /\ Pow \in [Nat -> Nat \ {0}]
    /\ Pow[0] = 1
    /\ \A n \in Nat : Pow[n + 1] = Base * Pow[n]
<1> DEFINE R == Nat \ {0}
           size == [n \in Nat |-> n]
           step == [n \in Nat |-> [g \in [Nat -> R] |-> IF n = 0 THEN 1 ELSE Base * g[n - 1]]]
<1>1. size \in [Nat -> Nat] /\ R # {}
  OBVIOUS
<1>2. step \in [Nat -> [[Nat -> R] -> R]]
  <2>1. \A n \in Nat, g \in [Nat -> R] : (IF n = 0 THEN 1 ELSE Base * g[n - 1]) \in R
    <3>1. SUFFICES ASSUME NEW n \in Nat, NEW g \in [Nat -> R], n # 0 PROVE Base * g[n - 1] \in R
      OBVIOUS
    <3>2. n - 1 \in Nat /\ g[n - 1] \in R
      BY <3>1
    <3> QED
      BY <3>2, WidthTypes, ProductPositive
  <2> HIDE DEF R
  <2> QED
    BY <2>1
<1>3. Decreasing(Nat, R, size, step)
  <2>1. ASSUME NEW n \in Nat, NEW g \in [Nat -> R], NEW h \in [Nat -> R],
               \A m \in Nat : size[m] < size[n] => g[m] = h[m]
        PROVE  step[n][g] = step[n][h]
    <3>1. /\ step[n][g] = IF n = 0 THEN 1 ELSE Base * g[n - 1]
          /\ step[n][h] = IF n = 0 THEN 1 ELSE Base * h[n - 1]
      OBVIOUS
    <3>2. n # 0 => n - 1 \in Nat /\ size[n - 1] < size[n]
      OBVIOUS
    <3> HIDE DEF step, size, R
    <3>3. n # 0 => g[n - 1] = h[n - 1]
      BY <2>1, <3>2
    <3> QED
      BY <3>1, <3>3
  <2> HIDE DEF step, size, R
  <2> QED
    BY <2>1 DEF Decreasing
<1> HIDE DEF size
<1>4. PICK g \in [Nat -> R] : \A n \in Nat : g[n] = step[n][g]
  <2> HIDE DEF step, R
  <2>1. Solved(Nat, R, step)
    BY <1>1, <1>2, <1>3, RecursionExists
  <2> QED
    BY <2>1 DEF Solved
<1>5. g = [n \in Nat |-> IF n = 0 THEN 1 ELSE Base * g[n - 1]]
  BY <1>4
<1>6. Pow = [n \in Nat |-> IF n = 0 THEN 1 ELSE Base * Pow[n - 1]]
  BY <1>5 DEF Pow
<1>7. \A n \in Nat : Pow[n + 1] = Base * Pow[n]
  BY <1>6
<1>8. Pow[0] = 1
  BY <1>6
<1>9. \A n \in Nat : Pow[n] \in R
  <2> DEFINE bad == {n \in Nat : Pow[n] \notin R}
  <2>1. SUFFICES ASSUME bad # {} PROVE FALSE
    OBVIOUS
  <2>2. PICK n \in bad : \A m \in bad : n =< m
    <3>1. bad \in SUBSET Nat
      OBVIOUS
    <3> HIDE DEF bad
    <3> QED
      BY <2>1, <3>1, Smallest
  <2>3. n # 0
    BY <1>8
  <2>4. n - 1 \in Nat /\ n - 1 \notin bad
    <3>1. n \in Nat
      OBVIOUS
    <3>2. n - 1 \in Nat /\ ~(n =< n - 1)
      BY <2>3, <3>1
    <3> HIDE DEF bad
    <3> QED
      BY <2>2, <3>2
  <2>5. Pow[n] = Base * Pow[n - 1] /\ Pow[n - 1] \in R
    <3>1. (n - 1) + 1 = n
      OBVIOUS
    <3> QED
      BY <1>7, <2>4, <3>1
  <2>6. Pow[n] \in R
    BY <2>5, WidthTypes, ProductPositive
  <2> QED
    BY <2>6
<1> QED
  BY <1>6, <1>7, <1>8, <1>9

\* Powers grow.
LEMMA PowGrows == ASSUME NEW m \in Nat, NEW n \in Nat, m =< n PROVE Pow[m] =< Pow[n]
<1> DEFINE bad == {k \in Nat : m =< k /\ ~(Pow[m] =< Pow[k])}
<1>1. SUFFICES ASSUME bad # {} PROVE FALSE
  OBVIOUS
<1>2. PICK k \in bad : \A j \in bad : k =< j
  <2>1. bad \in SUBSET Nat
    OBVIOUS
  <2> HIDE DEF bad
  <2> QED
    BY <1>1, <2>1, Smallest
<1>3. k # m
  BY PowUnfolds
<1>4. k - 1 \in Nat /\ k - 1 \notin bad /\ m =< k - 1
  <2>1. k \in Nat /\ m =< k
    OBVIOUS
  <2>2. k - 1 \in Nat /\ ~(k =< k - 1) /\ m =< k - 1
    BY <1>3, <2>1
  <2> HIDE DEF bad
  <2> QED
    BY <1>2, <2>2
<1>5. Pow[m] =< Pow[k - 1]
  BY <1>4
<1>6. Pow[k] = Base * Pow[k - 1] /\ Pow[k - 1] \in Nat \ {0} /\ Pow[m] \in Nat
  <2>1. (k - 1) + 1 = k
    OBVIOUS
  <2> QED
    BY <1>4, <2>1, PowUnfolds
<1>7. \A b \in Nat \ {0}, p \in Nat : p =< b * p
  BY SMT
<1>8. Pow[k - 1] =< Pow[k]
  BY <1>6, <1>7, WidthTypes
<1>9. Pow[k] \in Nat
  BY <1>6, WidthTypes, ProductPositive
<1> QED
  BY <1>5, <1>6, <1>8, <1>9

-----------------------------------------------------------------------------
(* Varints: the loop that reads one computes what the buffer means. *)

LEMMA GroupType == ASSUME NEW b \in Nat PROVE b % Base \in 0 .. (Base - 1)
<1>1. b \in Int /\ Base \in Nat \ {0}
  BY WidthTypes
<1> QED
  BY <1>1, ModRange

LEMMA DigitsType ==
    ASSUME NEW s \in Seq(Bytes)
    PROVE  \A k \in 1 .. Len(s) : /\ Digits(s)[k] = (s[k] % Base) * Pow[k - 1]
                                  /\ Digits(s)[k] \in Nat
<1> SUFFICES ASSUME NEW k \in 1 .. Len(s)
             PROVE  Digits(s)[k] = (s[k] % Base) * Pow[k - 1] /\ Digits(s)[k] \in Nat
  OBVIOUS
<1>1. k - 1 \in Nat /\ k \in DOMAIN s
  OBVIOUS
<1>2. s[k] \in Nat
  BY WidthTypes DEF Bytes
<1>3. s[k] % Base \in Nat /\ Pow[k - 1] \in Nat
  <2>1. s[k] % Base \in Nat
    <3>1. s[k] % Base \in 0 .. (Base - 1)
      BY <1>2, GroupType
    <3>2. \A x \in 0 .. (Base - 1) : x \in Nat
      BY WidthTypes
    <3> QED
      BY <3>1, <3>2
  <2>2. Pow[k - 1] \in Nat
    BY <1>1, PowUnfolds
  <2> QED
    BY <2>1, <2>2
<1>4. \A a \in Nat, b \in Nat : a * b \in Nat
  BY SMT
<1> QED
  BY <1>1, <1>3, <1>4 DEF Digits

\* The value of the k first groups of s, which fit in a machine word or not.
Groups(s, k) == Total(Digits(s), 1 .. k)

LEMMA GroupsStep ==
    ASSUME NEW s \in Seq(Bytes), NEW k \in Nat, k < Len(s)
    PROVE  /\ Groups(s, k) \in Int
           /\ Groups(s, k + 1) = Groups(s, k) + (s[k + 1] % Base) * Pow[k]
<1> DEFINE f == Digits(s)
           S == 1 .. (k + 1)
<1>1. IsFiniteSet(S) /\ k + 1 \in S /\ S \ {k + 1} = 1 .. k /\ 1 .. k \in SUBSET S
  <2>1. 1 \in Int /\ k + 1 \in Int
    OBVIOUS
  <2>2. IsFiniteSet(1 .. (k + 1))
    BY <2>1, FS_Interval
  <2> QED
    BY <2>2
<1>2. S \subseteq 1 .. Len(s)
  OBVIOUS
<1>3. \A x \in S : f[x] \in Int
  BY <1>2, DigitsType
<1>4. f[k + 1] = (s[k + 1] % Base) * Pow[k]
  <2>1. k + 1 \in 1 .. Len(s) /\ (k + 1) - 1 = k
    OBVIOUS
  <2> QED
    BY <2>1, DigitsType
<1>5. f[k + 1] \in Int
  BY <1>1, <1>3
<1> HIDE DEF f, S
<1>6. Total(f, S) = f[k + 1] + Total(f, S \ {k + 1})
  BY <1>1, <1>3, TotalSplits
<1>7. Total(f, 1 .. k) \in Int
  BY <1>1, <1>3, TotalType
<1>8. Total(f, S) = Total(f, 1 .. k) + f[k + 1]
  <2>1. Total(f, S) = f[k + 1] + Total(f, 1 .. k)
    BY <1>1, <1>6
  <2> QED
    BY <1>5, <1>7, <2>1
<1> QED
  BY <1>4, <1>7, <1>8 DEF Groups, f, S

LEMMA NoGroups == ASSUME NEW s PROVE Groups(s, 0) = 0
<1>1. 1 .. 0 = {} /\ IsFiniteSet({})
  BY FS_EmptySet
<1> QED
  BY <1>1, TotalUnfolds DEF Groups

\* The varint at the head of s ends with its n-th byte.
EndsAtByte(s, n) == n \in 1 .. Len(s) /\ s[n] < Base /\ \A i \in 1 .. (n - 1) : s[i] >= Base

LEMMA VarintValue ==
    ASSUME NEW s \in Seq(Bytes), NEW n, EndsAtByte(s, n)
    PROVE  Varint(s) = IF Pow[n - 1] >= Word THEN Bad
                       ELSE [ok |-> TRUE, value |-> Groups(s, n) % Word, rest |-> From(s, n)]
<1> DEFINE stops == {k \in DOMAIN s : s[k] < Base}
<1>1. n \in stops /\ \A k \in stops : n =< k
  <2>1. n \in stops
    BY DEF EndsAtByte
  <2>2. SUFFICES ASSUME NEW k \in 1 .. Len(s), s[k] < Base, ~(n =< k) PROVE FALSE
    BY <2>1
  <2>3. k \in 1 .. (n - 1)
    BY <2>2 DEF EndsAtByte
  <2>4. s[k] >= Base /\ s[k] \in Nat
    BY <2>3, WidthTypes DEF EndsAtByte, Bytes
  <2> QED
    BY <2>2, <2>4, WidthTypes
<1>2. stops \subseteq Nat
  OBVIOUS
<1>3. Varint(s) = IF stops = {} THEN Bad
                  ELSE IF Pow[Min(stops) - 1] >= Word THEN Bad
                  ELSE [ok |-> TRUE,
                        value |-> MapThenSumSet(LAMBDA k : Digits(s)[k], 1 .. Min(stops)) % Word,
                        rest |-> SubSeq(s, Min(stops) + 1, Len(s))]
  BY DEF Varint
<1> HIDE DEF stops
<1>4. Min(stops) = n
  <2>1. Min(stops) \in stops /\ \A k \in stops : Min(stops) =< k
    BY <1>1 DEF Min
  <2>2. Min(stops) =< n /\ n =< Min(stops) /\ Min(stops) \in Nat /\ n \in Nat
    BY <1>1, <1>2, <2>1
  <2> QED
    BY <2>2
<1>5. MapThenSumSet(LAMBDA k : Digits(s)[k], 1 .. n) = Groups(s, n)
  BY MapThenSumSetIsTotal DEF Groups
<1> QED
  BY <1>1, <1>3, <1>4, <1>5 DEF From

\* The loop has read k bytes of s, none of which ended the varint.
Reading(s, k, v, w) ==
    /\ k \in 0 .. Len(s)
    /\ \A i \in 1 .. k : s[i] >= Base
    /\ v = Groups(s, k) % Word
    /\ w = Pow[k]

LEMMA ReadingStarts == ASSUME NEW s \in Seq(Bytes) PROVE Reading(s, 0, 0, 1)
<1>1. 0 % Word = 0
  <2>1. 0 \in 0 .. (Word - 1)
    BY WidthTypes
  <2> QED
    BY <2>1, WidthTypes, ModSmall
<1>2. 0 = Groups(s, 0) % Word
  BY <1>1, NoGroups
<1>3. 0 \in 0 .. Len(s) /\ 1 .. 0 = {}
  OBVIOUS
<1> QED
  BY <1>2, <1>3, PowUnfolds DEF Reading

LEMMA ReadingGoesOn ==
    ASSUME NEW s \in Seq(Bytes), NEW k, NEW v, NEW w, Reading(s, k, v, w), k < Len(s)
    PROVE  /\ Groups(s, k + 1) % Word = (v + (s[k + 1] % Base) * w) % Word
           /\ Pow[k + 1] = w * Base
<1>1. k \in Nat /\ k + 1 \in 1 .. Len(s)
  BY DEF Reading
<1> DEFINE d == (s[k + 1] % Base) * w
           t == Groups(s, k)
<1>2. d \in Int
  <2>1. s[k + 1] \in Nat
    BY <1>1, WidthTypes DEF Bytes
  <2>2. s[k + 1] % Base \in Int /\ w \in Int
    <3>1. s[k + 1] % Base \in Int
      BY <2>1, GroupType
    <3>2. w \in Int
      BY <1>1, PowUnfolds DEF Reading
    <3> QED
      BY <3>1, <3>2
  <2>3. \A a \in Int, b \in Int : a * b \in Int
    BY SMT
  <2> QED
    BY <2>2, <2>3
<1>3. t \in Int /\ Groups(s, k + 1) = t + d
  BY <1>1, GroupsStep DEF Reading
<1>4. v = t % Word
  BY DEF Reading
<1>5. Pow[k + 1] = w * Base
  <2>1. Pow[k + 1] = Base * Pow[k] /\ Pow[k] \in Nat
    BY <1>1, PowUnfolds
  <2>2. \A a \in Nat, b \in Nat : a * b = b * a
    BY SMT
  <2> QED
    BY <2>1, <2>2, WidthTypes DEF Reading
<1> HIDE DEF d, t
<1>6. ((t % Word) + d) % Word = (t + d) % Word
  <2>1. Word \in Nat /\ Word > 0
    BY WidthTypes
  <2> QED
    BY <1>2, <1>3, <2>1, ModAdd
<1>7. Groups(s, k + 1) % Word = (v + d) % Word
  BY <1>3, <1>4, <1>6
<1> QED
  BY <1>5, <1>7 DEF d

\* A byte with the high bit: the loop goes on.
LEMMA ReadingContinues ==
    ASSUME NEW s \in Seq(Bytes), NEW k, NEW v, NEW w, Reading(s, k, v, w), k < Len(s),
           s[k + 1] >= Base
    PROVE  Reading(s, k + 1, (v + (s[k + 1] % Base) * w) % Word, w * Base)
<1>1. k + 1 \in 0 .. Len(s) /\ \A i \in 1 .. (k + 1) : i \in 1 .. k \/ i = k + 1
  BY DEF Reading
<1>2. \A i \in 1 .. (k + 1) : s[i] >= Base
  BY <1>1 DEF Reading
<1> QED
  BY <1>1, <1>2, ReadingGoesOn DEF Reading

\* A byte without it: the varint is read.
LEMMA ReadingEnds ==
    ASSUME NEW s \in Seq(Bytes), NEW k, NEW v, NEW w, Reading(s, k, v, w), k < Len(s),
           s[k + 1] < Base, w < Word
    PROVE  Varint(s) = [ok |-> TRUE, value |-> (v + (s[k + 1] % Base) * w) % Word,
                        rest |-> From(s, k + 1)]
<1>1. k \in Nat /\ k + 1 \in 1 .. Len(s) /\ (k + 1) - 1 = k
  BY DEF Reading
<1>2. EndsAtByte(s, k + 1)
  BY <1>1 DEF EndsAtByte, Reading
<1>3. ~(Pow[k] >= Word)
  BY <1>1, PowUnfolds, WidthTypes DEF Reading
<1>4. Varint(s) = IF Pow[(k + 1) - 1] >= Word THEN Bad
                  ELSE [ok |-> TRUE, value |-> Groups(s, k + 1) % Word, rest |-> From(s, k + 1)]
  BY <1>2, VarintValue
<1> QED
  BY <1>1, <1>3, <1>4, ReadingGoesOn

\* The end of the buffer, or more groups than a uint64 has.
LEMMA ReadingFails ==
    ASSUME NEW s \in Seq(Bytes), NEW k, NEW v, NEW w, Reading(s, k, v, w),
           k >= Len(s) \/ w >= Word
    PROVE  Varint(s) = Bad
<1> DEFINE stops == {i \in DOMAIN s : s[i] < Base}
<1>1. k \in Nat /\ k =< Len(s)
  BY DEF Reading
<1>2. \A i \in stops : i \in Nat /\ i =< Len(s) /\ k =< i - 1
  <2> SUFFICES ASSUME NEW i \in 1 .. Len(s), s[i] < Base PROVE k =< i - 1
    OBVIOUS
  <2>1. s[i] \in Nat
    BY WidthTypes DEF Bytes
  <2>2. i \notin 1 .. k
    BY <2>1, WidthTypes DEF Reading
  <2> QED
    BY <1>1, <2>2
<1>3. CASE stops = {}
  BY <1>3 DEF Varint
<1>4. CASE stops # {}
  <2>1. stops \in SUBSET Nat
    OBVIOUS
  <2>2. PICK n \in stops : \A i \in stops : n =< i
    <3> HIDE DEF stops
    <3> QED
      BY <1>4, <2>1, Smallest
  <2>3. n \in Nat /\ n - 1 \in Nat /\ k =< n - 1 /\ n =< Len(s)
    <3>1. n \in Nat /\ n =< Len(s) /\ k =< n - 1
      BY <1>2
    <3> QED
      BY <1>1, <3>1
  <2>4. w >= Word
    BY <1>1, <2>3
  <2>5. Pow[n - 1] >= Word
    <3>1. Pow[k] =< Pow[n - 1] /\ Pow[k] \in Nat /\ Pow[n - 1] \in Nat
      BY <1>1, <2>3, PowGrows, PowUnfolds
    <3> QED
      BY <2>4, <3>1, WidthTypes DEF Reading
  <2>6. EndsAtByte(s, n)
    <3>1. n \in 1 .. Len(s) /\ s[n] < Base
      OBVIOUS
    <3>2. ASSUME NEW i \in 1 .. (n - 1) PROVE s[i] >= Base
      <4>1. i \in DOMAIN s /\ ~(n =< i)
        BY <2>3
      <4>2. ~(s[i] < Base)
        BY <2>2, <4>1
      <4>3. s[i] \in Nat
        BY <4>1, WidthTypes DEF Bytes
      <4> QED
        BY <4>2, <4>3, WidthTypes
    <3> QED
      BY <3>1, <3>2 DEF EndsAtByte
  <2> QED
    BY <2>5, <2>6, VarintValue
<1> QED
  BY <1>3, <1>4

-----------------------------------------------------------------------------
(* What the parts of a buffer leave of it. *)

\* A part that ends leaves a buffer that is not longer than s.
Leaves(part, s) ==
    /\ part.ok \in BOOLEAN
    /\ part.ok => part.rest \in Seq(Bytes) /\ Len(part.rest) =< Len(s)

\* A varint leaves a shorter one.
VarintLeaves(v, s) ==
    /\ v.ok \in BOOLEAN
    /\ v.ok => /\ v.value \in 0 .. (Word - 1)
               /\ v.rest \in Seq(Bytes) /\ Len(v.rest) < Len(s)

LEMMA VarintType == ASSUME NEW s \in Seq(Bytes) PROVE VarintLeaves(Varint(s), s)
<1> DEFINE stops == {k \in DOMAIN s : s[k] < Base}
<1>1. CASE stops = {}
  <2>1. Varint(s) = Bad
    BY <1>1 DEF Varint
  <2> QED
    BY <2>1 DEF VarintLeaves, Bad
<1>2. CASE stops # {}
  <2>1. stops \in SUBSET Nat
    OBVIOUS
  <2>2. PICK n \in stops : \A i \in stops : n =< i
    <3> HIDE DEF stops
    <3> QED
      BY <1>2, <2>1, Smallest
  <2>3. EndsAtByte(s, n)
    <3>1. ASSUME NEW i \in 1 .. (n - 1) PROVE s[i] >= Base
      <4>1. i \in DOMAIN s /\ ~(n =< i)
        OBVIOUS
      <4>2. ~(s[i] < Base)
        BY <2>2, <4>1
      <4>3. s[i] \in Nat
        BY <4>1, WidthTypes DEF Bytes
      <4> QED
        BY <4>2, <4>3, WidthTypes
    <3> QED
      BY <3>1 DEF EndsAtByte
  <2>4. From(s, n) \in Seq(Bytes) /\ Len(From(s, n)) = Len(s) - n /\ n \in 1 .. Len(s)
    <3>1. n \in 0 .. Len(s) /\ n \in 1 .. Len(s)
      BY <2>3 DEF EndsAtByte
    <3> QED
      BY <3>1, FromProperties
  <2>5. Len(From(s, n)) < Len(s)
    BY <2>4
  <2>6. Groups(s, n) % Word \in 0 .. (Word - 1)
    <3>1. n - 1 \in Nat /\ n - 1 < Len(s) /\ (n - 1) + 1 = n
      BY <2>3 DEF EndsAtByte
    <3>2. Groups(s, n - 1) \in Int /\ Groups(s, n) = Groups(s, n - 1) + (s[n] % Base) * Pow[n - 1]
      <4>1. /\ Groups(s, n - 1) \in Int
            /\ Groups(s, (n - 1) + 1) = Groups(s, n - 1) + (s[(n - 1) + 1] % Base) * Pow[n - 1]
        BY <3>1, GroupsStep
      <4> QED
        BY <3>1, <4>1
    <3>3. (s[n] % Base) * Pow[n - 1] \in Int
      <4>1. n \in 1 .. Len(s)
        BY <2>4
      <4> QED
        BY <4>1, DigitsType
    <3>4. Groups(s, n) \in Int
      BY <3>2, <3>3
    <3>5. \A x \in Int : x % Word \in 0 .. (Word - 1)
      BY WidthTypes, ModRange
    <3> QED
      BY <3>4, <3>5
  <2>7. Varint(s) = IF Pow[n - 1] >= Word THEN Bad
                    ELSE [ok |-> TRUE, value |-> Groups(s, n) % Word, rest |-> From(s, n)]
    BY <2>3, VarintValue
  <2> QED
    BY <2>4, <2>5, <2>6, <2>7 DEF VarintLeaves, Bad
<1> QED
  BY <1>1, <1>2

LEMMA DropType == ASSUME NEW s \in Seq(Bytes), NEW n \in Nat PROVE Leaves(Drop(n, s), s)
<1>1. CASE n > Len(s)
  BY <1>1 DEF Drop, Bad, Leaves
<1>2. CASE ~(n > Len(s))
  <2>1. n \in 0 .. Len(s)
    BY <1>2
  <2>2. From(s, n) \in Seq(Bytes) /\ Len(From(s, n)) =< Len(s)
    BY <2>1, FromProperties
  <2>3. Drop(n, s) = [ok |-> TRUE, rest |-> From(s, n)]
    BY <1>2 DEF Drop, From
  <2> QED
    BY <2>2, <2>3 DEF Leaves
<1> QED
  BY <1>1, <1>2

LEMMA BytestringType ==
    ASSUME NEW s \in Seq(Bytes)
    PROVE  /\ Leaves(Bytestring(s), s)
           /\ Bytestring(s).ok => /\ Bytestring(s).bytes \in Seq(Bytes)
                                  /\ Len(Bytestring(s).bytes) < Len(s)
<1> DEFINE v == Varint(s)
<1>1. VarintLeaves(v, s)
  BY VarintType
<1>2. Bytestring(s) = IF ~v.ok THEN Bad
                      ELSE IF v.value > Len(v.rest) THEN Bad
                      ELSE [ok |-> TRUE, bytes |-> SubSeq(v.rest, 1, v.value),
                            rest |-> From(v.rest, v.value)]
  BY DEF Bytestring, From
<1> HIDE DEF v
<1>3. CASE ~v.ok
  BY <1>2, <1>3 DEF Leaves, Bad
<1>4. CASE v.ok /\ v.value > Len(v.rest)
  BY <1>2, <1>4 DEF Leaves, Bad
<1>5. CASE v.ok /\ ~(v.value > Len(v.rest))
  <2>1. v.rest \in Seq(Bytes) /\ v.value \in 0 .. Len(v.rest) /\ Len(v.rest) < Len(s)
    BY <1>1, <1>5, WidthTypes DEF VarintLeaves
  <2>2. From(v.rest, v.value) \in Seq(Bytes) /\ Len(From(v.rest, v.value)) =< Len(s)
    BY <2>1, FromProperties
  <2>3. SubSeq(v.rest, 1, v.value) \in Seq(Bytes) /\ Len(SubSeq(v.rest, 1, v.value)) < Len(s)
    <3>1. 1 \in Int /\ v.value \in Int /\ \A i \in 1 .. v.value : v.rest[i] \in Bytes
      BY <2>1
    <3>2. /\ SubSeq(v.rest, 1, v.value) \in Seq(Bytes)
          /\ Len(SubSeq(v.rest, 1, v.value)) = IF 1 <= v.value THEN v.value - 1 + 1 ELSE 0
      BY <3>1, SubSeqProperties
    <3> QED
      BY <2>1, <3>2
  <2>4. Bytestring(s) = [ok |-> TRUE, bytes |-> SubSeq(v.rest, 1, v.value),
                         rest |-> From(v.rest, v.value)]
    BY <1>2, <1>5
  <2> QED
    BY <2>2, <2>3, <2>4 DEF Leaves
<1> QED
  BY <1>1, <1>3, <1>4, <1>5 DEF VarintLeaves

\* After a tag: a field ends in what the tag left, in open groups.
LEMMA FieldEndType ==
    ASSUME NEW tag, tag.value \in Nat, tag.rest \in Seq(Bytes), NEW open \in Nat
    PROVE  /\ Leaves(FieldEnd(tag, open), tag.rest)
           /\ FieldEnd(tag, open).ok => OpenAfter(tag, open) \in Nat
<1> DEFINE type == tag.value % 8
           s == tag.rest
<1>1. type \in 0 .. 7
  BY SMT
<1>2. /\ FieldEnd(tag, open) =
            CASE type = 0 -> Varint(s)
              [] type = 1 -> Drop(Fixed64, s)
              [] type = 2 -> Bytestring(s)
              [] type = 3 -> Drop(0, s)
              [] type = 4 -> IF open = 0 THEN Bad ELSE Drop(0, s)
              [] type = 5 -> Drop(Fixed32, s)
              [] OTHER    -> Bad
      /\ OpenAfter(tag, open) =
            CASE type = 3 -> open + 1 [] type = 4 -> open - 1 [] OTHER -> open
  BY DEF FieldEnd, OpenAfter
<1>3. s \in Seq(Bytes) /\ Fixed64 \in Nat /\ Fixed32 \in Nat /\ 0 \in Nat
  BY WireAssumption
<1> HIDE DEF type, s
<1>4. /\ Leaves(Varint(s), s) /\ Leaves(Bytestring(s), s) /\ Leaves(Bad, s)
      /\ \A n \in Nat : Leaves(Drop(n, s), s)
  <2>1. Leaves(Varint(s), s)
    BY <1>3, VarintType DEF VarintLeaves, Leaves
  <2>2. Leaves(Bad, s)
    BY DEF Leaves, Bad
  <2> QED
    BY <1>3, <2>1, <2>2, BytestringType, DropType
<1>5. CASE type = 4
  <2>1. FieldEnd(tag, open) = (IF open = 0 THEN Bad ELSE Drop(0, s)) /\ OpenAfter(tag, open) = open - 1
    BY <1>2, <1>5
  <2>2. CASE open = 0
    BY <1>4, <2>1, <2>2 DEF Bad, s
  <2>3. CASE open # 0
    BY <1>3, <1>4, <2>1, <2>3 DEF s
  <2> QED
    BY <2>2, <2>3
<1>6. CASE type # 4
  <2>1. OpenAfter(tag, open) \in Nat
    BY <1>2, <1>6
  <2>2. FieldEnd(tag, open) \in {Varint(s), Drop(Fixed64, s), Bytestring(s), Drop(0, s),
                                Drop(Fixed32, s), Bad}
    BY <1>1, <1>2, <1>6
  <2> QED
    BY <1>3, <1>4, <2>1, <2>2 DEF s
<1> QED
  BY <1>5, <1>6 DEF s

-----------------------------------------------------------------------------
(* The reference is well defined: every field leaves a shorter buffer. *)

Tags == [rest : Seq(Bytes), open : Nat]

Leftovers == {Bad} \cup [ok : {TRUE}, rest : Seq(Bytes)]

AfterFieldStep(x, g) ==
    LET tag == Varint(x.rest)
        end == FieldEnd(tag, x.open)
        inside == OpenAfter(tag, x.open)
    IN  IF ~tag.ok THEN Bad
        ELSE IF ~end.ok THEN Bad
        ELSE IF inside = 0 THEN Drop(0, end.rest)
        ELSE g[[rest |-> end.rest, open |-> inside]]

LEMMA DropNothing ==
    ASSUME NEW s \in Seq(Bytes)
    PROVE  Drop(0, s) = [ok |-> TRUE, rest |-> s] /\ Drop(0, s) \in Leftovers
<1>1. ~(0 > Len(s)) /\ SubSeq(s, 0 + 1, Len(s)) = s
  <2>1. ~(0 > Len(s)) /\ 0 + 1 = 1
    OBVIOUS
  <2>2. SubSeq(s, 1, Len(s)) = s
    BY SubSeqFull
  <2> QED
    BY <2>1, <2>2
<1>2. Drop(0, s) = [ok |-> TRUE, rest |-> s]
  BY <1>1 DEF Drop
<1>3. [ok |-> TRUE, rest |-> s] \in [ok : {TRUE}, rest : Seq(Bytes)]
  OBVIOUS
<1> QED
  BY <1>2, <1>3 DEF Leftovers

\* The parts of the first field that x begins with.
LEMMA FirstField ==
    ASSUME NEW x \in Tags, NEW tag, tag = Varint(x.rest), tag.ok,
           NEW end, end = FieldEnd(tag, x.open), end.ok
    PROVE  /\ end.rest \in Seq(Bytes) /\ Len(end.rest) < Len(x.rest)
           /\ OpenAfter(tag, x.open) \in Nat
           /\ [rest |-> end.rest, open |-> OpenAfter(tag, x.open)] \in Tags
<1>1. x.rest \in Seq(Bytes) /\ x.open \in Nat
  BY DEF Tags
<1>2. tag.value \in Nat /\ tag.rest \in Seq(Bytes) /\ Len(tag.rest) < Len(x.rest)
  <2>1. VarintLeaves(tag, x.rest)
    BY <1>1, VarintType
  <2> QED
    BY <2>1, WidthTypes DEF VarintLeaves
<1>3. Leaves(end, tag.rest) /\ OpenAfter(tag, x.open) \in Nat
  BY <1>1, <1>2, FieldEndType
<1>4. end.rest \in Seq(Bytes) /\ Len(end.rest) =< Len(tag.rest)
  BY <1>3 DEF Leaves
<1>5. Len(end.rest) < Len(x.rest)
  BY <1>1, <1>2, <1>4
<1> QED
  BY <1>3, <1>4, <1>5 DEF Tags

LEMMA AfterFieldUnfolds ==
    /\ AfterField \in [Tags -> Leftovers]
    /\ \A x \in Tags : AfterField[x] = AfterFieldStep(x, AfterField)
<1> DEFINE size == [x \in Tags |-> Len(x.rest)]
           step == [x \in Tags |-> [g \in [Tags -> Leftovers] |-> AfterFieldStep(x, g)]]
<1>1. size \in [Tags -> Nat] /\ Leftovers # {}
  <2>1. \A x \in Tags : Len(x.rest) \in Nat
    BY DEF Tags
  <2>2. Bad \in Leftovers
    BY DEF Leftovers
  <2> QED
    BY <2>1, <2>2
<1>2. ASSUME NEW x \in Tags, NEW g,
             \A y \in Tags : Len(y.rest) < Len(x.rest) => g[y] \in Leftovers
      PROVE  AfterFieldStep(x, g) \in Leftovers
  <2> DEFINE tag == Varint(x.rest)
             end == FieldEnd(tag, x.open)
             inside == OpenAfter(tag, x.open)
  <2>1. AfterFieldStep(x, g) = IF ~tag.ok THEN Bad
                               ELSE IF ~end.ok THEN Bad
                               ELSE IF inside = 0 THEN Drop(0, end.rest)
                               ELSE g[[rest |-> end.rest, open |-> inside]]
    BY DEF AfterFieldStep
  <2> DEFINE y == [rest |-> end.rest, open |-> inside]
  <2>2. tag.ok /\ end.ok => end.rest \in Seq(Bytes) /\ y \in Tags /\ Len(y.rest) < Len(x.rest)
    BY FirstField
  <2>3. tag.ok /\ end.ok => Drop(0, end.rest) \in Leftovers /\ g[y] \in Leftovers
    <3> HIDE DEF tag, end, inside, y
    <3> QED
      BY <1>2, <2>2, DropNothing
  <2>4. Bad \in Leftovers
    BY DEF Leftovers
  <2> QED
    BY <2>1, <2>3, <2>4
<1>3. step \in [Tags -> [[Tags -> Leftovers] -> Leftovers]]
  <2>1. \A x \in Tags, g \in [Tags -> Leftovers] : AfterFieldStep(x, g) \in Leftovers
    BY <1>2
  <2> QED
    BY <2>1
<1>4. Decreasing(Tags, Leftovers, size, step)
  <2>1. SUFFICES ASSUME NEW x \in Tags, NEW g \in [Tags -> Leftovers], NEW h \in [Tags -> Leftovers],
                        \A y \in Tags : Len(y.rest) < Len(x.rest) => g[y] = h[y]
                 PROVE  AfterFieldStep(x, g) = AfterFieldStep(x, h)
    BY DEF Decreasing
  <2> DEFINE tag == Varint(x.rest)
             end == FieldEnd(tag, x.open)
             y == [rest |-> end.rest, open |-> OpenAfter(tag, x.open)]
  <2>2. tag.ok /\ end.ok => y \in Tags /\ Len(y.rest) < Len(x.rest)
    BY FirstField
  <2>3. tag.ok /\ end.ok => g[y] = h[y]
    BY <2>1, <2>2
  <2> QED
    BY <2>3 DEF AfterFieldStep
<1> HIDE DEF size
<1>5. PICK g \in [Tags -> Leftovers] : \A x \in Tags : g[x] = step[x][g]
  <2> HIDE DEF step
  <2>1. Solved(Tags, Leftovers, step)
    BY <1>1, <1>3, <1>4, RecursionExists
  <2> QED
    BY <2>1 DEF Solved
<1>6. \A x \in Tags : g[x] = AfterFieldStep(x, g)
  BY <1>5
<1>7. g = [x \in Tags |-> AfterFieldStep(x, g)]
  BY <1>6
<1>8. AfterField = CHOOSE f : f = [x \in Tags |-> AfterFieldStep(x, f)]
  BY DEF AfterField, AfterFieldStep, Tags
<1>9. AfterField = [x \in Tags |-> AfterFieldStep(x, AfterField)]
  BY <1>7, <1>8
<1>10. \A x \in Tags : AfterField[x] = AfterFieldStep(x, AfterField)
  BY <1>9
<1>11. AfterField \in [Tags -> Leftovers]
  <2> DEFINE good == {x \in Tags : AfterField[x] \in Leftovers}
  <2>1. \A x \in Tags : size[x] = Len(x.rest)
    BY DEF size
  <2>2. \A x \in Tags : (\A y \in Tags : size[y] < size[x] => y \in good) => x \in good
    BY <1>2, <1>10, <2>1
  <2>3. Tags \subseteq good
    <3> HIDE DEF good
    <3> QED
      BY <1>1, <2>2, SizeInduction
  <2> QED
    BY <1>9, <2>3
<1> QED
  BY <1>10, <1>11

LEMMA LeftoverType ==
    ASSUME NEW r \in Leftovers
    PROVE  r.ok \in BOOLEAN /\ (r.ok => r.rest \in Seq(Bytes))
<1>1. CASE r = Bad
  BY <1>1 DEF Bad
<1>2. CASE r \in [ok : {TRUE}, rest : Seq(Bytes)]
  BY <1>2
<1> QED
  BY <1>1, <1>2 DEF Leftovers

\* An unknown field leaves a shorter buffer.
LEMMA AfterFieldShorter ==
    ASSUME NEW x \in Tags
    PROVE  /\ AfterField[x].ok \in BOOLEAN
           /\ AfterField[x].ok => /\ AfterField[x].rest \in Seq(Bytes)
                                  /\ Len(AfterField[x].rest) < Len(x.rest)
<1> DEFINE size == [y \in Tags |-> Len(y.rest)]
           good == {y \in Tags : AfterField[y].ok => Len(AfterField[y].rest) < Len(y.rest)}
<1>1. size \in [Tags -> Nat] /\ \A y \in Tags : size[y] = Len(y.rest)
  BY DEF Tags
<1>2. ASSUME NEW z \in Tags, \A y \in Tags : Len(y.rest) < Len(z.rest) => y \in good
      PROVE  z \in good
  <2> DEFINE tag == Varint(z.rest)
             end == FieldEnd(tag, z.open)
             inside == OpenAfter(tag, z.open)
             y == [rest |-> end.rest, open |-> inside]
  <2>1. AfterField[z] = IF ~tag.ok THEN Bad
                        ELSE IF ~end.ok THEN Bad
                        ELSE IF inside = 0 THEN Drop(0, end.rest)
                        ELSE AfterField[y]
    BY AfterFieldUnfolds DEF AfterFieldStep
  <2>2. tag.ok /\ end.ok => /\ end.rest \in Seq(Bytes) /\ y \in Tags
                            /\ Len(end.rest) < Len(z.rest) /\ y.rest = end.rest
    BY FirstField
  <2> HIDE DEF tag, end, inside, y
  <2>3. CASE ~tag.ok \/ ~end.ok
    BY <2>1, <2>3 DEF Bad
  <2>4. CASE tag.ok /\ end.ok /\ inside = 0
    <3>1. AfterField[z] = [ok |-> TRUE, rest |-> end.rest]
      BY <2>1, <2>2, <2>4, DropNothing
    <3> QED
      BY <2>2, <2>4, <3>1
  <2>5. CASE tag.ok /\ end.ok /\ inside # 0
    <3>1. AfterField[z] = AfterField[y] /\ y \in good
      BY <1>2, <2>1, <2>2, <2>5
    <3>2. AfterField[y].ok => AfterField[y].rest \in Seq(Bytes)
      BY <2>2, <2>5, AfterFieldUnfolds, LeftoverType
    <3>3. z.rest \in Seq(Bytes)
      BY DEF Tags
    <3>4. AfterField[y].ok => Len(AfterField[y].rest) \in Nat
      BY <3>2
    <3>5. Len(z.rest) \in Nat /\ Len(y.rest) \in Nat /\ Len(y.rest) < Len(z.rest)
      BY <2>2, <2>5, <3>3
    <3> QED
      BY <3>1, <3>4, <3>5
  <2> QED
    BY <2>3, <2>4, <2>5
<1>3. Tags \subseteq good
  <2>1. \A z \in Tags : (\A y \in Tags : size[y] < size[z] => y \in good) => z \in good
    BY <1>1, <1>2
  <2> HIDE DEF good, size
  <2> QED
    BY <1>1, <2>1, SizeInduction
<1>4. AfterField[x].ok \in BOOLEAN /\ (AfterField[x].ok => AfterField[x].rest \in Seq(Bytes))
  BY AfterFieldUnfolds, LeftoverType
<1> QED
  BY <1>3, <1>4

Unfinished == [type : DOMAIN Schema, rest : Seq(Bytes), authority : Seq(Bytes)]

Meanings == {Bad} \cup [ok : {TRUE}, authority : Seq(Bytes)]

MeaningStep(m, g) ==
    LET tag == Varint(m.rest)
        num == FieldNumber(tag.value)
        field == Bytestring(tag.rest)
        unknown == AfterField[[rest |-> m.rest, open |-> 0]]
    IN  IF m.rest = << >> THEN [ok |-> TRUE, authority |-> m.authority]
        ELSE IF ~tag.ok THEN Bad
        ELSE IF tag.value % 8 = 4 \/ num =< 0 THEN Bad
        ELSE IF num \in DOMAIN Schema[m.type]
        THEN IF tag.value % 8 # 2 THEN Bad
             ELSE IF ~field.ok THEN Bad
             ELSE IF Schema[m.type][num] = "string"
             THEN g[Unread(m.type, field.rest, field.bytes)]
             ELSE IF ~g[Unread("Params", field.bytes, << >>)].ok THEN Bad
             ELSE g[Unread(m.type, field.rest, m.authority)]
        ELSE IF ~unknown.ok THEN Bad
        ELSE g[Unread(m.type, unknown.rest, m.authority)]

\* What is shorter than m and can be asked for the meaning of.
Below(m) == {y \in Unfinished : Len(y.rest) < Len(m.rest)}

LEMMA UnreadBelow ==
    ASSUME NEW m \in Unfinished, NEW type \in DOMAIN Schema, NEW s \in Seq(Bytes),
           NEW a \in Seq(Bytes), Len(s) < Len(m.rest)
    PROVE  Unread(type, s, a) \in Below(m)
BY DEF Unread, Below, Unfinished

LEMMA FieldsBelow ==
    ASSUME NEW m \in Unfinished, NEW tag, tag = Varint(m.rest),
           NEW field, field = Bytestring(tag.rest),
           NEW unknown, unknown = AfterField[[rest |-> m.rest, open |-> 0]]
    PROVE  /\ tag.ok /\ field.ok => /\ Unread(m.type, field.rest, field.bytes) \in Below(m)
                                    /\ Unread("Params", field.bytes, << >>) \in Below(m)
                                    /\ Unread(m.type, field.rest, m.authority) \in Below(m)
           /\ unknown.ok => Unread(m.type, unknown.rest, m.authority) \in Below(m)
<1>1. m.rest \in Seq(Bytes) /\ m.type \in DOMAIN Schema /\ m.authority \in Seq(Bytes)
  BY DEF Unfinished
<1>2. ASSUME tag.ok, field.ok
      PROVE  /\ field.rest \in Seq(Bytes) /\ Len(field.rest) < Len(m.rest)
             /\ field.bytes \in Seq(Bytes) /\ Len(field.bytes) < Len(m.rest)
  <2>1. VarintLeaves(tag, m.rest)
    BY <1>1, VarintType
  <2>2. tag.rest \in Seq(Bytes) /\ Len(tag.rest) < Len(m.rest)
    BY <1>2, <2>1 DEF VarintLeaves
  <2>3. /\ Leaves(field, tag.rest)
        /\ field.ok => field.bytes \in Seq(Bytes) /\ Len(field.bytes) < Len(tag.rest)
    BY <2>2, BytestringType
  <2>4. field.rest \in Seq(Bytes) /\ Len(field.rest) =< Len(tag.rest)
        /\ field.bytes \in Seq(Bytes) /\ Len(field.bytes) < Len(tag.rest)
    BY <1>2, <2>3 DEF Leaves
  <2> QED
    BY <1>1, <2>2, <2>4
<1>3. unknown.ok => unknown.rest \in Seq(Bytes) /\ Len(unknown.rest) < Len(m.rest)
  <2> DEFINE x == [rest |-> m.rest, open |-> 0]
  <2>1. x \in Tags /\ x.rest = m.rest
    BY <1>1 DEF Tags
  <2> HIDE DEF x
  <2>2. AfterField[x].ok => AfterField[x].rest \in Seq(Bytes) /\ Len(AfterField[x].rest) < Len(x.rest)
    BY <2>1, AfterFieldShorter
  <2>3. unknown = AfterField[x]
    BY DEF x
  <2> QED
    BY <2>1, <2>2, <2>3
<1>4. "Params" \in DOMAIN Schema /\ << >> \in Seq(Bytes)
  BY SchemaDomain
<1> QED
  BY <1>1, <1>2, <1>3, <1>4, UnreadBelow

\* A step looks only below.
LEMMA MeaningStepSame ==
    ASSUME NEW m \in Unfinished, NEW g, NEW h, \A y \in Below(m) : g[y] = h[y]
    PROVE  MeaningStep(m, g) = MeaningStep(m, h)
<1> DEFINE tag == Varint(m.rest)
           field == Bytestring(tag.rest)
           unknown == AfterField[[rest |-> m.rest, open |-> 0]]
           y1 == Unread(m.type, field.rest, field.bytes)
           y2 == Unread("Params", field.bytes, << >>)
           y3 == Unread(m.type, field.rest, m.authority)
           y4 == Unread(m.type, unknown.rest, m.authority)
<1>1. /\ tag.ok /\ field.ok => y1 \in Below(m) /\ y2 \in Below(m) /\ y3 \in Below(m)
      /\ unknown.ok => y4 \in Below(m)
  BY FieldsBelow
<1>2. /\ tag.ok /\ field.ok => g[y1] = h[y1] /\ g[y2] = h[y2] /\ g[y3] = h[y3]
      /\ unknown.ok => g[y4] = h[y4]
  BY <1>1
<1> QED
  BY <1>2 DEF MeaningStep

LEMMA MeaningStepType ==
    ASSUME NEW m \in Unfinished, NEW g, \A y \in Below(m) : g[y] \in Meanings
    PROVE  MeaningStep(m, g) \in Meanings
<1> DEFINE tag == Varint(m.rest)
           num == FieldNumber(tag.value)
           field == Bytestring(tag.rest)
           unknown == AfterField[[rest |-> m.rest, open |-> 0]]
           y1 == Unread(m.type, field.rest, field.bytes)
           y2 == Unread("Params", field.bytes, << >>)
           y3 == Unread(m.type, field.rest, m.authority)
           y4 == Unread(m.type, unknown.rest, m.authority)
<1>1. /\ tag.ok /\ field.ok => y1 \in Below(m) /\ y2 \in Below(m) /\ y3 \in Below(m)
      /\ unknown.ok => y4 \in Below(m)
  BY FieldsBelow
<1>2. Bad \in Meanings /\ [ok |-> TRUE, authority |-> m.authority] \in Meanings
  BY DEF Unfinished, Meanings
<1>3. MeaningStep(m, g) =
        IF m.rest = << >> THEN [ok |-> TRUE, authority |-> m.authority]
        ELSE IF ~tag.ok THEN Bad
        ELSE IF tag.value % 8 = 4 \/ num =< 0 THEN Bad
        ELSE IF num \in DOMAIN Schema[m.type]
        THEN IF tag.value % 8 # 2 THEN Bad
             ELSE IF ~field.ok THEN Bad
             ELSE IF Schema[m.type][num] = "string" THEN g[y1]
             ELSE IF ~g[y2].ok THEN Bad
             ELSE g[y3]
        ELSE IF ~unknown.ok THEN Bad
        ELSE g[y4]
  BY DEF MeaningStep
<1> HIDE DEF tag, num, field, unknown, y1, y2, y3, y4
<1> QED
  BY <1>1, <1>2, <1>3

LEMMA MeaningUnfolds ==
    /\ Meaning \in [Unfinished -> Meanings]
    /\ \A m \in Unfinished : Meaning[m] = MeaningStep(m, Meaning)
<1> DEFINE size == [m \in Unfinished |-> Len(m.rest)]
           step == [m \in Unfinished |-> [g \in [Unfinished -> Meanings] |-> MeaningStep(m, g)]]
<1>1. size \in [Unfinished -> Nat] /\ Meanings # {}
  <2>1. \A m \in Unfinished : Len(m.rest) \in Nat
    BY DEF Unfinished
  <2>2. Bad \in Meanings
    BY DEF Meanings
  <2> QED
    BY <2>1, <2>2
<1>2. \A m \in Unfinished : Below(m) \subseteq Unfinished
                            /\ \A y \in Unfinished : y \in Below(m) <=> size[y] < size[m]
  BY DEF Below
<1> HIDE DEF size
<1>3. step \in [Unfinished -> [[Unfinished -> Meanings] -> Meanings]]
  <2>1. \A m \in Unfinished, g \in [Unfinished -> Meanings] : MeaningStep(m, g) \in Meanings
    BY <1>2, MeaningStepType
  <2> QED
    BY <2>1
<1>4. Decreasing(Unfinished, Meanings, size, step)
  <2>1. SUFFICES ASSUME NEW m \in Unfinished, NEW g \in [Unfinished -> Meanings],
                        NEW h \in [Unfinished -> Meanings],
                        \A y \in Unfinished : size[y] < size[m] => g[y] = h[y]
                 PROVE  MeaningStep(m, g) = MeaningStep(m, h)
    BY DEF Decreasing
  <2>2. \A y \in Below(m) : g[y] = h[y]
    BY <1>2, <2>1
  <2> QED
    BY <2>2, MeaningStepSame
<1>5. PICK g \in [Unfinished -> Meanings] : \A m \in Unfinished : g[m] = step[m][g]
  <2> HIDE DEF step
  <2>1. Solved(Unfinished, Meanings, step)
    BY <1>1, <1>3, <1>4, RecursionExists
  <2> QED
    BY <2>1 DEF Solved
<1>6. \A m \in Unfinished : g[m] = MeaningStep(m, g)
  BY <1>5
<1>7. g = [m \in Unfinished |-> MeaningStep(m, g)]
  BY <1>6
<1>8. Meaning = CHOOSE f : f = [m \in Unfinished |-> MeaningStep(m, f)]
  BY DEF Meaning, MeaningStep, Unfinished
<1>9. Meaning = [m \in Unfinished |-> MeaningStep(m, Meaning)]
  BY <1>7, <1>8
<1>10. \A m \in Unfinished : Meaning[m] = MeaningStep(m, Meaning)
  BY <1>9
<1>11. Meaning \in [Unfinished -> Meanings]
  <2> DEFINE good == {m \in Unfinished : Meaning[m] \in Meanings}
  <2>1. ASSUME NEW m \in Unfinished, \A y \in Unfinished : size[y] < size[m] => y \in good
        PROVE  m \in good
    <3>1. \A y \in Below(m) : Meaning[y] \in Meanings
      BY <1>2, <2>1
    <3> QED
      BY <1>10, <3>1, MeaningStepType
  <2>2. Unfinished \subseteq good
    <3> HIDE DEF good
    <3> QED
      BY <1>1, <2>1, SizeInduction
  <2> QED
    BY <1>9, <2>2
<1> QED
  BY <1>10, <1>11

-----------------------------------------------------------------------------
(* The decoder computes the meaning: what it has still to do, as the reference sees  *)
(* it, is at every step what the whole buffer means.                                 *)

\* What the buffer that Unmarshal was called with means.
Whole == Meaning[Unread(root, input, << >>)]

\* What a known field makes of a message, and what an unknown one does.
Known(type, kind, field, a) ==
    IF ~field.ok THEN Bad
    ELSE IF kind = "string" THEN Meaning[Unread(type, field.rest, field.bytes)]
    ELSE IF ~Meaning[Unread("Params", field.bytes, << >>)].ok THEN Bad
    ELSE Meaning[Unread(type, field.rest, a)]

Unknown(type, u, a) == IF ~u.ok THEN Bad ELSE Meaning[Unread(type, u.rest, a)]

OfField(type, s, a, tag) ==
    LET num == FieldNumber(tag.value)
    IN  IF ~tag.ok THEN Bad
        ELSE IF tag.value % 8 = 4 \/ num =< 0 THEN Bad
        ELSE IF num \in DOMAIN Schema[type]
        THEN IF tag.value % 8 # 2 THEN Bad
             ELSE Known(type, Schema[type][num], Bytestring(tag.rest), a)
        ELSE Unknown(type, AfterField[[rest |-> s, open |-> 0]], a)

\* What is still to be read of the message that is being decoded means this, if it
\* is s: an embedded message has no authority.
OwnAuthority == IF callers = << >> THEN authority ELSE << >>

MeaningOf(s) == Meaning[Unread(message, s, OwnAuthority)]

\* What the decoder has still to do for the message, as the reference sees it.
Own == MeaningOf(From(dAtA, IF pc = "loop" THEN iNdEx ELSE preIndex))

\* And what its caller will make of that.
Settled(own) ==
    IF callers = << >> THEN own
    ELSE IF ~own.ok THEN Bad
    ELSE Meaning[Unread(root, From(input, callers[1].postIndex), authority)]

FramesInv ==
    \/ callers = << >> /\ message = root /\ dAtA = input
    \/ /\ Len(callers) = 1 /\ message = "Params"
       /\ callers[1].message = root /\ callers[1].dAtA = input

\* A varint that starts at index q has been read up to i, or is read and ends there.
ReadTo(data, q, i, v, w) == i =< Len(data) /\ Reading(From(data, q), i - q, v, w)

ReadAt(q, i) == ReadTo(dAtA, q, i, acc, weight)

VarintIs(q, i) ==
    /\ i \in 0 .. Len(dAtA)
    /\ Varint(From(dAtA, q)) = [ok |-> TRUE, value |-> acc, rest |-> From(dAtA, i)]

AfterKnown(kind, field) == Known(message, kind, field, OwnAuthority)

AfterUnknown(u) == Unknown(message, u, OwnAuthority)

KnownInv ==
    /\ pc \in {"string", "message"} =>
          /\ callers = << >>
          /\ \E q \in 0 .. Len(dAtA) : /\ ReadAt(q, iNdEx)
                                       /\ Own = AfterKnown(pc, Bytestring(From(dAtA, q)))
    /\ pc \in {"takeString", "takeMessage"} =>
          /\ callers = << >>
          /\ \E q \in 0 .. Len(dAtA) :
                /\ VarintIs(q, iNdEx)
                /\ Own = AfterKnown(IF pc = "takeString" THEN "string" ELSE "message",
                                    Bytestring(From(dAtA, q)))

\* What skipTx has still to do, from index i on within open groups.
Open(i, open) == AfterField[[rest |-> From(dAtA, i), open |-> open]]

Inside(end, open) ==
    IF ~end.ok THEN Bad
    ELSE IF open = 0 THEN Drop(0, end.rest)
    ELSE AfterField[[rest |-> end.rest, open |-> open]]

Here == preIndex + skipIndex

SkipInv ==
    /\ pc \in Skipping => Own = AfterUnknown(Open(preIndex, 0))
    /\ pc = "skip" =>
          Open(preIndex, 0) = IF Here =< Len(dAtA) THEN Open(Here, depth) ELSE Bad
    /\ pc = "skipTag" =>
          \E q \in 0 .. Len(dAtA) : ReadAt(q, Here) /\ Open(preIndex, 0) = Open(q, depth)
    /\ pc = "skipField" =>
          \E q \in 0 .. Len(dAtA) : VarintIs(q, Here) /\ Open(preIndex, 0) = Open(q, depth)
    /\ pc = "skipVarint" =>
          \E q \in 0 .. Len(dAtA) :
             ReadAt(q, Here) /\ Open(preIndex, 0) = Inside(Varint(From(dAtA, q)), depth)
    /\ pc = "skipLength" =>
          \E q \in 0 .. Len(dAtA) :
             ReadAt(q, Here) /\ Open(preIndex, 0) = Inside(Bytestring(From(dAtA, q)), depth)
    /\ pc = "skipBytes" =>
          \E q \in 0 .. Len(dAtA) :
             VarintIs(q, Here) /\ Open(preIndex, 0) = Inside(Bytestring(From(dAtA, q)), depth)
    /\ pc = "skipped" =>
          Open(preIndex, 0) = IF skipIndex >= 0 /\ Here =< Len(dAtA)
                              THEN Inside(Drop(0, From(dAtA, Here)), depth) ELSE Bad

EndInv ==
    /\ pc = "done" => Whole = [ok |-> TRUE, authority |-> authority]
    /\ pc = "rejected" => Whole = Bad

MeaningInv ==
    /\ FramesInv
    /\ pc \notin Ends => Whole = Settled(Own)
    /\ pc \notin Ends \cup {"loop"} => preIndex < Len(dAtA)
    /\ pc = "tag" => ReadAt(preIndex, iNdEx)
    /\ pc = "field" => VarintIs(preIndex, iNdEx)
    /\ KnownInv
    /\ SkipInv
    /\ EndInv

-----------------------------------------------------------------------------
(* The reference, a field at a time. *)

LEMMA FieldNumberIs == fieldNum = FieldNumber(acc) /\ wireType = acc % 8
BY DEF fieldNum, Int32, FieldNumber, wireType

LEMMA FieldNumberType == ASSUME NEW v \in Nat PROVE FieldNumber(v) \in Int
<1>1. v \div 8 \in Int
  BY SMT
<1>2. 2 * FieldHalf \in Nat \ {0}
  BY WidthTypes
<1>3. (v \div 8) % (2 * FieldHalf) \in 0 .. (2 * FieldHalf - 1)
  BY <1>1, <1>2, ModRange
<1> DEFINE n == (v \div 8) % (2 * FieldHalf)
<1>4. n \in Int
  BY <1>2, <1>3
<1>5. FieldNumber(v) = IF n < FieldHalf THEN n ELSE n - 2 * FieldHalf
  BY DEF FieldNumber
<1> HIDE DEF n
<1> QED
  BY <1>2, <1>4, <1>5, WidthTypes

\* Nothing is left of a message.
LEMMA MeaningOfNothing ==
    ASSUME NEW type \in DOMAIN Schema, NEW a \in Seq(Bytes)
    PROVE  Meaning[Unread(type, << >>, a)] = [ok |-> TRUE, authority |-> a]
<1> DEFINE m == Unread(type, << >>, a)
<1>1. m \in Unfinished /\ m.rest = << >> /\ m.authority = a
  BY DEF Unfinished, Unread
<1> HIDE DEF m
<1>2. Meaning[m] = MeaningStep(m, Meaning)
  BY <1>1, MeaningUnfolds
<1>3. MeaningStep(m, Meaning) = [ok |-> TRUE, authority |-> a]
  BY <1>1 DEF MeaningStep
<1> QED
  BY <1>2, <1>3 DEF m

LEMMA MeaningOfField ==
    ASSUME NEW type \in DOMAIN Schema, NEW s \in Seq(Bytes), NEW a \in Seq(Bytes), s # << >>
    PROVE  Meaning[Unread(type, s, a)] = OfField(type, s, a, Varint(s))
<1> DEFINE m == Unread(type, s, a)
           tag == Varint(s)
<1>1. m \in Unfinished /\ m.rest = s /\ m.authority = a /\ m.type = type
  BY DEF Unfinished, Unread
<1>2. Meaning[m] = MeaningStep(m, Meaning)
  BY <1>1, MeaningUnfolds
<1> HIDE DEF m
<1>3. MeaningStep(m, Meaning) = OfField(type, s, a, tag)
  BY <1>1 DEF MeaningStep, OfField, Known, Unknown
<1> QED
  BY <1>2, <1>3 DEF m

\* What follows a field, in open groups.
LEMMA OpenOfField ==
    ASSUME NEW s \in Seq(Bytes), NEW open \in Nat, NEW tag, tag = Varint(s)
    PROVE  AfterField[[rest |-> s, open |-> open]] =
               IF ~tag.ok THEN Bad ELSE Inside(FieldEnd(tag, open), OpenAfter(tag, open))
<1> DEFINE x == [rest |-> s, open |-> open]
<1>1. x \in Tags /\ x.rest = s /\ x.open = open
  BY DEF Tags
<1> HIDE DEF x
<1>2. AfterField[x] = AfterFieldStep(x, AfterField)
  BY <1>1, AfterFieldUnfolds
<1>3. AfterFieldStep(x, AfterField) =
          IF ~tag.ok THEN Bad ELSE Inside(FieldEnd(tag, open), OpenAfter(tag, open))
  BY <1>1 DEF AfterFieldStep, Inside
<1> QED
  BY <1>2, <1>3 DEF x

-----------------------------------------------------------------------------
(* The steps. *)

LEMMA InitMeaning == Init => MeaningInv
<1> SUFFICES ASSUME Init PROVE MeaningInv
  OBVIOUS
<1>1. input \in Seq(Bytes)
  BY WireAssumption DEF Init
<1>2. From(input, 0) = input
  BY <1>1, FromStart
<1>3. Own = Whole /\ Settled(Own) = Own
  BY <1>2 DEF Init, Own, Whole, MeaningOf, OwnAuthority, Settled
<1> QED
  BY <1>3 DEF Init, MeaningInv, FramesInv, KnownInv, SkipInv, EndInv, Ends, Skipping

\* Where the decoder is.
LEMMA Places ==
    ASSUME Inv
    PROVE  /\ root \in DOMAIN Schema /\ message \in DOMAIN Schema
           /\ input \in Seq(Bytes) /\ dAtA \in Seq(Bytes) /\ Len(dAtA) < Half
           /\ iNdEx \in 0 .. Len(dAtA) /\ preIndex \in Nat
           /\ OwnAuthority \in Seq(Bytes) /\ authority \in Seq(Bytes)
           /\ pc \notin Ends => acc \in 0 .. (Word - 1)
<1>1. << >> \in Seq(Bytes)
  OBVIOUS
<1> QED
  BY <1>1 DEF Inv, TypeOK, InBounds, OwnAuthority

\* A buffer that the reference rejects is rejected.
LEMMA RejectMeans ==
    ASSUME MeaningInv, pc \notin Ends, Own = Bad, Reject,
           UNCHANGED <<root, input, message, dAtA, callers>>
    PROVE  MeaningInv'
<1>1. Whole = Bad
  BY DEF MeaningInv, Settled, Bad
<1>2. Whole' = Whole /\ FramesInv'
  BY DEF Whole, MeaningInv, FramesInv
<1> QED
  BY <1>1, <1>2 DEF Reject, Goto, MeaningInv, KnownInv, SkipInv, EndInv, Ends, Skipping

\* What a step inside of a field leaves alone.
LEMMA Within ==
    ASSUME MeaningInv, UNCHANGED <<root, input, message, dAtA, callers, authority, preIndex>>,
           pc \notin Ends, pc # "loop", pc' \notin Ends, pc' # "loop"
    PROVE  /\ FramesInv' /\ (Whole = Settled(Own))' /\ (preIndex < Len(dAtA))' /\ EndInv'
           /\ Own' = Own
<1>1. Own' = Own
  BY DEF Own, MeaningOf, OwnAuthority
<1>2. Settled(Own)' = Settled(Own) /\ Whole' = Whole
  BY <1>1 DEF Settled, Whole
<1>3. FramesInv'
  BY DEF MeaningInv, FramesInv
<1> QED
  BY <1>1, <1>2, <1>3 DEF MeaningInv, EndInv, Ends

\* The bytes of a varint that starts at index q.
LEMMA VarintStep ==
    ASSUME Inv, ReadByte, NEW q \in 0 .. Len(dAtA), ReadAt(q, Position)
    PROVE  /\ Position + 1 \in 0 .. Len(dAtA)
           /\ dAtA[Position + 1] >= Base =>
                 ReadTo(dAtA, q, Position + 1, acc', weight')
           /\ dAtA[Position + 1] < Base =>
                 Varint(From(dAtA, q)) = [ok |-> TRUE, value |-> acc', rest |-> From(dAtA, Position + 1)]
<1> DEFINE s == From(dAtA, q)
           k == Position - q
           b == dAtA[Position + 1]
<1>1. dAtA \in Seq(Bytes) /\ Len(dAtA) \in Nat /\ q \in Nat
  BY DEF Inv, TypeOK
<1>2. s \in Seq(Bytes) /\ Len(s) = Len(dAtA) - q /\ \A j \in 1 .. (Len(dAtA) - q) : s[j] = dAtA[q + j]
  BY <1>1, FromProperties
<1>3. Position \in Int
  BY DEF Position, Inv, TypeOK
<1>4. Position < Len(dAtA) /\ weight < Word /\ acc' = (acc + (b % Base) * weight) % Word
      /\ weight' = weight * Base
  BY DEF ReadByte
<1>5. Reading(s, k, acc, weight)
  BY DEF ReadAt, ReadTo
<1>6. k \in 0 .. Len(s)
  BY <1>5 DEF Reading
<1> HIDE DEF s
<1>7. k \in Nat /\ k < Len(s) /\ q + (k + 1) = Position + 1 /\ Position + 1 - q = k + 1
      /\ k + 1 \in 1 .. (Len(dAtA) - q) /\ Position + 1 \in 0 .. Len(dAtA)
  BY <1>1, <1>2, <1>3, <1>4, <1>6
<1>8. s[k + 1] = b
  BY <1>2, <1>7
<1>9. From(s, k + 1) = From(dAtA, Position + 1)
  <2>1. k + 1 \in 0 .. (Len(dAtA) - q)
    BY <1>1, <1>7
  <2>2. From(s, k + 1) = From(dAtA, q + (k + 1))
    BY <1>1, <2>1, FromFrom DEF s
  <2> QED
    BY <1>7, <2>2
<1> HIDE DEF k, b
<1>10. ASSUME b >= Base PROVE Reading(s, k + 1, acc', weight')
  BY <1>2, <1>4, <1>5, <1>7, <1>8, <1>10, ReadingContinues
<1>11. ASSUME b < Base
       PROVE  Varint(s) = [ok |-> TRUE, value |-> acc', rest |-> From(dAtA, Position + 1)]
  BY <1>2, <1>4, <1>5, <1>7, <1>8, <1>9, <1>11, ReadingEnds
<1> QED
  BY <1>1, <1>7, <1>10, <1>11 DEF s, b, ReadTo

\* A varint that does not end.
LEMMA VarintFails ==
    ASSUME Inv, NEW q \in 0 .. Len(dAtA), ReadAt(q, Position),
           weight >= Word \/ Position >= Len(dAtA)
    PROVE  Varint(From(dAtA, q)) = Bad
<1> DEFINE s == From(dAtA, q)
           k == Position - q
<1>1. dAtA \in Seq(Bytes) /\ Len(dAtA) \in Nat /\ q \in Nat
  BY DEF Inv, TypeOK
<1>2. s \in Seq(Bytes) /\ Len(s) = Len(dAtA) - q
  BY <1>1, FromProperties
<1>3. Position \in Int
  BY DEF Position, Inv, TypeOK
<1>4. Reading(s, k, acc, weight)
  BY DEF ReadAt, ReadTo
<1> HIDE DEF s
<1>5. k >= Len(s) \/ weight >= Word
  BY <1>1, <1>2, <1>3
<1> HIDE DEF k
<1> QED
  BY <1>2, <1>4, <1>5, ReadingFails DEF s

\* The field that is being read, from its tag on.
LEMMA OwnField ==
    ASSUME Inv, MeaningInv, pc \notin Ends, pc # "loop"
    PROVE  /\ preIndex \in 0 .. (Len(dAtA) - 1)
           /\ From(dAtA, preIndex) \in Seq(Bytes) /\ From(dAtA, preIndex) # << >>
           /\ Own = Meaning[Unread(message, From(dAtA, preIndex), OwnAuthority)]
<1>1. preIndex \in Nat /\ preIndex < Len(dAtA) /\ dAtA \in Seq(Bytes) /\ Len(dAtA) \in Nat
  BY DEF MeaningInv, Inv, TypeOK
<1>2. preIndex \in 0 .. (Len(dAtA) - 1) /\ preIndex \in 0 .. Len(dAtA)
  BY <1>1
<1>3. From(dAtA, preIndex) \in Seq(Bytes) /\ Len(From(dAtA, preIndex)) = Len(dAtA) - preIndex
  BY <1>1, <1>2, FromProperties
<1>4. Len(From(dAtA, preIndex)) # 0 /\ Len(<< >>) = 0
  BY <1>1, <1>3
<1>5. From(dAtA, preIndex) # << >>
  BY <1>4
<1> QED
  BY <1>2, <1>3, <1>5 DEF Own, MeaningOf

LEMMA BytestringIs ==
    ASSUME NEW s, NEW v, NEW r, Varint(s) = [ok |-> TRUE, value |-> v, rest |-> r]
    PROVE  Bytestring(s) = IF v > Len(r) THEN Bad
                           ELSE [ok |-> TRUE, bytes |-> SubSeq(r, 1, v), rest |-> From(r, v)]
BY DEF Bytestring, From

LEMMA BytestringBad == ASSUME NEW s, Varint(s) = Bad PROVE Bytestring(s) = Bad
BY DEF Bytestring, Bad

LEMMA VarintRejected ==
    ASSUME Inv, MeaningInv, IntOverflow \/ UnexpectedEOF PROVE MeaningInv'
<1>1. /\ pc \in Varints /\ pc \notin Ends /\ pc # "loop" /\ Reject
      /\ UNCHANGED <<root, input, message, dAtA, callers>>
  BY DEF IntOverflow, UnexpectedEOF, frameVars, Varints, Ends
<1> SUFFICES Own = Bad
  BY <1>1, RejectMeans
<1>2. weight >= Word \/ Position >= Len(dAtA)
  BY DEF IntOverflow, UnexpectedEOF
<1>3. /\ preIndex \in 0 .. (Len(dAtA) - 1)
      /\ From(dAtA, preIndex) \in Seq(Bytes) /\ From(dAtA, preIndex) # << >>
      /\ Own = Meaning[Unread(message, From(dAtA, preIndex), OwnAuthority)]
  BY <1>1, OwnField
<1>4. message \in DOMAIN Schema /\ OwnAuthority \in Seq(Bytes) /\ dAtA \in Seq(Bytes) /\ depth \in Nat
  BY Places DEF Inv, TypeOK
<1>5. ~Bad.ok
  BY DEF Bad
<1>6. CASE pc = "tag"
  <2>1. ReadAt(preIndex, Position) /\ preIndex \in 0 .. Len(dAtA)
    BY <1>3, <1>4, <1>6 DEF MeaningInv, Position, SkipVarints
  <2>2. Varint(From(dAtA, preIndex)) = Bad
    BY <1>2, <2>1, VarintFails
  <2>3. ~Varint(From(dAtA, preIndex)).ok
    BY <1>5, <2>2
  <2> DEFINE s == From(dAtA, preIndex)
             own == Meaning[Unread(message, s, OwnAuthority)]
  <2>4. own = OfField(message, s, OwnAuthority, Varint(s))
    BY <1>3, <1>4, MeaningOfField
  <2> QED
    BY <1>3, <2>3, <2>4 DEF OfField
<1>7. CASE pc \in {"string", "message"}
  <2>1. PICK q \in 0 .. Len(dAtA) : ReadAt(q, Position) /\ Own = AfterKnown(pc, Bytestring(From(dAtA, q)))
    BY <1>7 DEF MeaningInv, KnownInv, Position, SkipVarints
  <2>2. Bytestring(From(dAtA, q)) = Bad
    BY <1>2, <2>1, VarintFails, BytestringBad
  <2> QED
    BY <1>5, <2>1, <2>2 DEF AfterKnown, Known
<1>8. CASE pc \in SkipVarints
  <2>1. Own = AfterUnknown(Open(preIndex, 0)) /\ Position = Here
    BY <1>8 DEF MeaningInv, SkipInv, Skipping, SkipVarints, Position, Here
  <2>2. CASE pc = "skipTag"
    <3>1. PICK q \in 0 .. Len(dAtA) : ReadAt(q, Position) /\ Open(preIndex, 0) = Open(q, depth)
      BY <2>1, <2>2 DEF MeaningInv, SkipInv
    <3>2. Varint(From(dAtA, q)) = Bad /\ From(dAtA, q) \in Seq(Bytes)
      BY <1>2, <1>4, <3>1, VarintFails, FromProperties
    <3>3. Open(q, depth) = Bad
      BY <1>4, <1>5, <3>2, OpenOfField DEF Open
    <3> QED
      BY <1>5, <2>1, <3>1, <3>3 DEF AfterUnknown, Unknown
  <2>3. CASE pc = "skipVarint"
    <3>1. PICK q \in 0 .. Len(dAtA) :
             ReadAt(q, Position) /\ Open(preIndex, 0) = Inside(Varint(From(dAtA, q)), depth)
      BY <2>1, <2>3 DEF MeaningInv, SkipInv
    <3>2. Varint(From(dAtA, q)) = Bad
      BY <1>2, <3>1, VarintFails
    <3> QED
      BY <1>5, <2>1, <3>1, <3>2 DEF AfterUnknown, Unknown, Inside
  <2>4. CASE pc = "skipLength"
    <3>1. PICK q \in 0 .. Len(dAtA) :
             ReadAt(q, Position) /\ Open(preIndex, 0) = Inside(Bytestring(From(dAtA, q)), depth)
      BY <2>1, <2>4 DEF MeaningInv, SkipInv
    <3>2. Bytestring(From(dAtA, q)) = Bad
      BY <1>2, <3>1, VarintFails, BytestringBad
    <3> QED
      BY <1>5, <2>1, <3>1, <3>2 DEF AfterUnknown, Unknown, Inside
  <2> QED
    BY <1>8, <2>2, <2>3, <2>4 DEF SkipVarints
<1> QED
  BY <1>1, <1>6, <1>7, <1>8 DEF Varints, SkipVarints

LEMMA ReadByteMeans == ASSUME Inv, Inv', MeaningInv, ReadByte PROVE MeaningInv'
<1> DEFINE b == dAtA[Position + 1]
<1>1. /\ pc \in Varints /\ pc' = IF b < Base THEN After(pc) ELSE pc
      /\ UNCHANGED <<root, input, message, dAtA, callers, authority, preIndex, depth>>
  BY DEF ReadByte, Goto
<1>2. /\ pc \notin Ends /\ pc # "loop" /\ pc' \notin Ends /\ pc' # "loop"
      /\ pc \in Skipping => pc' \in Skipping
      /\ pc' \in Skipping => pc \in Skipping
  BY <1>1 DEF Varints, Ends, After, Skipping
<1>3. FramesInv' /\ (Whole = Settled(Own))' /\ (preIndex < Len(dAtA))' /\ EndInv' /\ Own' = Own
  BY <1>1, <1>2, Within
<1>4. /\ (pc \in SkipVarints => iNdEx' = iNdEx /\ Here' = Position + 1 /\ Position = Here)
      /\ (pc \notin SkipVarints => iNdEx' = Position + 1 /\ Position = iNdEx)
  <2>1. Position = (IF pc \in SkipVarints THEN preIndex + skipIndex ELSE iNdEx)
    BY DEF Position
  <2>2. IF pc \in SkipVarints
         THEN skipIndex' = skipIndex + 1 /\ UNCHANGED iNdEx
         ELSE iNdEx' = iNdEx + 1 /\ UNCHANGED skipIndex
    BY DEF ReadByte
  <2>3. preIndex \in Int /\ skipIndex \in Int /\ preIndex' = preIndex
    BY <1>1 DEF Inv, TypeOK
  <2>4. CASE pc \in SkipVarints
    <3>1. iNdEx' = iNdEx /\ skipIndex' = skipIndex + 1 /\ Position = preIndex + skipIndex
      BY <2>1, <2>2, <2>4
    <3>2. preIndex + (skipIndex + 1) = (preIndex + skipIndex) + 1
      BY <2>3
    <3> QED
      BY <2>3, <2>4, <3>1, <3>2 DEF Here
  <2>5. CASE pc \notin SkipVarints
    BY <2>1, <2>2, <2>5
  <2> QED
    BY <2>4, <2>5
<1>5. b \in Nat /\ (b >= Base \/ b < Base)
  <2>1. dAtA \in Seq(Bytes) /\ Position \in Int /\ Position < Len(dAtA) /\ Position >= 0
    BY <1>1 DEF ReadByte, Inv, TypeOK, Position, TagBehind, Skipping, SkipVarints
  <2>2. b \in Bytes
    BY <2>1
  <2> QED
    BY <2>2, WidthTypes DEF Bytes
<1>6. ASSUME NEW q \in 0 .. Len(dAtA), ReadAt(q, Position), b < Base
      PROVE  /\ Position + 1 \in 0 .. Len(dAtA)
             /\ Varint(From(dAtA, q)) = [ok |-> TRUE, value |-> acc', rest |-> From(dAtA, Position + 1)]
  BY <1>6, VarintStep
<1>7. ASSUME NEW q \in 0 .. Len(dAtA), ReadAt(q, Position), b >= Base
      PROVE  /\ Position + 1 =< Len(dAtA)
             /\ ReadTo(dAtA, q, Position + 1, acc', weight')
  BY <1>7, VarintStep
<1> HIDE DEF b
<1>8. (Open(preIndex, 0))' = Open(preIndex, 0) /\ (AfterUnknown(Open(preIndex, 0)))' = AfterUnknown(Open(preIndex, 0))
  BY <1>1 DEF Open, AfterUnknown, MeaningOf, OwnAuthority
<1>9. (pc \in Skipping => Own = AfterUnknown(Open(preIndex, 0)))'
  BY <1>2, <1>3, <1>8 DEF MeaningInv, SkipInv
<1>10. CASE pc = "tag"
  <2>1. ReadAt(preIndex, Position) /\ preIndex \in 0 .. Len(dAtA)
    BY <1>2, <1>4, <1>10, OwnField DEF MeaningInv, SkipVarints
  <2>2. CASE b >= Base
    <3>1. pc' = "tag"
      <4>1. ~(b < Base)
        BY <1>5, <2>2, WidthTypes
      <4> QED
        BY <1>1, <1>10, <4>1
    <3>2. ReadAt(preIndex, iNdEx)'
      <4>1. ReadTo(dAtA, preIndex, Position + 1, acc', weight')
        BY <1>7, <2>1, <2>2
      <4>2. iNdEx' = Position + 1 /\ dAtA' = dAtA /\ preIndex' = preIndex
        BY <1>1, <1>4, <1>10 DEF SkipVarints
      <4> QED
        BY <4>1, <4>2 DEF ReadAt
    <3> QED
      BY <1>3, <3>1, <3>2 DEF MeaningInv, KnownInv, SkipInv, Skipping
  <2>3. CASE b < Base
    <3>1. pc' = "field"
      BY <1>1, <1>10, <2>3 DEF After
    <3>2. VarintIs(preIndex, iNdEx)'
      BY <1>1, <1>4, <1>6, <1>10, <2>1, <2>3 DEF VarintIs, SkipVarints, From
    <3> QED
      BY <1>3, <3>1, <3>2 DEF MeaningInv, KnownInv, SkipInv, Skipping
  <2> QED
    BY <1>5, <2>2, <2>3
<1>11. OwnAuthority' = OwnAuthority
  BY <1>1 DEF OwnAuthority
<1>12. CASE pc \in {"string", "message"}
  <2>1. callers = << >>
    BY <1>12 DEF MeaningInv, KnownInv
  <2>2. PICK q \in 0 .. Len(dAtA) : ReadAt(q, Position) /\ Own = AfterKnown(pc, Bytestring(From(dAtA, q)))
    BY <1>4, <1>12 DEF MeaningInv, KnownInv, SkipVarints
  <2>3. CASE b >= Base
    <3>1. pc' = pc
      BY <1>1, <1>5, <2>3, WidthTypes
    <3>2. ReadAt(q, iNdEx)'
      <4>1. ReadTo(dAtA, q, Position + 1, acc', weight')
        BY <1>7, <2>2, <2>3
      <4>2. iNdEx' = Position + 1 /\ dAtA' = dAtA
        BY <1>1, <1>4, <1>12 DEF SkipVarints
      <4> QED
        BY <4>1, <4>2 DEF ReadAt
    <3>3. Own' = AfterKnown(pc, Bytestring(From(dAtA, q)))'
      BY <1>1, <1>3, <1>11, <2>2, <3>1 DEF AfterKnown
    <3>4. KnownInv'
      BY <1>1, <1>12, <2>1, <3>1, <3>2, <3>3 DEF KnownInv
    <3> QED
      BY <1>3, <1>12, <3>1, <3>4 DEF MeaningInv, SkipInv, Skipping
  <2>4. CASE b < Base
    <3> DEFINE kind == IF pc' = "takeString" THEN "string" ELSE "message"
    <3>1. pc' \in {"takeString", "takeMessage"} /\ kind = pc
      BY <1>1, <1>12, <2>4 DEF After
    <3>2. VarintIs(q, iNdEx)'
      BY <1>1, <1>4, <1>6, <1>12, <2>2, <2>4 DEF VarintIs, SkipVarints, From
    <3>3. Own' = Known(message', kind, Bytestring(From(dAtA', q)), OwnAuthority')
      BY <1>1, <1>3, <1>11, <2>2, <3>1 DEF AfterKnown
    <3>4. KnownInv'
      BY <1>1, <2>1, <3>1, <3>2, <3>3 DEF KnownInv, AfterKnown
    <3> QED
      BY <1>3, <3>1, <3>4 DEF MeaningInv, SkipInv, Skipping
  <2> QED
    BY <1>5, <2>3, <2>4
<1>13. CASE pc \in SkipVarints
  <2>1. Here' = Position + 1 /\ Position = Here /\ dAtA' = dAtA /\ depth' = depth /\ pc' \in Skipping
    BY <1>1, <1>2, <1>4, <1>13 DEF Skipping, SkipVarints
  <2>2. ASSUME NEW q \in 0 .. Len(dAtA), ReadAt(q, Here)
        PROVE  (b >= Base => ReadAt(q, Here)') /\ (b < Base => VarintIs(q, Here)')
    <3>1. ASSUME b >= Base PROVE ReadAt(q, Here)'
      <4>1. ReadTo(dAtA, q, Position + 1, acc', weight')
        BY <1>7, <2>1, <2>2, <3>1
      <4> QED
        BY <2>1, <4>1 DEF ReadAt
    <3>2. ASSUME b < Base PROVE VarintIs(q, Here)'
      BY <1>6, <2>1, <2>2, <3>2 DEF VarintIs, From
    <3> QED
      BY <3>1, <3>2
  <2>3. ASSUME NEW q \in 0 .. Len(dAtA)
        PROVE  /\ Open(q, depth)' = Open(q, depth)
               /\ Inside(Varint(From(dAtA, q)), depth)' = Inside(Varint(From(dAtA, q)), depth)
               /\ Inside(Bytestring(From(dAtA, q)), depth)' = Inside(Bytestring(From(dAtA, q)), depth)
    BY <2>1 DEF Open
  <2>4. CASE pc = "skipTag"
    <3>1. PICK q \in 0 .. Len(dAtA) : ReadAt(q, Here) /\ Open(preIndex, 0) = Open(q, depth)
      BY <2>4 DEF MeaningInv, SkipInv
    <3>2. (Open(preIndex, 0) = Open(q, depth))' /\ q \in 0 .. Len(dAtA')
      BY <1>8, <2>1, <2>3, <3>1
    <3>3. CASE b >= Base
      <4>1. pc' = "skipTag" /\ ReadAt(q, Here)'
        BY <1>1, <1>5, <2>2, <2>4, <3>1, <3>3, WidthTypes
      <4>2. SkipInv'
        BY <1>9, <3>2, <4>1 DEF SkipInv
      <4> QED
        BY <1>3, <4>1, <4>2 DEF MeaningInv, KnownInv
    <3>4. CASE b < Base
      <4>1. pc' = "skipField" /\ VarintIs(q, Here)'
        BY <1>1, <2>2, <2>4, <3>1, <3>4 DEF After
      <4>2. SkipInv'
        BY <1>9, <3>2, <4>1 DEF SkipInv
      <4> QED
        BY <1>3, <4>1, <4>2 DEF MeaningInv, KnownInv
    <3> QED
      BY <1>5, <3>3, <3>4
  <2>5. CASE pc = "skipVarint"
    <3>1. PICK q \in 0 .. Len(dAtA) :
             ReadAt(q, Here) /\ Open(preIndex, 0) = Inside(Varint(From(dAtA, q)), depth)
      BY <2>5 DEF MeaningInv, SkipInv
    <3>2. CASE b >= Base
      <4>1. pc' = "skipVarint" /\ ReadAt(q, Here)'
        BY <1>1, <1>5, <2>2, <2>5, <3>1, <3>2, WidthTypes
      <4>2. (Open(preIndex, 0) = Inside(Varint(From(dAtA, q)), depth))' /\ q \in 0 .. Len(dAtA')
        BY <1>8, <2>1, <2>3, <3>1
      <4>3. SkipInv'
        BY <1>9, <4>1, <4>2 DEF SkipInv
      <4> QED
        BY <1>3, <4>1, <4>3 DEF MeaningInv, KnownInv
    <3>3. CASE b < Base
      <4>1. pc' = "skipped"
        BY <1>1, <2>5, <3>3 DEF After
      <4>2. /\ Here' = Position + 1 /\ Here' \in 0 .. Len(dAtA)
            /\ Varint(From(dAtA, q)) = [ok |-> TRUE, value |-> acc', rest |-> From(dAtA, Here')]
        BY <1>6, <2>1, <3>1, <3>3
      <4>3. Inside(Varint(From(dAtA, q)), depth) = Inside(Drop(0, From(dAtA, Here')), depth)
        <5>1. Drop(0, From(dAtA, Here')) = [ok |-> TRUE, rest |-> From(dAtA, Here')]
          BY <4>2, Places, FromProperties, DropNothing
        <5> QED
          BY <4>2, <5>1 DEF Inside
      <4>4. skipIndex' >= 0 /\ Here' =< Len(dAtA')
        <5>1. skipIndex' = skipIndex + 1 /\ skipIndex \in Int /\ skipIndex >= 0
          BY <2>5 DEF ReadByte, SkipVarints, Inv, TypeOK, TagBehind, Skipping
        <5> QED
          BY <2>1, <4>2, <5>1, Places
      <4>5. (Open(preIndex, 0) = IF skipIndex >= 0 /\ Here =< Len(dAtA)
                                 THEN Inside(Drop(0, From(dAtA, Here)), depth) ELSE Bad)'
        BY <1>8, <2>1, <3>1, <4>3, <4>4
      <4>6. SkipInv'
        BY <1>9, <4>1, <4>5 DEF SkipInv
      <4> QED
        BY <1>3, <4>1, <4>6 DEF MeaningInv, KnownInv
    <3> QED
      BY <1>5, <3>2, <3>3
  <2>6. CASE pc = "skipLength"
    <3>1. PICK q \in 0 .. Len(dAtA) :
             ReadAt(q, Here) /\ Open(preIndex, 0) = Inside(Bytestring(From(dAtA, q)), depth)
      BY <2>6 DEF MeaningInv, SkipInv
    <3>2. (Open(preIndex, 0) = Inside(Bytestring(From(dAtA, q)), depth))' /\ q \in 0 .. Len(dAtA')
      BY <1>8, <2>1, <2>3, <3>1
    <3>3. CASE b >= Base
      <4>1. pc' = "skipLength" /\ ReadAt(q, Here)'
        BY <1>1, <1>5, <2>2, <2>6, <3>1, <3>3, WidthTypes
      <4>2. SkipInv'
        BY <1>9, <3>2, <4>1 DEF SkipInv
      <4> QED
        BY <1>3, <4>1, <4>2 DEF MeaningInv, KnownInv
    <3>4. CASE b < Base
      <4>1. pc' = "skipBytes" /\ VarintIs(q, Here)'
        BY <1>1, <2>2, <2>6, <3>1, <3>4 DEF After
      <4>2. SkipInv'
        BY <1>9, <3>2, <4>1 DEF SkipInv
      <4> QED
        BY <1>3, <4>1, <4>2 DEF MeaningInv, KnownInv
    <3> QED
      BY <1>5, <3>3, <3>4
  <2> QED
    BY <1>13, <2>4, <2>5, <2>6 DEF SkipVarints
<1> QED
  BY <1>1, <1>10, <1>12, <1>13 DEF Varints, SkipVarints

-----------------------------------------------------------------------------
(* The steps of Unmarshal. *)

\* A varint that is about to be read.
LEMMA BeginReads ==
    ASSUME NEW data \in Seq(Bytes), NEW i \in 0 .. Len(data)
    PROVE  ReadTo(data, i, i, 0, 1)
<1>1. From(data, i) \in Seq(Bytes) /\ i \in Nat /\ Len(data) \in Nat
  BY FromProperties
<1>2. Reading(From(data, i), 0, 0, 1)
  BY <1>1, ReadingStarts
<1>3. i - i = 0 /\ i =< Len(data)
  BY <1>1
<1> QED
  BY <1>2, <1>3 DEF ReadTo

LEMMA NextFieldMeans == ASSUME Inv, MeaningInv, NextField PROVE MeaningInv'
<1>1. /\ pc = "loop" /\ pc' = "tag" /\ acc' = 0 /\ weight' = 1 /\ preIndex' = iNdEx
      /\ iNdEx < Len(dAtA)
      /\ UNCHANGED <<root, input, message, dAtA, iNdEx, callers, authority>>
  BY DEF NextField, Begin, Goto
<1>2. iNdEx \in 0 .. Len(dAtA) /\ dAtA \in Seq(Bytes)
  BY Places
<1>3. Own' = Own /\ Whole' = Whole /\ FramesInv' /\ (Settled(Own))' = Settled(Own)
  <2>1. Own' = Own
    BY <1>1 DEF Own, MeaningOf, OwnAuthority
  <2> QED
    BY <1>1, <2>1 DEF Whole, FramesInv, Settled, MeaningInv
<1>4. ReadTo(dAtA, iNdEx, iNdEx, 0, 1)
  BY <1>2, BeginReads
<1>5. ReadAt(preIndex, iNdEx)'
  BY <1>1, <1>4 DEF ReadAt
<1> QED
  BY <1>1, <1>3, <1>5 DEF MeaningInv, KnownInv, SkipInv, EndInv, Skipping, Ends

LEMMA ReturnMeans == ASSUME Inv, MeaningInv, Return PROVE MeaningInv'
<1>1. /\ pc = "loop" /\ iNdEx >= Len(dAtA)
      /\ UNCHANGED <<root, input, authority>>
  BY DEF Return
<1>2. iNdEx \in 0 .. Len(dAtA) /\ dAtA \in Seq(Bytes) /\ Len(dAtA) \in Nat
      /\ message \in DOMAIN Schema /\ OwnAuthority \in Seq(Bytes)
  BY Places
<1>3. iNdEx = Len(dAtA) /\ ~(iNdEx > Len(dAtA))
  BY <1>1, <1>2
<1>4. From(dAtA, iNdEx) = << >>
  <2>1. From(dAtA, iNdEx) \in Seq(Bytes) /\ Len(From(dAtA, iNdEx)) = Len(dAtA) - iNdEx
    BY <1>2, FromProperties
  <2>2. Len(From(dAtA, iNdEx)) = 0
    BY <1>2, <1>3, <2>1
  <2> QED
    BY <2>1, <2>2, EmptySeq
<1>5. Own = [ok |-> TRUE, authority |-> OwnAuthority]
  BY <1>1, <1>2, <1>4, MeaningOfNothing DEF Own, MeaningOf
<1>6. CASE callers = << >>
  <2>1. pc' = "done" /\ UNCHANGED <<message, dAtA, callers>>
    BY <1>3, <1>6 DEF Return, Goto, frameVars
  <2>2. Whole = [ok |-> TRUE, authority |-> authority]
    BY <1>1, <1>5, <1>6 DEF MeaningInv, Settled, OwnAuthority, Ends
  <2>3. FramesInv' /\ Whole' = Whole
    BY <1>1, <2>1 DEF MeaningInv, FramesInv, Whole
  <2> QED
    BY <1>1, <2>1, <2>2, <2>3 DEF MeaningInv, KnownInv, SkipInv, EndInv, Skipping, Ends
<1>7. CASE callers # << >>
  <2>1. /\ Len(callers) = 1 /\ message = "Params"
        /\ callers[1].message = root /\ callers[1].dAtA = input
    BY <1>7 DEF MeaningInv, FramesInv
  <2>2. /\ pc' = "loop" /\ message' = callers[1].message /\ dAtA' = callers[1].dAtA
        /\ iNdEx' = callers[1].postIndex /\ callers' = SubSeq(callers, 1, 1 - 1)
    BY <1>3, <1>7, <2>1 DEF Return, Goto
  <2>3. callers' = << >>
    BY <2>2
  <2>4. Whole = Meaning[Unread(root, From(input, callers[1].postIndex), authority)]
    BY <1>1, <1>5, <1>7 DEF MeaningInv, Settled, Ends
  <2>5. Own' = Whole' /\ (Settled(Own))' = Own'
    BY <1>1, <2>1, <2>2, <2>3, <2>4 DEF Own, MeaningOf, OwnAuthority, Whole, Settled
  <2>6. FramesInv'
    BY <1>1, <2>1, <2>2, <2>3 DEF FramesInv
  <2> QED
    BY <2>2, <2>5, <2>6 DEF MeaningInv, KnownInv, SkipInv, EndInv, Skipping, Ends
<1> QED
  BY <1>6, <1>7

\* The tag of the field that the decoder is at.
LEMMA AtField ==
    ASSUME Inv, MeaningInv, pc = "field"
    PROVE  /\ Own = OfField(message, From(dAtA, preIndex), OwnAuthority,
                            [ok |-> TRUE, value |-> acc, rest |-> From(dAtA, iNdEx)])
           /\ fieldNum \in Int
<1>1. /\ From(dAtA, preIndex) \in Seq(Bytes) /\ From(dAtA, preIndex) # << >>
      /\ Own = Meaning[Unread(message, From(dAtA, preIndex), OwnAuthority)]
  BY OwnField DEF Ends
<1>2. Varint(From(dAtA, preIndex)) = [ok |-> TRUE, value |-> acc, rest |-> From(dAtA, iNdEx)]
  BY DEF MeaningInv, VarintIs
<1>3. message \in DOMAIN Schema /\ OwnAuthority \in Seq(Bytes)
  BY Places
<1>4. Own = OfField(message, From(dAtA, preIndex), OwnAuthority, Varint(From(dAtA, preIndex)))
  BY <1>1, <1>3, MeaningOfField
<1>5. acc \in Nat
  BY Places, WidthTypes DEF Ends
<1> QED
  BY <1>2, <1>4, <1>5, FieldNumberIs, FieldNumberType

LEMMA IllegalFieldMeans == ASSUME Inv, MeaningInv, IllegalField PROVE MeaningInv'
<1>1. /\ pc = "field" /\ Reject
      /\ UNCHANGED <<root, input, message, dAtA, callers>>
      /\ \/ wireType = 4
         \/ fieldNum =< 0
         \/ fieldNum \in DOMAIN Schema[message] /\ wireType # 2
  BY DEF IllegalField, frameVars
<1>2. Own = OfField(message, From(dAtA, preIndex), OwnAuthority,
                    [ok |-> TRUE, value |-> acc, rest |-> From(dAtA, iNdEx)])
  BY <1>1, AtField
<1>3. Own = Bad
  <2> DEFINE tag == [ok |-> TRUE, value |-> acc, rest |-> From(dAtA, iNdEx)]
  <2>1. tag.ok /\ tag.value = acc
    OBVIOUS
  <2> HIDE DEF tag
  <2>2. Own = OfField(message, From(dAtA, preIndex), OwnAuthority, tag)
    BY <1>2 DEF tag
  <2> QED
    BY <1>1, <2>1, <2>2, FieldNumberIs DEF OfField
<1> QED
  BY <1>1, <1>3, RejectMeans DEF Ends

LEMMA KnownFieldMeans == ASSUME Inv, MeaningInv, KnownField PROVE MeaningInv'
<1>1. /\ pc = "field" /\ wireType = 2 /\ fieldNum > 0 /\ fieldNum \in DOMAIN Schema[message]
      /\ pc' = Schema[message][fieldNum] /\ acc' = 0 /\ weight' = 1
      /\ UNCHANGED <<root, input, message, dAtA, iNdEx, preIndex, callers, authority>>
  BY DEF KnownField, Begin, Goto, frameVars
<1>2. pc' \in {"string", "message"}
  BY <1>1, Places, FieldKinds
<1>3. callers = << >>
  <2>1. DOMAIN Schema["Params"] = {}
    BY DEF Schema, Params, NoFields
  <2> QED
    BY <1>1, <2>1 DEF MeaningInv, FramesInv
<1>4. Own = Known(message, pc', Bytestring(From(dAtA, iNdEx)), OwnAuthority)
  <2> DEFINE tag == [ok |-> TRUE, value |-> acc, rest |-> From(dAtA, iNdEx)]
  <2>1. tag.ok /\ tag.value = acc /\ tag.rest = From(dAtA, iNdEx)
    OBVIOUS
  <2> HIDE DEF tag
  <2>2. Own = OfField(message, From(dAtA, preIndex), OwnAuthority, tag) /\ fieldNum \in Int
    BY <1>1, AtField DEF tag
  <2>3. ~(fieldNum =< 0) /\ FieldNumber(tag.value) = fieldNum /\ tag.value % 8 = 2
    BY <1>1, <2>1, <2>2, FieldNumberIs
  <2> QED
    BY <1>1, <2>1, <2>2, <2>3 DEF OfField
<1>5. iNdEx \in 0 .. Len(dAtA) /\ dAtA \in Seq(Bytes)
  BY Places
<1>6. ReadTo(dAtA, iNdEx, iNdEx, 0, 1)
  BY <1>5, BeginReads
<1>7. FramesInv' /\ (Whole = Settled(Own))' /\ (preIndex < Len(dAtA))' /\ EndInv' /\ Own' = Own
  BY <1>1, <1>2, Within DEF Ends
<1>8. KnownInv'
  <2>1. Own' = AfterKnown(pc, Bytestring(From(dAtA, iNdEx)))'
    BY <1>1, <1>4, <1>7 DEF AfterKnown, OwnAuthority
  <2>2. ReadAt(iNdEx, iNdEx)'
    BY <1>1, <1>6 DEF ReadAt
  <2>3. callers' = << >> /\ iNdEx' \in 0 .. Len(dAtA')
    BY <1>1, <1>3, <1>5
  <2> QED
    BY <1>2, <2>1, <2>2, <2>3 DEF KnownInv
<1> QED
  BY <1>2, <1>7, <1>8 DEF MeaningInv, SkipInv, Skipping

LEMMA UnknownFieldMeans == ASSUME Inv, MeaningInv, UnknownField PROVE MeaningInv'
<1>1. /\ pc = "field" /\ wireType # 4 /\ fieldNum > 0 /\ fieldNum \notin DOMAIN Schema[message]
      /\ pc' = "skip" /\ skipIndex' = 0 /\ depth' = 0
      /\ UNCHANGED <<root, input, message, dAtA, preIndex, callers, authority>>
  BY DEF UnknownField, Goto
<1>2. Own = AfterUnknown(Open(preIndex, 0))
  <2> DEFINE tag == [ok |-> TRUE, value |-> acc, rest |-> From(dAtA, iNdEx)]
  <2>1. tag.ok /\ tag.value = acc
    OBVIOUS
  <2> HIDE DEF tag
  <2>2. Own = OfField(message, From(dAtA, preIndex), OwnAuthority, tag) /\ fieldNum \in Int
    BY <1>1, AtField DEF tag
  <2>3. ~(fieldNum =< 0) /\ FieldNumber(tag.value) = fieldNum /\ tag.value % 8 # 4
    BY <1>1, <2>1, <2>2, FieldNumberIs
  <2> QED
    BY <1>1, <2>1, <2>2, <2>3 DEF OfField, AfterUnknown, Open
<1>3. FramesInv' /\ (Whole = Settled(Own))' /\ (preIndex < Len(dAtA))' /\ EndInv' /\ Own' = Own
  BY <1>1, Within DEF Ends
<1>4. Here' = preIndex /\ preIndex =< Len(dAtA)
  <2>1. preIndex \in 0 .. (Len(dAtA) - 1)
    BY <1>1, OwnField DEF Ends
  <2> QED
    BY <1>1, <2>1 DEF Here
<1>5. (Own = AfterUnknown(Open(preIndex, 0)))'
  BY <1>1, <1>2, <1>3 DEF AfterUnknown, Open, OwnAuthority
<1>6. (Open(preIndex, 0) = IF Here =< Len(dAtA) THEN Open(Here, depth) ELSE Bad)'
  BY <1>1, <1>4 DEF Open
<1> QED
  BY <1>1, <1>3, <1>5, <1>6 DEF MeaningInv, KnownInv, SkipInv

LEMMA Int64Is ==
    ASSUME NEW x \in 0 .. (Word - 1)
    PROVE  Int64(x) = IF x < Half THEN x ELSE x - Word
<1>1. x % Word = x
  BY WidthTypes, ModSmall
<1> QED
  BY <1>1 DEF Int64

\* The comparisons of the code refuse exactly the lengths that the buffer has not.
LEMMA BadLengthIs ==
    ASSUME Inv, pc \notin Ends
    PROVE  /\ BadLength <=> acc > Len(dAtA) - iNdEx
           /\ ~BadLength => length = acc /\ postIndex = iNdEx + acc
<1>1. /\ acc \in 0 .. (Word - 1) /\ iNdEx \in Nat /\ Len(dAtA) \in Nat
      /\ iNdEx =< Len(dAtA) /\ Len(dAtA) < Half
  BY Places
<1>2. length = IF acc < Half THEN acc ELSE acc - Word
  BY <1>1, Int64Is DEF length
<1>3. CASE acc >= Half
  <2>1. length < 0
    BY <1>1, <1>2, <1>3, WidthTypes
  <2>2. acc > Len(dAtA) - iNdEx
    BY <1>1, <1>3, WidthTypes
  <2> QED
    BY <2>1, <2>2 DEF BadLength
<1>4. CASE acc < Half
  <2>1. length = acc /\ iNdEx + acc \in 0 .. (Word - 1) /\ ~(length < 0)
    BY <1>1, <1>2, <1>4, WidthTypes DEF Word
  <2>2. postIndex = IF iNdEx + acc < Half THEN iNdEx + acc ELSE (iNdEx + acc) - Word
    <3> DEFINE x == iNdEx + acc
    <3>1. postIndex = Int64(x) /\ x \in 0 .. (Word - 1)
      BY <2>1 DEF postIndex
    <3> HIDE DEF x
    <3>2. Int64(x) = IF x < Half THEN x ELSE x - Word
      BY <3>1, Int64Is
    <3>3. postIndex = IF x < Half THEN x ELSE x - Word
      BY <3>1, <3>2
    <3> QED
      BY <3>3 DEF x
  <2>3. CASE iNdEx + acc < Half
    <3>1. postIndex = iNdEx + acc /\ ~(postIndex < 0)
      BY <1>1, <2>2, <2>3
    <3>2. BadLength <=> iNdEx + acc > Len(dAtA)
      BY <2>1, <3>1 DEF BadLength
    <3> QED
      BY <1>1, <2>1, <3>1, <3>2
  <2>4. CASE ~(iNdEx + acc < Half)
    <3>1. postIndex < 0
      BY <1>1, <2>1, <2>2, <2>4, WidthTypes
    <3>2. acc > Len(dAtA) - iNdEx
      BY <1>1, <2>4, WidthTypes
    <3> QED
      BY <3>1, <3>2 DEF BadLength
  <2> QED
    BY <2>3, <2>4
<1> QED
  BY <1>1, <1>3, <1>4, WidthTypes

\* The length of a known field, and the field it is the length of.
Taken == [ok |-> TRUE, bytes |-> SubSeq(dAtA, iNdEx + 1, iNdEx + acc), rest |-> From(dAtA, iNdEx + acc)]

LEMMA BytesTaken ==
    ASSUME Inv, pc \notin Ends, NEW q \in 0 .. Len(dAtA), VarintIs(q, iNdEx)
    PROVE  /\ acc > Len(dAtA) - iNdEx => Bytestring(From(dAtA, q)) = Bad
           /\ ~(acc > Len(dAtA) - iNdEx) => /\ Bytestring(From(dAtA, q)) = Taken
                                            /\ Taken.bytes \in Seq(Bytes)
<1> DEFINE r == From(dAtA, iNdEx)
<1>1. iNdEx \in 0 .. Len(dAtA) /\ dAtA \in Seq(Bytes) /\ acc \in Nat /\ Len(dAtA) \in Nat
  BY Places, WidthTypes
<1>2. r \in Seq(Bytes) /\ Len(r) = Len(dAtA) - iNdEx
  BY <1>1, FromProperties
<1>3. Bytestring(From(dAtA, q)) = IF acc > Len(r) THEN Bad
                                  ELSE [ok |-> TRUE, bytes |-> SubSeq(r, 1, acc), rest |-> From(r, acc)]
  BY BytestringIs DEF VarintIs
<1>4. ASSUME ~(acc > Len(dAtA) - iNdEx)
      PROVE  /\ SubSeq(r, 1, acc) = SubSeq(dAtA, iNdEx + 1, iNdEx + acc) /\ SubSeq(r, 1, acc) \in Seq(Bytes)
             /\ From(r, acc) = From(dAtA, iNdEx + acc)
  <2>1. acc \in 0 .. (Len(dAtA) - iNdEx)
    BY <1>1, <1>4
  <2> QED
    BY <1>1, <2>1, HeadOfFrom, FromFrom
<1> HIDE DEF r
<1> QED
  BY <1>2, <1>3, <1>4 DEF Taken

LEMMA AtLength ==
    ASSUME Inv, MeaningInv, pc \in {"takeString", "takeMessage"},
           NEW kind, kind = (IF pc = "takeString" THEN "string" ELSE "message")
    PROVE  /\ callers = << >> /\ message = root /\ dAtA = input /\ OwnAuthority = authority
           /\ BadLength => Own = Bad
           /\ ~BadLength => /\ Own = Known(message, kind, Taken, authority)
                            /\ postIndex = iNdEx + acc /\ Taken.bytes \in Seq(Bytes)
<1>1. PICK q \in 0 .. Len(dAtA) :
         /\ VarintIs(q, iNdEx)
         /\ Own = AfterKnown(kind, Bytestring(From(dAtA, q)))
  BY DEF MeaningInv, KnownInv
<1>2. pc \notin Ends
  BY DEF Ends
<1>3. callers = << >> /\ message = root /\ dAtA = input /\ OwnAuthority = authority
  BY DEF MeaningInv, KnownInv, FramesInv, OwnAuthority
<1>4. CASE BadLength
  <2>1. Bytestring(From(dAtA, q)) = Bad
    BY <1>1, <1>2, <1>4, BadLengthIs, BytesTaken
  <2> QED
    BY <1>1, <1>3, <1>4, <2>1 DEF AfterKnown, Known, Bad
<1>5. CASE ~BadLength
  <2>1. /\ Bytestring(From(dAtA, q)) = Taken /\ Taken.bytes \in Seq(Bytes)
        /\ postIndex = iNdEx + acc
    BY <1>1, <1>2, <1>5, BadLengthIs, BytesTaken
  <2> QED
    BY <1>1, <1>3, <1>5, <2>1 DEF AfterKnown
<1> QED
  BY <1>4, <1>5

LEMMA RejectLengthMeans == ASSUME Inv, MeaningInv, RejectLength PROVE MeaningInv'
<1>1. /\ pc \in {"takeString", "takeMessage"} /\ BadLength /\ Reject
      /\ UNCHANGED <<root, input, message, dAtA, callers>>
  BY DEF RejectLength, frameVars
<1>2. Own = Bad
  BY <1>1, AtLength
<1> QED
  BY <1>1, <1>2, RejectMeans DEF Ends

LEMMA TakeStringMeans == ASSUME Inv, MeaningInv, TakeString PROVE MeaningInv'
<1>1. pc = "takeString" /\ ~BadLength
  BY DEF TakeString
<1>2. InSlice
  BY <1>1, LengthInSlice
<1>3. /\ pc' = "loop" /\ authority' = SubSeq(dAtA, iNdEx + 1, postIndex) /\ iNdEx' = postIndex
      /\ UNCHANGED <<root, input, message, dAtA, callers>>
  BY <1>1, <1>2 DEF TakeString, Goto
<1>4. /\ callers = << >> /\ message = root /\ dAtA = input
      /\ Own = Known(message, "string", Taken, authority) /\ postIndex = iNdEx + acc
  BY <1>1, AtLength
<1>5. Own = Meaning[Unread(message, From(dAtA, iNdEx'), authority')]
  BY <1>3, <1>4 DEF Known, Taken
<1>6. Own' = Own
  BY <1>3, <1>4, <1>5 DEF Own, MeaningOf, OwnAuthority
<1>7. Whole = Own /\ Whole' = Whole /\ (Settled(Own))' = Own'
  BY <1>1, <1>3, <1>4 DEF MeaningInv, Whole, Settled, Ends
<1>8. FramesInv'
  BY <1>3, <1>4 DEF FramesInv
<1> QED
  BY <1>3, <1>6, <1>7, <1>8 DEF MeaningInv, KnownInv, SkipInv, EndInv, Skipping, Ends

LEMMA TakeMessageMeans == ASSUME Inv, MeaningInv, TakeMessage PROVE MeaningInv'
<1>1. pc = "takeMessage" /\ ~BadLength
  BY DEF TakeMessage
<1>2. InSlice
  BY <1>1, LengthInSlice
<1>3. /\ pc' = "loop" /\ message' = "Params" /\ iNdEx' = 0
      /\ callers' = Append(callers, [message |-> message, dAtA |-> dAtA, postIndex |-> postIndex])
      /\ dAtA' = SubSeq(dAtA, iNdEx + 1, postIndex)
      /\ UNCHANGED <<root, input, authority>>
  BY <1>1, <1>2 DEF TakeMessage, Goto
<1>4. /\ callers = << >> /\ message = root /\ dAtA = input
      /\ Own = Known(message, "message", Taken, authority) /\ postIndex = iNdEx + acc
      /\ Taken.bytes \in Seq(Bytes)
  BY <1>1, AtLength
<1>5. callers' = <<[message |-> root, dAtA |-> input, postIndex |-> postIndex]>>
  BY <1>3, <1>4
<1>6. /\ callers' # << >> /\ Len(callers') = 1 /\ callers'[1].message = root
      /\ callers'[1].dAtA = input /\ callers'[1].postIndex = postIndex
  BY <1>5
<1>7. dAtA' = Taken.bytes /\ From(dAtA', 0) = dAtA'
  <2>1. dAtA' = Taken.bytes
    BY <1>3, <1>4 DEF Taken
  <2> QED
    BY <1>4, <2>1, FromStart
<1>8. Own' = Meaning[Unread("Params", Taken.bytes, << >>)]
  BY <1>3, <1>6, <1>7 DEF Own, MeaningOf, OwnAuthority
<1>9. Own = IF ~Own'.ok THEN Bad ELSE Meaning[Unread(root, From(input, postIndex), authority)]
  <2>1. Taken.rest = From(dAtA, iNdEx + acc) /\ Taken.ok
    BY DEF Taken
  <2> QED
    BY <1>4, <1>8, <2>1 DEF Known
<1>10. Whole = Own /\ Whole' = Whole
  BY <1>1, <1>3, <1>4 DEF MeaningInv, Whole, Settled, Ends
<1>11. (Settled(Own))' = Own
  BY <1>3, <1>6, <1>9 DEF Settled
<1>12. FramesInv'
  BY <1>3, <1>6 DEF FramesInv
<1> QED
  BY <1>3, <1>10, <1>11, <1>12 DEF MeaningInv, KnownInv, SkipInv, EndInv, Skipping, Ends

-----------------------------------------------------------------------------
(* The steps of the skipping function. *)

\* What a step of skipTx leaves alone.
LEMMA SkipWithin ==
    ASSUME MeaningInv, UNCHANGED <<root, input, message, dAtA, callers, authority, preIndex>>,
           pc \in Skipping \/ Own = AfterUnknown(Open(preIndex, 0)),
           pc \notin Ends, pc # "loop", pc' \in Skipping,
           SkipInv'
    PROVE  MeaningInv'
<1>1. pc' \notin Ends /\ pc' # "loop" /\ pc' \notin {"tag", "field", "string", "message", "takeString", "takeMessage"}
  BY DEF Skipping, Ends
<1>2. FramesInv' /\ (Whole = Settled(Own))' /\ (preIndex < Len(dAtA))' /\ EndInv' /\ Own' = Own
  BY <1>1, Within
<1> QED
  BY <1>1, <1>2 DEF MeaningInv, KnownInv

\* In skipTx, what is behind the tag of the skipped field stays the same.
LEMMA SkipSame ==
    ASSUME MeaningInv, UNCHANGED <<message, dAtA, callers, authority, preIndex>>,
           pc \in Skipping, pc' \in Skipping
    PROVE  /\ Own' = AfterUnknown(Open(preIndex, 0))'
           /\ Open(preIndex, 0)' = Open(preIndex, 0)
<1>1. Own = AfterUnknown(Open(preIndex, 0)) /\ pc # "loop" /\ pc' # "loop"
  BY DEF MeaningInv, SkipInv, Skipping
<1>2. Own' = Own
  BY <1>1 DEF Own, MeaningOf, OwnAuthority
<1>3. Open(preIndex, 0)' = Open(preIndex, 0)
  BY DEF Open
<1>4. OwnAuthority' = OwnAuthority
  BY DEF OwnAuthority
<1>5. AfterUnknown(Open(preIndex, 0))' = AfterUnknown(Open(preIndex, 0))
  BY <1>3, <1>4 DEF AfterUnknown, Open
<1> QED
  BY <1>1, <1>2, <1>3, <1>5

LEMMA SkipRejects ==
    ASSUME MeaningInv, pc \in Skipping, Open(preIndex, 0) = Bad, Reject,
           UNCHANGED <<root, input, message, dAtA, callers>>
    PROVE  MeaningInv'
<1>1. Own = Bad /\ pc \notin Ends
  BY DEF MeaningInv, SkipInv, AfterUnknown, Unknown, Bad, Skipping, Ends
<1> QED
  BY <1>1, RejectMeans

LEMMA SkipNextMeans == ASSUME Inv, MeaningInv, SkipNext PROVE MeaningInv'
<1>1. /\ pc = "skip" /\ Here < Len(dAtA) /\ pc' = "skipTag" /\ acc' = 0 /\ weight' = 1
      /\ UNCHANGED <<root, input, message, dAtA, callers, authority, preIndex, skipIndex, depth>>
  BY DEF SkipNext, Begin, Goto, frameVars, skipVars, Here
<1>2. Here \in 0 .. Len(dAtA) /\ dAtA \in Seq(Bytes)
  BY <1>1 DEF Here, Inv, TypeOK, TagBehind, Skipping
<1>3. Open(preIndex, 0) = Open(Here, depth)
  BY <1>1, <1>2 DEF MeaningInv, SkipInv
<1>4. Own' = AfterUnknown(Open(preIndex, 0))' /\ Open(preIndex, 0)' = Open(preIndex, 0)
  BY <1>1, SkipSame DEF Skipping
<1>5. Here' = Here /\ Open(Here, depth)' = Open(Here, depth)
  BY <1>1 DEF Here, Open
<1>6. ReadTo(dAtA, Here, Here, 0, 1)
  BY <1>2, BeginReads
<1>7. ReadAt(Here, Here)'
  BY <1>1, <1>5, <1>6 DEF ReadAt
<1>8. \E q \in 0 .. Len(dAtA') : ReadAt(q, Here)' /\ Open(preIndex, 0)' = Open(q, depth)'
  BY <1>1, <1>2, <1>3, <1>4, <1>5, <1>7
<1>9. SkipInv'
  BY <1>1, <1>4, <1>8 DEF SkipInv
<1> QED
  BY <1>1, <1>9, SkipWithin DEF Skipping, Ends

LEMMA VarintOfNothing == ASSUME NEW s \in Seq(Bytes), Len(s) = 0 PROVE Varint(s) = Bad
<1>1. Reading(s, 0, 0, 1)
  BY ReadingStarts
<1>2. 0 >= Len(s)
  OBVIOUS
<1> QED
  BY <1>1, <1>2, ReadingFails

LEMMA SkipEOFMeans == ASSUME Inv, MeaningInv, SkipEOF PROVE MeaningInv'
<1>1. /\ pc = "skip" /\ Here >= Len(dAtA) /\ Reject
      /\ UNCHANGED <<root, input, message, dAtA, callers>>
  BY DEF SkipEOF, frameVars, Here
<1>2. Here \in Int /\ dAtA \in Seq(Bytes) /\ Len(dAtA) \in Nat /\ depth \in Nat
  BY <1>1 DEF Here, Inv, TypeOK
<1>3. CASE Here > Len(dAtA)
  <2>1. Open(preIndex, 0) = Bad
    BY <1>1, <1>2, <1>3 DEF MeaningInv, SkipInv
  <2> QED
    BY <1>1, <2>1, SkipRejects DEF Skipping
<1>4. CASE Here = Len(dAtA)
  <2>1. From(dAtA, Here) \in Seq(Bytes) /\ Len(From(dAtA, Here)) = 0
    <3>1. Here \in 0 .. Len(dAtA) /\ Len(dAtA) - Here = 0
      BY <1>2, <1>4
    <3> QED
      BY <1>2, <3>1, FromProperties
  <2>2. ~Varint(From(dAtA, Here)).ok
    <3>1. Varint(From(dAtA, Here)) = Bad
      BY <2>1, VarintOfNothing
    <3> QED
      BY <3>1 DEF Bad
  <2>3. Open(Here, depth) = Bad
    BY <1>2, <2>1, <2>2, OpenOfField DEF Open
  <2>4. Open(preIndex, 0) = Bad
    BY <1>1, <1>2, <1>4, <2>3 DEF MeaningInv, SkipInv
  <2> QED
    BY <1>1, <2>4, SkipRejects DEF Skipping
<1> QED
  BY <1>1, <1>2, <1>3, <1>4

\* The tag of the field that skipTx is at.
Tag == [ok |-> TRUE, value |-> acc, rest |-> From(dAtA, Here)]

LEMMA AtSkipField ==
    ASSUME Inv, MeaningInv, pc = "skipField"
    PROVE  /\ Open(preIndex, 0) = Inside(FieldEnd(Tag, depth), OpenAfter(Tag, depth))
           /\ Here \in 0 .. Len(dAtA) /\ wireType = Tag.value % 8 /\ Tag.rest = From(dAtA, Here)
<1>1. PICK q \in 0 .. Len(dAtA) : VarintIs(q, Here) /\ Open(preIndex, 0) = Open(q, depth)
  BY DEF MeaningInv, SkipInv
<1>2. Varint(From(dAtA, q)) = Tag /\ Tag.ok /\ Here \in 0 .. Len(dAtA)
  BY <1>1 DEF VarintIs, Tag
<1>3. dAtA \in Seq(Bytes) /\ depth \in Nat
  BY DEF Inv, TypeOK
<1>4. From(dAtA, q) \in Seq(Bytes)
  BY <1>3, FromProperties
<1>5. Open(q, depth) = IF ~Varint(From(dAtA, q)).ok THEN Bad
                       ELSE Inside(FieldEnd(Varint(From(dAtA, q)), depth),
                                   OpenAfter(Varint(From(dAtA, q)), depth))
  BY <1>3, <1>4, OpenOfField DEF Open
<1>6. wireType = Tag.value % 8 /\ Tag.rest = From(dAtA, Here)
  BY DEF wireType, Tag
<1> QED
  BY <1>1, <1>2, <1>5, <1>6

\* Moving on in skipTx: an index that wraps around is negative.
LEMMA Advance ==
    ASSUME Inv, skipIndex >= 0, Here \in 0 .. Len(dAtA), NEW n \in 0 .. (Half - 1), NEW d \in Nat
    PROVE  LET k == Int64(skipIndex + n)
           IN  Inside(Drop(n, From(dAtA, Here)), d) =
                   IF k >= 0 /\ preIndex + k =< Len(dAtA)
                   THEN Inside(Drop(0, From(dAtA, preIndex + k)), d) ELSE Bad
<1> DEFINE x == skipIndex + n
           s == From(dAtA, Here)
<1>1. /\ dAtA \in Seq(Bytes) /\ Len(dAtA) \in Nat /\ Len(dAtA) < Half /\ preIndex \in Nat
      /\ skipIndex \in Nat /\ n \in Nat /\ Here = preIndex + skipIndex /\ Half \in Nat /\ n < Half
  BY WidthTypes DEF Inv, TypeOK, Here
<1>2. skipIndex < Half
  BY <1>1
<1>3. x \in 0 .. (Word - 1) /\ x = skipIndex + n
  BY <1>1, <1>2 DEF Word
<1>4. s \in Seq(Bytes) /\ Len(s) = Len(dAtA) - Here
  BY <1>1, FromProperties
<1>5. Drop(n, s) = IF n > Len(s) THEN Bad ELSE [ok |-> TRUE, rest |-> From(s, n)]
  BY DEF Drop, From
<1>6. Inside(Bad, d) = Bad
  BY DEF Inside, Bad
<1> HIDE DEF x, s
<1>7. Int64(x) = IF x < Half THEN x ELSE x - Word
  BY <1>3, Int64Is
<1>8. CASE x >= Half
  <2>1. Int64(x) < 0 /\ Int64(x) \in Int
    BY <1>3, <1>7, <1>8, WidthTypes
  <2>2. n > Len(s)
    BY <1>1, <1>3, <1>4, <1>8
  <2>3. ~(Int64(x) >= 0)
    BY <2>1
  <2> QED
    BY <1>5, <1>6, <2>2, <2>3 DEF x, s
<1>9. CASE x < Half
  <2>1. Int64(x) = x /\ x >= 0
    BY <1>3, <1>7, <1>9
  <2>2. preIndex + x = Here + n
    BY <1>1, <1>3
  <2>3. CASE Here + n =< Len(dAtA)
    <3>1. n \in 0 .. (Len(dAtA) - Here) /\ ~(n > Len(s)) /\ Here + n \in 0 .. Len(dAtA)
      BY <1>1, <1>4, <2>3
    <3>2. From(s, n) = From(dAtA, Here + n) /\ From(dAtA, Here + n) \in Seq(Bytes)
      BY <1>1, <3>1, FromFrom, FromProperties DEF s
    <3>3. Drop(n, s) = Drop(0, From(dAtA, Here + n))
      BY <1>5, <3>1, <3>2, DropNothing
    <3> QED
      BY <2>1, <2>2, <2>3, <3>3 DEF x, s
  <2>4. CASE ~(Here + n =< Len(dAtA))
    <3>1. n > Len(s)
      BY <1>1, <1>4, <2>4
    <3> QED
      BY <1>5, <1>6, <2>1, <2>2, <2>4, <3>1 DEF x, s
  <2> QED
    BY <2>3, <2>4
<1> QED
  BY <1>3, <1>8, <1>9, WidthTypes

\* A step of skipTx to the end of a field.
LEMMA ToSkipped ==
    ASSUME Inv, MeaningInv, pc \in Skipping, pc' = "skipped",
           UNCHANGED <<root, input, message, dAtA, callers, authority, preIndex>>,
           Open(preIndex, 0) = IF skipIndex' >= 0 /\ preIndex + skipIndex' =< Len(dAtA)
                               THEN Inside(Drop(0, From(dAtA, preIndex + skipIndex')), depth') ELSE Bad
    PROVE  MeaningInv'
<1>1. Own' = AfterUnknown(Open(preIndex, 0))' /\ Open(preIndex, 0)' = Open(preIndex, 0)
  BY SkipSame DEF Skipping
<1>2. Here' = preIndex + skipIndex'
  BY DEF Here
<1>3. (Open(preIndex, 0) = IF skipIndex >= 0 /\ Here =< Len(dAtA)
                           THEN Inside(Drop(0, From(dAtA, Here)), depth) ELSE Bad)'
  BY <1>1, <1>2
<1>4. SkipInv'
  BY <1>1, <1>3 DEF SkipInv
<1>5. pc \notin Ends /\ pc # "loop" /\ pc' \in Skipping
  BY DEF Skipping, Ends
<1> QED
  BY <1>4, <1>5, SkipWithin

LEMMA SkipFixedMeans == ASSUME Inv, MeaningInv, SkipFixed PROVE MeaningInv'
<1> DEFINE n == IF wireType = 1 THEN Fixed64 ELSE Fixed32
<1>1. /\ pc = "skipField" /\ wireType \in {1, 5} /\ pc' = "skipped" /\ depth' = depth
      /\ skipIndex' = Int64(skipIndex + n)
      /\ UNCHANGED <<root, input, message, dAtA, callers, authority, preIndex>>
  BY DEF SkipFixed, Goto, frameVars
<1>2. n \in 0 .. (Half - 1)
  BY WireAssumption
<1> DEFINE t == Tag
<1>3. /\ Open(preIndex, 0) = Inside(FieldEnd(t, depth), OpenAfter(t, depth))
      /\ Here \in 0 .. Len(dAtA) /\ wireType = t.value % 8 /\ t.rest = From(dAtA, Here)
  BY <1>1, AtSkipField
<1> HIDE DEF t
<1>4. FieldEnd(t, depth) = Drop(n, From(dAtA, Here)) /\ OpenAfter(t, depth) = depth
  <2>1. CASE wireType = 1
    <3>1. t.value % 8 = 1
      BY <1>3, <2>1
    <3> QED
      BY <1>3, <2>1, <3>1 DEF FieldEnd, OpenAfter
  <2>2. CASE wireType = 5
    <3>1. t.value % 8 = 5
      BY <1>3, <2>2
    <3> QED
      BY <1>3, <2>2, <3>1 DEF FieldEnd, OpenAfter
  <2> QED
    BY <1>1, <2>1, <2>2
<1>5. skipIndex >= 0 /\ depth \in Nat
  BY <1>1 DEF Inv, TypeOK, TagBehind, Skipping
<1> HIDE DEF n
<1>6. Inside(Drop(n, From(dAtA, Here)), depth) =
          IF skipIndex' >= 0 /\ preIndex + skipIndex' =< Len(dAtA)
          THEN Inside(Drop(0, From(dAtA, preIndex + skipIndex')), depth) ELSE Bad
  BY <1>1, <1>2, <1>3, <1>5, Advance
<1> QED
  BY <1>1, <1>3, <1>4, <1>6, ToSkipped DEF Skipping

LEMMA SkipVarintOrBytesMeans == ASSUME Inv, MeaningInv, SkipVarintOrBytes PROVE MeaningInv'
<1>1. /\ pc = "skipField" /\ wireType \in {0, 2} /\ acc' = 0 /\ weight' = 1
      /\ pc' = IF wireType = 0 THEN "skipVarint" ELSE "skipLength"
      /\ UNCHANGED <<root, input, message, dAtA, callers, authority, preIndex, skipIndex, depth>>
  BY DEF SkipVarintOrBytes, Begin, Goto, frameVars, skipVars
<1> DEFINE t == Tag
           s == From(dAtA, Here)
<1>2. /\ Open(preIndex, 0) = Inside(FieldEnd(t, depth), OpenAfter(t, depth))
      /\ Here \in 0 .. Len(dAtA) /\ wireType = t.value % 8 /\ t.rest = s
  BY <1>1, AtSkipField
<1>3. Own' = AfterUnknown(Open(preIndex, 0))' /\ Open(preIndex, 0)' = Open(preIndex, 0)
  BY <1>1, SkipSame DEF Skipping
<1>4. dAtA \in Seq(Bytes)
  BY Places
<1>5. ReadTo(dAtA, Here, Here, 0, 1)
  BY <1>2, <1>4, BeginReads
<1>6. Here' = Here
  BY <1>1 DEF Here
<1>7. ReadAt(Here, Here)' /\ Here \in 0 .. Len(dAtA')
  BY <1>1, <1>2, <1>5, <1>6 DEF ReadAt
<1> HIDE DEF t
<1>8. CASE wireType = 0
  <2>1. FieldEnd(t, depth) = Varint(s) /\ OpenAfter(t, depth) = depth
    <3>1. t.value % 8 = 0
      BY <1>2, <1>8
    <3> QED
      BY <1>2, <3>1 DEF FieldEnd, OpenAfter
  <2>2. Open(preIndex, 0)' = Inside(Varint(From(dAtA', Here)), depth')
    BY <1>1, <1>2, <1>3, <2>1
  <2>3. \E q \in 0 .. Len(dAtA') : ReadAt(q, Here)' /\ Open(preIndex, 0)' = Inside(Varint(From(dAtA', q)), depth')
    BY <1>6, <1>7, <2>2
  <2>4. pc' = "skipVarint"
    BY <1>1, <1>8
  <2>5. SkipInv'
    BY <1>3, <2>3, <2>4 DEF SkipInv
  <2> QED
    BY <1>1, <2>4, <2>5, SkipWithin DEF Skipping, Ends
<1>9. CASE wireType = 2
  <2>1. FieldEnd(t, depth) = Bytestring(s) /\ OpenAfter(t, depth) = depth
    <3>1. t.value % 8 = 2
      BY <1>2, <1>9
    <3> QED
      BY <1>2, <3>1 DEF FieldEnd, OpenAfter
  <2>2. Open(preIndex, 0)' = Inside(Bytestring(From(dAtA', Here)), depth')
    BY <1>1, <1>2, <1>3, <2>1
  <2>3. \E q \in 0 .. Len(dAtA') : ReadAt(q, Here)' /\ Open(preIndex, 0)' = Inside(Bytestring(From(dAtA', q)), depth')
    BY <1>6, <1>7, <2>2
  <2>4. pc' = "skipLength"
    BY <1>1, <1>9
  <2>5. SkipInv'
    BY <1>3, <2>3, <2>4 DEF SkipInv
  <2> QED
    BY <1>1, <2>4, <2>5, SkipWithin DEF Skipping, Ends
<1> QED
  BY <1>1, <1>8, <1>9

LEMMA SkipBytesMeans == ASSUME Inv, MeaningInv, SkipBytes PROVE MeaningInv'
<1>1. /\ pc = "skipBytes"
      /\ IF length < 0
           THEN Reject /\ UNCHANGED skipIndex
           ELSE pc' = "skipped" /\ skipIndex' = Int64(skipIndex + length)
      /\ UNCHANGED <<root, input, message, dAtA, callers, authority, preIndex, depth>>
  BY DEF SkipBytes, Goto, frameVars
<1>2. PICK q \in 0 .. Len(dAtA) :
         VarintIs(q, Here) /\ Open(preIndex, 0) = Inside(Bytestring(From(dAtA, q)), depth)
  BY <1>1 DEF MeaningInv, SkipInv
<1> DEFINE r == From(dAtA, Here)
<1>3. /\ dAtA \in Seq(Bytes) /\ Len(dAtA) \in Nat /\ Len(dAtA) < Half /\ acc \in 0 .. (Word - 1)
      /\ Here \in 0 .. Len(dAtA) /\ depth \in Nat /\ skipIndex >= 0
  BY <1>1, <1>2 DEF Inv, TypeOK, VarintIs, TagBehind, Skipping
<1>4. r \in Seq(Bytes) /\ Len(r) = Len(dAtA) - Here
  BY <1>3, FromProperties
<1>5. Bytestring(From(dAtA, q)) = IF acc > Len(r) THEN Bad
                                  ELSE [ok |-> TRUE, bytes |-> SubSeq(r, 1, acc), rest |-> From(r, acc)]
  BY <1>2, BytestringIs DEF VarintIs
<1> HIDE DEF r
<1>6. length = IF acc < Half THEN acc ELSE acc - Word
  BY <1>3, Int64Is DEF length
<1>7. CASE acc >= Half
  <2>1. acc > Len(r) /\ length < 0
    BY <1>3, <1>4, <1>6, <1>7, WidthTypes
  <2>2. Open(preIndex, 0) = Bad
    BY <1>2, <1>5, <2>1 DEF Inside, Bad
  <2> QED
    BY <1>1, <2>1, <2>2, SkipRejects DEF Skipping
<1>8. CASE acc < Half
  <2>1. acc \in 0 .. (Half - 1) /\ length = acc /\ ~(length < 0)
    BY <1>3, <1>6, <1>8, WidthTypes
  <2>2. pc' = "skipped" /\ skipIndex' = Int64(skipIndex + acc)
    BY <1>1, <2>1
  <2>3. Inside(Drop(acc, r), depth) = IF skipIndex' >= 0 /\ preIndex + skipIndex' =< Len(dAtA)
          THEN Inside(Drop(0, From(dAtA, preIndex + skipIndex')), depth) ELSE Bad
    BY <1>3, <2>1, <2>2, Advance DEF r
  <2>4. Inside(Bytestring(From(dAtA, q)), depth) = Inside(Drop(acc, r), depth)
    <3>1. Drop(acc, r) = IF acc > Len(r) THEN Bad ELSE [ok |-> TRUE, rest |-> From(r, acc)]
      BY DEF Drop, From
    <3> QED
      BY <1>5, <3>1 DEF Inside
  <2> QED
    BY <1>1, <1>2, <2>2, <2>3, <2>4, ToSkipped DEF Skipping
<1> QED
  BY <1>3, <1>7, <1>8, WidthTypes

LEMMA StartGroupMeans == ASSUME Inv, MeaningInv, StartGroup PROVE MeaningInv'
<1>1. /\ pc = "skipField" /\ wireType = 3 /\ pc' = "skipped" /\ depth' = depth + 1
      /\ UNCHANGED <<root, input, message, dAtA, callers, authority, preIndex, skipIndex>>
  BY DEF StartGroup, Goto, frameVars
<1> DEFINE t == Tag
<1>2. /\ Open(preIndex, 0) = Inside(FieldEnd(t, depth), OpenAfter(t, depth))
      /\ Here \in 0 .. Len(dAtA) /\ wireType = t.value % 8 /\ t.rest = From(dAtA, Here)
  BY <1>1, AtSkipField
<1> HIDE DEF t
<1>3. FieldEnd(t, depth) = Drop(0, From(dAtA, Here)) /\ OpenAfter(t, depth) = depth'
  <2>1. t.value % 8 = 3
    BY <1>1, <1>2
  <2> QED
    BY <1>1, <1>2, <2>1 DEF FieldEnd, OpenAfter
<1>4. skipIndex' >= 0 /\ preIndex + skipIndex' = Here /\ Here =< Len(dAtA)
  BY <1>1, <1>2 DEF Inv, TypeOK, TagBehind, Skipping, Here
<1> QED
  BY <1>1, <1>2, <1>3, <1>4, ToSkipped DEF Skipping

LEMMA EndGroupMeans == ASSUME Inv, MeaningInv, EndGroup PROVE MeaningInv'
<1>1. /\ pc = "skipField" /\ wireType = 4
      /\ IF depth = 0 THEN Reject ELSE pc' = "skipped" /\ depth' = depth - 1
      /\ UNCHANGED <<root, input, message, dAtA, callers, authority, preIndex, skipIndex>>
  BY DEF EndGroup, Goto, frameVars
<1> DEFINE t == Tag
<1>2. /\ Open(preIndex, 0) = Inside(FieldEnd(t, depth), OpenAfter(t, depth))
      /\ Here \in 0 .. Len(dAtA) /\ wireType = t.value % 8 /\ t.rest = From(dAtA, Here)
  BY <1>1, AtSkipField
<1> HIDE DEF t
<1>3. t.value % 8 = 4
  BY <1>1, <1>2
<1>4. CASE depth = 0
  <2>1. FieldEnd(t, depth) = Bad
    BY <1>3, <1>4 DEF FieldEnd
  <2>2. Open(preIndex, 0) = Bad
    BY <1>2, <2>1 DEF Inside, Bad
  <2> QED
    BY <1>1, <1>4, <2>2, SkipRejects DEF Skipping
<1>5. CASE depth # 0
  <2>1. FieldEnd(t, depth) = Drop(0, From(dAtA, Here)) /\ OpenAfter(t, depth) = depth' /\ pc' = "skipped"
    BY <1>1, <1>2, <1>3, <1>5 DEF FieldEnd, OpenAfter
  <2>2. skipIndex' >= 0 /\ preIndex + skipIndex' = Here /\ Here =< Len(dAtA)
    BY <1>1, <1>2 DEF Inv, TypeOK, TagBehind, Skipping, Here
  <2> QED
    BY <1>1, <1>2, <2>1, <2>2, ToSkipped DEF Skipping
<1> QED
  BY <1>4, <1>5

LEMMA IllegalWireTypeMeans == ASSUME Inv, MeaningInv, IllegalWireType PROVE MeaningInv'
<1>1. /\ pc = "skipField" /\ wireType > 5 /\ Reject
      /\ UNCHANGED <<root, input, message, dAtA, callers>>
  BY DEF IllegalWireType, frameVars
<1> DEFINE t == Tag
<1>2. /\ Open(preIndex, 0) = Inside(FieldEnd(t, depth), OpenAfter(t, depth))
      /\ wireType = t.value % 8
  BY <1>1, AtSkipField
<1> HIDE DEF t
<1>3. FieldEnd(t, depth) = Bad
  <2>1. t.value % 8 \notin {0, 1, 2, 3, 4, 5}
    BY <1>1, <1>2
  <2> QED
    BY <2>1 DEF FieldEnd
<1>4. Open(preIndex, 0) = Bad
  BY <1>2, <1>3 DEF Inside, Bad
<1> QED
  BY <1>1, <1>4, SkipRejects DEF Skipping

LEMMA SkippedMeans == ASSUME Inv, MeaningInv, Skipped PROVE MeaningInv'
<1>1. /\ pc = "skipped"
      /\ UNCHANGED <<root, input, message, dAtA, callers, authority, preIndex, skipIndex, depth>>
  BY DEF Skipped, skipVars
<1>2. /\ skipIndex \in Int /\ depth \in Nat /\ preIndex \in Nat /\ iNdEx = preIndex
      /\ dAtA \in Seq(Bytes) /\ Len(dAtA) \in Nat /\ Len(dAtA) < Half /\ Here = preIndex + skipIndex
  BY <1>1 DEF Inv, TypeOK, TagBehind, Skipping, Here
<1>3. /\ Open(preIndex, 0) = IF skipIndex >= 0 /\ Here =< Len(dAtA)
                             THEN Inside(Drop(0, From(dAtA, Here)), depth) ELSE Bad
      /\ Own = AfterUnknown(Open(preIndex, 0))
  BY <1>1 DEF MeaningInv, SkipInv, Skipping
<1>4. CASE skipIndex < 0
  <2>1. Reject
    BY <1>4 DEF Skipped
  <2>2. Open(preIndex, 0) = Bad
    BY <1>2, <1>3, <1>4
  <2> QED
    BY <1>1, <2>1, <2>2, SkipRejects DEF Skipping
<1>5. CASE skipIndex >= 0 /\ depth > 0
  <2>1. pc' = "skip"
    BY <1>2, <1>5 DEF Skipped, Goto
  <2>2. Open(preIndex, 0) = IF Here =< Len(dAtA) THEN Open(Here, depth) ELSE Bad
    <3>1. SUFFICES ASSUME Here =< Len(dAtA)
                   PROVE  Inside(Drop(0, From(dAtA, Here)), depth) = Open(Here, depth)
      BY <1>3, <1>5
    <3>2. Here \in 0 .. Len(dAtA) /\ depth # 0
      BY <1>2, <1>5, <3>1
    <3>3. Drop(0, From(dAtA, Here)) = [ok |-> TRUE, rest |-> From(dAtA, Here)]
      BY <1>2, <3>2, FromProperties, DropNothing
    <3> QED
      BY <3>2, <3>3 DEF Inside, Open
  <2>3. Own' = AfterUnknown(Open(preIndex, 0))' /\ Open(preIndex, 0)' = Open(preIndex, 0)
    BY <1>1, <2>1, SkipSame DEF Skipping
  <2>4. Here' = Here /\ Open(Here, depth)' = Open(Here, depth)
    BY <1>1 DEF Here, Open
  <2>5. SkipInv'
    BY <1>1, <2>1, <2>2, <2>3, <2>4 DEF SkipInv
  <2> QED
    BY <1>1, <2>1, <2>5, SkipWithin DEF Skipping, Ends
<1>6. CASE skipIndex >= 0 /\ ~(depth > 0) /\ Here > Len(dAtA)
  <2>1. Reject
    BY <1>2, <1>6 DEF Skipped
  <2>2. Open(preIndex, 0) = Bad
    BY <1>2, <1>3, <1>6
  <2> QED
    BY <1>1, <2>1, <2>2, SkipRejects DEF Skipping
<1>7. CASE skipIndex >= 0 /\ ~(depth > 0) /\ ~(Here > Len(dAtA))
  <2>1. Here \in 0 .. Len(dAtA) /\ depth = 0 /\ iNdEx + skipIndex = Here
    BY <1>2, <1>7
  <2>2. Int64(Here) = Here /\ Here >= 0
    <3>1. Here \in 0 .. (Word - 1) /\ Here < Half
      BY <1>2, <2>1, WidthTypes DEF Word
    <3> QED
      BY <3>1, Int64Is
  <2>3. pc' = "loop" /\ iNdEx' = Here
    BY <1>2, <1>7, <2>1, <2>2 DEF Skipped, Goto
  <2>4. From(dAtA, Here) \in Seq(Bytes)
    BY <1>2, <2>1, FromProperties
  <2>5. Drop(0, From(dAtA, Here)) = [ok |-> TRUE, rest |-> From(dAtA, Here)]
    BY <2>4, DropNothing
  <2>6. Open(preIndex, 0) = Drop(0, From(dAtA, Here))
    BY <1>2, <1>3, <1>7, <2>1, <2>5 DEF Inside
  <2>7. Own = Meaning[Unread(message, From(dAtA, Here), OwnAuthority)]
    BY <1>3, <2>5, <2>6 DEF AfterUnknown, Unknown
  <2>8. Own' = Own
    BY <1>1, <2>3, <2>7 DEF Own, MeaningOf, OwnAuthority
  <2>9. Whole' = Whole /\ (Settled(Own))' = Settled(Own) /\ FramesInv'
    BY <1>1, <2>8 DEF Whole, Settled, FramesInv, MeaningInv
  <2> QED
    BY <1>1, <2>3, <2>8, <2>9 DEF MeaningInv, KnownInv, SkipInv, EndInv, Skipping, Ends
<1> QED
  BY <1>2, <1>4, <1>5, <1>6, <1>7

-----------------------------------------------------------------------------
(* The decoder and the reference. *)

LEMMA StepMeaning == ASSUME Inv, Inv', MeaningInv, [Next]_vars PROVE MeaningInv'
<1>1. CASE IntOverflow \/ UnexpectedEOF
  BY <1>1, VarintRejected
<1>2. CASE ReadByte
  BY <1>2, ReadByteMeans
<1>3. CASE NextField \/ Return
  BY <1>3, NextFieldMeans, ReturnMeans
<1>4. CASE IllegalField \/ KnownField \/ UnknownField
  BY <1>4, IllegalFieldMeans, KnownFieldMeans, UnknownFieldMeans
<1>5. CASE RejectLength \/ TakeString \/ TakeMessage
  BY <1>5, RejectLengthMeans, TakeStringMeans, TakeMessageMeans
<1>6. CASE SkipNext \/ SkipEOF \/ SkipFixed
  BY <1>6, SkipNextMeans, SkipEOFMeans, SkipFixedMeans
<1>7. CASE SkipVarintOrBytes \/ SkipBytes \/ Skipped
  BY <1>7, SkipVarintOrBytesMeans, SkipBytesMeans, SkippedMeans
<1>8. CASE StartGroup \/ EndGroup \/ IllegalWireType
  BY <1>8, StartGroupMeans, EndGroupMeans, IllegalWireTypeMeans
<1>9. CASE UNCHANGED vars
  <2>1. UNCHANGED <<root, input, message, dAtA, iNdEx, preIndex, callers, skipIndex, depth,
                    acc, weight, pc, authority>>
    BY <1>9 DEF vars, frameVars, skipVars, varintVars
  <2>2. Own' = Own /\ OwnAuthority' = OwnAuthority /\ Here' = Here /\ Whole' = Whole
    BY <2>1 DEF Own, MeaningOf, OwnAuthority, Here, Whole
  <2>3. FramesInv' /\ (Settled(Own))' = Settled(Own) /\ EndInv'
    BY <2>1, <2>2 DEF FramesInv, Settled, EndInv, MeaningInv
  <2>4. KnownInv'
    BY <2>1, <2>2 DEF KnownInv, AfterKnown, ReadAt, VarintIs, MeaningInv
  <2>5. SkipInv'
    BY <2>1, <2>2 DEF SkipInv, AfterUnknown, Open, ReadAt, VarintIs, MeaningInv
  <2> QED
    BY <2>1, <2>2, <2>3, <2>4, <2>5 DEF MeaningInv, ReadAt, VarintIs
<1> QED
  BY <1>1, <1>2, <1>3, <1>4, <1>5, <1>6, <1>7, <1>8, <1>9 DEF Next

LEMMA MeaningDecoded == Inv /\ MeaningInv => DecodesMeaning
<1> SUFFICES ASSUME Inv, MeaningInv, pc \in Ends
             PROVE  /\ (pc = "done") = Whole.ok
                    /\ Whole.ok => authority = Whole.authority
  BY DEF DecodesMeaning, Whole
<1>1. pc \in {"done", "rejected"}
  BY DEF Inv, InBounds, Ends
<1>2. CASE pc = "done"
  <2>1. Whole = [ok |-> TRUE, authority |-> authority]
    BY <1>2 DEF MeaningInv, EndInv
  <2>2. Whole.ok = TRUE /\ Whole.authority = authority
    BY <2>1
  <2> QED
    BY <1>2, <2>2
<1>3. CASE pc = "rejected"
  <2>1. Whole = Bad
    BY <1>3 DEF MeaningInv, EndInv
  <2>2. Whole.ok = FALSE
    BY <2>1 DEF Bad
  <2>3. (pc = "done") = FALSE
    BY <1>3
  <2> QED
    BY <2>2, <2>3
<1> QED
  BY <1>1, <1>2, <1>3

\* For every buffer, width and set of messages: the decoder accepts exactly the
\* buffers that mean something to the reference, and decodes what they mean.
THEOREM DecoderFindsMeaning == Spec => []DecodesMeaning
<1>1. Init => Inv /\ MeaningInv
  BY InitInv, InitMeaning
<1>2. (Inv /\ MeaningInv) /\ [Next]_vars => (Inv /\ MeaningInv)'
  BY StepInv, StepMeaning
<1>3. Inv /\ MeaningInv => DecodesMeaning
  BY MeaningDecoded
<1> QED
  BY <1>1, <1>2, <1>3, PTL DEF Spec

-----------------------------------------------------------------------------
(* The variant.  A field is consumed with at least its tag, so iNdEx has moved       *)
(* behind preIndex when it ends; and skipTx does not return 0.                       *)

ProgressInv ==
    /\ pc \in {"field", "string", "message", "takeString", "takeMessage"} => preIndex < iNdEx
    /\ pc \in Skipping => skipIndex < Half
    /\ pc \in Skipping \ {"skip", "skipTag"} => skipIndex # 0

LEMMA InitProgress == Init => ProgressInv
BY DEF Init, ProgressInv, Skipping, SkipVarints

\* skipTx moves its index forward, or beyond 2^63 - 1 and below 0.
LEMMA SkipMoves ==
    ASSUME Inv, pc \in Skipping \ {"skipped"}, skipIndex < Half, NEW n \in 0 .. (Half - 1)
    PROVE  /\ Int64(skipIndex + n) \in Int /\ Int64(skipIndex + n) < Half
           /\ Int64(skipIndex + n) < 0 \/ Int64(skipIndex + n) = skipIndex + n
<1>1. skipIndex \in 0 .. (Half - 1)
  BY WidthTypes DEF Inv, TypeOK, TagBehind
<1>2. skipIndex + n \in Int
  BY <1>1
<1>3. Int64(skipIndex + n) \in Int /\ Int64(skipIndex + n) < Half
  BY <1>2, Int64Type
<1> QED
  BY <1>1, <1>3, NoWrap

LEMMA StepProgress == ASSUME Inv, Inv', ProgressInv, [Next]_vars PROVE ProgressInv'
<1>1. CASE ReadByte
  <2>1. pc' \in {pc, After(pc)} /\ pc \in Varints /\ Position < Len(dAtA) /\ UNCHANGED preIndex
    BY <1>1 DEF ReadByte, Goto
  <2>2. CASE pc \in SkipVarints
    <3>1. skipIndex' = skipIndex + 1 /\ preIndex + skipIndex < Len(dAtA) /\ skipIndex >= 0
      BY <1>1, <2>1, <2>2 DEF ReadByte, Position, Inv, TagBehind, Skipping, SkipVarints
    <3>2. skipIndex' < Half /\ skipIndex' # 0
      BY <3>1, WidthTypes DEF Inv, TypeOK
    <3>3. pc' \in Skipping
      BY <2>1, <2>2 DEF After, Skipping, SkipVarints
    <3> QED
      BY <3>2, <3>3 DEF ProgressInv, Skipping, SkipVarints
  <2>3. CASE pc \notin SkipVarints
    <3>1. iNdEx' = iNdEx + 1
      BY <1>1, <2>3 DEF ReadByte
    <3>2. pc' \notin Skipping
      BY <2>1, <2>3 DEF After, Skipping, SkipVarints, Varints
    <3>3. pc \in {"tag", "string", "message"}
      BY <2>1, <2>3 DEF Varints, SkipVarints
    <3>4. preIndex =< iNdEx
      BY <3>3 DEF ProgressInv, Inv, TypeOK, TagBehind
    <3>5. preIndex < iNdEx'
      BY <3>1, <3>4 DEF Inv, TypeOK
    <3>6. UNCHANGED preIndex
      BY <2>1
    <3> QED
      BY <3>2, <3>5, <3>6 DEF ProgressInv
  <2> QED
    BY <2>2, <2>3
<1>2. CASE KnownField
  <2>1. pc' \in {"string", "message"} /\ pc = "field" /\ UNCHANGED <<iNdEx, preIndex>>
    BY <1>2, FieldKinds DEF KnownField, Begin, Goto, Inv, TypeOK, frameVars
  <2> QED
    BY <2>1 DEF ProgressInv, Skipping, SkipVarints
<1>3. CASE UnknownField
  BY <1>3, WidthTypes DEF UnknownField, Goto, ProgressInv, Skipping, SkipVarints
<1>4. CASE SkipFixed
  <2> DEFINE n == IF wireType = 1 THEN Fixed64 ELSE Fixed32
  <2>1. n \in 1 .. (Half - 1)
    BY WireAssumption
  <2>2. skipIndex' = Int64(skipIndex + n) /\ pc = "skipField" /\ pc' = "skipped"
    BY <1>4 DEF SkipFixed, Goto
  <2> HIDE DEF n
  <2>3. skipIndex' < Half /\ (skipIndex' < 0 \/ skipIndex' = skipIndex + n) /\ skipIndex' \in Int
    BY <2>1, <2>2, SkipMoves, WidthTypes DEF ProgressInv, Skipping
  <2>4. skipIndex >= 0 /\ skipIndex \in Int
    BY <2>2 DEF Inv, TypeOK, TagBehind, Skipping
  <2>5. skipIndex' # 0
    BY <2>1, <2>3, <2>4
  <2> QED
    BY <2>2, <2>3, <2>5 DEF ProgressInv, Skipping
<1>5. CASE SkipBytes
  <2>1. CASE length < 0
    BY <1>5, <2>1 DEF SkipBytes, Reject, Goto, ProgressInv, Skipping, SkipVarints
  <2>2. CASE ~(length < 0)
    <3>1. skipIndex' = Int64(skipIndex + length) /\ pc = "skipBytes" /\ pc' = "skipped"
      BY <1>5, <2>2 DEF SkipBytes, Goto
    <3>2. length \in 0 .. (Half - 1)
      <4>1. acc \in Int
        BY DEF Inv, TypeOK
      <4> QED
        BY <2>2, <4>1, Int64Type, WidthTypes DEF length
    <3>3. skipIndex' < Half /\ (skipIndex' < 0 \/ skipIndex' = skipIndex + length)
      BY <3>1, <3>2, SkipMoves DEF ProgressInv, Skipping
    <3>4. skipIndex > 0 /\ skipIndex \in Int
      BY <3>1 DEF Inv, TypeOK, TagBehind, Skipping, ProgressInv
    <3>5. skipIndex' # 0
      BY <3>2, <3>3, <3>4
    <3> QED
      BY <3>1, <3>3, <3>5 DEF ProgressInv, Skipping
  <2> QED
    BY <2>1, <2>2
<1>6. CASE NextField \/ Return \/ TakeString \/ TakeMessage
  <2>1. pc' \in {"tag", "loop", "done", "rejected", "panicked"}
    BY <1>6 DEF NextField, Return, TakeString, TakeMessage, Begin, Reject, Goto
  <2> QED
    BY <2>1 DEF ProgressInv, Skipping, SkipVarints
<1>7. CASE IntOverflow \/ UnexpectedEOF \/ IllegalField \/ RejectLength \/ SkipEOF \/ IllegalWireType
  <2>1. pc' = "rejected"
    BY <1>7 DEF IntOverflow, UnexpectedEOF, IllegalField, RejectLength, SkipEOF, IllegalWireType,
                Reject, Goto
  <2> QED
    BY <2>1 DEF ProgressInv, Skipping, SkipVarints
<1>8. CASE SkipNext \/ Skipped
  <2>1. pc' \in {"skipTag", "skip", "loop", "rejected"} /\ pc \in Skipping /\ UNCHANGED skipIndex
    BY <1>8 DEF SkipNext, Skipped, Begin, Reject, Goto, skipVars, Skipping
  <2> QED
    BY <2>1 DEF ProgressInv, Skipping
<1>9. CASE SkipVarintOrBytes \/ StartGroup \/ EndGroup
  <2>1. pc = "skipField" /\ UNCHANGED skipIndex
    BY <1>9 DEF SkipVarintOrBytes, StartGroup, EndGroup, skipVars
  <2>2. pc' \in {"skipVarint", "skipLength", "skipped", "rejected"}
    BY <1>9 DEF SkipVarintOrBytes, StartGroup, EndGroup, Begin, Reject, Goto
  <2> QED
    BY <2>1, <2>2 DEF ProgressInv, Skipping
<1>10. CASE UNCHANGED vars
  BY <1>10 DEF vars, frameVars, skipVars, ProgressInv
<1> QED
  BY <1>1, <1>2, <1>3, <1>4, <1>5, <1>6, <1>7, <1>8, <1>9, <1>10 DEF Next

Outer == IF pc \in Skipping THEN 0 ELSE 1

LEMMA SmallerAt ==
    ASSUME NEW s, NEW t, DOMAIN t = 1 .. 5, NEW n \in 1 .. 5,
           s[n] \in 0 .. (t[n] - 1), \A j \in 1 .. 5 : j < n => s[j] = t[j]
    PROVE  Smaller(s, t)
<1>1. \A j \in 1 .. (n - 1) : j \in 1 .. 5 /\ j < n
  OBVIOUS
<1>2. \A j \in 1 .. (n - 1) : s[j] = t[j]
  BY <1>1
<1> QED
  BY <1>2 DEF Smaller

\* The first element that changes falls.
LEMMA Lexicographic ==
    ASSUME NEW s, NEW t, DOMAIN t = 1 .. 5,
           \/ s[1] \in 0 .. (t[1] - 1)
           \/ s[1] = t[1] /\ s[2] \in 0 .. (t[2] - 1)
           \/ s[1] = t[1] /\ s[2] = t[2] /\ s[3] \in 0 .. (t[3] - 1)
           \/ s[1] = t[1] /\ s[2] = t[2] /\ s[3] = t[3] /\ s[4] \in 0 .. (t[4] - 1)
           \/ /\ s[1] = t[1] /\ s[2] = t[2] /\ s[3] = t[3] /\ s[4] = t[4]
              /\ s[5] \in 0 .. (t[5] - 1)
    PROVE  Smaller(s, t)
<1>1. \E n \in 1 .. 5 : s[n] \in 0 .. (t[n] - 1) /\ \A j \in 1 .. 5 : j < n => s[j] = t[j]
  <2>1. \A j \in 1 .. 5 :
           /\ j < 2 => j = 1
           /\ j < 3 => j = 1 \/ j = 2
           /\ j < 4 => j = 1 \/ j = 2 \/ j = 3
           /\ j < 5 => j = 1 \/ j = 2 \/ j = 3 \/ j = 4
           /\ ~(j < 1)
    OBVIOUS
  <2>2. CASE s[1] \in 0 .. (t[1] - 1)
    <3> WITNESS 1 \in 1 .. 5
    <3> QED
      BY <2>1, <2>2
  <2>3. CASE s[1] = t[1] /\ s[2] \in 0 .. (t[2] - 1)
    <3> WITNESS 2 \in 1 .. 5
    <3> QED
      BY <2>1, <2>3
  <2>4. CASE s[1] = t[1] /\ s[2] = t[2] /\ s[3] \in 0 .. (t[3] - 1)
    <3> WITNESS 3 \in 1 .. 5
    <3> QED
      BY <2>1, <2>4
  <2>5. CASE s[1] = t[1] /\ s[2] = t[2] /\ s[3] = t[3] /\ s[4] \in 0 .. (t[4] - 1)
    <3> WITNESS 4 \in 1 .. 5
    <3> QED
      BY <2>1, <2>5
  <2>6. CASE /\ s[1] = t[1] /\ s[2] = t[2] /\ s[3] = t[3] /\ s[4] = t[4]
             /\ s[5] \in 0 .. (t[5] - 1)
    <3> WITNESS 5 \in 1 .. 5
    <3> QED
      BY <2>1, <2>6
  <2> QED
    BY <2>2, <2>3, <2>4, <2>5, <2>6
<1>2. PICK n \in 1 .. 5 : s[n] \in 0 .. (t[n] - 1) /\ \A j \in 1 .. 5 : j < n => s[j] = t[j]
  BY <1>1
<1> QED
  BY <1>2, SmallerAt

\* An element of the variant falls, and none before it rises.
LEMMA Falls ==
    ASSUME \/ Remaining' \in 0 .. (Remaining - 1)
           \/ /\ Remaining' = Remaining
              /\ \/ Len(callers') \in 0 .. (Len(callers) - 1)
                 \/ /\ Len(callers') = Len(callers)
                    /\ \/ Outer' \in 0 .. (Outer - 1)
                       \/ /\ Outer' = Outer
                          /\ \/ Word - Index' \in 0 .. (Word - Index - 1)
                             \/ /\ Word - Index' = Word - Index
                                /\ StepsWithoutByte' \in 0 .. (StepsWithoutByte - 1)
    PROVE  Smaller(Variant', Variant)
<1> DEFINE s == Variant'
           t == Variant
<1>1. /\ s[1] = Remaining' /\ s[2] = Len(callers') /\ s[3] = Outer' /\ s[4] = Word - Index'
      /\ s[5] = StepsWithoutByte'
  BY DEF Variant, Outer, Word
<1>2. /\ t[1] = Remaining /\ t[2] = Len(callers) /\ t[3] = Outer /\ t[4] = Word - Index
      /\ t[5] = StepsWithoutByte /\ DOMAIN t = 1 .. 5
  BY DEF Variant, Outer
<1> HIDE DEF s, t
<1>3. Smaller(s, t)
  BY <1>1, <1>2, Lexicographic
<1> QED
  BY <1>3 DEF s, t

\* While the call runs, no index is behind its buffer but one that has wrapped around.
LEMMA IndexBelow ==
    ASSUME Inv, ProgressInv, pc \notin Ends \cup {"loop"} => preIndex < Len(dAtA), pc \notin Ends
    PROVE  /\ Index \in 0 .. Word
           /\ pc \in Skipping \ {"skipped"} =>
                 skipIndex \in 0 .. (Half - 1) /\ Index = preIndex + skipIndex /\ Index < Word
<1>1. CASE pc \notin Skipping
  BY <1>1, WidthTypes DEF Index, Inv, TypeOK, InBounds, Word
<1>2. CASE pc \in Skipping
  <2>1. preIndex \in 0 .. (Half - 1) /\ skipIndex \in Int /\ skipIndex < Half
    BY <1>2, WidthTypes DEF Inv, TypeOK, ProgressInv, Skipping
  <2>2. pc # "skipped" => skipIndex >= 0
    BY <1>2 DEF Inv, TagBehind
  <2> QED
    BY <1>2, <2>1, <2>2, WidthTypes DEF Index, Word
<1> QED
  BY <1>1, <1>2

\* Steps within a field: an index moves, or skipTx begins, or a byte comes closer.
LEMMA FieldFalls ==
    ASSUME UNCHANGED <<dAtA, preIndex, callers>>, pc # "loop", pc' # "loop",
           \/ Outer' \in 0 .. (Outer - 1)
           \/ /\ Outer' = Outer
              /\ \/ Word - Index' \in 0 .. (Word - Index - 1)
                 \/ /\ Index' = Index
                    /\ StepsWithoutByte' \in 0 .. (StepsWithoutByte - 1)
    PROVE  Smaller(Variant', Variant)
<1>1. Remaining' = Remaining /\ Len(callers') = Len(callers)
  BY DEF Remaining
<1> QED
  BY <1>1, Falls

Running == Inv /\ MeaningInv /\ ProgressInv

LEMMA ReadByteFalls == ASSUME Running, ReadByte PROVE Smaller(Variant', Variant)
<1>1. /\ pc \in Varints /\ pc' \in {pc, After(pc)} /\ Position \in 0 .. (Len(dAtA) - 1)
      /\ UNCHANGED <<dAtA, preIndex, callers>>
  BY DEF ReadByte, Goto, Position, Running, Inv, TypeOK, TagBehind, Skipping, SkipVarints
<1>2. Index = Position
  <2>1. CASE pc \in SkipVarints
    <3>1. pc \in Skipping \ {"skipped"}
      BY <2>1 DEF SkipVarints, Skipping
    <3>2. ~(skipIndex < 0)
      BY <3>1 DEF Running, Inv, TypeOK, TagBehind
    <3> QED
      BY <2>1, <3>1, <3>2 DEF Index, Position
  <2>2. CASE pc \notin SkipVarints
    <3>1. pc \notin Skipping
      BY <1>1, <2>2 DEF Varints, SkipVarints, Skipping
    <3> QED
      BY <2>2, <3>1 DEF Index, Position
  <2> QED
    BY <2>1, <2>2
<1>3. pc # "loop" /\ pc' # "loop" /\ (pc' \in Skipping <=> pc \in Skipping)
  BY <1>1 DEF After, Varints, Skipping
<1>4. Index' = Index + 1
  <2>1. CASE pc \in SkipVarints
    <3>1. skipIndex' = skipIndex + 1 /\ skipIndex \in Nat /\ pc \in Skipping
      BY <2>1 DEF ReadByte, Running, Inv, TypeOK, TagBehind, Skipping, SkipVarints
    <3> QED
      BY <1>1, <1>3, <3>1 DEF Index, Running, Inv, TypeOK
  <2>2. CASE pc \notin SkipVarints
    <3>1. iNdEx' = iNdEx + 1 /\ pc \notin Skipping
      BY <1>1, <2>2 DEF ReadByte, Varints, SkipVarints, Skipping
    <3> QED
      BY <1>3, <3>1 DEF Index
  <2> QED
    BY <2>1, <2>2
<1>5. Word - Index' \in 0 .. (Word - Index - 1)
  BY <1>1, <1>2, <1>4, WidthTypes DEF Running, Inv, TypeOK, Word
<1>6. Outer' = Outer
  BY <1>3 DEF Outer
<1> QED
  BY <1>1, <1>3, <1>5, <1>6, FieldFalls

\* Every field of the message begins behind the one before it.
LEMMA NextFieldFalls == ASSUME Running, NextField PROVE Smaller(Variant', Variant)
<1>1. /\ pc = "loop" /\ pc' = "tag" /\ preIndex' = iNdEx
      /\ UNCHANGED <<dAtA, iNdEx, callers>>
  BY DEF NextField, Begin, Goto
<1>2. Remaining' = Remaining /\ Outer' = Outer /\ Index' = Index
  BY <1>1 DEF Remaining, Outer, Index, Skipping
<1>3. StepsWithoutByte = 1 /\ StepsWithoutByte' = 0
  BY <1>1 DEF StepsWithoutByte
<1> QED
  BY <1>1, <1>2, <1>3, Falls

LEMMA CallerType ==
    ASSUME Running, callers # << >>
    PROVE  /\ Len(callers) = 1
           /\ callers[1].postIndex \in Nat /\ Len(callers[1].dAtA) \in Nat
           /\ callers[1].postIndex =< Len(callers[1].dAtA)
<1>1. Len(callers) = 1 /\ 1 \in 1 .. Len(callers)
  BY DEF Running, MeaningInv, FramesInv
<1>2. callers \in Seq(Frames)
  BY DEF Running, Inv, TypeOK
<1>3. callers[1] \in Frames
  BY <1>1, <1>2
<1>4. callers[1].postIndex \in Nat /\ callers[1].dAtA \in Seq(Bytes)
  BY <1>3 DEF Frames
<1>5. callers[1].postIndex =< Len(callers[1].dAtA)
  BY <1>1 DEF Running, Inv, InBounds
<1> QED
  BY <1>1, <1>4, <1>5

LEMMA ReturnFalls == ASSUME Running, Return, pc' \notin Ends PROVE Smaller(Variant', Variant)
<1>1. /\ pc = "loop" /\ pc' = "loop" /\ iNdEx = Len(dAtA) /\ callers # << >>
      /\ dAtA' = callers[Len(callers)].dAtA /\ iNdEx' = callers[Len(callers)].postIndex
      /\ callers' = SubSeq(callers, 1, Len(callers) - 1)
  BY DEF Return, Reject, Goto, Ends, Running, Inv, InBounds, TypeOK
<1>2. Len(callers) = 1
  BY <1>1, CallerType
<1>3. callers' = << >> /\ Len(callers') = 0
  BY <1>1, <1>2
<1>4. dAtA' = callers[1].dAtA /\ iNdEx' = callers[1].postIndex
  BY <1>1, <1>2
<1>5. callers[1].postIndex \in Nat /\ Len(callers[1].dAtA) \in Nat /\ Len(dAtA) \in Nat
  BY <1>1, CallerType DEF Running, Inv, TypeOK
<1>6. Remaining = Len(callers[1].dAtA) - callers[1].postIndex
  BY <1>1, <1>5 DEF Remaining
<1>7. Remaining' = Len(callers[1].dAtA) - callers[1].postIndex
  BY <1>1, <1>3, <1>4, <1>5 DEF Remaining
<1> QED
  BY <1>2, <1>3, <1>6, <1>7, Falls

\* What remains behind the tag of a field.
LEMMA RemainingType ==
    ASSUME Running, pc \notin Ends \cup {"loop"}
    PROVE  /\ preIndex \in 0 .. (Len(dAtA) - 1) /\ Len(dAtA) \in Nat
           /\ \E rest \in Nat : /\ Remaining = Len(dAtA) - preIndex + rest
                                /\ rest = (IF callers = << >> THEN 0
                                            ELSE Len(callers[1].dAtA) - callers[1].postIndex)
<1> DEFINE rest == IF callers = << >> THEN 0 ELSE Len(callers[1].dAtA) - callers[1].postIndex
<1>1. preIndex \in 0 .. (Len(dAtA) - 1) /\ Len(dAtA) \in Nat
  BY DEF Running, Inv, TypeOK, MeaningInv
<1>2. rest \in Nat
  <2>1. CASE callers = << >>
    BY <2>1
  <2>2. CASE callers # << >>
    BY <2>2, CallerType
  <2> QED
    BY <2>1, <2>2
<1>3. Remaining = Len(dAtA) - preIndex + rest
  BY DEF Remaining
<1> HIDE DEF rest
<1>4. \E r \in Nat : Remaining = Len(dAtA) - preIndex + r /\ r = rest
  BY <1>2, <1>3
<1> QED
  BY <1>1, <1>4 DEF rest

\* A field ends behind its tag.
LEMMA FieldEndFalls ==
    ASSUME Running, pc \notin Ends \cup {"loop"}, pc' = "loop", UNCHANGED <<dAtA, callers>>,
           iNdEx' \in (preIndex + 1) .. Len(dAtA)
    PROVE  Smaller(Variant', Variant)
<1>1. PICK rest \in Nat : /\ Remaining = Len(dAtA) - preIndex + rest
                          /\ rest = (IF callers = << >> THEN 0
                                      ELSE Len(callers[1].dAtA) - callers[1].postIndex)
  BY RemainingType
<1>2. Remaining' = Len(dAtA) - iNdEx' + rest
  BY <1>1 DEF Remaining
<1>3. preIndex \in Nat /\ Len(dAtA) \in Nat
  BY RemainingType
<1>4. Remaining' \in 0 .. (Remaining - 1)
  BY <1>1, <1>2, <1>3
<1> QED
  BY <1>4, Falls

LEMMA TakeStringFalls ==
    ASSUME Running, TakeString, pc' \notin Ends PROVE Smaller(Variant', Variant)
<1>1. /\ pc = "takeString" /\ pc' = "loop" /\ iNdEx' = postIndex /\ InSlice /\ postIndex \in Nat
      /\ UNCHANGED <<dAtA, callers>>
  BY LengthInSlice DEF TakeString, Goto, Ends, Running
<1>2. preIndex < iNdEx /\ iNdEx \in Nat /\ preIndex \in Nat /\ Len(dAtA) \in Nat
  BY <1>1 DEF Running, ProgressInv, Inv, TypeOK
<1>3. iNdEx' \in (preIndex + 1) .. Len(dAtA)
  BY <1>1, <1>2 DEF InSlice
<1> QED
  BY <1>1, <1>3, FieldEndFalls DEF Ends

\* An embedded message leaves at least its field's tag behind.
LEMMA TakeMessageFalls ==
    ASSUME Running, TakeMessage, pc' \notin Ends PROVE Smaller(Variant', Variant)
<1> DEFINE caller == [message |-> message, dAtA |-> dAtA, postIndex |-> postIndex]
<1>1. /\ pc = "takeMessage" /\ pc' = "loop" /\ InSlice /\ postIndex \in Nat
      /\ callers' = Append(callers, caller) /\ dAtA' = SubSeq(dAtA, iNdEx + 1, postIndex)
      /\ iNdEx' = 0
  BY LengthInSlice DEF TakeMessage, Goto, Ends, Running
<1>2. callers = << >>
  BY <1>1 DEF Running, MeaningInv, KnownInv
<1>3. callers' = <<caller>>
  BY <1>1, <1>2
<1>4. callers' # << >> /\ callers'[1].dAtA = dAtA /\ callers'[1].postIndex = postIndex
  BY <1>3
<1>5. preIndex < iNdEx /\ iNdEx \in Nat /\ preIndex \in Nat /\ Len(dAtA) \in Nat
      /\ dAtA \in Seq(Bytes)
  BY <1>1 DEF Running, ProgressInv, Inv, TypeOK
<1>6. Len(dAtA') = postIndex - iNdEx
  BY <1>1, <1>5 DEF InSlice
<1>7. Remaining = Len(dAtA) - preIndex
  BY <1>1, <1>2, <1>5 DEF Remaining
<1>8. Remaining' = Len(dAtA') - 0 + (Len(dAtA) - postIndex)
  BY <1>1, <1>4 DEF Remaining
<1>9. Remaining' \in 0 .. (Remaining - 1)
  BY <1>1, <1>5, <1>6, <1>7, <1>8 DEF InSlice
<1> QED
  BY <1>9, Falls

LEMMA SkipIndexType ==
    ASSUME Running, pc \in Skipping \ {"skipped"}
    PROVE  /\ skipIndex \in 0 .. (Half - 1) /\ preIndex \in 0 .. (Half - 1)
           /\ Index = preIndex + skipIndex
<1>1. pc \notin Ends \cup {"loop"}
  BY DEF Skipping, Ends
<1>2. preIndex \in 0 .. (Half - 1)
  BY <1>1, WidthTypes DEF Running, Inv, TypeOK, MeaningInv
<1> QED
  BY <1>1, <1>2, IndexBelow DEF Running, MeaningInv

\* Fixed-size fields and bytes: the index moves or wraps around, or it is a length of 0.
LEMMA SkipMovesFalls ==
    ASSUME Running, pc \in {"skipField", "skipBytes"}, pc' = "skipped", NEW n \in 0 .. (Half - 1),
           skipIndex' = Int64(skipIndex + n), UNCHANGED <<dAtA, preIndex, callers>>
    PROVE  Smaller(Variant', Variant)
<1>1. pc \in Skipping \ {"skipped"} /\ pc' \in Skipping /\ pc # "loop" /\ pc' # "loop"
  BY DEF Skipping
<1>2. Outer' = Outer /\ StepsWithoutByte = 3 /\ StepsWithoutByte' = 2
  BY <1>1 DEF Outer, StepsWithoutByte
<1>3. /\ skipIndex \in 0 .. (Half - 1) /\ preIndex \in 0 .. (Half - 1)
      /\ Index = preIndex + skipIndex
  BY <1>1, SkipIndexType
<1>4. /\ skipIndex' \in Int /\ skipIndex' < Half
      /\ skipIndex' < 0 \/ skipIndex' = skipIndex + n
  <2>1. Inv /\ pc \in Skipping \ {"skipped"} /\ skipIndex < Half /\ n \in 0 .. (Half - 1)
    BY <1>1, <1>3, WidthTypes DEF Running
  <2>2. /\ Int64(skipIndex + n) \in Int /\ Int64(skipIndex + n) < Half
        /\ Int64(skipIndex + n) < 0 \/ Int64(skipIndex + n) = skipIndex + n
    BY <2>1, SkipMoves
  <2> QED
    BY <2>2
<1>5. CASE skipIndex' < 0
  <2>1. Index' = Word
    BY <1>1, <1>5 DEF Index, Word
  <2>2. Word - Index' \in 0 .. (Word - Index - 1)
    BY <1>3, <2>1, WidthTypes DEF Word
  <2> QED
    BY <1>1, <1>2, <2>2, FieldFalls
<1>6. CASE ~(skipIndex' < 0)
  <2>1. Index' = preIndex + skipIndex' /\ skipIndex' = skipIndex + n
    BY <1>1, <1>4, <1>6 DEF Index
  <2>2. Index' = Index + n /\ Index' < Word /\ Index \in Nat
    BY <1>3, <1>4, <2>1, WidthTypes DEF Word
  <2>3. CASE n = 0
    BY <1>1, <1>2, <1>3, <2>2, <2>3, FieldFalls
  <2>4. CASE n # 0
    <3>1. Word - Index' \in 0 .. (Word - Index - 1)
      BY <2>2, <2>4, WidthTypes
    <3> QED
      BY <1>1, <1>2, <3>1, FieldFalls
  <2> QED
    BY <2>3, <2>4
<1> QED
  BY <1>5, <1>6

LEMMA SkipFixedFalls == ASSUME Running, SkipFixed PROVE Smaller(Variant', Variant)
<1> DEFINE n == IF wireType = 1 THEN Fixed64 ELSE Fixed32
<1>1. n \in 0 .. (Half - 1)
  BY WireAssumption
<1>2. /\ pc = "skipField" /\ pc' = "skipped" /\ skipIndex' = Int64(skipIndex + n)
      /\ UNCHANGED <<dAtA, preIndex, callers>>
  BY DEF SkipFixed, Goto, frameVars
<1> HIDE DEF n
<1> QED
  BY <1>1, <1>2, SkipMovesFalls

LEMMA SkipBytesFalls == ASSUME Running, SkipBytes, pc' \notin Ends PROVE Smaller(Variant', Variant)
<1>1. /\ pc = "skipBytes" /\ pc' = "skipped" /\ ~(length < 0)
      /\ skipIndex' = Int64(skipIndex + length) /\ UNCHANGED <<dAtA, preIndex, callers>>
  BY DEF SkipBytes, Reject, Goto, Ends, frameVars
<1>2. acc \in Int
  BY DEF Running, Inv, TypeOK
<1>3. length \in 0 .. (Half - 1)
  BY <1>1, <1>2, Int64Type, WidthTypes DEF length
<1> QED
  BY <1>1, <1>3, SkipMovesFalls

\* Steps of skipTx that read nothing lead to one that does.
LEMMA SkipStepFalls ==
    ASSUME Running, pc' \notin Ends \cup {"loop"},
           SkipNext \/ SkipVarintOrBytes \/ StartGroup \/ EndGroup \/ Skipped
    PROVE  Smaller(Variant', Variant)
<1>1. UNCHANGED <<dAtA, preIndex, callers, skipIndex>>
  BY DEF SkipNext, SkipVarintOrBytes, StartGroup, EndGroup, Skipped, frameVars, skipVars
<1>2. \/ pc = "skip" /\ pc' = "skipTag"
      \/ pc = "skipField" /\ pc' \in {"skipVarint", "skipLength", "skipped"}
      \/ pc = "skipped" /\ pc' = "skip"
  BY DEF SkipNext, SkipVarintOrBytes, StartGroup, EndGroup, Skipped, Begin, Reject, Goto, Ends
<1>3. pc \in Skipping /\ pc' \in Skipping /\ pc # "loop" /\ pc' # "loop"
  BY <1>2 DEF Skipping
<1>4. Outer' = Outer /\ Index' = Index
  BY <1>1, <1>3 DEF Outer, Index
<1>5. StepsWithoutByte' \in 0 .. (StepsWithoutByte - 1)
  BY <1>2 DEF StepsWithoutByte
<1> QED
  BY <1>1, <1>3, <1>4, <1>5, FieldFalls

\* An unknown field ends behind its tag: skippy is not 0.
LEMMA SkippedFalls == ASSUME Running, Skipped, pc' = "loop" PROVE Smaller(Variant', Variant)
<1>1. /\ pc = "skipped" /\ ~(skipIndex < 0) /\ iNdEx' = iNdEx + skipIndex
      /\ iNdEx + skipIndex =< Len(dAtA) /\ UNCHANGED <<dAtA, callers>>
  BY DEF Skipped, Reject, Goto, Running, Inv, TypeOK
<1>2. iNdEx = preIndex /\ skipIndex # 0
  BY <1>1 DEF Running, Inv, TagBehind, ProgressInv, Skipping
<1>3. preIndex \in Nat /\ skipIndex \in Int /\ Len(dAtA) \in Nat
  BY DEF Running, Inv, TypeOK
<1>4. iNdEx' \in (preIndex + 1) .. Len(dAtA)
  BY <1>1, <1>2, <1>3
<1> QED
  BY <1>1, <1>4, FieldEndFalls DEF Ends

LEMMA UnknownFieldFalls == ASSUME Running, UnknownField PROVE Smaller(Variant', Variant)
<1>1. pc = "field" /\ pc' = "skip" /\ UNCHANGED <<dAtA, preIndex, callers>>
  BY DEF UnknownField, Goto
<1>2. Outer = 1 /\ Outer' = 0
  BY <1>1 DEF Outer, Skipping
<1> QED
  BY <1>1, <1>2, FieldFalls

LEMMA KnownFieldFalls == ASSUME Running, KnownField PROVE Smaller(Variant', Variant)
<1>1. pc = "field" /\ pc' \in {"string", "message"} /\ UNCHANGED <<dAtA, iNdEx, preIndex, callers>>
  BY FieldKinds DEF KnownField, Begin, Goto, Running, Inv, TypeOK, frameVars
<1>2. Outer' = Outer /\ Index' = Index
  BY <1>1 DEF Outer, Index, Skipping
<1>3. StepsWithoutByte = 1 /\ StepsWithoutByte' = 0
  BY <1>1 DEF StepsWithoutByte
<1> QED
  BY <1>1, <1>2, <1>3, FieldFalls

LEMMA StepAdvances == ASSUME Running, [Next]_vars PROVE [pc' \in Ends \/ Smaller(Variant', Variant)]_vars
<1> SUFFICES ASSUME Next, pc' \notin Ends PROVE Smaller(Variant', Variant)
  OBVIOUS
<1>1. CASE IntOverflow \/ UnexpectedEOF \/ IllegalField \/ RejectLength \/ SkipEOF \/ IllegalWireType
  BY <1>1 DEF IntOverflow, UnexpectedEOF, IllegalField, RejectLength, SkipEOF, IllegalWireType,
              Reject, Goto, Ends
<1>2. CASE SkipNext \/ SkipVarintOrBytes \/ StartGroup \/ EndGroup \/ Skipped
  <2>1. CASE pc' = "loop"
    <3>1. Skipped
      BY <1>2, <2>1
      DEF SkipNext, SkipVarintOrBytes, StartGroup, EndGroup, Begin, Reject, Goto
    <3> QED
      BY <2>1, <3>1, SkippedFalls
  <2> QED
    BY <1>2, <2>1, SkipStepFalls
<1> QED
  BY <1>1, <1>2, ReadByteFalls, NextFieldFalls, ReturnFalls, KnownFieldFalls, UnknownFieldFalls,
     TakeStringFalls, TakeMessageFalls, SkipFixedFalls, SkipBytesFalls
  DEF Next

\* For every buffer, width and set of messages, every step of the decoder brings the
\* call closer to its end, in a well-founded order: no buffer keeps it busy for ever,
\* as long as it keeps executing.
THEOREM DecoderAdvances == Spec => DecodeAdvances
<1>1. Init => Running
  BY InitInv, InitMeaning, InitProgress DEF Running
<1>2. Running /\ [Next]_vars => Running'
  BY StepInv, StepMeaning, StepProgress DEF Running
<1>3. Running /\ [Next]_vars => [pc' \in Ends \/ Smaller(Variant', Variant)]_vars
  BY StepAdvances
<1> QED
  BY <1>1, <1>2, <1>3, PTL DEF Spec, DecodeAdvances

-----------------------------------------------------------------------------
(* The encoder: varints. *)

LEMMA PowAbove == \A n \in Nat : n < Pow[n]
<1> DEFINE bad == {n \in Nat : ~(n < Pow[n])}
<1>1. SUFFICES ASSUME bad # {} PROVE FALSE
  OBVIOUS
<1>2. PICK n \in bad : \A k \in bad : n =< k
  <2>1. bad \in SUBSET Nat
    OBVIOUS
  <2> HIDE DEF bad
  <2> QED
    BY <1>1, <2>1, Smallest
<1>3. n # 0
  BY PowUnfolds
<1>4. n - 1 \in Nat /\ n - 1 \notin bad
  <2>1. n \in Nat
    OBVIOUS
  <2>2. n - 1 \in Nat /\ ~(n =< n - 1)
    BY <1>3, <2>1
  <2> HIDE DEF bad
  <2> QED
    BY <1>2, <2>2
<1>5. n - 1 < Pow[n - 1]
  BY <1>4
<1>6. Pow[n] = Base * Pow[n - 1] /\ Pow[n - 1] \in Nat \ {0}
  <2>1. (n - 1) + 1 = n
    OBVIOUS
  <2> QED
    BY <1>4, <2>1, PowUnfolds
<1>7. \A b \in Nat \ {0, 1}, p \in Nat \ {0} : p < b * p
  BY SMT
<1>8. Pow[n - 1] < Pow[n]
  BY <1>6, <1>7, WidthTypes
<1>9. Pow[n] \in Nat /\ n \in Nat /\ ~(n < Pow[n])
  BY <1>6, WidthTypes, ProductPositive
<1> QED
  BY <1>5, <1>6, <1>8, <1>9

\* sovTx counts the groups up to the last that is not zero.
LEMMA SovCounts ==
    ASSUME NEW v \in 0 .. (Half - 1)
    PROVE  /\ Sov(v) \in 1 .. Half
           /\ v < Pow[Sov(v)]
           /\ \A k \in 1 .. (Sov(v) - 1) : v >= Pow[k]
<1> DEFINE T == {n \in 1 .. Half : v < Pow[n]}
<1>1. v \in Nat /\ v + 1 \in 1 .. Half
  BY WidthTypes
<1>2. v + 1 \in T
  <2>1. v + 1 < Pow[v + 1] /\ Pow[v + 1] \in Nat
    BY <1>1, PowAbove, PowUnfolds
  <2>2. v < Pow[v + 1]
    BY <1>1, <2>1
  <2> QED
    BY <1>1, <2>2
<1>3. PICK n \in T : \A k \in T : n =< k
  <2>1. T \in SUBSET Nat /\ T # {}
    BY <1>2
  <2> HIDE DEF T
  <2> QED
    BY <2>1, Smallest
<1>4. n \in 1 .. Half /\ v < Pow[n]
  OBVIOUS
<1>5. \A k \in 1 .. (n - 1) : v >= Pow[k]
  <2> SUFFICES ASSUME NEW k \in 1 .. (n - 1) PROVE v >= Pow[k]
    OBVIOUS
  <2>1. k \in Nat /\ n \in Nat /\ ~(n =< k) /\ k \in 1 .. Half
    BY <1>4, WidthTypes
  <2>2. ~(v < Pow[k])
    BY <1>3, <2>1
  <2> QED
    BY <1>1, <2>1, <2>2, PowUnfolds
<1> HIDE DEF T
<1> QED
  BY <1>4, <1>5 DEF Sov

\* The bits of a value below a group, and those below the next one.
LEMMA PowSplits ==
    ASSUME NEW v \in Nat, NEW k \in Nat
    PROVE  v % Pow[k + 1] = (v % Pow[k]) + ((v \div Pow[k]) % Base) * Pow[k]
<1> DEFINE p == Pow[k]
<1>1. p \in Nat /\ p > 0 /\ Pow[k + 1] = Base * p
  BY PowUnfolds
<1> HIDE DEF p
<1> DEFINE q == v \div p
           m == v % p
<1>2. q \in Int /\ m \in 0 .. (p - 1) /\ v = p * q + m
  BY <1>1, DivMod
<1> HIDE DEF q, m
<1> DEFINE c == q \div Base
           d == q % Base
<1>3. c \in Int /\ d \in 0 .. (Base - 1) /\ q = Base * c + d
  BY <1>2, WidthTypes, DivMod
<1> HIDE DEF c, d
<1> DEFINE w == Base * p
           r == p * d + m
<1>4. w \in Nat /\ w > 0 /\ p * Base = w
  <2>1. w \in Nat \ {0}
    BY <1>1, WidthTypes, ProductPositive
  <2>2. \A a \in Nat, b \in Nat : a * b = b * a
    BY SMT
  <2> QED
    BY <1>1, <2>1, <2>2, WidthTypes
<1>5. p * d \in Nat /\ p * d =< p * Base - p
  <2>1. d \in Nat /\ d =< Base - 1 /\ Base \in Nat
    BY <1>3, WidthTypes
  <2>2. \A a \in Nat, b \in Nat, x \in Nat : b =< x - 1 => a * b =< a * x - a
    <3> SUFFICES ASSUME NEW a \in Nat, NEW b \in Nat, NEW x \in Nat, b =< x - 1
                 PROVE  a * b =< a * x - a
      OBVIOUS
    <3>1. a * x - a - a * b = a * (x - 1 - b)
      BY SMT
    <3>2. a * (x - 1 - b) >= 0
      BY SMT
    <3>3. a * x \in Int /\ a * b \in Int
      OBVIOUS
    <3> QED
      BY <3>1, <3>2, <3>3
  <2>3. p * d \in Nat
    BY <1>1, <2>1, SMT
  <2> QED
    BY <1>1, <2>1, <2>2, <2>3
<1>6. r \in 0 .. (w - 1)
  <2> HIDE DEF w
  <2> DEFINE y == p * d
  <2>1. y \in Nat /\ y =< w - p /\ r = y + m
    BY <1>4, <1>5
  <2> HIDE DEF y, r
  <2> QED
    BY <1>1, <1>2, <1>4, <2>1
<1>7. v = w * c + r
  <2>1. p * q = w * c + p * d
    <3>1. p * (Base * c + d) = p * (Base * c) + p * d
      BY <1>1, <1>3, WidthTypes, SMT
    <3>2. p * (Base * c) = (Base * p) * c
      BY <1>1, <1>3, WidthTypes, SMT
    <3> QED
      BY <1>3, <3>1, <3>2
  <2>2. w * c \in Int /\ p * d \in Int /\ m \in Int
    BY <1>2, <1>3, <1>4, <1>5
  <2> QED
    BY <1>2, <2>1, <2>2
<1> HIDE DEF w, r
<1>8. v % w = r
  BY <1>3, <1>4, <1>6, <1>7, DivUnique
<1>9. r = m + d * p
  <2>1. p * d = d * p /\ d * p \in Int
    BY <1>1, <1>3, WidthTypes, SMT
  <2> QED
    BY <1>2, <2>1 DEF r
<1> QED
  BY <1>1, <1>8, <1>9 DEF w, m, d, q, p

\* A sequence before another one.
LEMMA Before ==
    ASSUME NEW s \in Seq(Bytes), NEW t \in Seq(Bytes)
    PROVE  /\ s \o t \in Seq(Bytes) /\ Len(s \o t) = Len(s) + Len(t)
           /\ \A k \in 1 .. Len(s) : (s \o t)[k] = s[k]
           /\ From(s \o t, Len(s)) = t
           /\ SubSeq(s \o t, 1, Len(s)) = s
<1> DEFINE u == s \o t
           n == Len(s)
<1>1. /\ u \in Seq(Bytes) /\ Len(u) = n + Len(t) /\ n \in Nat /\ Len(t) \in Nat
      /\ \A i \in 1 .. (n + Len(t)) : u[i] = IF i <= n THEN s[i] ELSE t[i - n]
  <2>1. /\ u \in Seq(Bytes) /\ Len(u) = Len(s) + Len(t)
        /\ \A i \in 1 .. Len(s) + Len(t) : u[i] = IF i <= Len(s) THEN s[i] ELSE t[i - Len(s)]
    BY ConcatProperties
  <2> QED
    BY <2>1
<1> HIDE DEF u
<1>2. \A k \in 1 .. n : u[k] = s[k]
  <2> SUFFICES ASSUME NEW k \in 1 .. n PROVE u[k] = s[k]
    OBVIOUS
  <2>1. k \in 1 .. (n + Len(t)) /\ k <= n
    BY <1>1
  <2> QED
    BY <1>1, <2>1
<1>3. From(u, n) = t
  <2>1. n \in 0 .. Len(u) /\ Len(u) - n = Len(t)
    BY <1>1
  <2>2. /\ From(u, n) \in Seq(Bytes) /\ Len(From(u, n)) = Len(t)
        /\ \A j \in 1 .. Len(t) : From(u, n)[j] = u[n + j]
    BY <1>1, <2>1, FromProperties
  <2>3. ASSUME NEW j \in 1 .. Len(t) PROVE From(u, n)[j] = t[j]
    <3>1. n + j \in 1 .. (n + Len(t)) /\ ~(n + j <= n) /\ (n + j) - n = j
      BY <1>1
    <3>2. u[n + j] = t[(n + j) - n]
      BY <1>1, <3>1
    <3> QED
      BY <2>2, <3>1, <3>2
  <2> QED
    BY <2>2, <2>3, SameBytes
<1>4. SubSeq(u, 1, n) = s
  <2>1. From(u, 0) = u /\ 0 \in 0 .. Len(u) /\ n \in 0 .. (Len(u) - 0)
    BY <1>1, FromStart
  <2>2. \A i \in 1 .. n : u[i] \in Bytes
    BY <1>1
  <2>3. /\ SubSeq(u, 1, n) \in Seq(Bytes)
        /\ Len(SubSeq(u, 1, n)) = IF 1 <= n THEN n - 1 + 1 ELSE 0
        /\ \A i \in 1 .. (n - 1 + 1) : SubSeq(u, 1, n)[i] = u[1 + i - 1]
    BY <1>1, <2>2, SubSeqProperties
  <2>4. Len(SubSeq(u, 1, n)) = n /\ \A i \in 1 .. n : SubSeq(u, 1, n)[i] = u[i]
    <3>1. \A i \in 1 .. n : i \in 1 .. (n - 1 + 1) /\ 1 + i - 1 = i
      BY <1>1
    <3> QED
      BY <1>1, <2>3, <3>1
  <2> QED
    BY <1>2, <2>3, <2>4, SameBytes
<1> QED
  BY <1>1, <1>2, <1>3, <1>4 DEF u, n

LEMMA Associates ==
    ASSUME NEW s \in Seq(Bytes), NEW t \in Seq(Bytes), NEW u \in Seq(Bytes)
    PROVE  (s \o t) \o u = s \o (t \o u)
BY ConcatAssociative

\* The group of v that is written k-th.
Group(v, k) == (v \div Pow[k - 1]) % Base

LEMMA GroupRange ==
    ASSUME NEW v \in Nat, NEW k \in Nat \ {0}
    PROVE  Group(v, k) \in 0 .. (Base - 1) /\ (Group(v, k) + Base) % Base = Group(v, k)
<1> DEFINE d == Group(v, k)
<1>1. d \in 0 .. (Base - 1)
  <2>1. k - 1 \in Nat
    OBVIOUS
  <2>2. Pow[k - 1] \in Nat \ {0}
    BY <2>1, PowUnfolds
  <2>3. v \div Pow[k - 1] \in Int
    BY <2>2, DivMod
  <2> QED
    BY <2>3, WidthTypes, ModRange DEF Group
<1> HIDE DEF d
<1>2. (Base * 1 + d) % Base = d
  BY <1>1, WidthTypes, DivUnique
<1>3. Base * 1 + d = d + Base
  BY <1>1, WidthTypes
<1> QED
  BY <1>1, <1>2, <1>3 DEF d

LEMMA EncodeVarintType ==
    ASSUME NEW v \in 0 .. (Half - 1)
    PROVE  /\ EncodeVarint(v) \in Seq(Bytes) /\ Len(EncodeVarint(v)) = Sov(v)
           /\ \A k \in 1 .. Sov(v) : /\ EncodeVarint(v)[k] % Base = Group(v, k)
                                     /\ k < Sov(v) => EncodeVarint(v)[k] >= Base
                                     /\ k = Sov(v) => EncodeVarint(v)[k] < Base
<1> DEFINE n == Sov(v)
           s == EncodeVarint(v)
<1>1. n \in Nat /\ v \in Nat
  BY SovCounts, WidthTypes
<1>2. s = [k \in 1 .. n |-> Group(v, k) + (IF k < n THEN Base ELSE 0)]
  BY DEF EncodeVarint, Group
<1> HIDE DEF n, s
<1>3. ASSUME NEW k \in 1 .. n
      PROVE  s[k] \in Bytes /\ s[k] % Base = Group(v, k) /\ (k < n => s[k] >= Base) /\ (k = n => s[k] < Base)
  <2> DEFINE d == Group(v, k)
  <2>1. d \in 0 .. (Base - 1) /\ (d + Base) % Base = d
    <3>1. k \in Nat \ {0}
      BY <1>1
    <3> QED
      BY <1>1, <3>1, GroupRange
  <2>2. d % Base = d
    BY <2>1, WidthTypes, ModSmall
  <2>3. s[k] = d + (IF k < n THEN Base ELSE 0)
    BY <1>2
  <2> HIDE DEF d
  <2>4. CASE k < n
    <3>1. s[k] = d + Base
      BY <2>3, <2>4
    <3>2. d + Base \in Bytes /\ d + Base >= Base
      BY <2>1, WidthTypes DEF Bytes
    <3> QED
      BY <1>1, <2>1, <2>4, <3>1, <3>2 DEF d
  <2>5. CASE k = n
    <3>1. s[k] = d
      BY <1>1, <2>1, <2>3, <2>5, WidthTypes
    <3>2. d \in Bytes /\ d < Base
      BY <2>1, WidthTypes DEF Bytes
    <3> QED
      BY <1>1, <2>2, <2>5, <3>1, <3>2 DEF d
  <2> QED
    BY <1>1, <2>4, <2>5
<1>4. s \in [1 .. n -> Bytes]
  BY <1>2, <1>3
<1>5. s \in Seq(Bytes) /\ Len(s) = n
  BY <1>1, <1>4
<1> QED
  BY <1>3, <1>5 DEF n, s

\* The groups that are written add up to the value.
LEMMA GroupsOfEncoded ==
    ASSUME NEW v \in 0 .. (Half - 1), NEW r \in Seq(Bytes), NEW s, s = EncodeVarint(v) \o r
    PROVE  \A k \in Nat : k =< Sov(v) => Groups(s, k) = v % Pow[k]
<1> DEFINE n == Sov(v)
           bad == {k \in Nat : k =< n /\ Groups(s, k) # v % Pow[k]}
<1>1. n \in Nat /\ v \in Nat
  BY SovCounts, WidthTypes
<1>2. /\ s \in Seq(Bytes) /\ Len(s) = n + Len(r) /\ Len(r) \in Nat
      /\ \A k \in 1 .. n : s[k] % Base = Group(v, k)
  <2>1. /\ EncodeVarint(v) \in Seq(Bytes) /\ Len(EncodeVarint(v)) = n
        /\ \A k \in 1 .. n : EncodeVarint(v)[k] % Base = Group(v, k)
    BY EncodeVarintType
  <2>2. /\ s \in Seq(Bytes) /\ Len(s) = n + Len(r)
        /\ \A k \in 1 .. n : s[k] = EncodeVarint(v)[k]
    BY <2>1, Before
  <2> QED
    BY <2>1, <2>2
<1> HIDE DEF n
<1>3. SUFFICES ASSUME bad # {} PROVE FALSE
  BY DEF n
<1>4. PICK k \in bad : \A j \in bad : k =< j
  <2>1. bad \in SUBSET Nat
    OBVIOUS
  <2> HIDE DEF bad
  <2> QED
    BY <1>3, <2>1, Smallest
<1>5. k \in Nat /\ k =< n /\ Groups(s, k) # v % Pow[k]
  OBVIOUS
<1>6. k # 0
  <2>1. v % 1 = 0
    BY <1>1
  <2> QED
    BY <1>5, <2>1, PowUnfolds, NoGroups
<1> DEFINE j == k - 1
<1>7. j \in Nat /\ j \notin bad /\ j < n /\ j + 1 = k /\ j + 1 \in 1 .. n /\ (j + 1) - 1 = j
  <2>1. j \in Nat /\ ~(k =< j) /\ j < n /\ j + 1 = k /\ j + 1 \in 1 .. n /\ (j + 1) - 1 = j
    BY <1>1, <1>5, <1>6
  <2> HIDE DEF bad
  <2> QED
    BY <1>4, <2>1
<1> HIDE DEF j
<1>8. Groups(s, j) = v % Pow[j]
  BY <1>1, <1>7
<1>9. Groups(s, j + 1) = Groups(s, j) + (s[j + 1] % Base) * Pow[j]
  <2>1. j < Len(s)
    BY <1>1, <1>2, <1>7
  <2> QED
    BY <1>2, <1>7, <2>1, GroupsStep
<1>10. s[j + 1] % Base = (v \div Pow[j]) % Base
  BY <1>2, <1>7 DEF Group
<1>11. v % Pow[j + 1] = (v % Pow[j]) + ((v \div Pow[j]) % Base) * Pow[j]
  BY <1>1, <1>7, PowSplits
<1> QED
  BY <1>5, <1>7, <1>8, <1>9, <1>10, <1>11

\* The decoder reads the value that was written, and no byte more.
LEMMA VarintOfEncoded ==
    ASSUME NEW v \in 0 .. (Half - 1), NEW r \in Seq(Bytes)
    PROVE  Varint(EncodeVarint(v) \o r) = [ok |-> TRUE, value |-> v, rest |-> r]
<1> DEFINE n == Sov(v)
           e == EncodeVarint(v)
           s == e \o r
<1>1. /\ n \in 1 .. Half /\ v \in Nat /\ v < Half /\ v < Pow[n]
      /\ \A k \in 1 .. (n - 1) : v >= Pow[k]
  BY SovCounts, WidthTypes
<1>2. /\ e \in Seq(Bytes) /\ Len(e) = n
      /\ \A k \in 1 .. n : (k < n => e[k] >= Base) /\ (k = n => e[k] < Base)
  BY EncodeVarintType
<1>3. /\ s \in Seq(Bytes) /\ Len(s) = n + Len(r) /\ Len(r) \in Nat
      /\ \A k \in 1 .. n : s[k] = e[k]
      /\ From(s, n) = r
  BY <1>2, Before
<1>4. Groups(s, n) = v % Pow[n]
  <2>1. n \in Nat /\ n =< Sov(v)
    BY <1>1
  <2> QED
    BY <2>1, GroupsOfEncoded
<1> HIDE DEF n, e, s
<1>5. n \in Nat /\ n \in 1 .. n /\ n \in 1 .. Len(s) /\ n - 1 \in Nat
      /\ \A k \in 1 .. (n - 1) : k \in 1 .. n /\ k < n
  BY <1>1, <1>3
<1>6. EndsAtByte(s, n)
  <2>1. s[n] < Base
    BY <1>2, <1>3, <1>5
  <2>2. \A k \in 1 .. (n - 1) : s[k] >= Base
    BY <1>2, <1>3, <1>5
  <2> QED
    BY <1>5, <2>1, <2>2 DEF EndsAtByte
<1>7. ~(Pow[n - 1] >= Word)
  <2>1. Pow[n - 1] \in Nat
    BY <1>5, PowUnfolds
  <2>2. CASE n = 1
    <3>1. Pow[n - 1] = 1
      BY <2>2, PowUnfolds
    <3> QED
      BY <3>1, WidthTypes DEF Word
  <2>3. CASE n # 1
    <3>1. n - 1 \in 1 .. (n - 1)
      BY <1>5, <2>3
    <3>2. v >= Pow[n - 1]
      BY <1>1, <3>1
    <3> QED
      BY <1>1, <2>1, <3>2, WidthTypes DEF Word
  <2> QED
    BY <2>2, <2>3
<1>8. v % Pow[n] = v
  <2>1. Pow[n] \in Nat \ {0}
    BY <1>5, PowUnfolds
  <2>2. v \in 0 .. (Pow[n] - 1)
    BY <1>1, <2>1
  <2> QED
    BY <2>1, <2>2, ModSmall
<1>9. v % Word = v
  <2>1. v \in 0 .. (Word - 1)
    BY <1>1, WidthTypes DEF Word
  <2> QED
    BY <2>1, WidthTypes, ModSmall
<1>10. Varint(s) = IF Pow[n - 1] >= Word THEN Bad
                   ELSE [ok |-> TRUE, value |-> Groups(s, n) % Word, rest |-> From(s, n)]
  BY <1>3, <1>6, VarintValue
<1> QED
  BY <1>3, <1>4, <1>7, <1>8, <1>9, <1>10 DEF s, e

-----------------------------------------------------------------------------
(* The encoder: fields and messages. *)

LEMMA TagNumber ==
    ASSUME NEW num \in {1, 2}
    PROVE  LET t == 8 * num + 2
           IN  /\ t \in Nat /\ t < Base /\ t < Half /\ t \in Bytes
               /\ t % 8 = 2 /\ FieldNumber(t) = num
<1> DEFINE t == 8 * num + 2
<1>1. t \in {10, 18} /\ t \in Nat /\ t < Base /\ t < Half /\ t % 8 = 2 /\ t \div 8 = num /\ num \in 1 .. 2
  <2>1. t \in {10, 18} /\ t \in Nat /\ t % 8 = 2 /\ t \div 8 = num /\ num \in 1 .. 2
    OBVIOUS
  <2> HIDE DEF t
  <2> QED
    BY <2>1, TagAssumption, WidthTypes
<1> HIDE DEF t
<1>2. t \in Bytes
  BY <1>1, WidthTypes DEF Bytes
<1>3. num % (2 * FieldHalf) = num
  <2>1. 2 * FieldHalf \in Nat \ {0} /\ num \in 0 .. (2 * FieldHalf - 1)
    BY <1>1, TagAssumption, WidthTypes
  <2> QED
    BY <2>1, ModSmall
<1>4. num < FieldHalf
  BY <1>1, TagAssumption, WidthTypes
<1>5. FieldNumber(t) = num
  BY <1>1, <1>3, <1>4 DEF FieldNumber
<1> QED
  BY <1>1, <1>2, <1>5 DEF t

LEMMA VarintOfTag ==
    ASSUME NEW num \in {1, 2}, NEW r \in Seq(Bytes)
    PROVE  /\ Varint(<<8 * num + 2>> \o r) = [ok |-> TRUE, value |-> 8 * num + 2, rest |-> r]
           /\ <<8 * num + 2>> \in Seq(Bytes) /\ Len(<<8 * num + 2>>) = 1
<1> DEFINE t == 8 * num + 2
           s == <<t>> \o r
<1>1. t \in Nat /\ t < Base /\ t < Half /\ t \in Bytes
  BY TagNumber
<1> HIDE DEF t
<1>2. <<t>> \in Seq(Bytes) /\ Len(<<t>>) = 1 /\ <<t>>[1] = t
  BY <1>1
<1>3. s \in Seq(Bytes) /\ Len(s) = 1 + Len(r) /\ Len(r) \in Nat /\ s[1] = t /\ From(s, 1) = r
  <2> DEFINE u == <<t>>
  <2>1. u \in Seq(Bytes) /\ Len(u) = 1 /\ u[1] = t
    BY <1>2
  <2> HIDE DEF u
  <2>2. /\ u \o r \in Seq(Bytes) /\ Len(u \o r) = Len(u) + Len(r)
        /\ \A k \in 1 .. Len(u) : (u \o r)[k] = u[k]
        /\ From(u \o r, Len(u)) = r
    BY <2>1, Before
  <2> QED
    BY <2>1, <2>2 DEF u
<1> HIDE DEF s
<1>4. EndsAtByte(s, 1)
  BY <1>1, <1>3 DEF EndsAtByte
<1>5. ~(Pow[1 - 1] >= Word)
  <2>1. 1 - 1 = 0 /\ Pow[0] = 1
    BY PowUnfolds
  <2> QED
    BY <2>1, WidthTypes DEF Word
<1>6. Groups(s, 1) = t
  <2>1. Groups(s, 0 + 1) = Groups(s, 0) + (s[0 + 1] % Base) * Pow[0]
    <3>1. 0 \in Nat /\ 0 < Len(s)
      BY <1>3
    <3> QED
      BY <1>3, <3>1, GroupsStep
  <2>2. t % Base = t
    <3>1. t \in 0 .. (Base - 1)
      BY <1>1, WidthTypes
    <3> QED
      BY <3>1, WidthTypes, ModSmall
  <2>3. Groups(s, 0) = 0 /\ Pow[0] = 1
    BY NoGroups, PowUnfolds
  <2> QED
    BY <1>1, <1>3, <2>1, <2>2, <2>3
<1>7. t % Word = t
  <2>1. t \in 0 .. (Word - 1)
    BY <1>1, WidthTypes DEF Word
  <2> QED
    BY <2>1, WidthTypes, ModSmall
<1>8. Varint(s) = IF Pow[1 - 1] >= Word THEN Bad
                  ELSE [ok |-> TRUE, value |-> Groups(s, 1) % Word, rest |-> From(s, 1)]
  BY <1>3, <1>4, VarintValue
<1>9. Varint(s) = [ok |-> TRUE, value |-> t, rest |-> r]
  BY <1>3, <1>5, <1>6, <1>7, <1>8
<1> QED
  BY <1>2, <1>9 DEF s, t

\* What is written of a field, and what the reference makes of it.
Written(type, num, bytes, r, a) ==
    /\ Field(num, bytes) \in Seq(Bytes)
    /\ Len(Field(num, bytes)) = 1 + Len(bytes) + Sov(Len(bytes))
    /\ Meaning[Unread(type, Field(num, bytes) \o r, a)] =
           Known(type, Schema[type][num], [ok |-> TRUE, bytes |-> bytes, rest |-> r], a)

LEMMA FieldMeans ==
    ASSUME NEW type \in DOMAIN Schema, NEW num \in {1, 2}, num \in DOMAIN Schema[type],
           NEW bytes \in Seq(Bytes), Len(bytes) < Half, NEW r \in Seq(Bytes), NEW a \in Seq(Bytes)
    PROVE  Written(type, num, bytes, r, a)
<1> DEFINE t == 8 * num + 2
           h == <<t>>
           e == EncodeVarint(Len(bytes))
           b == bytes \o r
           s == h \o (e \o b)
<1>1. Len(bytes) \in 0 .. (Half - 1) /\ Len(bytes) \in Nat
  BY WidthTypes
<1>2. e \in Seq(Bytes) /\ Len(e) = Sov(Len(bytes)) /\ Sov(Len(bytes)) \in Nat
  BY <1>1, EncodeVarintType, SovCounts, WidthTypes
<1>3. b \in Seq(Bytes) /\ Len(b) = Len(bytes) + Len(r) /\ From(b, Len(bytes)) = r /\ SubSeq(b, 1, Len(bytes)) = bytes
  BY Before
<1>4. e \o b \in Seq(Bytes) /\ Varint(e \o b) = [ok |-> TRUE, value |-> Len(bytes), rest |-> b]
  <2> HIDE DEF b
  <2> QED
    BY <1>1, <1>2, <1>3, Before, VarintOfEncoded
<1>5. h \in Seq(Bytes) /\ Len(h) = 1 /\ Varint(s) = [ok |-> TRUE, value |-> t, rest |-> e \o b]
  <2> HIDE DEF b, e
  <2> QED
    BY <1>4, VarintOfTag
<1>6. t % 8 = 2 /\ FieldNumber(t) = num
  BY TagNumber
<1> HIDE DEF h, e, b, t
<1>7. s \in Seq(Bytes) /\ s # << >>
  <2>1. s \in Seq(Bytes) /\ Len(s) = Len(h) + Len(e \o b) /\ Len(e \o b) \in Nat
    <3> DEFINE x == e \o b
    <3>1. x \in Seq(Bytes) /\ s = h \o x
      BY <1>4
    <3> HIDE DEF x, s
    <3>2. h \in Seq(Bytes) /\ Len(x) \in Nat
      BY <1>5, <3>1
    <3>3. h \o x \in Seq(Bytes) /\ Len(h \o x) = Len(h) + Len(x)
      BY <3>1, <3>2, Before
    <3> QED
      BY <3>1, <3>2, <3>3 DEF x
  <2>2. Len(s) # 0
    BY <1>5, <2>1
  <2>3. Len(<< >>) = 0
    OBVIOUS
  <2> HIDE DEF s
  <2> QED
    BY <2>1, <2>2, <2>3
<1> HIDE DEF s
<1>8. Bytestring(e \o b) = [ok |-> TRUE, bytes |-> bytes, rest |-> r]
  <2>1. Bytestring(e \o b) = IF Len(bytes) > Len(b) THEN Bad
                             ELSE [ok |-> TRUE, bytes |-> SubSeq(b, 1, Len(bytes)),
                                   rest |-> From(b, Len(bytes))]
    BY <1>4, BytestringIs
  <2>2. ~(Len(bytes) > Len(b))
    <3>1. Len(r) \in Nat
      OBVIOUS
    <3> QED
      BY <1>1, <1>3, <3>1
  <2> QED
    BY <1>3, <2>1, <2>2
<1>9. Meaning[Unread(type, s, a)] = Known(type, Schema[type][num], Bytestring(e \o b), a)
  <2> DEFINE v == Varint(s)
  <2>1. Meaning[Unread(type, s, a)] = OfField(type, s, a, v)
    BY <1>7, MeaningOfField
  <2>2. v.ok /\ v.value = t /\ v.rest = e \o b
    BY <1>5
  <2>3. v.value % 8 = 2 /\ FieldNumber(v.value) = num /\ ~(num =< 0)
    BY <1>6, <2>2
  <2> HIDE DEF v
  <2> QED
    BY <2>1, <2>2, <2>3 DEF OfField
<1>10. Field(num, bytes) = h \o e \o bytes
  BY DEF Field, h, e, t
<1>11. /\ h \o e \in Seq(Bytes) /\ Len(h \o e) = 1 + Len(e)
       /\ (h \o e) \o bytes \in Seq(Bytes) /\ Len((h \o e) \o bytes) = (1 + Len(e)) + Len(bytes)
  <2>1. h \o e \in Seq(Bytes) /\ Len(h \o e) = 1 + Len(e)
    <3>1. h \in Seq(Bytes) /\ Len(h) = 1
      BY <1>5
    <3>2. e \in Seq(Bytes)
      BY <1>2
    <3>3. h \o e \in Seq(Bytes) /\ Len(h \o e) = Len(h) + Len(e)
      BY <3>1, <3>2, Before
    <3> QED
      BY <3>1, <3>3
  <2> DEFINE x == h \o e
  <2>2. x \in Seq(Bytes) /\ Len(x) = 1 + Len(e)
    BY <2>1
  <2> HIDE DEF x
  <2>3. x \o bytes \in Seq(Bytes) /\ Len(x \o bytes) = Len(x) + Len(bytes)
    BY <2>2, Before
  <2> QED
    BY <2>1, <2>2, <2>3 DEF x
<1>12. ((h \o e) \o bytes) \o r = s
  <2>1. ((h \o e) \o bytes) \o r = (h \o e) \o (bytes \o r)
    <3> DEFINE x == h \o e
    <3>1. x \in Seq(Bytes)
      BY <1>11
    <3> HIDE DEF x
    <3>2. (x \o bytes) \o r = x \o (bytes \o r)
      BY <3>1, Associates
    <3> QED
      BY <3>2 DEF x
  <2>2. (h \o e) \o (bytes \o r) = h \o (e \o (bytes \o r))
    <3>1. bytes \o r \in Seq(Bytes)
      BY <1>3 DEF b
    <3> DEFINE x == bytes \o r
    <3> HIDE DEF x
    <3>2. (h \o e) \o x = h \o (e \o x)
      BY <1>2, <1>5, <3>1, Associates DEF x
    <3> QED
      BY <3>2 DEF x
  <2> QED
    BY <2>1, <2>2 DEF s, b
<1> QED
  BY <1>1, <1>2, <1>8, <1>9, <1>10, <1>11, <1>12 DEF Written

LEMMA StringMeans ==
    ASSUME NEW type \in DOMAIN Schema, 1 \in DOMAIN Schema[type], Schema[type][1] = "string",
           NEW a \in Seq(Bytes), Len(a) < Half, NEW r \in Seq(Bytes)
    PROVE  /\ AuthorityField(1, a) \in Seq(Bytes) /\ Len(AuthorityField(1, a)) = SizeOfString(a)
           /\ Meaning[Unread(type, AuthorityField(1, a) \o r, << >>)] = Meaning[Unread(type, r, a)]
<1>1. << >> \in Seq(Bytes) /\ Len(<< >>) = 0 /\ << >> \o r = r
  BY ConcatEmptySeq
<1>2. CASE a = << >>
  BY <1>1, <1>2 DEF AuthorityField, SizeOfString
<1>3. CASE a # << >>
  <2> DEFINE field == [ok |-> TRUE, bytes |-> a, rest |-> r]
  <2>1. AuthorityField(1, a) = Field(1, a) /\ SizeOfString(a) = 1 + Len(a) + Sov(Len(a))
    BY <1>3 DEF AuthorityField, SizeOfString
  <2>2. field.ok /\ field.bytes = a /\ field.rest = r
    OBVIOUS
  <2>3. /\ Field(1, a) \in Seq(Bytes) /\ Len(Field(1, a)) = 1 + Len(a) + Sov(Len(a))
        /\ Meaning[Unread(type, Field(1, a) \o r, << >>)] = Known(type, Schema[type][1], field, << >>)
    <3>1. 1 \in {1, 2}
      OBVIOUS
    <3>2. Written(type, 1, a, r, << >>)
      BY <1>1, <3>1, FieldMeans
    <3> QED
      BY <3>2 DEF Written
  <2> HIDE DEF field
  <2>4. Known(type, Schema[type][1], field, << >>) = Meaning[Unread(type, r, a)]
    BY <2>2 DEF Known
  <2> QED
    BY <2>1, <2>3, <2>4
<1> QED
  BY <1>2, <1>3

LEMMA MessageMeans ==
    ASSUME NEW type \in DOMAIN Schema, NEW num \in {1, 2}, num \in DOMAIN Schema[type],
           Schema[type][num] = "message", NEW a \in Seq(Bytes)
    PROVE  /\ Field(num, << >>) \in Seq(Bytes) /\ Len(Field(num, << >>)) = 1 + Sov(0)
           /\ Meaning[Unread(type, Field(num, << >>), a)] = [ok |-> TRUE, authority |-> a]
<1> DEFINE none == << >>
           field == [ok |-> TRUE, bytes |-> none, rest |-> none]
<1>1. none \in Seq(Bytes) /\ Len(none) = 0 /\ Len(none) < Half
  BY WidthTypes
<1>2. field.ok /\ field.bytes = none /\ field.rest = none
  OBVIOUS
<1>3. Meaning[Unread(type, none, a)] = [ok |-> TRUE, authority |-> a]
  BY MeaningOfNothing
<1>4. Meaning[Unread("Params", none, none)].ok
  <2>1. "Params" \in DOMAIN Schema
    BY SchemaDomain
  <2>2. Meaning[Unread("Params", none, none)] = [ok |-> TRUE, authority |-> none]
    BY <1>1, <2>1, MeaningOfNothing
  <2> QED
    BY <2>2
<1> HIDE DEF none
<1>5. /\ Field(num, none) \in Seq(Bytes) /\ Len(Field(num, none)) = 1 + Len(none) + Sov(Len(none))
      /\ Meaning[Unread(type, Field(num, none) \o none, a)] = Known(type, Schema[type][num], field, a)
  <2>1. Written(type, num, none, none, a)
    BY <1>1, FieldMeans
  <2> QED
    BY <2>1 DEF Written
<1>6. Field(num, none) \o none = Field(num, none)
  BY <1>5, ConcatEmptySeq DEF none
<1>7. Len(Field(num, none)) = 1 + Sov(0)
  <2>1. Sov(0) \in Nat
    <3>1. 0 \in 0 .. (Half - 1)
      BY WidthTypes
    <3> QED
      BY <3>1, SovCounts, WidthTypes
  <2> QED
    BY <1>1, <1>5, <2>1
<1> HIDE DEF field
<1>8. Known(type, Schema[type][num], field, a) = Meaning[Unread(type, none, a)]
  BY <1>2, <1>4 DEF Known, none
<1> QED
  BY <1>3, <1>5, <1>6, <1>7, <1>8 DEF none

\* Every message that Marshal writes means itself, and Size is its length.
LEMMA ContentMeans ==
    ASSUME NEW type \in DOMAIN Schema, NEW a \in Seq(Bytes), Len(a) < Half,
           HasAuthority(type) \/ a = << >>
    PROVE  /\ Content(type, a) \in Seq(Bytes) /\ Len(Content(type, a)) = Size(type, a)
           /\ Meaning[Unread(type, Content(type, a), << >>)] = [ok |-> TRUE, authority |-> a]
<1>1. << >> \in Seq(Bytes) /\ Len(<< >>) = 0 /\ Sov(0) \in Nat
  <2>1. 0 \in 0 .. (Half - 1)
    BY WidthTypes
  <2>2. Sov(0) \in Nat
    BY <2>1, SovCounts, WidthTypes
  <2> QED
    BY <2>2
<1>2. CASE type = "MsgUpdateParams"
  <2>1. /\ DOMAIN Schema[type] = {1, 2} /\ Schema[type][1] = "string" /\ Schema[type][2] = "message"
    BY <1>2 DEF Schema, MsgUpdateParams
  <2> DEFINE f == Field(2, << >>)
             h == AuthorityField(1, a)
  <2>2. f \in Seq(Bytes) /\ Len(f) = 1 + Sov(0) /\ Meaning[Unread(type, f, a)] = [ok |-> TRUE, authority |-> a]
    BY <2>1, MessageMeans
  <2>3. h \in Seq(Bytes) /\ Len(h) = SizeOfString(a)
        /\ Meaning[Unread(type, h \o f, << >>)] = Meaning[Unread(type, f, a)]
    BY <2>1, <2>2, StringMeans
  <2>4. Content(type, a) = h \o f /\ Size(type, a) = SizeOfString(a) + 1 + Sov(0)
    BY <1>2 DEF Content, Size
  <2> HIDE DEF f, h
  <2>5. h \o f \in Seq(Bytes) /\ Len(h \o f) = Len(h) + Len(f)
    BY <2>2, <2>3, Before
  <2>6. Len(h) \in Nat
    BY <2>3
  <2> QED
    BY <1>1, <2>2, <2>3, <2>4, <2>5, <2>6
<1>3. CASE type = "Module"
  <2>1. 1 \in DOMAIN Schema[type] /\ Schema[type][1] = "string"
    BY <1>3 DEF Schema, Module
  <2> DEFINE h == AuthorityField(1, a)
  <2>2. h \in Seq(Bytes) /\ Len(h) = SizeOfString(a)
        /\ Meaning[Unread(type, h \o << >>, << >>)] = Meaning[Unread(type, << >>, a)]
    BY <1>1, <2>1, StringMeans
  <2>3. Content(type, a) = h /\ Size(type, a) = SizeOfString(a)
    BY <1>3 DEF Content, Size
  <2>4. h \o << >> = h
    BY <2>2, ConcatEmptySeq
  <2>5. Meaning[Unread(type, << >>, a)] = [ok |-> TRUE, authority |-> a]
    BY MeaningOfNothing
  <2> QED
    BY <2>2, <2>3, <2>4, <2>5
<1>4. CASE type \in {"QueryParamsResponse", "GenesisState"}
  <2>1. DOMAIN Schema[type] = {1} /\ Schema[type][1] = "message"
    BY <1>4 DEF Schema, QueryParamsResponse, GenesisState
  <2>2. a = << >>
    BY <2>1 DEF HasAuthority
  <2> DEFINE f == Field(1, << >>)
  <2>3. f \in Seq(Bytes) /\ Len(f) = 1 + Sov(0) /\ Meaning[Unread(type, f, a)] = [ok |-> TRUE, authority |-> a]
    BY <2>1, MessageMeans
  <2>4. Content(type, a) = f /\ Size(type, a) = 1 + Sov(0)
    BY <1>4 DEF Content, Size
  <2> QED
    BY <2>2, <2>3, <2>4
<1>5. CASE type \in {"MsgUpdateParamsResponse", "Params", "QueryParamsRequest"}
  <2>1. DOMAIN Schema[type] = {}
    BY <1>5 DEF Schema, MsgUpdateParamsResponse, Params, QueryParamsRequest, NoFields
  <2>2. a = << >>
    BY <2>1 DEF HasAuthority
  <2>3. Content(type, a) = << >> /\ Size(type, a) = 0
    BY <1>5 DEF Content, Size
  <2> QED
    BY <1>1, <2>2, <2>3, MeaningOfNothing
<1> QED
  BY <1>2, <1>3, <1>4, <1>5, SchemaDomain

\* The buffer of Size bytes holds the content, from its first byte on.
LEMMA MarshalIsContent ==
    ASSUME NEW type, NEW a, Content(type, a) \in Seq(Bytes), Len(Content(type, a)) = Size(type, a)
    PROVE  Marshal(type, a) = Content(type, a)
<1> DEFINE c == Content(type, a)
           gap == Size(type, a) - Len(c)
<1>1. c \in Seq(Bytes) /\ Len(c) \in Nat /\ gap = 0
  OBVIOUS
<1>2. Marshal(type, a) = [i \in 1 .. Len(c) |-> IF i > gap THEN c[i - gap] ELSE 0]
  BY DEF Marshal
<1> HIDE DEF c, gap
<1>3. \A i \in 1 .. Len(c) : i > gap /\ i - gap = i
  BY <1>1
<1>4. Marshal(type, a) = [i \in 1 .. Len(c) |-> c[i]]
  BY <1>2, <1>3
<1>5. c = [i \in 1 .. Len(c) |-> c[i]]
  BY <1>1
<1> QED
  BY <1>4, <1>5 DEF c

LEMMA RoundTripDecoded == Inv /\ MeaningInv => RoundTrip
<1> SUFFICES ASSUME Inv, MeaningInv, pc \in Ends,
                    NEW a \in (IF HasAuthority(root) THEN Authorities ELSE {<< >>}),
                    input = Marshal(root, a)
             PROVE  pc = "done" /\ authority = a
  BY DEF RoundTrip
<1>1. a \in Seq(Bytes) /\ Len(a) < Half /\ (HasAuthority(root) \/ a = << >>)
  <2>1. CASE HasAuthority(root)
    BY <2>1, WireAssumption, LengthAssumption
  <2>2. CASE ~HasAuthority(root)
    <3>1. a = << >>
      BY <2>2
    <3> QED
      BY <2>2, <3>1, WidthTypes
  <2> QED
    BY <2>1, <2>2
<1>2. root \in DOMAIN Schema
  BY Places
<1>3. /\ Content(root, a) \in Seq(Bytes) /\ Len(Content(root, a)) = Size(root, a)
      /\ Meaning[Unread(root, Content(root, a), << >>)] = [ok |-> TRUE, authority |-> a]
  BY <1>1, <1>2, ContentMeans
<1>4. Whole = [ok |-> TRUE, authority |-> a]
  BY <1>3, MarshalIsContent DEF Whole
<1>5. Whole.ok = TRUE /\ Whole.authority = a
  BY <1>4
<1>6. (pc = "done") = Whole.ok /\ (Whole.ok => authority = Whole.authority)
  BY MeaningDecoded DEF DecodesMeaning, Whole
<1> QED
  BY <1>5, <1>6

\* For every width, message and authority: what Marshal writes, Unmarshal reads back.
\* The tags, the lengths and the size that the encoder computes are those that the
\* decoder finds, also for an authority whose length takes several bytes.
THEOREM MarshalReadBack == Spec => []RoundTrip
<1>1. Init => Inv /\ MeaningInv
  BY InitInv, InitMeaning
<1>2. (Inv /\ MeaningInv) /\ [Next]_vars => (Inv /\ MeaningInv)'
  BY StepInv, StepMeaning
<1>3. Inv /\ MeaningInv => RoundTrip
  BY RoundTripDecoded
<1> QED
  BY <1>1, <1>2, <1>3, PTL DEF Spec
=============================================================================
