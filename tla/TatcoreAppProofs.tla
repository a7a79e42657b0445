--------------------------- MODULE TatcoreAppProofs ---------------------------
(***************************************************************************)
(* Proofs about TatcoreApp: a node implements the ledger for any strings,  *)
(* accounts and configured authority, any height, and any number of        *)
(* proposals, kills, exports and chains.                                   *)
(***************************************************************************)
EXTENDS TatcoreApp, SequenceTheorems, TLAPS

\* A block writes the parameters exactly if it holds an update of the authority.
LEMMA DeliverWrites ==
    ASSUME NEW p, NEW b \in Blocks
    PROVE  Deliver(p, b) = IF b \in Updates THEN "set" ELSE p
<1>1. Authority # Malformed
  BY AppAssumption DEF Authority
<1>2. Empty \notin Updates
  BY AppAssumption DEF Updates
<1>3. QED
  BY <1>1, <1>2 DEF Deliver, UpdateParams, Updates, Blocks

LEMMA DeliverTyped ==
    ASSUME NEW p \in Params, NEW b \in Blocks
    PROVE  Deliver(p, b) \in Params
BY DeliverWrites DEF Params

\* Delivering the next block takes the parameters to what the next block leaves.
LEMMA NextParams ==
    ASSUME TypeOK, NEW n \in Nat, n < Len(decided)
    PROVE  Deliver(ParamsAfter(n), decided[n + 1]) = ParamsAfter(n + 1)
<1>1. decided[n + 1] \in Blocks
  BY ElementOfSeq DEF TypeOK
<1>2. Written(n + 1) <=> Written(n) \/ decided[n + 1] \in Updates
  BY DEF Written
<1>3. QED
  BY <1>1, <1>2, DeliverWrites DEF ParamsAfter

\* Blocks that are decided later leave what is written unchanged.
LEMMA WrittenStays ==
    ASSUME TypeOK, NEW b \in Blocks, decided' = Append(decided, b), section' = section,
           NEW n \in 0 .. Len(decided)
    PROVE  Written(n)' <=> Written(n)
<1>1. \A i \in 1 .. n : decided'[i] = decided[i]
  BY AppendProperties DEF TypeOK
<1>2. QED
  BY <1>1 DEF Written, Updates, Authority

\* The last version is what all committed blocks leave.
LEMMA LastVersion ==
    ASSUME TypeOK, IInv, versions # << >>
    PROVE  Last = ParamsAfter(Len(versions)) /\ Last \in Params /\ Len(versions) \in Nat \ {0}
<1>1. Len(versions) \in Nat \ {0}
  BY EmptySeq DEF TypeOK
<1>2. QED
  BY <1>1, ElementOfSeq DEF TypeOK, IInv, Last

\* What an export loads is version 0 of a node without a commit, or a version that
\* was committed.
LEMMA LoadsVersion ==
    ASSUME TypeOK, NEW h, CanLoad(h)
    PROVE  /\ LoadHeight(h) \in 0 .. Len(versions)
           /\ LoadHeight(h) = 0 => h = -1 /\ versions = << >>
<1>1. Len(versions) \in Nat
  BY LenProperties DEF TypeOK
<1>2. Len(versions) = 0 => versions = << >>
  BY EmptySeq DEF TypeOK
<1>3. QED
  BY <1>1, <1>2 DEF CanLoad, LoadHeight

\* Only a version with parameters, and never the empty store, can be exported with
\* the section of tatcore.
LEMMA ExportsWritten ==
    ASSUME TypeOK, IInv, NEW n \in 0 .. Len(versions), CanExportGenesis(StateAt(n))
    PROVE  n > 0 /\ Written(n)
BY DEF CanExportGenesis, StateAt, IInv, ParamsAfter

-----------------------------------------------------------------------------
(* Types. *)

LEMMA EmptyStores == << >> \in Seq(Blocks) /\ << >> \in Seq(Params) /\ Len(<< >>) = 0
OBVIOUS

LEMMA InitTyped == Init => TypeOK
<1> SUFFICES ASSUME Init PROVE TypeOK
  OBVIOUS
<1>1. /\ oe \in [status : {"idle", "running", "done"}, block : Blocks]
      /\ outcome \in [kind : {"none", "error", "panicked", "written"}, version : Nat]
      /\ document \in [asked : Nat \cup {-1}, version : Nat, height : Nat \cup {-1},
                       section : BOOLEAN]
  BY DEF Init, Idle, NoOutcome, NoDocument, Blocks
<1>2. decided \in Seq(Blocks) /\ versions \in Seq(Params) /\ Len(versions) = Len(decided)
  BY EmptyStores DEF Init
<1>3. Len(decided) \in Nat
  BY <1>2, LenProperties
<1>4. section \in BOOLEAN /\ up \in BOOLEAN /\ phase = "propose" /\ working = "none"
  BY DEF Init
<1>5. first \in Nat \ {0}
  BY DEF Init
<1>6. QED
  BY <1>1, <1>2, <1>3, <1>4, <1>5 DEF TypeOK

LEMMA StepTyped == TypeOK /\ IInv /\ [Next]_vars => TypeOK'
<1> SUFFICES ASSUME TypeOK, IInv, [Next]_vars PROVE TypeOK'
  OBVIOUS
<1> USE DEF genesisVars, exportVars
<1>0. Len(versions) \in Nat /\ Len(decided) \in Nat
  BY LenProperties DEF TypeOK
<1>1. CASE NewApp
  BY <1>1 DEF NewApp, TypeOK, NoOutcome, Blocks
<1>2. CASE InitChain
  BY <1>2 DEF InitChain, TypeOK, InitGenesis, Params, Blocks
<1>3. CASE ExecuteProposal
  <2>1. working \in Params
    BY <1>3, LastVersion DEF ExecuteProposal, IInv
  <2>2. oe' = [status |-> "done", block |-> oe.block] /\ oe.block \in Blocks
    BY <1>3 DEF ExecuteProposal, TypeOK
  <2>3. working' \in Params
    BY <1>3, <2>1, <2>2, DeliverTyped DEF ExecuteProposal
  <2>4. QED
    BY <1>3, <2>2, <2>3 DEF ExecuteProposal, TypeOK, Blocks, Params
<1>4. CASE FinalizeBlock
  <2>1. Len(decided) = Len(versions) + 1 /\ decided[Len(decided)] \in Blocks
    BY <1>0, <1>4, ElementOfSeq DEF FinalizeBlock, TypeOK, IInv
  <2>2. versions # << >> => Last \in Params
    BY LastVersion
  <2>3. versions = << >> => working \in Params
    BY <1>4 DEF FinalizeBlock, Started, TypeOK
  <2>4. working' \in Params \cup {"none"}
    <3>1. CASE UNCHANGED working
      BY <3>1 DEF TypeOK
    <3>2. CASE working' = Deliver(IF versions = << >> THEN working ELSE Last,
                                  decided[Len(decided)])
      BY <2>1, <2>2, <2>3, <3>2, DeliverTyped
    <3>3. QED
      BY <1>4, <3>1, <3>2 DEF FinalizeBlock
  <2>5. QED
    BY <1>4, <2>4 DEF FinalizeBlock, TypeOK, Idle, Blocks
<1>5. CASE Commit
  <2>1. working \in Params
    BY <1>5 DEF Commit, IInv, ParamsAfter, Params
  <2>2. versions' \in Seq(Params) /\ Len(versions') = Len(versions) + 1
    BY <1>5, <2>1, AppendProperties DEF Commit, TypeOK
  <2>3. Len(decided) = Len(versions) + 1
    BY <1>5 DEF Commit, IInv
  <2>4. QED
    BY <1>0, <1>5, <2>2, <2>3 DEF Commit, TypeOK
<1>6. ASSUME NEW b \in Blocks, ProcessProposal(b) PROVE TypeOK'
  BY <1>6, LastVersion DEF ProcessProposal, TypeOK
<1>7. ASSUME NEW b \in Blocks, Decide(b) PROVE TypeOK'
  <2>1. decided' \in Seq(Blocks) /\ Len(decided') = Len(decided) + 1
    BY <1>7, AppendProperties DEF Decide, TypeOK
  <2>2. Len(decided) = Len(versions)
    BY <1>7 DEF Decide, IInv
  <2>3. QED
    BY <1>0, <1>7, <2>1, <2>2 DEF Decide, TypeOK
<1>8. CASE Kill
  BY <1>8 DEF Kill, TypeOK, Idle, Blocks
<1>9. ASSUME NEW h \in Heights, NEW zero \in BOOLEAN, NEW included \in BOOLEAN,
             AppExport(h, zero, included)
      PROVE  TypeOK'
  <2>1. h \in Nat \cup {-1}
    BY AppAssumption DEF Heights
  <2>2. CanLoad(h) => LoadHeight(h) \in Nat
    BY LoadsVersion
  <2>3. /\ outcome' \in [kind : {"none", "error", "panicked", "written"}, version : Nat]
        /\ document' \in [asked : Nat \cup {-1}, version : Nat, height : Nat \cup {-1},
                         section : BOOLEAN]
    <3>1. CASE LoadFails(h)
      BY <3>1 DEF LoadFails, TypeOK
    <3>2. CASE CanLoad(h) /\ ExportPanics(LoadHeight(h), included)
      BY <2>2, <3>2 DEF ExportPanics, TypeOK
    <3>3. CASE CanLoad(h) /\ WriteDocument(h, zero, included)
      BY <2>1, <2>2, <3>3 DEF WriteDocument, TypeOK
    <3>4. QED
      BY <1>9, <3>1, <3>2, <3>3 DEF AppExport
  <2>4. QED
    BY <1>9, <2>3 DEF AppExport, TypeOK
<1>10. CASE NewChain
  <2>1. first' \in Nat \ {0}
    BY <1>10 DEF NewChain, IInv, NoDocument
  <2>2. QED
    BY <1>10, <2>1, EmptyStores DEF NewChain, TypeOK, NoOutcome, NoDocument
<1>11. CASE UNCHANGED vars
  BY <1>11 DEF vars, TypeOK
<1>12. QED
  BY <1>1, <1>2, <1>3, <1>4, <1>5, <1>6, <1>7, <1>8, <1>9, <1>10, <1>11 DEF Next, Node

-----------------------------------------------------------------------------
(* The inductive invariant. *)

LEMMA InitInv == Init => IInv
<1> SUFFICES ASSUME Init PROVE IInv
  OBVIOUS
<1>1. versions = << >> /\ Len(versions) = 0
  BY EmptyStores DEF Init
<1>2. QED
  BY <1>1 DEF Init, IInv, PanicsExplained, Idle, NoOutcome, NoDocument

\* A step that leaves genesis, blocks, versions and the export alone keeps what IInv
\* says of them.
LEMMA SameStore ==
    ASSUME UNCHANGED <<section, decided>>
    PROVE  /\ \A n : Written(n)' <=> Written(n)
           /\ \A n : ParamsAfter(n)' = ParamsAfter(n)
BY DEF Written, ParamsAfter, Updates, Authority

LEMMA StepInv == TypeOK /\ IInv /\ [Next]_vars => IInv'
<1> SUFFICES ASSUME TypeOK, IInv, [Next]_vars PROVE IInv'
  OBVIOUS
<1> USE DEF genesisVars, exportVars
<1>0. Len(versions) \in Nat /\ Len(decided) \in Nat
  BY LenProperties DEF TypeOK
<1>1. CASE NewApp
  <2>1. Len(versions) =< Len(decided) /\ Len(decided) =< Len(versions) + 1
    BY DEF TypeOK
  <2>2. oe = Idle /\ working = "none"
    BY <1>1 DEF NewApp, IInv
  <2>3. QED
    BY <1>0, <1>1, <2>1, <2>2, SameStore DEF NewApp, IInv, PanicsExplained, NoOutcome, Idle
<1>2. CASE InitChain
  <2>1. ParamsAfter(0) = InitGenesis
    BY DEF ParamsAfter, Written, InitGenesis
  <2>2. oe.status \notin {"running", "done"} /\ phase # "finalized"
    BY <1>2 DEF InitChain, IInv, ParamsAfter
  <2>3. working' = ParamsAfter(0)
    BY <1>2, <2>1 DEF InitChain
  <2>4. QED
    BY <1>2, <2>2, <2>3, SameStore DEF InitChain, IInv, PanicsExplained
<1>3. CASE ExecuteProposal
  <2>1. /\ oe' = [status |-> "done", block |-> oe.block]
        /\ working' = Deliver(Last, oe.block)
        /\ Last' = Last
    BY <1>3 DEF ExecuteProposal, IInv, TypeOK, Last
  <2>2. Deliver(Last, oe.block)' = Deliver(Last', oe'.block)
    BY DEF Deliver, UpdateParams, Authority
  <2>3. versions # << >> /\ phase # "finalized" /\ up
    BY <1>3 DEF ExecuteProposal, IInv, Idle
  <2>4. working' = Deliver(Last', oe'.block) /\ oe'.status = "done"
    BY <2>1, <2>2
  <2>5. QED
    BY <1>3, <2>2, <2>3, <2>4, SameStore DEF ExecuteProposal, IInv, PanicsExplained
<1>4. CASE FinalizeBlock
  <2> DEFINE n == Len(versions)
  <2>1. Len(decided) = n + 1 /\ decided[n + 1] \in Blocks
    BY <1>0, <1>4, ElementOfSeq DEF FinalizeBlock, TypeOK, IInv
  <2>2. Deliver(ParamsAfter(n), decided[n + 1]) = ParamsAfter(n + 1)
    BY <1>0, <2>1, NextParams
  <2>3. versions # << >> => Last = ParamsAfter(n)
    BY LastVersion
  <2>4. versions = << >> => working = ParamsAfter(0) /\ n = 0
    BY <1>4, EmptyStores DEF FinalizeBlock, Started, IInv
  <2>5. working' = ParamsAfter(n + 1)
    <3>1. CASE oe.status = "done" /\ oe.block = decided[n + 1] /\ UNCHANGED working
      BY <2>2, <2>3, <3>1 DEF IInv
    <3>2. CASE working' = Deliver(IF versions = << >> THEN working ELSE Last, decided[n + 1])
      BY <2>2, <2>3, <2>4, <3>2
    <3>3. QED
      BY <1>4, <2>1, <3>1, <3>2 DEF FinalizeBlock
  <2>6. QED
    BY <1>4, <2>1, <2>5, SameStore DEF FinalizeBlock, IInv, PanicsExplained, Idle
<1>5. CASE Commit
  <2> DEFINE n == Len(versions)
  <2>1. working = ParamsAfter(n + 1) /\ working \in Params
    BY <1>5 DEF Commit, IInv, ParamsAfter, Params
  <2>2. /\ Len(versions') = n + 1
        /\ \A i \in 1 .. n : versions'[i] = versions[i]
        /\ versions'[n + 1] = working
        /\ versions' # << >>
    BY <1>0, <1>5, <2>1, AppendProperties DEF Commit, TypeOK
  <2>3. \A i \in 1 .. n + 1 : versions'[i] = ParamsAfter(i)
    BY <1>0, <2>1, <2>2 DEF IInv
  <2>4. oe.status = "idle" /\ Len(decided) = n + 1 /\ up
    BY <1>5 DEF Commit, IInv, TypeOK
  <2>5. QED
    BY <1>0, <1>5, <2>2, <2>3, <2>4, SameStore DEF Commit, IInv, PanicsExplained, NoOutcome
<1>6. ASSUME NEW b \in Blocks, ProcessProposal(b) PROVE IInv'
  <2>1. oe' = [status |-> "running", block |-> b] /\ Last' = Last /\ working' = Last
    BY <1>6 DEF ProcessProposal, Last
  <2>2. QED
    BY <1>6, <2>1, SameStore DEF ProcessProposal, IInv, PanicsExplained
<1>7. ASSUME NEW b \in Blocks, Decide(b) PROVE IInv'
  <2>1. /\ Len(decided') = Len(decided) + 1 /\ Len(decided) = Len(versions)
        /\ oe' = oe /\ Last' = Last
    BY <1>7, AppendProperties DEF Decide, TypeOK, IInv, Last
  <2>2. \A n \in 0 .. Len(decided) : (Written(n)' <=> Written(n)) /\ ParamsAfter(n)' = ParamsAfter(n)
    BY <1>7, WrittenStays DEF Decide, ParamsAfter
  <2>3. Deliver(Last, oe.block)' = Deliver(Last, oe.block)
    BY <2>1 DEF Deliver, UpdateParams, Authority
  <2>4. QED
    BY <1>0, <1>7, <2>1, <2>2, <2>3 DEF Decide, IInv, PanicsExplained
<1>8. CASE Kill
  BY <1>8, SameStore DEF Kill, IInv, PanicsExplained, Idle
<1>9. ASSUME NEW h \in Heights, NEW zero \in BOOLEAN, NEW included \in BOOLEAN,
             AppExport(h, zero, included)
      PROVE  IInv'
  <2>1. /\ UNCHANGED <<genesisVars, decided, versions, up, phase, working, oe>>
        /\ ~up /\ Last' = Last /\ Deliver(Last, oe.block)' = Deliver(Last, oe.block)
    BY <1>9 DEF AppExport, Last, Deliver, UpdateParams, Authority
  <2> DEFINE n == LoadHeight(h)
  <2>3. /\ document' # NoDocument => document'.height \in Nat
        /\ outcome'.version \in 0 .. Len(versions)
        /\ outcome'.kind = "panicked" => versions = << >> \/ ~Written(outcome'.version)
        /\ outcome'.kind = "written" /\ document'.section =>
             outcome'.version > 0 /\ Written(outcome'.version)
    <3>1. CASE LoadFails(h)
      BY <1>0, <3>1 DEF LoadFails, IInv
    <3>2. CASE CanLoad(h) /\ ExportPanics(n, included)
      <4>1. n \in 0 .. Len(versions) /\ (n = 0 => versions = << >>)
        BY <3>2, LoadsVersion
      <4>2. n > 0 /\ ~CanExportGenesis(StateAt(n)) => ~Written(n)
        BY <4>1 DEF CanExportGenesis, StateAt, IInv, ParamsAfter
      <4> HIDE DEF n
      <4>3. QED
        BY <1>0, <3>2, <4>1, <4>2 DEF ExportPanics, IInv
    <3>3. CASE CanLoad(h) /\ WriteDocument(h, zero, included)
      <4>1. n \in 0 .. Len(versions) /\ first \in Nat
        BY <3>3, LoadsVersion DEF TypeOK
      <4>2. included => n > 0 /\ Written(n)
        BY <3>3, <4>1, ExportsWritten DEF WriteDocument
      <4>3. /\ outcome'.kind = "written" /\ outcome'.version = n
            /\ document'.height = IF zero THEN 0 ELSE IF n = 0 THEN 1 ELSE first + n
            /\ document'.section = included
        BY <3>3 DEF WriteDocument
      <4> HIDE DEF n
      <4>4. QED
        BY <1>0, <4>1, <4>2, <4>3
    <3>4. QED
      BY <1>9, <3>1, <3>2, <3>3 DEF AppExport
  <2>4. QED
    BY <2>1, <2>3, SameStore DEF IInv, PanicsExplained
<1>10. CASE NewChain
  <2>1. ~up /\ phase = "propose" /\ working = "none" /\ oe = Idle
    BY <1>10 DEF NewChain, IInv
  <2>2. Len(versions') = 0 /\ versions' = << >>
    BY <1>10, EmptyStores DEF NewChain
  <2>3. QED
    BY <1>10, <2>1, <2>2 DEF NewChain, IInv, PanicsExplained, Idle, NoOutcome
<1>11. CASE UNCHANGED vars
  <2>1. Last' = Last /\ Deliver(Last, oe.block)' = Deliver(Last, oe.block)
    BY <1>11 DEF vars, Last, Deliver, UpdateParams, Authority
  <2>2. QED
    BY <1>11, <2>1, SameStore DEF vars, IInv, PanicsExplained
<1>12. QED
  BY <1>1, <1>2, <1>3, <1>4, <1>5, <1>6, <1>7, <1>8, <1>9, <1>10, <1>11 DEF Next, Node
LEMMA Invariance == Spec => [](TypeOK /\ IInv)
BY InitTyped, InitInv, StepTyped, StepInv, PTL DEF Spec

\* All variables keep their types, and never more than one decided block waits for
\* its commit.
THEOREM TypeCorrect == Spec => []TypeOK
BY Invariance, PTL

\* An export panics only on a node without a commit, or for a version that neither
\* the genesis nor an update of the authority ever gave parameters, and writes
\* parameters only for a committed version that has them.
THEOREM PanicsAreExplained == Spec => []PanicsExplained
<1>1. IInv => PanicsExplained
  BY DEF IInv
<1>2. QED
  BY <1>1, Invariance, PTL

-----------------------------------------------------------------------------
(* The ledger. *)

Chain == SubSeq(decided, 1, Len(versions))

ChainParams == [i \in 1 .. Len(versions) |-> versions[i] = "set"]

\* The committed blocks are a prefix of the decided ones.
LEMMA ChainIsPrefix ==
    ASSUME TypeOK
    PROVE  /\ Chain \in Seq(Blocks) /\ Len(Chain) = Len(versions)
           /\ \A i \in 1 .. Len(versions) : Chain[i] = decided[i]
<1>1. /\ Len(versions) \in Nat /\ Len(versions) =< Len(decided)
      /\ \A i \in 1 .. Len(versions) : decided[i] \in Blocks
  BY LenProperties, ElementOfSeq DEF TypeOK
<1>2. QED
  BY <1>1, SubSeqProperties DEF Chain

\* What the ledger reads off its chain is what the invariant reads off the block store.
LEMMA LedgerReads ==
    ASSUME TypeOK, NEW n \in 0 .. Len(versions)
    PROVE  Ledger!SetAfter(SubSeq(Chain, 1, n), section) <=> Written(n)
<1>1. /\ Len(SubSeq(Chain, 1, n)) = n
      /\ \A i \in 1 .. n : SubSeq(Chain, 1, n)[i] = decided[i]
  <2>1. \A i \in 1 .. n : Chain[i] \in Blocks
    BY ChainIsPrefix, ElementOfSeq, LenProperties DEF TypeOK
  <2>2. Len(versions) \in Nat
    BY LenProperties DEF TypeOK
  <2>3. QED
    BY <2>1, <2>2, ChainIsPrefix, SubSeqProperties
<1>2. QED
  BY <1>1 DEF Ledger!SetAfter, Written

\* A commit is the ledger's next block.
LEMMA CommitAddsBlock ==
    ASSUME TypeOK, IInv, Commit
    PROVE  Ledger!AddBlock
<1> DEFINE n == Len(versions)
           b == decided[n + 1]
<1>1. /\ n \in Nat /\ Len(decided) = n + 1 /\ b \in Blocks
      /\ decided' = decided
      /\ UNCHANGED <<section, first, document>>
      /\ working = ParamsAfter(n + 1) /\ working \in Params
  BY LenProperties, ElementOfSeq DEF Commit, TypeOK, IInv, genesisVars, exportVars, ParamsAfter, Params
<1>2. /\ versions' \in Seq(Params) /\ Len(versions') = n + 1
      /\ \A i \in 1 .. n : versions'[i] = versions[i]
      /\ versions'[n + 1] = working
  BY <1>1, AppendProperties DEF Commit, TypeOK
<1>3. Chain' = Append(Chain, b)
  <2>1. Chain' = SubSeq(decided, 1, n + 1)
    BY <1>1, <1>2 DEF Chain
  <2>2. SubSeq(decided, 1, n + 1) = Chain \o <<b>>
    BY <1>1, SubSeqRecursiveSecond DEF Chain, TypeOK
  <2>3. QED
    BY <1>1, <2>1, <2>2, ChainIsPrefix, AppendIsConcat
<1>4. Ledger!SetAfter(Append(Chain, b), section) <=> Written(n + 1)
  <2>1. /\ Len(Append(Chain, b)) = n + 1
        /\ \A i \in 1 .. n + 1 : Append(Chain, b)[i] = decided[i]
    BY <1>1, ChainIsPrefix, AppendProperties
  <2>2. QED
    BY <1>1, <2>1 DEF Ledger!SetAfter, Written
<1>5. ChainParams' = Append(ChainParams, Ledger!SetAfter(Append(Chain, b), section))
  <2>1. ChainParams \in Seq(BOOLEAN) /\ Len(ChainParams) = n
    BY <1>1 DEF ChainParams
  <2>2. ChainParams' \in Seq(BOOLEAN) /\ Len(ChainParams') = n + 1
    BY <1>1, <1>2 DEF ChainParams
  <2> DEFINE last == Ledger!SetAfter(Append(Chain, b), section)
  <2>3. last \in BOOLEAN
    BY <1>4, <1>1 DEF Ledger!SetAfter
  <2>4. working = "set" <=> last
    BY <1>1, <1>4 DEF ParamsAfter
  <2> HIDE DEF last
  <2>5. /\ Append(ChainParams, last) \in Seq(BOOLEAN)
        /\ Len(Append(ChainParams, last)) = n + 1
        /\ \A i \in 1 .. n : Append(ChainParams, last)[i] = ChainParams[i]
        /\ Append(ChainParams, last)[n + 1] = last
    BY <2>1, <2>3, AppendProperties
  <2>6. \A i \in 1 .. n : ChainParams'[i] = ChainParams[i]
    BY <1>1, <1>2 DEF ChainParams
  <2>7. ChainParams'[n + 1] = last
    BY <1>1, <1>2, <2>3, <2>4 DEF ChainParams
  <2>8. \A i \in 1 .. n + 1 : ChainParams'[i] = Append(ChainParams, last)[i]
    BY <1>1, <2>5, <2>6, <2>7
  <2>9. QED
    BY <2>2, <2>5, <2>8, SeqEqual DEF last
<1>6. QED
  BY <1>1, <1>3, <1>5 DEF Ledger!AddBlock, Chain, ChainParams
\* An export that writes a document is the ledger's.
LEMMA ExportIsLedgers ==
    ASSUME TypeOK, IInv, NEW h \in Heights, NEW zero \in BOOLEAN, NEW included \in BOOLEAN,
           AppExport(h, zero, included)
    PROVE  Ledger!Export \/ UNCHANGED Ledger!vars
<1> DEFINE n == LoadHeight(h)
<1>1. UNCHANGED <<section, first, Chain, ChainParams>>
  BY DEF AppExport, genesisVars, Chain, ChainParams
<1>2. CASE UNCHANGED document
  BY <1>1, <1>2 DEF Ledger!vars, Chain, ChainParams
<1>3. CASE CanLoad(h) /\ WriteDocument(h, zero, included)
  <2>1. /\ n \in 0 .. Len(versions)
        /\ n = 0 => h = -1
        /\ document' = [asked |-> h, version |-> n,
                        height |-> IF zero THEN 0 ELSE IF n = 0 THEN 1 ELSE first + n,
                        section |-> included]
    BY <1>3, LoadsVersion DEF WriteDocument
  <2>2. included => n > 0 /\ Ledger!SetAfter(SubSeq(Chain, 1, n), section)
    BY <1>3, <2>1, ExportsWritten, LedgerReads DEF WriteDocument
  <2> DEFINE latest == h = -1
  <2>3. /\ n = 0 => latest
        /\ latest => n = Len(Chain)
        /\ h = IF latest THEN -1 ELSE first + n - 1
        /\ n \in 0 .. Len(Chain)
    <3>1. h \in Int /\ first \in Nat /\ Len(versions) \in Nat
      BY AppAssumption, LenProperties DEF Heights, TypeOK
    <3>2. QED
      BY <2>1, <3>1, ChainIsPrefix DEF LoadHeight
  <2>4. latest \in BOOLEAN
    OBVIOUS
  <2> HIDE DEF n, latest
  <2>5. document' = [asked |-> IF latest THEN -1 ELSE first + n - 1, version |-> n,
                     height |-> IF zero THEN 0 ELSE IF n = 0 THEN 1 ELSE first + n,
                     section |-> included]
    BY <2>1, <2>3
  <2>6. Ledger!Export
    BY <1>1, <2>2, <2>3, <2>4, <2>5 DEF Ledger!Export, Chain, ChainParams
  <2>7. QED
    BY <2>6
<1>4. QED
  BY <1>2, <1>3 DEF AppExport, LoadFails, ExportPanics

\* A step that keeps the committed versions and what they were computed from is no
\* step of the ledger.
LEMMA DecideIsInternal ==
    ASSUME TypeOK, NEW b \in Blocks, Decide(b)
    PROVE  UNCHANGED Ledger!vars
<1>1. UNCHANGED <<section, first, versions, document>>
  BY DEF Decide, genesisVars, exportVars
<1>2. Chain' = Chain
  <2>1. /\ Len(versions) \in Nat /\ Len(versions) =< Len(decided)
        /\ decided' \in Seq(Blocks)
        /\ Len(decided') = Len(decided) + 1
        /\ \A i \in 1 .. Len(decided) : decided'[i] = decided[i] /\ decided[i] \in Blocks
    BY LenProperties, ElementOfSeq, AppendProperties DEF TypeOK, Decide
  <2>2. /\ Chain' \in Seq(Blocks) /\ Len(Chain') = Len(versions)
        /\ \A i \in 1 .. Len(versions) : Chain'[i] = decided[i]
    BY <1>1, <2>1, SubSeqProperties DEF Chain
  <2>3. QED
    BY <2>2, ChainIsPrefix, SeqEqual
<1>3. QED
  BY <1>1, <1>2 DEF Ledger!vars, Chain

\* The node implements the ledger: optimistic executions, kills and replays leave no
\* trace in what is committed and exported, whichever strings name the authority.
THEOREM NodeImplementsLedger == Spec => ImplementsLedger
<1> USE DEF genesisVars, exportVars
<1>1. ASSUME Init PROVE Ledger!Init
  <2>1. SubSeq(decided, 1, Len(versions)) = << >>
    BY <1>1, EmptyStores, SubSeqEmpty DEF Init
  <2>2. [i \in 1 .. Len(versions) |-> versions[i] = "set"] = << >>
    BY <1>1, EmptyStores DEF Init
  <2>3. section \in BOOLEAN /\ first = 1 /\ document = Ledger!NoDocument
    BY <1>1 DEF Init, NoDocument, Ledger!NoDocument
  <2>4. QED
    BY <2>1, <2>2, <2>3 DEF Ledger!Init
<1>2. TypeOK /\ IInv /\ [Next]_vars => [Ledger!Next]_Ledger!vars
  <2> SUFFICES ASSUME TypeOK, IInv, [Next]_vars
               PROVE  Ledger!Next \/ UNCHANGED Ledger!vars
    BY DEF Ledger!vars
  <2>1. CASE NewApp \/ InitChain \/ ExecuteProposal \/ FinalizeBlock \/ Kill
             \/ (\E b \in Blocks : ProcessProposal(b)) \/ UNCHANGED vars
    <3>1. UNCHANGED <<section, first, decided, versions, document>>
      BY <2>1 DEF NewApp, InitChain, ExecuteProposal, FinalizeBlock, Kill, ProcessProposal, vars
    <3>2. QED
      BY <3>1 DEF Ledger!vars
  <2>2. CASE Commit
    BY <2>2, CommitAddsBlock DEF Ledger!Next
  <2>3. ASSUME NEW b \in Blocks, Decide(b) PROVE UNCHANGED Ledger!vars
    BY <2>3, DecideIsInternal
  <2>4. ASSUME NEW h \in Heights, NEW zero \in BOOLEAN, NEW included \in BOOLEAN,
               AppExport(h, zero, included)
        PROVE  Ledger!Next \/ UNCHANGED Ledger!vars
    BY <2>4, ExportIsLedgers DEF Ledger!Next
  <2>5. CASE NewChain
    <3>1. /\ SubSeq(decided, 1, Len(versions))' = << >>
          /\ [i \in 1 .. Len(versions) |-> versions[i] = "set"]' = << >>
      BY <2>5, EmptyStores, SubSeqEmpty DEF NewChain
    <3>2. QED
      BY <2>5, <3>1 DEF NewChain, NoDocument, Ledger!Next, Ledger!NewChain, Ledger!NoDocument
  <2>6. QED
    BY <2>1, <2>2, <2>3, <2>4, <2>5 DEF Next, Node
<1>3. QED
  BY <1>1, <1>2, Invariance, PTL DEF Spec, ImplementsLedger, Ledger!Spec
=============================================================================
