------------------------------ MODULE TatcoreApp ------------------------------
(***************************************************************************)
(* A tatcoin node as x/tatcore sees it: the keeper, message server and     *)
(* genesis of the module, the commands that build the application (newApp  *)
(* and appExport in cmd/tatcoind/cmd/commands.go, New in app/app.go), and  *)
(* around them the node that calls them.                                   *)
(*                                                                         *)
(* app.go turns optimistic execution on: a proposal is executed while its  *)
(* round is still being voted on, in the state the decided block will be   *)
(* executed in.  The node may be killed at any moment; its block store and *)
(* the committed versions of the application survive.  Export needs the    *)
(* database for itself, so the node is down.                               *)
(*                                                                         *)
(* Params has no fields: what can be told apart is whether they were ever  *)
(* set.  A block holds at most one MsgUpdateParams, which is its Authority *)
(* string; how a message gets into a block is left out.                    *)
(***************************************************************************)
EXTENDS Integers, Sequences

CONSTANTS
    Strings,     \* Authority fields of messages and of the module's configuration
    Accounts,    \* addresses
    Address,     \* Address[s] is the account that the string s encodes, or Malformed
    Malformed,
    GovAccount,  \* address of the gov module account
    Configured,  \* the Authority in the module's configuration, or Empty
    Empty,       \* an empty string, and a block without a message
    MaxHeight    \* bound: no block above this height

ASSUME AppAssumption ==
    /\ Malformed \notin Accounts
    /\ Address \in [Strings -> Accounts \cup {Malformed}]
    /\ GovAccount \in Accounts
    /\ Empty \notin Strings
    /\ Configured \in Strings \cup {Empty}
    /\ Configured \in Strings => Address[Configured] \in Accounts
    /\ MaxHeight \in Nat

VARIABLES
    section,   \* genesis: it has a section for tatcore
    first,     \* genesis: its initial height
    decided,   \* the block store: the blocks consensus decided, from height first on
    versions,  \* the committed versions of the module's store, likewise
    up,        \* the node is running
    phase,     \* of the next height: "propose", "decided", "finalized"
    working,   \* the state a block is executed in, "none" before it is opened
    oe,        \* optimistic execution: its status and the proposal it executes
    outcome,   \* of the last export
    document   \* the genesis it wrote, with the height asked for and the version loaded

genesisVars == <<section, first>>
exportVars == <<outcome, document>>
vars == <<genesisVars, decided, versions, up, phase, working, oe, exportVars>>

Blocks == Strings \cup {Empty}

Params == {"unset", "set"}

Idle == [status |-> "idle", block |-> Empty]

NoDocument == [asked |-> 0, version |-> 0, height |-> -1, section |-> FALSE]

NoOutcome == [kind |-> "none", version |-> 0]

NextHeight == first + Len(versions)

-----------------------------------------------------------------------------
(* x/tatcore. *)

\* ProvideModule: governance is the authority unless the configuration names one.
Authority == IF Configured = Empty THEN GovAccount ELSE Address[Configured]

\* Mutant: the message is compared with the text of the authority's address.
UpdateByText(p, s) == IF s = (CHOOSE t \in Strings : Address[t] = Authority) THEN "set" ELSE p

\* The message server: an authority that is no address or not the module's is an
\* error, and a failing message writes nothing.
UpdateParams(p, s) ==
    IF Address[s] = Malformed THEN p
    ELSE IF Address[s] # Authority THEN p
    ELSE "set"

Deliver(p, block) == IF block = Empty THEN p ELSE UpdateParams(p, block)

\* InitGenesis is called only if the genesis has a section for the module.
InitGenesis == IF section THEN "set" ELSE "unset"

\* Mutant: parameters that are not found export as the default ones.
CanExportDefaults(p) == p \in Params

\* ExportGenesis returns an error, which the module turns into a panic, if there
\* are no parameters.
CanExportGenesis(p) == p = "set"

-----------------------------------------------------------------------------
(* The node. *)

\* Mutant: the node waits for the next proposal.
NewAppWithoutReplay ==
    /\ ~up
    /\ up' = TRUE
    /\ outcome' = NoOutcome
    /\ UNCHANGED <<genesisVars, decided, versions, phase, working, oe, document>>

\* newApp: the application loads its latest version, and the handshake replays the
\* decided block it has not committed.
NewApp ==
    /\ ~up
    /\ up' = TRUE
    /\ phase' = IF Len(decided) > Len(versions) THEN "decided" ELSE "propose"
    /\ outcome' = NoOutcome
    /\ UNCHANGED <<genesisVars, decided, versions, working, oe, document>>

\* Only an application without a version gets the genesis.
InitChain ==
    /\ up
    /\ versions = << >>
    /\ working = "none"
    /\ working' = InitGenesis
    /\ UNCHANGED <<genesisVars, decided, versions, up, phase, oe, exportVars>>

Started == versions = << >> => working # "none"

Last == versions[Len(versions)]

\* A proposal of any round: an earlier one is aborted, the state reset, and the
\* new one executed; not for the first block, whose state is the genesis.
ProcessProposal(b) ==
    /\ up /\ phase = "propose" /\ Started
    /\ versions # << >>
    /\ working' = Last
    /\ oe' = [status |-> "running", block |-> b]
    /\ UNCHANGED <<genesisVars, decided, versions, up, phase, exportVars>>

ExecuteProposal ==
    /\ oe.status = "running"
    /\ working' = Deliver(working, oe.block)
    /\ oe' = [oe EXCEPT !.status = "done"]
    /\ UNCHANGED <<genesisVars, decided, versions, up, phase, exportVars>>

\* Consensus decides on any block, whether this node got it as a proposal or not,
\* and stores it.
Decide(b) ==
    /\ up /\ phase = "propose" /\ Started
    /\ NextHeight =< MaxHeight
    /\ decided' = Append(decided, b)
    /\ phase' = "decided"
    /\ UNCHANGED <<genesisVars, versions, up, working, oe, exportVars>>

\* Mutant: whatever was executed ahead is taken for the decided block.
FinalizeAnyProposal ==
    /\ up /\ phase = "decided" /\ Started
    /\ IF oe.status = "idle"
         THEN working' = Deliver(IF versions = << >> THEN working ELSE Last,
                                 decided[Len(decided)])
         ELSE oe.status = "done" /\ UNCHANGED working
    /\ oe' = Idle
    /\ phase' = "finalized"
    /\ UNCHANGED <<genesisVars, decided, versions, up, exportVars>>

\* Mutant: a block is finalized only after its optimistic execution.
FinalizeOnlyProposal ==
    /\ up /\ phase = "decided" /\ Started
    /\ oe.status = "done" \/ versions = << >>
    /\ working' = Deliver(IF versions = << >> THEN working ELSE Last, decided[Len(decided)])
    /\ oe' = Idle
    /\ phase' = "finalized"
    /\ UNCHANGED <<genesisVars, decided, versions, up, exportVars>>

\* The result of the proposal's execution is awaited and used if it is the decided
\* block; else the block is executed on a fresh state.
FinalizeBlock ==
    /\ up /\ phase = "decided" /\ Started
    /\ LET block == decided[Len(decided)] IN
         IF oe.status # "idle" /\ oe.block = block
           THEN oe.status = "done" /\ UNCHANGED working
           ELSE working' = Deliver(IF versions = << >> THEN working ELSE Last, block)
    /\ oe' = Idle
    /\ phase' = "finalized"
    /\ UNCHANGED <<genesisVars, decided, versions, up, exportVars>>

Commit ==
    /\ up /\ phase = "finalized"
    /\ versions' = Append(versions, working)
    /\ working' = "none"
    /\ phase' = "propose"
    /\ UNCHANGED <<genesisVars, decided, up, oe, exportVars>>

\* The process ends, at any moment: what was not committed is gone.
Kill ==
    /\ up
    /\ up' = FALSE
    /\ phase' = "propose"
    /\ working' = "none"
    /\ oe' = Idle
    /\ UNCHANGED <<genesisVars, decided, versions, exportVars>>

-----------------------------------------------------------------------------
(* The export command, and a chain that starts from what it wrote. *)

\* Mutant: the application is built with its latest version, whatever the height.
LoadLatest(h) == Len(versions)

\* The version that appExport loads: the latest for -1, else the one of height h.
LoadHeight(h) == IF h = -1 THEN Len(versions) ELSE h - first + 1

\* A version that was committed; the latest may also be version 0, the empty store
\* of a node without a commit.
CanLoad(h) == h = -1 \/ LoadHeight(h) \in 1 .. Len(versions)

StateAt(n) == IF n = 0 THEN "unset" ELSE versions[n]

LoadFails(h) ==
    /\ ~CanLoad(h)
    /\ outcome' = [kind |-> "error", version |-> 0]
    /\ UNCHANGED document

\* Tatcore has no parameters, or the store is empty and another module panics.
ExportPanics(n, included) ==
    /\ n = 0 \/ (included /\ ~CanExportGenesis(StateAt(n)))
    /\ outcome' = [kind |-> "panicked", version |-> n]
    /\ UNCHANGED document

\* The height is the one after the loaded version's, which is 0 for version 0, or
\* zero if the export is for zero height.
WriteDocument(h, zero, included) ==
    LET n == LoadHeight(h)
        next == IF n = 0 THEN 1 ELSE first + n IN
      /\ included => CanExportGenesis(StateAt(n))
      /\ outcome' = [kind |-> "written", version |-> n]
      /\ document' = [asked |-> h, version |-> n, height |-> IF zero THEN 0 ELSE next,
                      section |-> included]

\* modulesToExport may leave tatcore out.
AppExport(h, zero, included) ==
    /\ ~up
    /\ \/ LoadFails(h)
       \/ CanLoad(h) /\ ExportPanics(LoadHeight(h), included)
       \/ CanLoad(h) /\ WriteDocument(h, zero, included)
    /\ UNCHANGED <<genesisVars, decided, versions, up, phase, working, oe>>

\* What was exported from the empty store has no validators, and starts no chain.
NewChain ==
    /\ ~up
    /\ document.version > 0
    /\ section' = document.section
    /\ first' = IF document.height = 0 THEN 1 ELSE document.height
    /\ decided' = << >>
    /\ versions' = << >>
    /\ outcome' = NoOutcome
    /\ document' = NoDocument
    /\ UNCHANGED <<up, phase, working, oe>>

-----------------------------------------------------------------------------
Init ==
    /\ section \in BOOLEAN
    /\ first = 1
    /\ decided = << >>
    /\ versions = << >>
    /\ up = FALSE
    /\ phase = "propose"
    /\ working = "none"
    /\ oe = Idle
    /\ outcome = NoOutcome
    /\ document = NoDocument

\* Heights are positive: the SDK takes the height 0 for "the latest".
Heights == {-1} \cup 1 .. (MaxHeight + 1)

Node ==
    \/ InitChain
    \/ ExecuteProposal
    \/ FinalizeBlock
    \/ Commit

Next ==
    \/ NewApp
    \/ Node
    \/ \E b \in Blocks : ProcessProposal(b) \/ Decide(b)
    \/ Kill
    \/ \E h \in Heights, zero \in BOOLEAN, included \in BOOLEAN : AppExport(h, zero, included)
    \/ NewChain

Spec == Init /\ [][Next]_vars

\* A running node goes on with what it can do without a proposal or a decision.
FairSpec == Spec /\ WF_vars(Node)

-----------------------------------------------------------------------------
(* What the node promises. *)

\* Types of all variables; a block is stored before it is committed, one at a time.
TypeOK ==
    /\ section \in BOOLEAN
    /\ first \in Nat \ {0}
    /\ decided \in Seq(Blocks)
    /\ versions \in Seq(Params)
    /\ Len(versions) =< Len(decided) /\ Len(decided) =< Len(versions) + 1
    /\ up \in BOOLEAN
    /\ phase \in {"propose", "decided", "finalized"}
    /\ working \in Params \cup {"none"}
    /\ oe \in [status : {"idle", "running", "done"}, block : Blocks]
    /\ outcome \in [kind : {"none", "error", "panicked", "written"}, version : Nat]
    /\ document \in [asked : Nat \cup {-1}, version : Nat, height : Nat \cup {-1},
                     section : BOOLEAN]

Updates == {s \in Strings : Address[s] = Authority}

\* The node implements a ledger of blocks that are executed once, when they are
\* committed: proposals executed ahead and dropped, kills between a decision and
\* its commit, and replays leave no trace, and every spelling of the authority's
\* address counts (msg_update_params.go compares bytes).  An export at any height
\* writes the version of that height and no other (commands.go: "creates a new app
\* (optionally at a given height)").
Ledger ==
    INSTANCE TatcoreLedger WITH
        chain <- SubSeq(decided, 1, Len(versions)),
        params <- [i \in 1 .. Len(versions) |-> versions[i] = "set"]

ImplementsLedger == Ledger!Spec

\* What the first n blocks leave.
Written(n) == section \/ \E i \in 1 .. n : decided[i] \in Updates

ParamsAfter(n) == IF Written(n) THEN "set" ELSE "unset"

\* An export panics only on a node that has not committed a block yet, even if its
\* genesis has a section for tatcore; or if the genesis left tatcore out and no block
\* up to the exported version held an update of the authority.  It never writes
\* parameters that nobody set, nor any before the first commit (keeper/genesis.go:
\* Params.Get fails if there are none).
PanicsExplained ==
    /\ outcome.kind = "panicked" => versions = << >> \/ ~Written(outcome.version)
    /\ outcome.kind = "written" /\ document.section =>
         outcome.version > 0 /\ Written(outcome.version)

\* The inductive invariant behind ImplementsLedger: the versions are those of the
\* ledger, a proposal is only ever executed on the last of them, and a state that
\* is about to be committed is the next one.
IInv ==
    /\ \A i \in 1 .. Len(versions) : versions[i] = ParamsAfter(i)
    /\ ~up => phase = "propose" /\ working = "none" /\ oe = Idle
    /\ up => Len(decided) = IF phase = "propose" THEN Len(versions) ELSE Len(versions) + 1
    /\ phase = "finalized" => working = ParamsAfter(Len(versions) + 1)
    /\ phase # "finalized" /\ versions = << >> => working \in {"none", ParamsAfter(0)}
    /\ oe.status # "idle" => phase # "finalized" /\ versions # << >>
    /\ oe.status = "running" => working = Last
    /\ oe.status = "done" => working = Deliver(Last, oe.block)
    /\ document # NoDocument => document.height \in Nat
    /\ outcome.version \in 0 .. Len(versions)
    /\ up => outcome = NoOutcome
    /\ PanicsExplained

\* A node that stays up commits every block that was decided, also when it was
\* executing another proposal or was killed before.
DecidedCommitted == (up /\ Len(decided) > Len(versions)) ~> (~up \/ Len(decided) = Len(versions))
=============================================================================
