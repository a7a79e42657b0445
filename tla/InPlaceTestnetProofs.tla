------------------------- MODULE InPlaceTestnetProofs -------------------------
(***************************************************************************)
(* The invariants of the in-place testnet, for all constants: what a block *)
(* looks up is there, in every committed store, and CometBFT votes with    *)
(* the validators of the last commit.  First the blocks, then the steps of *)
(* the command, then the crashes and restarts.                             *)
(***************************************************************************)
EXTENDS InPlaceTestnet, StakingChainProofs, FiniteSetTheorems

\* Who is elected is in the power index and has power.
LEMMA ElectedInIndex ==
    ASSUME NEW tk, NEW index, NEW v \in Elected(tk, index)
    PROVE  v \in index /\ tk[v] > 0
BY DEF Elected, Scanned

\* The only validator of an index is elected if it has power.
LEMMA OnlyOneElected ==
    ASSUME NEW tk, NEW v \in Validators, tk[v] \in Nat \ {0}
    PROVE  Elected(tk, {v}) = {v}
<1>1. {u \in {v} : Precedes(tk, u, v)} \subseteq {v}
  OBVIOUS
<1>2. ~Precedes(tk, v, v)
  BY ChainAssumption DEF Precedes
<1>3. {u \in {v} : Precedes(tk, u, v)} = {}
  BY <1>2
<1>4. Cardinality({}) < MaxValidators
  BY FS_EmptySet, ChainAssumption
<1>5. v \in Scanned(tk, {v})
  BY <1>3, <1>4 DEF Scanned
<1>6. QED
  BY <1>5, ElectedInIndex DEF Elected

-----------------------------------------------------------------------------
(* A block. *)

\* What one operation of a block may do to the records: the index keeps to
\* validators that have a record and are not jailed, and the EndBlocker follows.
BlockEffect ==
    /\ tokens' \in [Validators -> Nat]
    /\ jailed' \in [Validators -> BOOLEAN]
    /\ \A v \in powerIndex' : v \in known /\ ~jailed'[v]
    /\ \E matured : BlockValidatorUpdates(matured)

Records ==
    /\ tokens \in [Validators -> Nat]
    /\ jailed \in [Validators -> BOOLEAN]
    /\ known \subseteq Validators
    /\ \A v \in powerIndex : v \in known /\ ~jailed[v]

LEMMA MainnetEffect ==
    ASSUME Records, MainnetBlock
    PROVE  BlockEffect
<1> USE DEF Records, BlockEffect
<1>1. CASE \E v \in known : AllocateRewards(v)
  BY <1>1 DEF AllocateRewards, EndBlock
<1>2. CASE \E v \in known : Slash(v)
  BY <1>2 DEF Slash, EndBlock
<1>3. CASE \E v \in known : Unjail(v)
  BY <1>3 DEF Unjail, EndBlock
<1>4. CASE \E v \in known : MatureValidator(v)
  BY <1>4 DEF MatureValidator
<1>5. CASE \E d \in Moves : d[2] \in known /\ Delegate(d)
  BY <1>5 DEF Delegate, EndBlock
<1>6. CASE \E d \in Moves : d[2] \in known /\ Undelegate(d)
  <2>1. PICK d \in Moves : d[2] \in known /\ Undelegate(d)
    BY <1>6
  <2>2. PICK left \in TokensLeft(d) : tokens' = [tokens EXCEPT ![d[2]] = left]
    BY <2>1 DEF Undelegate
  <2>3. left \in Nat
    BY <2>1 DEF TokensLeft
  <2>4. QED
    BY <2>1, <2>2, <2>3 DEF Undelegate, Leave, EndBlock
<1>7. CASE \E d \in Moves, w \in known : Redelegate(d, w)
  <2>1. PICK d \in Moves, w \in known : Redelegate(d, w)
    BY <1>7
  <2>2. d[2] \in Validators
    BY TestnetAssumption
  <2>3. PICK left \in TokensLeft(d) :
          /\ left < tokens[d[2]]
          /\ tokens' = [tokens EXCEPT ![d[2]] = left, ![w] = @ + (tokens[d[2]] - left)]
    BY <2>1 DEF Redelegate
  <2>4. left \in Nat /\ tokens[d[2]] - left \in Nat
    BY <2>2, <2>3 DEF TokensLeft
  <2>5. QED
    BY <2>1, <2>2, <2>3, <2>4 DEF Redelegate, Leave, EndBlock
<1>8. CASE MatureEntries
  BY <1>8 DEF MatureEntries, EndBlock
<1>9. QED
  BY <1>1, <1>2, <1>3, <1>4, <1>5, <1>6, <1>7, <1>8 DEF MainnetBlock

LEMMA TestnetEffect ==
    ASSUME Records, TestnetBlock, op \in Validators
    PROVE  BlockEffect
<1> USE DEF Records, BlockEffect
<1>1. CASE AllocateRewards(op)
  BY <1>1 DEF AllocateRewards, EndBlock
<1>2. CASE \E d \in Moves : CanMove(d) /\ Delegate(d)
  BY <1>2 DEF CanMove, Delegate, EndBlock
<1>3. CASE \E d \in Moves : UndelegateFromTestnet(d)
  <2>1. PICK d \in Moves : UndelegateFromTestnet(d)
    BY <1>3
  <2>2. PICK left \in NewPower .. tokens[op] : tokens' = [tokens EXCEPT ![op] = left]
    BY <2>1 DEF UndelegateFromTestnet
  <2>3. left \in Nat
    BY TestnetAssumption
  <2>4. QED
    BY <2>1, <2>2, <2>3 DEF UndelegateFromTestnet, EndBlock
<1>4. CASE MatureEntries
  BY <1>4 DEF MatureEntries, EndBlock
<1>5. QED
  BY <1>1, <1>2, <1>3, <1>4 DEF TestnetBlock

\* The update sent to CometBFT is the difference to the last powers: whoever voted
\* with the last powers, or had the last power zero, votes with the new ones.
LEMMA CommitUpdatesComet ==
    ASSUME CommitBlock, LookupsSucceed(Store), BlockEffect,
           DOMAIN comet = {pubkey[v] : v \in DOMAIN lastPower},
           NEW elected, elected = Elected(tokens', powerIndex')
    PROVE  /\ DOMAIN comet' = {pubkey[v] : v \in elected}
           /\ \A v \in elected :
                 (v \in DOMAIN lastPower =>
                     comet[pubkey[v]] = lastPower[v] \/ lastPower[v] = 0)
                 => comet'[pubkey[v]] = tokens'[v]
<1> DEFINE gone == {pubkey[v] : v \in DOMAIN lastPower \ elected}
           changed == {v \in elected : v \notin DOMAIN lastPower \/ lastPower[v] # tokens'[v]}
           update == [k \in {pubkey[v] : v \in changed} |->
                        tokens'[CHOOSE v \in changed : pubkey[v] = k]]
<1>1. comet' = [k \in (DOMAIN comet \ gone) \cup DOMAIN update |->
                  IF k \in DOMAIN update THEN update[k] ELSE comet[k]]
  BY DEF CommitBlock
<1>2. DOMAIN update = {pubkey[v] : v \in changed}
  OBVIOUS
<1>3. elected \subseteq known /\ DOMAIN lastPower \subseteq known
  BY ElectedInIndex DEF BlockEffect, LookupsSucceed, Store, known
<1>4. \A u, v \in known : pubkey[u] = pubkey[v] => u = v
  BY DEF LookupsSucceed, Store, known
<1> HIDE DEF update
<1>5. DOMAIN comet' = {pubkey[v] : v \in elected}
  <2>1. DOMAIN comet' = (DOMAIN comet \ gone) \cup {pubkey[v] : v \in changed}
    BY <1>1, <1>2
  <2>2. DOMAIN comet \ gone = {pubkey[v] : v \in DOMAIN lastPower \cap elected}
    BY <1>3, <1>4
  <2>3. elected = (DOMAIN lastPower \cap elected) \cup changed
    OBVIOUS
  <2>4. QED
    BY <2>1, <2>2, <2>3
<1>6. ASSUME NEW v \in elected,
             v \in DOMAIN lastPower => comet[pubkey[v]] = lastPower[v] \/ lastPower[v] = 0
      PROVE  comet'[pubkey[v]] = tokens'[v]
  <2>1. CASE v \in changed
    <3>1. (CHOOSE u \in changed : pubkey[u] = pubkey[v]) = v
      BY <1>3, <1>4, <2>1
    <3>2. update[pubkey[v]] = tokens'[v]
      BY <2>1, <3>1 DEF update
    <3>3. QED
      BY <1>1, <1>2, <2>1, <3>2
  <2>2. CASE v \notin changed
    <3>1. v \in DOMAIN lastPower /\ lastPower[v] = tokens'[v]
      BY <2>2
    <3>2. tokens'[v] > 0 /\ tokens'[v] \in Nat
      BY <1>3, ElectedInIndex DEF BlockEffect, LookupsSucceed, Store, known
    <3>3. pubkey[v] \notin DOMAIN update
      BY <1>2, <1>3, <1>4, <2>2
    <3>4. comet[pubkey[v]] = tokens'[v]
      BY <1>6, <3>1, <3>2
    <3>5. QED
      BY <1>1, <1>5, <3>3, <3>4
  <2>3. QED
    BY <2>1, <2>2
<1>7. QED
  BY <1>5, <1>6

\* A commit saves stores in which every lookup succeeds again.
LEMMA CommitSaves ==
    ASSUME CommitBlock, LookupsSucceed(Store), BlockEffect
    PROVE  Saved(committed') /\ committed' = Store'
<1> DEFINE elected == Elected(tokens', powerIndex')
<1>1. /\ committed' = Store'
      /\ lastPower' = [v \in elected |-> tokens'[v]]
      /\ elected # {}
      /\ queue' = {v \in queue \cup DOMAIN lastPower : status'[v] = "Unbonding"}
      /\ infos' = infos \cup {pubkey[v] : v \in elected}
      /\ UNCHANGED <<pubkey, byCons, op>>
  BY DEF CommitBlock
<1>2. PICK matured : BondElected(height + 1, elected, matured)
  BY DEF BlockEffect, BlockValidatorUpdates
<1>3. /\ known \subseteq Validators
      /\ elected \subseteq known
      /\ DOMAIN lastPower \subseteq known
      /\ queue \subseteq known
  BY ElectedInIndex DEF BlockEffect, LookupsSucceed, Store, known
<1> HIDE DEF elected
<1>4. /\ status' \in [Validators -> Statuses]
      /\ \A v \in Validators : status'[v] = "Bonded" <=> v \in elected
      /\ \A v \in Validators : status'[v] = "Unbonding" =>
            status[v] \in {"Unbonding", "Bonded"}
  BY <1>2 DEF BondElected, Statuses, LookupsSucceed, Store
<1>5. queue' = {v \in Validators : status'[v] = "Unbonding"} /\ queue' \subseteq known
  BY <1>1, <1>3, <1>4 DEF LookupsSucceed, Store, known
<1>6. IF op' = NoOperator
      THEN infos' \subseteq Validators /\ \A v \in DOMAIN pubkey' : pubkey'[v] = v
      ELSE DOMAIN pubkey' = {op'} /\ pubkey'[op'] = NewKey
  BY <1>1, <1>3 DEF LookupsSucceed, Store, known
<1>7. LookupsSucceed(Store')
  <2>1. /\ tokens' \in [Validators -> Nat] /\ jailed' \in [Validators -> BOOLEAN]
        /\ \A v \in powerIndex' : v \in DOMAIN pubkey' /\ ~jailed'[v]
    BY <1>1 DEF BlockEffect, known
  <2>2. \A v \in DOMAIN pubkey' : pubkey'[v] \in DOMAIN byCons' /\ byCons'[pubkey'[v]] = v
    BY <1>1 DEF LookupsSucceed, Store
  <2>3. DOMAIN lastPower' = elected
    BY <1>1
  <2>4. \A v \in elected : pubkey'[v] \in infos'
    BY <1>1
  <2>5. elected = Elected(tokens', powerIndex')
    BY DEF elected
  <2>6. QED
    BY <1>1, <1>3, <1>4, <1>5, <1>6, <2>1, <2>2, <2>3, <2>4, <2>5
       DEF LookupsSucceed, Store, known
<1>8. QED
  BY <1>1, <1>7 DEF Saved, IsStore, Store

\* The stores that initAppForTestnet has prepared are fit for a block.
LEMMA PreparedLookups ==
    ASSUME IInv, pc = "ready"
    PROVE  LookupsSucceed(Store) /\ op \in Validators /\ DOMAIN lastPower = {op}
<1>1. /\ op \in Validators /\ op # NoOperator
      /\ known = {op} /\ pubkey[op] = NewKey
      /\ NewKey \in DOMAIN byCons /\ byCons[NewKey] = op
      /\ powerIndex = {op}
      /\ status = [v \in Validators |-> IF v = op THEN "Bonded" ELSE "Unbonded"]
      /\ jailed = [v \in Validators |-> FALSE]
      /\ tokens = [v \in Validators |-> IF v = op THEN NewPower ELSE 0]
      /\ queue = {} /\ DOMAIN lastPower = {op} /\ NewKey \in infos
  BY TestnetAssumption DEF IInv, AddedInv, Working, NotEmptied
<1>2. tokens \in [Validators -> Nat] /\ tokens[op] \in Nat \ {0}
  BY <1>1, TestnetAssumption
<1>3. Elected(tokens, powerIndex) = {op}
  BY <1>1, <1>2, OnlyOneElected
<1>4. QED
  BY <1>1, <1>2, <1>3 DEF LookupsSucceed, Store, known, Statuses

\* A block leaves stores in which the next one runs, and CometBFT with their validators.
LEMMA BlockInv == IInv /\ (MainnetBlock \/ TestnetBlock) => IInv'
<1> SUFFICES ASSUME IInv, MainnetBlock \/ TestnetBlock PROVE IInv'
  OBVIOUS
<1>1. CommitBlock /\ pc \in {"chain", "ready"}
  BY DEF MainnetBlock, TestnetBlock
<1>2. LookupsSucceed(Store)
  BY <1>1, PreparedLookups DEF IInv, Saved
<1>3. Records
  BY <1>2 DEF Records, LookupsSucceed, Store, known
<1>4. TestnetBlock => op \in Validators
  BY <1>2, <1>3 DEF TestnetBlock, LookupsSucceed, Store, known, Records
<1>5. BlockEffect
  BY <1>3, <1>4, MainnetEffect, TestnetEffect
<1>6. Saved(committed') /\ committed' = Store'
  BY <1>1, <1>2, <1>5, CommitSaves
<1>7. /\ pc' = "chain" /\ op' = op /\ torn' = (torn /\ pc # "ready")
      /\ UNCHANGED pubkey
  BY <1>1 DEF CommitBlock, Goto
<1>8. torn => op # NoOperator
  <2>1. CASE pc = "ready"
    BY <2>1, PreparedLookups, TestnetAssumption
  <2>2. QED
    BY <1>1, <2>1 DEF IInv, CometInv
<1>9. DOMAIN comet = {pubkey[v] : v \in DOMAIN lastPower}
  <2>1. CASE torn
    <3>1. known = {op} /\ pubkey[op] = NewKey
      BY <1>2, <1>8, <2>1 DEF LookupsSucceed, Store, known
    <3>2. DOMAIN lastPower \subseteq known /\ DOMAIN lastPower # {}
      BY <1>2, ElectedInIndex DEF LookupsSucceed, Store, known
    <3>3. QED
      BY <2>1, <3>1, <3>2 DEF IInv, CometInv
  <2>2. CASE ~torn
    BY <1>1, <2>2 DEF IInv, CometInv, Store
  <2>3. QED
    BY <2>1, <2>2
<1>10. ~torn' => \A v \in DOMAIN lastPower : comet[pubkey[v]] = lastPower[v] \/ lastPower[v] = 0
  <2>1. CASE pc = "ready"
    BY <2>1, PreparedLookups DEF IInv, AddedInv, Working, NotEmptied
  <2>2. CASE pc = "chain"
    <3>1. pubkey = committed.pubkey /\ lastPower = committed.lastPower
      BY <2>2 DEF IInv, Store
    <3>2. ~torn' => ~torn
      BY <1>7, <2>2
    <3>3. QED
      BY <3>1, <3>2 DEF IInv, CometInv
  <2>3. QED
    BY <1>1, <2>1, <2>2
<1>11. DOMAIN lastPower' = Elected(tokens', powerIndex')
  BY <1>1 DEF CommitBlock
<1>12. /\ DOMAIN comet' = {pubkey[v] : v \in DOMAIN lastPower'}
       /\ ~torn' => \A v \in DOMAIN lastPower' : comet'[pubkey[v]] = tokens'[v]
  BY <1>1, <1>2, <1>5, <1>9, <1>10, <1>11, CommitUpdatesComet
<1>13. CometInv'
  <2>1. ~torn' => \A v \in DOMAIN lastPower' : lastPower'[v] = tokens'[v]
    BY <1>6 DEF Saved, Store
  <2>2. torn' => DOMAIN comet' = {NewKey}
    <3>1. torn' => DOMAIN pubkey' = {op'} /\ pubkey'[op'] = NewKey
      BY <1>6, <1>7, <1>8 DEF Saved, LookupsSucceed, Store
    <3>2. DOMAIN lastPower' # {} /\ DOMAIN lastPower' \subseteq DOMAIN pubkey'
      BY <1>6, ElectedInIndex DEF Saved, LookupsSucceed, Store
    <3>3. QED
      BY <1>7, <1>12, <3>1, <3>2
  <2>3. /\ committed'.pubkey = pubkey' /\ committed'.lastPower = lastPower'
        /\ UNCHANGED pubkey
    BY <1>6, <1>7 DEF Store
  <2>4. ~torn' => /\ DOMAIN comet' = {pubkey'[v] : v \in DOMAIN lastPower'}
                  /\ \A v \in DOMAIN lastPower' : comet'[pubkey'[v]] = lastPower'[v]
    BY <1>12, <2>1, <2>3
  <2>5. /\ torn' /\ pc' = "chain" => op' # NoOperator
        /\ pc' # "ready" /\ pc' # "halted"
    BY <1>7, <1>8
  <2>6. QED
    BY <2>2, <2>3, <2>4, <2>5 DEF CometInv
<1>14. QED
  BY <1>6, <1>7, <1>13 DEF IInv, EmptiedInv, AddedInv, NotEmptied, Working, Stopped

-----------------------------------------------------------------------------
(* The command. *)

\* Steps that write the stores of the running process only.
InMemory == /\ pc' \in Working
            /\ UNCHANGED nodeVars

LEMMA InMemoryInv ==
    ASSUME IInv, InMemory, EmptiedInv', AddedInv'
    PROVE  IInv'
<1>1. pc' \in Working /\ pc' \notin {"chain", "halted", "ready"} \cup Stopped
  BY DEF InMemory, Working, Stopped
<1>2. UNCHANGED <<committed, comet, torn>>
  BY DEF InMemory, nodeVars
<1>3. CometInv'
  BY <1>1, <1>2 DEF IInv, CometInv
<1>4. QED
  BY <1>1, <1>2, <1>3 DEF IInv

\* The steps that empty the stores.
LEMMA EmptyStep ==
    ASSUME IInv,
           RemovePowerIndex \/ RemoveLastValidators \/ RemoveValidators \/ RemoveUnbondingQueue
    PROVE  IInv'
<1> USE DEF Goto, Working, NotEmptied, chainVars
<1>1. InMemory
  BY DEF RemovePowerIndex, RemoveLastValidators, RemoveValidators, RemoveUnbondingQueue, InMemory
<1>2. EmptiedInv'
  BY DEF RemovePowerIndex, RemoveLastValidators, RemoveValidators, RemoveUnbondingQueue,
     IInv, EmptiedInv
<1>3. AddedInv'
  BY DEF RemovePowerIndex, RemoveLastValidators, RemoveValidators, RemoveUnbondingQueue, AddedInv
<1>4. QED
  BY <1>1, <1>2, <1>3, InMemoryInv

\* The new validator gets a record, its key, and a place in the power index.
LEMMA AddValidatorStep == ASSUME IInv, AddValidator PROVE IInv'
<1> USE DEF Goto, Working, NotEmptied
<1>1. InMemory
  BY DEF AddValidator, InMemory
<1>2. EmptiedInv'
  BY DEF AddValidator, IInv, EmptiedInv
<1>3. AddedInv'
  <2>1. /\ op' \in Validators /\ pc' = "lastPower"
        /\ status' = [status EXCEPT ![op'] = "Bonded"]
        /\ tokens' = [tokens EXCEPT ![op'] = NewPower]
        /\ powerIndex' = powerIndex \cup {op'}
        /\ UNCHANGED <<jailed, queue>>
    BY DEF AddValidator, IInv, EmptiedInv
  <2>2. known' = {op'} /\ pubkey'[op'] = NewKey
    BY DEF AddValidator, known
  <2>3. NewKey \in DOMAIN byCons' /\ byCons'[NewKey] = op'
    BY DEF AddValidator
  <2>4. /\ powerIndex = {} /\ queue = {}
        /\ status = [v \in Validators |-> "Unbonded"]
        /\ jailed = [v \in Validators |-> FALSE]
        /\ tokens = [v \in Validators |-> 0]
    BY DEF AddValidator, IInv, EmptiedInv
  <2>5. QED
    BY <2>1, <2>2, <2>3, <2>4 DEF AddedInv
<1>4. QED
  BY <1>1, <1>2, <1>3, InMemoryInv

\* Its last power is zero.
LEMMA SetLastPowerStep == ASSUME IInv, SetLastPower PROVE IInv'
<1> USE DEF Goto, Working, NotEmptied, chainVars
<1>1. InMemory
  BY DEF SetLastPower, InMemory
<1>2. EmptiedInv'
  BY DEF SetLastPower, EmptiedInv
<1>3. DOMAIN lastPower' = {op'} /\ lastPower'[op'] = 0
  BY DEF SetLastPower, IInv, EmptiedInv
<1>4. AddedInv'
  BY <1>3 DEF SetLastPower, IInv, AddedInv, known
<1>5. QED
  BY <1>1, <1>2, <1>4, InMemoryInv

\* Distribution, slashing and bank state follow; none of them is looked up by key
\* before the signing info of the new key is there.
LEMMA RecordsStep ==
    ASSUME IInv,
           \/ CreatedHook \/ InitializeRecords \/ SetSigningInfo
           \/ \E flag \in AccountFlags : AccountsToFund(flag)
           \/ FundAccount \/ Return
    PROVE  IInv'
<1> USE DEF Goto, Working, NotEmptied, chainVars, storeVars
<1>1. InMemory
  BY DEF CreatedHook, InitializeRecords, SetSigningInfo, AccountsToFund, FundAccount, Return, InMemory
<1>2. EmptiedInv'
  BY DEF CreatedHook, InitializeRecords, SetSigningInfo, AccountsToFund, FundAccount, Return, EmptiedInv
<1>3. UNCHANGED <<op, pubkey, byCons, powerIndex, status, jailed, tokens, queue, lastPower>>
  BY DEF CreatedHook, InitializeRecords, SetSigningInfo, AccountsToFund, FundAccount, Return
<1>4. /\ pc \in Working \ (NotEmptied \cup {"lastPower"})
      /\ pc' \in {"bank", "fund", "prepared"} => NewKey \in infos'
  BY DEF CreatedHook, InitializeRecords, SetSigningInfo, AccountsToFund, FundAccount, Return,
     IInv, AddedInv
<1>5. AddedInv'
  BY <1>1, <1>3, <1>4 DEF InMemory, IInv, AddedInv, known
<1>6. QED
  BY <1>1, <1>2, <1>5, InMemoryInv

\* The server replaces CometBFT's validators; the stores are not saved yet.
LEMMA StartServerStep == ASSUME IInv, StartServer PROVE IInv'
<1>1. /\ pc = "prepared" /\ pc' = "ready" /\ torn'
      /\ DOMAIN comet' = {NewKey}
      /\ UNCHANGED <<op, pubkey, byCons, powerIndex, status, jailed, tokens, queue, lastPower,
                    infos, committed>>
  BY DEF StartServer, Goto, storeVars, chainVars
<1>2. CometInv'
  BY <1>1 DEF CometInv
<1>3. EmptiedInv' /\ AddedInv'
  BY <1>1 DEF IInv, EmptiedInv, AddedInv, Working, NotEmptied, known
<1>4. QED
  BY <1>1, <1>2, <1>3 DEF IInv, Stopped

-----------------------------------------------------------------------------
(* Crashes and restarts. *)

\* A new process finds the committed stores.
LEMMA RestoreIsCommitted ==
    ASSUME IsStore(committed), Restore, UNCHANGED committed
    PROVE  Store' = committed'
BY DEF IsStore, Restore, Store

\* A step to a state in which the stores are the committed ones.
LEMMA CommittedInv ==
    ASSUME IInv, UNCHANGED <<committed, comet, torn>>, Store' = committed',
           pc' \in {"chain", "halted"} \cup Stopped,
           pc' = "halted" => torn,
           torn /\ pc' = "chain" => op' # NoOperator
    PROVE  IInv'
<1>1. CometInv'
  BY DEF IInv, CometInv, Stopped
<1>2. EmptiedInv' /\ AddedInv'
  BY DEF EmptiedInv, AddedInv, Working, NotEmptied, Stopped
<1>3. QED
  BY <1>1, <1>2 DEF IInv

\* The command is given up: nothing of it is in the stores.
LEMMA StopInv ==
    ASSUME IInv, ExitOnError \/ Kill
    PROVE  IInv'
<1>1. Restore /\ UNCHANGED nodeVars /\ pc' \in Stopped
  BY DEF ExitOnError, Kill, Goto, Stopped
<1>2. Store' = committed'
  BY <1>1, RestoreIsCommitted DEF nodeVars, IInv, Saved
<1>3. QED
  BY <1>1, <1>2, CommittedInv DEF nodeVars, Stopped

\* The command starts on the committed stores.
LEMMA NewTestnetAppInv ==
    ASSUME IInv, NEW newOp \in Validators \cup {Malformed}, NEW home \in BOOLEAN,
           NewTestnetApp(newOp, home)
    PROVE  IInv'
<1>1. /\ pc \in {"chain"} \cup Stopped
      /\ UNCHANGED <<committed, comet, torn>>
      /\ UNCHANGED storeVars
      /\ pc' = IF home /\ newOp # Malformed THEN "power" ELSE "exited"
      /\ args'.operator = newOp
  BY DEF NewTestnetApp, Goto
<1>2. Store' = committed'
  BY <1>1 DEF IInv, Store, storeVars, chainVars
<1>3. CASE pc' = "exited"
  BY <1>1, <1>2, <1>3, CommittedInv DEF Stopped
<1>4. CASE pc' = "power"
  <2>1. newOp \in Validators
    BY <1>1, <1>4
  <2>2. EmptiedInv' /\ AddedInv'
    BY <1>1, <1>4, <2>1 DEF EmptiedInv, AddedInv, Working, NotEmptied
  <2>3. CometInv'
    BY <1>1, <1>4 DEF IInv, CometInv
  <2>4. QED
    BY <1>1, <1>4, <2>2, <2>3 DEF IInv, Working, Stopped
<1>5. QED
  BY <1>1, <1>3, <1>4

\* Without a torn database every key that votes is found.
LEMMA VotersResolve ==
    ASSUME Saved(Store),
           DOMAIN comet = {pubkey[v] : v \in DOMAIN lastPower}
    PROVE  \A k \in DOMAIN comet : Resolves(k)
<1>1. DOMAIN lastPower \subseteq known
  BY ElectedInIndex DEF Saved, LookupsSucceed, Store, known
<1>2. QED
  BY <1>1 DEF Saved, LookupsSucceed, Store, known, Resolves

\* Starting the node without the command: the blocks go on, or the node halts.  The
\* original chain does not know the testnet's key.
LEMMA StartNodeInv == ASSUME IInv, StartNode PROVE IInv'
<1>1. /\ pc \in Stopped
      /\ UNCHANGED <<committed, comet, torn>>
      /\ UNCHANGED storeVars
      /\ pc' = IF \A k \in DOMAIN comet : Resolves(k) THEN "chain" ELSE "halted"
  BY DEF StartNode, Goto, nodeVars
<1>2. Store = committed /\ Store' = committed' /\ op' = op
  BY <1>1 DEF IInv, Store, storeVars, chainVars
<1>3. Saved(Store)
  BY <1>2 DEF IInv
<1>4. pc' = "halted" => torn
  <2>1. SUFFICES ASSUME ~torn PROVE \A k \in DOMAIN comet : Resolves(k)
    BY <1>1
  <2>2. DOMAIN comet = {pubkey[v] : v \in DOMAIN lastPower}
    BY <1>2, <2>1 DEF IInv, CometInv, Store
  <2>3. QED
    BY <1>3, <2>2, VotersResolve
<1>5. torn /\ pc' = "chain" => op' # NoOperator
  <2>1. SUFFICES ASSUME torn, Resolves(NewKey) PROVE op # NoOperator
    BY <1>1, <1>2 DEF IInv, CometInv
  <2>2. NewKey \in infos
    BY <2>1 DEF Resolves
  <2>3. QED
    BY <1>3, <2>2, TestnetAssumption DEF Saved, LookupsSucceed, Store
<1>6. QED
  BY <1>1, <1>2, <1>4, <1>5, CommittedInv

-----------------------------------------------------------------------------
(* The theorems. *)

\* A genesis that elects somebody.
LEMMA InitInv == Init => IInv
<1> SUFFICES ASSUME Init PROVE IInv
  OBVIOUS
<1> DEFINE elected == Elected(tokens, powerIndex)
<1>1. PICK power \in [GenesisValidators -> 1 .. MaxTokens] :
        tokens = [v \in Validators |-> IF v \in GenesisValidators THEN power[v] ELSE 0]
  BY DEF Init
<1>2. tokens \in [Validators -> Nat]
  BY <1>1, ChainAssumption
<1>3. /\ jailed = [v \in Validators |-> FALSE]
      /\ powerIndex = GenesisValidators
      /\ elected # {}
      /\ status = [v \in Validators |-> IF v \in elected THEN "Bonded" ELSE "Unbonded"]
      /\ lastPower = [v \in elected |-> tokens[v]]
      /\ comet = lastPower /\ infos = elected
      /\ pubkey = [v \in GenesisValidators |-> v] /\ byCons = pubkey
      /\ queue = {} /\ op = NoOperator
      /\ pc = "chain" /\ committed = Store /\ torn = FALSE
  BY DEF Init
<1>4. elected \subseteq GenesisValidators
  BY <1>3, ElectedInIndex
<1> HIDE DEF elected
<1>5. status \in [Validators -> Statuses]
  BY <1>3 DEF Statuses
<1>6. LookupsSucceed(Store)
  <2>1. elected = Elected(tokens, powerIndex)
    BY DEF elected
  <2>2. queue = {v \in Validators : status[v] = "Unbonding"}
    BY <1>3
  <2>3. QED
    BY <1>2, <1>3, <1>4, <1>5, <2>1, <2>2, TestnetAssumption DEF LookupsSucceed, Store
<1>7. Saved(committed)
  BY <1>3, <1>6 DEF Saved, IsStore, Store
<1>8. CometInv
  BY <1>3, <1>4 DEF CometInv, Store
<1>9. EmptiedInv /\ AddedInv
  BY <1>3 DEF EmptiedInv, AddedInv, Working, NotEmptied
<1>10. QED
  BY <1>3, <1>7, <1>8, <1>9 DEF IInv

LEMMA StutterInv == IInv /\ UNCHANGED vars => IInv'
<1> SUFFICES ASSUME IInv, UNCHANGED vars PROVE IInv'
  OBVIOUS
<1> USE DEF vars, storeVars, chainVars, nodeVars
<1>1. Store' = Store
  BY DEF Store
<1>2. CometInv'
  BY DEF IInv, CometInv
<1>3. EmptiedInv' /\ AddedInv'
  BY DEF IInv, EmptiedInv, AddedInv, known
<1>4. QED
  BY <1>1, <1>2, <1>3 DEF IInv

LEMMA Invariance == Spec => []IInv
<1>1. IInv /\ [Next]_vars => IInv'
  <2> SUFFICES ASSUME IInv, [Next]_vars PROVE IInv'
    OBVIOUS
  <2>1. CASE MainnetBlock \/ TestnetBlock
    BY <2>1, BlockInv
  <2>2. CASE \E newOp \in Validators \cup {Malformed}, home \in BOOLEAN : NewTestnetApp(newOp, home)
    BY <2>2, NewTestnetAppInv
  <2>3. CASE RemovePowerIndex \/ RemoveLastValidators \/ RemoveValidators \/ RemoveUnbondingQueue
    BY <2>3, EmptyStep
  <2>4. CASE AddValidator \/ SetLastPower
    BY <2>4, AddValidatorStep, SetLastPowerStep
  <2>5. CASE \/ CreatedHook \/ InitializeRecords \/ SetSigningInfo
             \/ \E flag \in AccountFlags : AccountsToFund(flag)
             \/ FundAccount \/ Return
    BY <2>5, RecordsStep
  <2>6. CASE StartServer \/ StartNode
    BY <2>6, StartServerStep, StartNodeInv
  <2>7. CASE ExitOnError \/ Kill
    BY <2>7, StopInv
  <2>8. CASE UNCHANGED vars
    BY <2>8, StutterInv
  <2>9. QED
    BY <2>1, <2>2, <2>3, <2>4, <2>5, <2>6, <2>7, <2>8 DEF Next
<1>2. QED
  BY <1>1, InitInv, PTL DEF Spec

\* On the original chain, on the testnet and on its first block, every lookup that
\* could halt the node succeeds, whatever commands were given up or killed before.
THEOREM BlocksFindTheirRecords == Spec => []NextBlockRuns
<1>1. IInv => NextBlockRuns
  <2> SUFFICES ASSUME IInv, pc \in {"chain", "ready"} PROVE NextBlockRuns
    BY DEF NextBlockRuns
  <2>1. LookupsSucceed(Store)
    BY PreparedLookups DEF IInv, Saved
  <2>2. /\ \A v \in powerIndex : v \in known /\ ~jailed[v]
        /\ DOMAIN lastPower \subseteq known
        /\ \A v \in DOMAIN lastPower : v \in known /\ Bonded(v)
        /\ \A v \in queue : v \in known /\ status[v] = "Unbonding"
        /\ Elected(tokens, powerIndex) # {}
    BY <2>1, ElectedInIndex DEF LookupsSucceed, Store, known, Bonded
  <2>3. DOMAIN comet = {pubkey[v] : v \in DOMAIN lastPower}
    <3>1. CASE torn
      <4>1. op # NoOperator
        BY <3>1, PreparedLookups, TestnetAssumption DEF IInv, CometInv
      <4>2. known = {op} /\ pubkey[op] = NewKey /\ DOMAIN lastPower # {}
        BY <2>1, <4>1 DEF LookupsSucceed, Store, known
      <4>3. QED
        BY <2>2, <3>1, <4>2 DEF IInv, CometInv
    <3>2. CASE ~torn
      BY <3>2 DEF IInv, CometInv, Store
    <3>3. QED
      BY <3>1, <3>2
  <2>4. \A k \in DOMAIN comet : Resolves(k)
    BY <2>1, <2>2, <2>3 DEF LookupsSucceed, Store, known, Resolves
  <2>5. DOMAIN comet # {}
    <3>1. DOMAIN lastPower # {}
      BY <2>1 DEF LookupsSucceed, Store
    <3>2. QED
      BY <2>3, <3>1
  <2>6. comet # << >>
    BY <2>5
  <2>7. QED
    BY <2>2, <2>4, <2>6 DEF NextBlockRuns
<1>2. QED
  BY <1>1, Invariance, PTL

\* CometBFT votes with the validators, and unless its database is torn with the
\* powers, that the staking module elected.
THEOREM CometFollowsStaking == Spec => []CometAgrees
<1>1. IInv => CometAgrees
  <2> SUFFICES ASSUME IInv, pc = "chain"
               PROVE  /\ DOMAIN comet = {pubkey[v] : v \in Elected(tokens, powerIndex)}
                      /\ ~torn => \A v \in Elected(tokens, powerIndex) :
                                     comet[pubkey[v]] = tokens[v]
    BY DEF CometAgrees
  <2>1. Saved(Store) /\ Store = committed
    BY DEF IInv
  <2>2. DOMAIN lastPower = Elected(tokens, powerIndex)
    BY <2>1 DEF Saved, LookupsSucceed, Store
  <2>3. CASE torn
    <3>1. known = {op} /\ pubkey[op] = NewKey /\ DOMAIN lastPower # {}
      BY <2>1, <2>3 DEF IInv, CometInv, Saved, LookupsSucceed, Store, known
    <3>2. DOMAIN lastPower \subseteq known
      BY <2>1, ElectedInIndex DEF Saved, LookupsSucceed, Store, known
    <3>3. QED
      BY <2>2, <2>3, <3>1, <3>2 DEF IInv, CometInv
  <2>4. CASE ~torn
    <3>1. /\ DOMAIN comet = {pubkey[v] : v \in DOMAIN lastPower}
          /\ \A v \in DOMAIN lastPower : comet[pubkey[v]] = lastPower[v]
      BY <2>1, <2>4 DEF IInv, CometInv, Store
    <3>2. \A v \in DOMAIN lastPower : lastPower[v] = tokens[v]
      BY <2>1 DEF Saved, Store
    <3>3. QED
      BY <2>2, <3>1, <3>2
  <2>5. QED
    BY <2>3, <2>4
<1>2. QED
  BY <1>1, Invariance, PTL

\* Only a kill between the rewriting of CometBFT's database and the first commit
\* makes a node that is started again halt.
THEOREM HaltsAreTorn == Spec => []OnlyTornNodesHalt
<1>1. IInv => OnlyTornNodesHalt
  BY DEF IInv, CometInv, OnlyTornNodesHalt
<1>2. QED
  BY <1>1, Invariance, PTL

-----------------------------------------------------------------------------
(* The types. *)

\* The types of stores s, those in memory and those on disk.
StoreTyped(s) ==
    /\ s.height \in Nat
    /\ s.status \in [Validators -> Statuses]
    /\ s.jailed \in [Validators -> BOOLEAN]
    /\ s.tokens \in [Validators -> Nat]
    /\ s.unbondingHeight \in [Validators -> Nat]
    /\ s.powerIndex \subseteq Validators
    /\ s.delegations \subseteq Delegations
    /\ s.ubd \subseteq Unbondings
    /\ s.red \subseteq Redelegations
    /\ s.startHeight \in [Validators -> Nat]
    /\ Keeper(s.distr)
    /\ DOMAIN s.pubkey \subseteq Validators
    /\ \A v \in DOMAIN s.pubkey : s.pubkey[v] \in Keys
    /\ DOMAIN s.lastPower \subseteq Validators
    /\ \A v \in DOMAIN s.lastPower : s.lastPower[v] \in Nat
    /\ s.queue \subseteq Validators
    /\ DOMAIN s.byCons \subseteq Keys
    /\ \A k \in DOMAIN s.byCons : s.byCons[k] \in Validators
    /\ s.infos \subseteq Keys
    /\ s.op \in Validators \cup {NoOperator}
    /\ s.reused \subseteq Validators

NodeTyped ==
    /\ pc \in {"chain", "ready", "halted"} \cup Working \cup Stopped
    /\ args \in [home : BOOLEAN, operator : Validators \cup {NoOperator, Malformed}]
    /\ todo \in Seq(Accounts \cup {Malformed})
    /\ DOMAIN comet \subseteq Keys
    /\ \A k \in DOMAIN comet : comet[k] \in Nat
    /\ torn \in BOOLEAN
    /\ commands \in Nat

Typed == StoreTyped(Store) /\ StoreTyped(committed) /\ NodeTyped

LEMMA TypedParts == TypeOK <=> StoreTyped(Store) /\ NodeTyped
BY DEF TypeOK, ChainTypeOK, StoreTyped, NodeTyped, Store, known, Keeper

LEMMA ChainOfStore == StoreTyped(Store) => ChainTypeOK
BY DEF ChainTypeOK, StoreTyped, Store, Keeper

LEMMA InitTyped == Init => Typed
<1> SUFFICES ASSUME Init PROVE Typed
  OBVIOUS
<1> USE ChainAssumption, TestnetAssumption
<1>1. IInv
  BY InitInv
<1>2. LookupsSucceed(Store) /\ committed = Store
  BY <1>1 DEF Init, IInv, Saved
<1>3. /\ height = 0 /\ ubd = {} /\ red = {} /\ reused = {} /\ queue = {} /\ op = NoOperator
      /\ unbondingHeight = [v \in Validators |-> 0]
      /\ startHeight = [v \in Validators |-> 0]
      /\ powerIndex = GenesisValidators
      /\ delegations = {<<Operator[v], v>> : v \in GenesisValidators}
      /\ pubkey = [v \in GenesisValidators |-> v] /\ byCons = pubkey
      /\ lastPower = [v \in Elected(tokens, powerIndex) |-> tokens[v]]
      /\ infos = Elected(tokens, powerIndex) /\ comet = lastPower
      /\ pc = "chain" /\ args = NoArgs /\ todo = << >> /\ torn = FALSE /\ commands = 0
  BY DEF Init
<1>4. Elected(tokens, powerIndex) \subseteq Validators
  BY <1>3, ElectedInIndex
<1>5. tokens \in [Validators -> Nat]
  BY <1>2 DEF LookupsSucceed, Store
<1>6. delegations \subseteq Delegations
  BY <1>3 DEF Delegations
<1>7. Keeper(distr)
  <2>1. IsRewards(GenesisRewards)
    <3>1. GenesisRewards.refs = [p \in {1} |-> 2]
      BY DEF GenesisRewards, SetToBag, (+)
    <3>2. IsABag(GenesisRewards.refs) /\ BagToSet(GenesisRewards.refs) \subseteq Nat
      BY <3>1 DEF IsABag, BagToSet
    <3>3. QED
      BY <3>2 DEF GenesisRewards, IsRewards, WithHistory
  <2>2. IsRewards(NoRewards)
    <3>1. IsABag(EmptyBag) /\ BagToSet(EmptyBag) \subseteq Nat
      BY DEF IsABag, BagToSet, EmptyBag, SetToBag
    <3>2. QED
      BY <3>1 DEF NoRewards, IsRewards, WithHistory
  <2>3. distr = [vals |-> [v \in Validators |->
                             IF v \in GenesisValidators THEN GenesisRewards ELSE NoRewards],
                 start |-> [d \in Delegations |->
                              [known |-> d \in delegations, period |-> 1, height |-> 0]],
                 pool |-> 0,
                 balance |-> 0]
    BY DEF Init
  <2>4. distr.start \in [Delegations -> StartInfos]
    BY <2>3 DEF StartInfos
  <2>5. QED
    BY <2>1, <2>2, <2>3, <2>4 DEF Keeper, IsKeeper
<1>8. StoreTyped(Store)
  BY <1>2, <1>3, <1>4, <1>5, <1>6, <1>7 DEF StoreTyped, LookupsSucceed, Store, Keys
<1>9. NodeTyped
  <2>1. DOMAIN comet \subseteq Keys /\ \A k \in DOMAIN comet : comet[k] \in Nat
    BY <1>3, <1>4, <1>5 DEF Keys
  <2>2. args \in [home : BOOLEAN, operator : Validators \cup {NoOperator, Malformed}]
    BY <1>3 DEF NoArgs
  <2>3. todo \in Seq(Accounts \cup {Malformed})
    BY <1>3
  <2>4. QED
    BY <1>3, <2>1, <2>2, <2>3 DEF NodeTyped
<1>10. QED
  BY <1>2, <1>8, <1>9 DEF Typed

\* The chain's types are kept by a block of the original chain, which is one of
\* StakingChain's, and by one of the testnet.
LEMMA BlockChainTyped ==
    ASSUME ChainTypeOK, MainnetBlock \/ TestnetBlock, known \subseteq Validators,
           op \in Validators \cup {NoOperator}
    PROVE  ChainTypeOK'
<1>1. Moves \subseteq Delegations
  BY TestnetAssumption DEF Delegations
<1>2. CASE MainnetBlock
  BY <1>1, <1>2, BlockTyped DEF MainnetBlock, Block
<1>3. CASE TestnetBlock
  <2>1. op \in Validators
    BY <1>3 DEF TestnetBlock
  <2>2. ASSUME NEW d \in Moves, UndelegateFromTestnet(d), CanMove(d) PROVE ChainTypeOK'
    <3>1. d \in Delegations /\ d[2] = op /\ d[1] \in Delegators
      BY <1>1, <2>2, DelegationTyped DEF CanMove
    <3>2. PICK earned \in Earnable(distr, d, tokens[d[2]], height + 1) :
            distr' = SettleDelegation(distr, d, tokens[d[2]], earned)
      BY <2>2, <3>1 DEF UndelegateFromTestnet
    <3>3. Keeper(distr) /\ height + 1 \in Nat
      BY DEF ChainTypeOK, Keeper
    <3>4. IsKeeper(distr', Validators, Delegations)
      BY <3>1, <3>2, <3>3, DelegationTyped, SettleDelegationEffect DEF Keeper
    <3>5. tokens' \in [Validators -> Nat]
      <4>1. PICK left \in NewPower .. tokens[op] : tokens' = [tokens EXCEPT ![op] = left]
        BY <2>2 DEF UndelegateFromTestnet
      <4>2. left \in Nat
        BY TestnetAssumption
      <4>3. QED
        BY <4>1, <4>2 DEF ChainTypeOK
    <3>6. ubd' \subseteq Unbondings /\ delegations' \subseteq Delegations
      BY <2>1, <2>2, <3>1, <3>3 DEF UndelegateFromTestnet, Unbondings, ChainTypeOK
    <3>7. QED
      BY <2>2, <3>4, <3>5, <3>6, EndBlockTyped DEF UndelegateFromTestnet, EndBlock, ChainTypeOK
  <2>3. Block \/ \E d \in Moves : UndelegateFromTestnet(d) /\ CanMove(d)
    BY <1>1, <1>3, <2>1 DEF TestnetBlock, Block
  <2>4. QED
    BY <2>2, <2>3, BlockTyped
<1>4. QED
  BY <1>2, <1>3

\* What a commit writes besides has its type, in memory, on disk and in CometBFT.
LEMMA BlockStep == Typed /\ IInv /\ (MainnetBlock \/ TestnetBlock) => Typed'
<1> SUFFICES ASSUME Typed, IInv, MainnetBlock \/ TestnetBlock PROVE Typed'
  OBVIOUS
<1> DEFINE elected == Elected(tokens', powerIndex')
<1>1. IInv' /\ StoreTyped(Store) /\ NodeTyped
  BY BlockInv DEF Typed
<1>2. /\ CommitBlock
      /\ committed' = Store'
      /\ lastPower' = [v \in elected |-> tokens'[v]]
      /\ queue' = {v \in queue \cup DOMAIN lastPower : status'[v] = "Unbonding"}
      /\ infos' = infos \cup {pubkey[v] : v \in elected}
      /\ torn' = (torn /\ pc # "ready") /\ args' = NoArgs /\ pc' = "chain"
      /\ UNCHANGED <<pubkey, byCons, op, reused, todo, commands>>
  BY DEF MainnetBlock, TestnetBlock, CommitBlock, Goto
<1>3. Store' = committed' /\ LookupsSucceed(Store')
  BY <1>1, <1>2 DEF IInv, Saved
<1>4. elected \subseteq known /\ known \subseteq Validators
  BY <1>1, <1>2, <1>3, ElectedInIndex DEF LookupsSucceed, StoreTyped, Store, known
<1>5. ChainTypeOK'
  BY <1>1, <1>4, ChainOfStore, BlockChainTyped DEF StoreTyped, Store
<1> HIDE DEF elected
<1>6. tokens' \in [Validators -> Nat]
  BY <1>5 DEF ChainTypeOK
<1>7. /\ DOMAIN lastPower' \subseteq Validators
      /\ \A v \in DOMAIN lastPower' : lastPower'[v] \in Nat
  BY <1>2, <1>4, <1>6
<1>8. queue' \subseteq Validators /\ infos' \subseteq Keys
  BY <1>1, <1>2, <1>4 DEF StoreTyped, Store, known
<1>9. StoreTyped(Store')
  BY <1>1, <1>2, <1>5, <1>7, <1>8 DEF StoreTyped, Store, ChainTypeOK, Keeper
<1>10. DOMAIN comet' \subseteq Keys /\ \A k \in DOMAIN comet' : comet'[k] \in Nat
  <2> DEFINE gone == {pubkey[v] : v \in DOMAIN lastPower \ elected}
             changed == {v \in elected : v \notin DOMAIN lastPower \/ lastPower[v] # tokens'[v]}
             update == [k \in {pubkey[v] : v \in changed} |->
                          tokens'[CHOOSE v \in changed : pubkey[v] = k]]
  <2>1. comet' = [k \in (DOMAIN comet \ gone) \cup DOMAIN update |->
                    IF k \in DOMAIN update THEN update[k] ELSE comet[k]]
    BY <1>2 DEF CommitBlock, elected
  <2>2. \A v \in changed : v \in Validators /\ pubkey[v] \in Keys
    BY <1>1, <1>4 DEF StoreTyped, Store, known
  <2>3. \A k \in DOMAIN update : k \in Keys /\ update[k] \in Nat
    <3> SUFFICES ASSUME NEW k \in {pubkey[v] : v \in changed}
                 PROVE  k \in Keys /\ tokens'[CHOOSE v \in changed : pubkey[v] = k] \in Nat
      OBVIOUS
    <3>1. PICK v \in changed : pubkey[v] = k
      OBVIOUS
    <3> DEFINE u == CHOOSE w \in changed : pubkey[w] = k
    <3>2. u \in changed
      BY <3>1
    <3>3. QED
      BY <1>6, <2>2, <3>1, <3>2
  <2> HIDE DEF update
  <2>4. QED
    BY <1>1, <2>1, <2>3 DEF NodeTyped
<1>11. NodeTyped'
  BY <1>1, <1>2, <1>10 DEF NodeTyped, NoArgs
<1>12. QED
  BY <1>3, <1>9, <1>11 DEF Typed

\* The steps of the command that write stores in memory.
LEMMA CommandStep ==
    ASSUME Typed, IInv,
           \/ RemovePowerIndex \/ RemoveLastValidators \/ RemoveValidators
           \/ RemoveUnbondingQueue \/ AddValidator \/ SetLastPower
           \/ CreatedHook \/ InitializeRecords \/ SetSigningInfo
           \/ \E flag \in AccountFlags : AccountsToFund(flag)
           \/ FundAccount \/ Return \/ StartServer
    PROVE  Typed'
<1> USE DEF Goto, chainVars, storeVars, nodeVars
<1>1. StoreTyped(Store) /\ NodeTyped /\ StoreTyped(committed)
  BY DEF Typed
<1>2. committed' = committed
  BY DEF RemovePowerIndex, RemoveLastValidators, RemoveValidators, RemoveUnbondingQueue,
     AddValidator, SetLastPower, CreatedHook, InitializeRecords, SetSigningInfo,
     AccountsToFund, FundAccount, Return, StartServer
<1>3. CASE RemovePowerIndex \/ RemoveLastValidators \/ RemoveUnbondingQueue \/ SetSigningInfo
  <2>1. StoreTyped(Store')
    <3>1. CASE RemovePowerIndex
      BY <1>1, <3>1 DEF RemovePowerIndex, StoreTyped, Store
    <3>2. CASE RemoveLastValidators
      <4>1. DOMAIN lastPower' = {}
        BY <3>2 DEF RemoveLastValidators
      <4>2. QED
        BY <1>1, <3>2, <4>1 DEF RemoveLastValidators, StoreTyped, Store
    <3>3. CASE RemoveUnbondingQueue \/ SetSigningInfo
      BY <1>1, <3>3 DEF RemoveUnbondingQueue, SetSigningInfo, StoreTyped, Store, Keys
    <3>4. QED
      BY <1>3, <3>1, <3>2, <3>3
  <2>2. NodeTyped'
    BY <1>1, <1>3 DEF RemovePowerIndex, RemoveLastValidators, RemoveUnbondingQueue,
       SetSigningInfo, NodeTyped, Working
  <2>3. QED
    BY <1>1, <1>2, <2>1, <2>2 DEF Typed
<1>4. CASE RemoveValidators
  <2>1. StoreTyped(Store')
    <3>1. DOMAIN pubkey' = {}
      BY <1>4 DEF RemoveValidators
    <3>2. /\ status' \in [Validators -> Statuses] /\ jailed' \in [Validators -> BOOLEAN]
          /\ tokens' \in [Validators -> Nat] /\ unbondingHeight' \in [Validators -> Nat]
      BY <1>4 DEF RemoveValidators, Statuses
    <3>3. QED
      BY <1>1, <1>4, <3>1, <3>2 DEF RemoveValidators, StoreTyped, Store
  <2>2. NodeTyped'
    BY <1>1, <1>4 DEF RemoveValidators, NodeTyped, Working
  <2>3. QED
    BY <1>1, <1>2, <2>1, <2>2 DEF Typed
<1>5. CASE AddValidator
  <2>1. args.operator \in Validators
    BY <1>5 DEF AddValidator, IInv, EmptiedInv, NotEmptied
  <2>2. StoreTyped(Store')
    <3>1. /\ DOMAIN pubkey' \subseteq Validators /\ \A v \in DOMAIN pubkey' : pubkey'[v] \in Keys
          /\ DOMAIN byCons' \subseteq Keys /\ \A k \in DOMAIN byCons' : byCons'[k] \in Validators
      BY <1>1, <1>5, <2>1 DEF AddValidator, StoreTyped, Store, Keys
    <3>2. /\ status' \in [Validators -> Statuses] /\ tokens' \in [Validators -> Nat]
          /\ powerIndex' \subseteq Validators
          /\ op' \in Validators \cup {NoOperator} /\ reused' \subseteq Validators
      BY <1>1, <1>5, <2>1, TestnetAssumption DEF AddValidator, StoreTyped, Store, Statuses
    <3>3. QED
      BY <1>1, <1>5, <3>1, <3>2 DEF AddValidator, StoreTyped, Store
  <2>3. NodeTyped'
    BY <1>1, <1>5 DEF AddValidator, NodeTyped, Working
  <2>4. QED
    BY <1>1, <1>2, <2>2, <2>3 DEF Typed
<1>6. CASE SetLastPower \/ CreatedHook \/ InitializeRecords
  <2>1. op \in Validators
    BY <1>6 DEF SetLastPower, CreatedHook, InitializeRecords, IInv, AddedInv, Working, NotEmptied
  <2>2. Keeper(AfterValidatorCreated(distr, op))
    BY <1>1, <2>1, AfterValidatorCreatedEffect DEF StoreTyped, Store, Keeper
  <2>3. InitializeRecords => distr' = AfterValidatorCreated(distr, op)
    BY DEF InitializeRecords, AfterValidatorCreated
  <2>4. Keeper(distr')
    BY <1>1, <1>6, <2>2, <2>3 DEF SetLastPower, CreatedHook, StoreTyped, Store
  <2>5. StoreTyped(Store')
    BY <1>1, <1>6, <2>1, <2>4 DEF SetLastPower, CreatedHook, InitializeRecords, StoreTyped, Store
  <2>6. NodeTyped'
    BY <1>1, <1>6 DEF SetLastPower, CreatedHook, InitializeRecords, NodeTyped, Working
  <2>7. QED
    BY <1>1, <1>2, <2>5, <2>6 DEF Typed
<1>7. CASE (\E flag \in AccountFlags : AccountsToFund(flag)) \/ FundAccount \/ Return \/ StartServer
  <2>1. Store' = Store
    BY <1>7 DEF AccountsToFund, FundAccount, Return, StartServer, Store
  <2>2. todo' \in Seq(Accounts \cup {Malformed})
    <3>1. \A flag \in AccountFlags : SplitAccounts(flag) \in Seq(Accounts \cup {Malformed})
      <4>1. <<Malformed>> \in Seq(Accounts \cup {Malformed})
        OBVIOUS
      <4>2. QED
        BY <4>1, TestnetAssumption DEF SplitAccounts
    <3>2. todo # << >> => Tail(todo) \in Seq(Accounts \cup {Malformed})
      BY <1>1 DEF NodeTyped
    <3>3. QED
      BY <1>1, <1>7, <3>1, <3>2 DEF AccountsToFund, FundAccount, Return, StartServer, NodeTyped
  <2>3. NodeTyped'
    BY <1>1, <1>7, <2>2, TestnetAssumption
       DEF AccountsToFund, FundAccount, Return, StartServer, NodeTyped, Working, Keys
  <2>4. QED
    BY <1>1, <1>2, <2>1, <2>3 DEF Typed
<1>8. QED
  BY <1>3, <1>4, <1>5, <1>6, <1>7

\* Crashes and restarts read the stores back.
LEMMA RestartStep ==
    ASSUME Typed, IInv,
           \/ \E newOp \in Validators \cup {Malformed}, home \in BOOLEAN : NewTestnetApp(newOp, home)
           \/ ExitOnError \/ Kill \/ StartNode \/ UNCHANGED vars
    PROVE  Typed'
<1> USE DEF Goto, chainVars, storeVars, nodeVars
<1>1. StoreTyped(Store) /\ NodeTyped /\ StoreTyped(committed)
  BY DEF Typed
<1>2. committed' = committed
  BY DEF NewTestnetApp, ExitOnError, Kill, StartNode, vars
<1>3. Store' \in {Store, committed}
  <2>1. CASE ExitOnError \/ Kill
    BY <2>1, RestoreIsCommitted DEF ExitOnError, Kill, IInv, Saved
  <2>2. CASE ~(ExitOnError \/ Kill)
    BY <2>2 DEF NewTestnetApp, StartNode, vars, Store
  <2>3. QED
    BY <2>1, <2>2
<1>4. NodeTyped'
  <2>1. /\ pc' \in {"chain", "halted"} \cup Working \cup Stopped \/ pc' = pc
        /\ todo' \in {todo, << >>}
        /\ UNCHANGED <<comet, torn>>
        /\ commands' \in {commands, commands + 1}
    BY DEF NewTestnetApp, ExitOnError, Kill, StartNode, vars, Working, Stopped
  <2>2. args' \in [home : BOOLEAN, operator : Validators \cup {NoOperator, Malformed}]
    <3>1. ASSUME NEW newOp \in Validators \cup {Malformed}, NEW home \in BOOLEAN,
                 NewTestnetApp(newOp, home)
          PROVE  args' \in [home : BOOLEAN, operator : Validators \cup {NoOperator, Malformed}]
      BY <3>1 DEF NewTestnetApp
    <3>2. NoArgs \in [home : BOOLEAN, operator : Validators \cup {NoOperator, Malformed}]
      BY DEF NoArgs
    <3>3. QED
      BY <1>1, <3>1, <3>2 DEF ExitOnError, Kill, StartNode, vars, NodeTyped
  <2>3. /\ todo' \in Seq(Accounts \cup {Malformed})
        /\ commands' \in Nat
    <3>1. << >> \in Seq(Accounts \cup {Malformed})
      OBVIOUS
    <3>2. todo \in Seq(Accounts \cup {Malformed}) /\ commands \in Nat
      BY <1>1 DEF NodeTyped
    <3>3. todo' \in Seq(Accounts \cup {Malformed})
      <4>1. CASE todo' = todo
        BY <3>2, <4>1
      <4>2. CASE todo' = << >>
        BY <3>1, <4>2
      <4>3. QED
        BY <2>1, <4>1, <4>2
    <3>4. commands' \in Nat
      BY <2>1, <3>2
    <3>5. QED
      BY <3>3, <3>4
  <2>4. QED
    BY <1>1, <2>1, <2>2, <2>3 DEF NodeTyped
<1>5. QED
  BY <1>1, <1>2, <1>3, <1>4 DEF Typed

\* All variables keep their types: on the original chain, while the command rewrites
\* the stores, after a crash in the middle of it, and on the testnet.
THEOREM TypeCorrect == Spec => []TypeOK
<1>1. Typed /\ IInv /\ [Next]_vars => Typed'
  BY BlockStep, CommandStep, RestartStep DEF Next
<1>2. Typed => TypeOK
  BY TypedParts DEF Typed
<1>3. QED
  BY <1>1, <1>2, InitTyped, Invariance, PTL DEF Spec

-----------------------------------------------------------------------------
(* The records of the validators, and what the distribution module owes. *)

\* An address that never had a validator.
Unused(v) ==
    /\ Untallied(distr.vals[v])
    /\ distr.vals[v].outstanding = 0
    /\ {d \in delegations : d[2] = v} = {}

\* What RecordsInv says of the stores in memory, in the terms of the keeper's lemmas.
KeptNow ==
    /\ IsFiniteSet(delegations)
    /\ \A v \in Validators \ reused : Unused(v) \/ TallyOf(distr, delegations, v)
    /\ reused = {} => Backed(distr, Validators)

TalliedNow == \A v \in known \ reused : TallyOf(distr, delegations, v)

LEMMA StoreRecords ==
    /\ RecordsKept(Store) <=> KeptNow
    /\ KnownTally(Store) <=> TalliedNow
    /\ \A v : Fresh(Store, v) <=> Unused(v)
    /\ \A v : DelegationsIn(Store, v) = {d \in delegations : d[2] = v}
BY DEF RecordsKept, KeptNow, KnownTally, TalliedNow, known, RecordsTally, TallyOf, Fresh,
   Unused, DelegationsIn, Store

LEMMA NextStoreRecords ==
    /\ RecordsKept(Store)' <=> KeptNow'
    /\ KnownTally(Store)' <=> TalliedNow'
    /\ \A v : Fresh(Store, v)' <=> Unused(v)'
    /\ \A v : DelegationsIn(Store, v)' = {d \in delegations' : d[2] = v}
BY DEF RecordsKept, KeptNow, KnownTally, TalliedNow, known, RecordsTally, TallyOf, Fresh,
   Unused, DelegationsIn, Store

\* The validators that a block can change: they have a record or a delegation.
InUse == known \cup {d[2] : d \in delegations}

\* A block keeps the records of the validators in use, and does not touch others.
LEMMA BlockTouchesUsed ==
    ASSUME ChainTypeOK, known \subseteq Validators, MainnetBlock \/ (TestnetBlock /\ op \in known)
    PROVE  \E W \in SUBSET InUse : KeepsRecords(W)
<1>1. Moves \subseteq Delegations
  BY TestnetAssumption DEF Delegations
<1>2. ASSUME NEW v \in known,
             AllocateRewards(v) \/ Slash(v) \/ Unjail(v) \/ MatureValidator(v)
      PROVE  KeepsRecords({v})
  <2>1. UNCHANGED <<distr, delegations>> \/ AllocateRewards(v) \/ Slash(v)
    BY <1>2 DEF Unjail, MatureValidator
  <2>2. QED
    BY <2>1, AllocateRewardsKeeps, SlashKeeps, UntouchedKeeps
<1>3. ASSUME NEW d \in Moves, Delegate(d) PROVE KeepsRecords({d[2]})
  BY <1>1, <1>3, DelegateKeeps
<1>4. ASSUME NEW d \in Moves, Undelegate(d) PROVE KeepsRecords({d[2]})
  <2>1. /\ d \in delegations /\ delegations' = delegations \ {d}
        /\ \E earned \in Earnable(distr, d, tokens[d[2]], height + 1) :
              distr' = SettleDelegation(distr, d, tokens[d[2]], earned)
    BY <1>4 DEF Undelegate, Leave
  <2>2. QED
    BY <2>1, UndelegateKeeps
<1>5. ASSUME NEW d \in Moves, d[2] = op, UndelegateFromTestnet(d) PROVE KeepsRecords({d[2]})
  <2>1. /\ d \in delegations /\ delegations' = delegations \ {d}
        /\ \E earned \in Earnable(distr, d, tokens[d[2]], height + 1) :
              distr' = SettleDelegation(distr, d, tokens[d[2]], earned)
    BY <1>5 DEF UndelegateFromTestnet
  <2>2. QED
    BY <2>1, UndelegateKeeps
<1>6. ASSUME NEW d \in Moves, NEW w \in known, Redelegate(d, w) PROVE KeepsRecords({d[2], w})
  BY <1>1, <1>6, RedelegateKeeps
<1>7. MatureEntries => KeepsRecords({})
  BY UntouchedKeeps DEF MatureEntries
<1>8. CASE MainnetBlock
  <2>1. CASE \E v \in known : AllocateRewards(v) \/ Slash(v) \/ Unjail(v) \/ MatureValidator(v)
    <3>1. PICK v \in known : AllocateRewards(v) \/ Slash(v) \/ Unjail(v) \/ MatureValidator(v)
      BY <2>1
    <3>2. KeepsRecords({v}) /\ {v} \in SUBSET InUse
      BY <1>2, <3>1 DEF InUse
    <3>3. QED
      BY <3>2
  <2>2. CASE \E d \in Moves : d[2] \in known /\ (Delegate(d) \/ Undelegate(d))
    <3>1. PICK d \in Moves : d[2] \in known /\ (Delegate(d) \/ Undelegate(d))
      BY <2>2
    <3>2. KeepsRecords({d[2]}) /\ {d[2]} \in SUBSET InUse
      BY <1>3, <1>4, <3>1 DEF InUse
    <3>3. QED
      BY <3>2
  <2>3. CASE \E d \in Moves, w \in known : <<d[1], w>> \in Moves /\ Redelegate(d, w)
    <3>1. PICK d \in Moves, w \in known : Redelegate(d, w)
      BY <2>3
    <3>2. d \in delegations
      BY <3>1 DEF Redelegate, Leave
    <3>3. KeepsRecords({d[2], w}) /\ {d[2], w} \in SUBSET InUse
      BY <1>6, <3>1, <3>2 DEF InUse
    <3>4. QED
      BY <3>3
  <2>4. CASE MatureEntries
    BY <1>7, <2>4
  <2>5. QED
    BY <1>8, <2>1, <2>2, <2>3, <2>4 DEF MainnetBlock
<1>9. CASE TestnetBlock /\ op \in known
  <2>1. CASE AllocateRewards(op)
    <3>1. KeepsRecords({op}) /\ {op} \in SUBSET InUse
      BY <1>2, <1>9, <2>1 DEF InUse
    <3>2. QED
      BY <3>1
  <2>2. CASE \E d \in Moves : CanMove(d) /\ (Delegate(d) \/ UndelegateFromTestnet(d))
    <3>1. PICK d \in Moves : CanMove(d) /\ (Delegate(d) \/ UndelegateFromTestnet(d))
      BY <2>2
    <3>2. d[2] = op
      BY <3>1 DEF CanMove
    <3>3. KeepsRecords({d[2]}) /\ {d[2]} \in SUBSET InUse
      BY <1>3, <1>5, <1>9, <3>1, <3>2 DEF InUse
    <3>4. QED
      BY <3>3
  <2>3. CASE MatureEntries
    BY <1>7, <2>3
  <2>4. QED
    BY <1>9, <2>1, <2>2, <2>3 DEF TestnetBlock
<1>10. QED
  BY <1>8, <1>9

LEMMA BlockRecords ==
    ASSUME ChainTypeOK, known \subseteq Validators,
           MainnetBlock \/ (TestnetBlock /\ op \in known), KeptNow, TalliedNow
    PROVE  KeptNow' /\ TalliedNow'
<1>1. PICK W \in SUBSET InUse : KeepsRecords(W)
  BY BlockTouchesUsed
<1>2. pubkey' = pubkey /\ reused' = reused
  BY DEF MainnetBlock, TestnetBlock, CommitBlock
<1>3. \A v \in known \ reused : TallyOf(distr', delegations', v)
  BY <1>1 DEF TalliedNow, KeepsRecords
<1>4. ASSUME NEW v \in Validators \ reused
      PROVE  Unused(v)' \/ TallyOf(distr', delegations', v)
  <2>1. CASE TallyOf(distr, delegations, v)
    BY <1>1, <2>1 DEF KeepsRecords
  <2>2. CASE ~TallyOf(distr, delegations, v)
    <3>1. Unused(v) /\ v \notin known
      BY <2>2 DEF KeptNow, TalliedNow
    <3>2. v \notin InUse
      BY <3>1 DEF InUse, Unused
    <3>3. /\ distr'.vals[v] = distr.vals[v]
          /\ {d \in delegations' : d[2] = v} = {d \in delegations : d[2] = v}
      BY <1>1, <3>2 DEF KeepsRecords
    <3>4. Unused(v)'
      BY <3>1, <3>3 DEF Unused
    <3>5. QED
      BY <3>4
  <2>3. QED
    BY <2>1, <2>2
<1>5. IsFiniteSet(delegations') /\ (reused = {} => Backed(distr', Validators))
  BY <1>1 DEF KeptNow, KeepsRecords
<1>6. QED
  BY <1>2, <1>3, <1>4, <1>5 DEF KeptNow, TalliedNow, known

\* What holds of the stores of the last block holds after the next one.
LEMMA RecordsInBlock ==
    ASSUME Typed, IInv, RecordsInv, MainnetBlock \/ TestnetBlock
    PROVE  RecordsInv'
<1>1. /\ CommitBlock /\ committed' = Store' /\ pc' = "chain"
      /\ pc \in {"chain", "ready"}
  BY DEF MainnetBlock, TestnetBlock, CommitBlock, Goto
<1>2. LookupsSucceed(Store)
  BY <1>1, PreparedLookups DEF IInv, Saved
<1>3. known \subseteq Validators /\ (TestnetBlock => op \in known)
  BY <1>2 DEF LookupsSucceed, Store, known, TestnetBlock
<1>4. KeptNow /\ TalliedNow
  BY <1>1, StoreRecords DEF RecordsInv
<1>5. KeptNow' /\ TalliedNow'
  BY <1>3, <1>4, ChainOfStore, BlockRecords DEF Typed
<1>6. RecordsKept(Store)' /\ KnownTally(Store)'
  BY <1>5, NextStoreRecords
<1>7. RecordsKept(committed)' /\ KnownTally(committed)'
  BY <1>1, <1>6
<1>8. QED
  BY <1>1, <1>6, <1>7 DEF RecordsInv

\* The steps of the command that leave the records and the delegations alone.
LEMMA QuietRecords ==
    ASSUME RecordsInv, UNCHANGED <<distr, delegations, op, reused, committed>>,
           pubkey' \in {pubkey, << >>},
           pc' \in {"lastPower", "hook"} <=> pc \in {"lastPower", "hook"},
           pc' = "distribution" => pc = "distribution"
    PROVE  RecordsInv'
<1>1. RecordsKept(committed)' /\ KnownTally(committed)'
  BY DEF RecordsInv
<1>2. RecordsKept(Store)'
  <2>1. KeptNow
    BY StoreRecords DEF RecordsInv
  <2>2. KeptNow'
    BY <2>1 DEF KeptNow, Unused, TallyOf
  <2>3. QED
    BY <2>2, NextStoreRecords
<1>3. pc' \in {"lastPower", "hook"} => (op' \in reused' \/ Fresh(Store, op)')
  <2>1. ASSUME pc' \in {"lastPower", "hook"} PROVE op \in reused \/ Unused(op)
    BY <2>1, StoreRecords DEF RecordsInv
  <2>2. Unused(op) => Unused(op)'
    BY DEF Unused
  <2>3. QED
    BY <2>1, <2>2, NextStoreRecords
<1>4. pc' \notin {"lastPower", "hook"} => KnownTally(Store)'
  <2>1. ASSUME pc' \notin {"lastPower", "hook"} PROVE TalliedNow
    BY <2>1, StoreRecords DEF RecordsInv
  <2>2. known' \subseteq known
    <3>1. DOMAIN << >> = {}
      OBVIOUS
    <3>2. QED
      BY <3>1 DEF known
  <2>3. TalliedNow => TalliedNow'
    BY <2>2 DEF TalliedNow, TallyOf
  <2>4. QED
    BY <2>1, <2>3, NextStoreRecords
<1>5. pc' = "distribution" /\ op' \notin reused' =>
         /\ distr'.vals[op'] = [NoRewards EXCEPT !.refs = SetToBag({0})]
         /\ DelegationsIn(Store, op)' = {}
  BY StoreRecords, NextStoreRecords DEF RecordsInv
<1>6. QED
  BY <1>1, <1>2, <1>3, <1>4, <1>5 DEF RecordsInv

\* Records there are not, or records that may be wrong from now on.
LEMMA RecordsOfAdded == ASSUME Typed, IInv, RecordsInv, AddValidator PROVE RecordsInv'
<1> DEFINE v == args.operator
<1>1. /\ op' = v /\ v \in Validators
      /\ reused' = (IF distr.vals[v].refs = EmptyBag THEN reused ELSE reused \cup {v})
      /\ UNCHANGED <<distr, delegations, committed>> /\ pc = "add" /\ pc' = "lastPower"
  BY DEF AddValidator, IInv, EmptiedInv, NotEmptied, Goto, nodeVars
<1> HIDE DEF v
<1>2. KeptNow
  BY StoreRecords DEF RecordsInv
<1>3. KeptNow'
  BY <1>1, <1>2 DEF KeptNow, Unused, TallyOf
<1>4. v \in reused' \/ Unused(v)
  <2>1. ASSUME distr.vals[v].refs = EmptyBag, TallyOf(distr, delegations, v) PROVE FALSE
    <3>1. IsABag(distr.vals[v].refs) /\ distr.vals[v].period \in Nat \ {0}
      BY <1>1, RecordTypes DEF Typed, StoreTyped, Store, Keeper
    <3>2. distr.vals[v].period - 1 \in BagToSet(distr.vals[v].refs)
      BY <2>1, <3>1, TallyRecords DEF TallyOf
    <3>3. QED
      BY <2>1, <3>2 DEF EmptyBag, BagToSet, SetToBag
  <2>2. QED
    BY <1>1, <1>2, <2>1 DEF KeptNow
<1>5. op' \in reused' \/ Unused(op)'
  BY <1>1, <1>4 DEF Unused
<1>6. RecordsKept(committed)' /\ KnownTally(committed)'
  BY <1>1 DEF RecordsInv
<1>7. QED
  BY <1>1, <1>3, <1>5, <1>6, NextStoreRecords DEF RecordsInv

\* The hook initializes the records of an address that had none.
LEMMA RecordsOfCreated == ASSUME Typed, IInv, RecordsInv, CreatedHook PROVE RecordsInv'
<1>1. /\ distr' = AfterValidatorCreated(distr, op)
      /\ UNCHANGED <<delegations, op, reused, committed, pubkey>>
      /\ pc = "hook" /\ pc' = "distribution"
  BY DEF CreatedHook, Goto, nodeVars
<1>2. op \in Validators /\ known = {op} /\ IsKeeper(distr, Validators, Delegations)
  BY <1>1 DEF IInv, AddedInv, Working, NotEmptied, Typed, StoreTyped, Store, Keeper
<1>3. /\ distr'.vals[op] = [outstanding |-> 0, commission |-> 0, current |-> 0, period |-> 1,
                            refs |-> SetReference(distr.vals[op].refs, 0),
                            slashes |-> distr.vals[op].slashes]
      /\ \A u \in Validators : u # op => distr'.vals[u] = distr.vals[u]
      /\ distr'.start = distr.start /\ distr'.pool = distr.pool
      /\ distr'.balance = distr.balance
      /\ IsKeeper(distr', Validators, Delegations)
  <2>1. IsKeeper(distr', Validators, Delegations)
    BY <1>1, <1>2, AfterValidatorCreatedEffect
  <2>2. QED
    BY <1>1, <1>2, <2>1 DEF AfterValidatorCreated, IsKeeper
<1>4. KeptNow
  BY StoreRecords DEF RecordsInv
<1>5. op \in reused \/ Unused(op)
  BY <1>1, StoreRecords DEF RecordsInv
<1>6. ASSUME Unused(op)
      PROVE  /\ TallyOf(distr', delegations', op)
             /\ distr'.vals[op] = [NoRewards EXCEPT !.refs = SetToBag({0})]
             /\ {d \in delegations' : d[2] = op} = {}
             /\ distr.vals[op].outstanding = 0
  <2>1. /\ Untallied(distr.vals[op]) /\ {d \in delegations' : d[2] = op} = {}
        /\ distr.vals[op].outstanding = 0
    BY <1>1, <1>6 DEF Unused
  <2>2. Tallied(distr'.vals[op], distr'.start, {})
    BY <1>3, <2>1, TallyCreated
  <2>3. SetReference(EmptyBag, 0) = SetToBag({0})
    BY DEF SetReference, EmptyBag, SetToBag, BagToSet
  <2>4. distr'.vals[op] = [NoRewards EXCEPT !.refs = SetToBag({0})]
    BY <1>3, <2>1, <2>3 DEF Untallied, NoRewards
  <2>5. QED
    BY <2>1, <2>2, <2>4 DEF TallyOf
<1>7. \A u \in Validators : u # op /\ TallyOf(distr, delegations, u)
                            => TallyOf(distr', delegations', u)
  BY <1>1, <1>3 DEF TallyOf
<1>8. \A u \in Validators : u # op /\ Unused(u) => Unused(u)'
  BY <1>1, <1>3 DEF Unused
<1>9. reused = {} => Backed(distr', Validators)
  <2> SUFFICES ASSUME reused = {} PROVE Backed(distr', Validators)
    OBVIOUS
  <2>1. distr.vals[op].outstanding = 0 /\ distr'.vals[op].outstanding = 0
    BY <1>3, <1>5, <1>6
  <2>2. \A u \in Validators : u # op => distr'.vals[u].outstanding = distr.vals[u].outstanding
    BY <1>3
  <2>3. Backed(distr, Validators)
    BY <1>4 DEF KeptNow
  <2>4. Unit * distr'.balance - distr'.vals[op].outstanding - distr'.pool
          = Unit * distr.balance - distr.vals[op].outstanding - distr.pool
    BY <1>3, <2>1
  <2>5. QED
    BY <1>2, <1>3, <2>2, <2>3, <2>4, ChainAssumption, BackingMoves
<1>10. KeptNow' /\ TalliedNow'
  BY <1>1, <1>2, <1>4, <1>5, <1>6, <1>7, <1>8, <1>9 DEF KeptNow, TalliedNow, known
<1>11. RecordsKept(committed)' /\ KnownTally(committed)'
  BY <1>1 DEF RecordsInv
<1>12. op' \notin reused' =>
          /\ distr'.vals[op'] = [NoRewards EXCEPT !.refs = SetToBag({0})]
          /\ {d \in delegations' : d[2] = op'} = {}
  BY <1>1, <1>5, <1>6
<1>13. QED
  BY <1>1, <1>10, <1>11, <1>12, NextStoreRecords DEF RecordsInv

\* Initializing them once more changes nothing for such an address.
LEMMA RecordsOfInitialized ==
    ASSUME Typed, IInv, RecordsInv, InitializeRecords PROVE RecordsInv'
<1>1. /\ distr' = AfterValidatorCreated(distr, op)
      /\ UNCHANGED <<delegations, op, reused, committed, pubkey>>
      /\ pc = "distribution" /\ pc' = "signing"
  BY DEF InitializeRecords, AfterValidatorCreated, Goto, nodeVars
<1>2. op \in Validators /\ known = {op} /\ IsKeeper(distr, Validators, Delegations)
  BY <1>1 DEF IInv, AddedInv, Working, NotEmptied, Typed, StoreTyped, Store, Keeper
<1>3. CASE op \notin reused
  <2>1. distr.vals[op] = [NoRewards EXCEPT !.refs = SetToBag({0})]
    BY <1>1, <1>3 DEF RecordsInv
  <2>2. SetReference(SetToBag({0}), 0) = SetToBag({0})
    BY DEF SetReference, SetToBag, BagToSet
  <2>3. distr' = distr
    BY <1>1, <1>2, <2>1, <2>2 DEF AfterValidatorCreated, NoRewards, IsKeeper
  <2>4. QED
    BY <1>1, <2>3, QuietRecords
<1>4. CASE op \in reused
  <2>1. /\ \A u \in Validators : u # op => distr'.vals[u] = distr.vals[u]
        /\ distr'.start = distr.start
    BY <1>1, <1>2 DEF AfterValidatorCreated, IsKeeper
  <2>2. KeptNow
    BY StoreRecords DEF RecordsInv
  <2>3. KeptNow' /\ TalliedNow'
    BY <1>1, <1>2, <1>4, <2>1, <2>2 DEF KeptNow, TalliedNow, known, Unused, TallyOf
  <2>4. RecordsKept(committed)' /\ KnownTally(committed)'
    BY <1>1 DEF RecordsInv
  <2>5. QED
    BY <1>1, <2>3, <2>4, NextStoreRecords DEF RecordsInv
<1>5. QED
  BY <1>3, <1>4

\* A crash, an error and a restart find the committed records.
LEMMA RecordsOfStopped ==
    ASSUME IInv, RecordsInv, ExitOnError \/ Kill PROVE RecordsInv'
<1>1. Restore /\ committed' = committed /\ pc' \in Stopped
  BY DEF ExitOnError, Kill, Goto, Stopped, nodeVars
<1>2. Store' = committed'
  BY <1>1, RestoreIsCommitted DEF IInv, Saved
<1>3. RecordsKept(committed)' /\ KnownTally(committed)'
  BY <1>1 DEF RecordsInv
<1>4. RecordsKept(Store)' /\ KnownTally(Store)'
  BY <1>2, <1>3
<1>5. QED
  BY <1>1, <1>3, <1>4 DEF RecordsInv, Stopped

LEMMA InitRecords == Init => RecordsInv
<1> SUFFICES ASSUME Init PROVE RecordsInv
  OBVIOUS
<1>1. /\ delegations = {<<Operator[v], v>> : v \in GenesisValidators}
      /\ pubkey = [v \in GenesisValidators |-> v] /\ reused = {}
      /\ pc = "chain" /\ committed = Store
      /\ distr = [vals |-> [v \in Validators |->
                              IF v \in GenesisValidators THEN GenesisRewards ELSE NoRewards],
                  start |-> [d \in Delegations |->
                               [known |-> d \in delegations, period |-> 1, height |-> 0]],
                  pool |-> 0,
                  balance |-> 0]
  BY DEF Init
<1>2. IsFiniteSet(delegations) /\ delegations \in SUBSET Delegations
  <2>1. IsFiniteSet(GenesisValidators)
    BY ChainAssumption, TestnetAssumption, FS_Subset
  <2>2. IsFiniteSet(delegations)
    BY <1>1, <2>1, SelfDelegationsFinite
  <2>3. delegations \in SUBSET Delegations
    BY <1>1, ChainAssumption, TestnetAssumption DEF Delegations
  <2>4. QED
    BY <2>2, <2>3
<1>3. ASSUME NEW v \in GenesisValidators PROVE TallyOf(distr, delegations, v)
  <2>1. {d \in delegations : d[2] = v} = {<<Operator[v], v>>}
    BY <1>1, <1>3
  <2>2. distr.start[<<Operator[v], v>>].period = 1 /\ distr.vals[v] = GenesisRewards
    <3>1. v \in Validators /\ <<Operator[v], v>> \in Delegations
      BY ChainAssumption, TestnetAssumption DEF Delegations
    <3>2. QED
      BY <1>1, <3>1
  <2>3. QED
    BY <2>1, <2>2, TallyAtGenesis DEF TallyOf
<1>4. ASSUME NEW v \in Validators \ GenesisValidators PROVE Unused(v)
  BY <1>1 DEF Unused, Untallied, NoRewards
<1>5. Backed(distr, Validators)
  <2>1. \A v \in Validators : distr.vals[v].outstanding = 0
    BY <1>1 DEF GenesisRewards, NoRewards
  <2>2. QED
    BY <1>1, <2>1, ChainAssumption, NothingOwed
<1>6. KeptNow /\ TalliedNow
  BY <1>1, <1>2, <1>3, <1>4, <1>5 DEF KeptNow, TalliedNow, known
<1>7. RecordsKept(Store) /\ KnownTally(Store)
  BY <1>6, StoreRecords
<1>8. QED
  BY <1>1, <1>7 DEF RecordsInv

LEMMA RecordsInvStep == Typed /\ IInv /\ RecordsInv /\ [Next]_vars => RecordsInv'
<1> SUFFICES ASSUME Typed, IInv, RecordsInv, [Next]_vars PROVE RecordsInv'
  OBVIOUS
<1>1. CASE MainnetBlock \/ TestnetBlock
  BY <1>1, RecordsInBlock
<1>2. CASE AddValidator \/ CreatedHook \/ InitializeRecords
  BY <1>2, RecordsOfAdded, RecordsOfCreated, RecordsOfInitialized
<1>3. CASE ExitOnError \/ Kill
  BY <1>3, RecordsOfStopped
<1>4. CASE \/ \E newOp \in Validators \cup {Malformed}, home \in BOOLEAN : NewTestnetApp(newOp, home)
           \/ RemovePowerIndex \/ RemoveLastValidators \/ RemoveValidators
           \/ RemoveUnbondingQueue \/ SetLastPower \/ SetSigningInfo
           \/ \E flag \in AccountFlags : AccountsToFund(flag)
           \/ FundAccount \/ Return \/ StartServer \/ StartNode \/ UNCHANGED vars
  <2>1. UNCHANGED <<distr, delegations, op, reused, committed>> /\ pubkey' \in {pubkey, << >>}
    BY <1>4 DEF NewTestnetApp, RemovePowerIndex, RemoveLastValidators, RemoveValidators,
       RemoveUnbondingQueue, SetLastPower, SetSigningInfo, AccountsToFund, FundAccount, Return,
       StartServer, StartNode, vars, storeVars, chainVars, nodeVars
  <2>2. /\ pc' \in {"lastPower", "hook"} <=> pc \in {"lastPower", "hook"}
        /\ pc' = "distribution" => pc = "distribution"
    BY <1>4 DEF NewTestnetApp, RemovePowerIndex, RemoveLastValidators, RemoveValidators,
       RemoveUnbondingQueue, SetLastPower, SetSigningInfo, AccountsToFund, FundAccount, Return,
       StartServer, StartNode, vars, Goto, Stopped
  <2>3. QED
    BY <2>1, <2>2, QuietRecords
<1>5. QED
  BY <1>1, <1>2, <1>3, <1>4 DEF Next

LEMMA RecordsInvariance == Spec => []RecordsInv
<1>1. Typed /\ IInv /\ [Next]_vars => Typed'
  BY BlockStep, CommandStep, RestartStep DEF Next
<1>2. QED
  BY <1>1, InitTyped, InitRecords, RecordsInvStep, Invariance, PTL DEF Spec

\* On the original chain and on the testnet, after whatever commands, errors and kills,
\* every validator that was not set up on top of old records has right reference
\* counts, and its delegations start from a period that is recorded.
THEOREM NewRecordsStayTallied == Spec => []RecordsConsistent
<1>1. TypeOK /\ RecordsInv => RecordsConsistent
  <2> SUFFICES ASSUME TypeOK, RecordsInv, pc \in {"chain", "ready"},
                      NEW v \in Validators \ reused, distr.vals[v].refs # EmptyBag
               PROVE  /\ BagCardinality(distr.vals[v].refs) =
                            1 + Cardinality(DelegationsTo(v)) + Cardinality(distr.vals[v].slashes)
                      /\ \A d \in DelegationsTo(v) :
                            distr.start[d].period \in BagToSet(distr.vals[v].refs)
    BY DEF RecordsConsistent
  <2>1. IsKeeper(distr, Validators, Delegations) /\ delegations \in SUBSET Delegations
    BY DEF TypeOK, ChainTypeOK
  <2>2. Tallied(distr.vals[v], distr.start, DelegationsTo(v))
    <3>1. Unused(v) \/ TallyOf(distr, delegations, v)
      BY StoreRecords DEF RecordsInv, KeptNow
    <3>2. QED
      BY <3>1 DEF Unused, Untallied, TallyOf, DelegationsTo
  <2>3. /\ IsABag(distr.vals[v].refs) /\ distr.vals[v].period \in Nat \ {0}
        /\ \A d \in DelegationsTo(v) : distr.start[d].period \in Nat
    BY <2>1, RecordTypes DEF DelegationsTo
  <2>4. \A d \in DelegationsTo(v) : distr.start[d].period \in BagToSet(distr.vals[v].refs)
    BY <2>2, <2>3, TallyRecords
  <2>5. BagCardinality(distr.vals[v].refs) =
           1 + Cardinality(DelegationsTo(v)) + Cardinality(distr.vals[v].slashes)
    BY <2>2 DEF Tallied
  <2>6. QED
    BY <2>4, <2>5
<1>2. QED
  BY <1>1, RecordsInvariance, TypeCorrect, PTL

\* As long as no testnet was set up on top of old records, the distribution module
\* holds what it owes, also to the delegators of the removed validators.
THEOREM TestnetStaysBacked == Spec => []StillBacked
<1>1. RecordsInv => StillBacked
  BY StoreRecords DEF RecordsInv, KeptNow, StillBacked
<1>2. QED
  BY <1>1, RecordsInvariance, PTL
=============================================================================
