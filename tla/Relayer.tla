------------------------------ MODULE Relayer -------------------------------
(***************************************************************************)
(* The way from Injective to Ethereum (orchestrator/relayer.go, signer.go, *)
(* batch_creator.go, ethereum/peggy/valset_update.go and submit_batch.go), *)
(* composed with the contract of module Peggy.  Injective creates          *)
(* validator sets and batches, the signer of each validator confirms them, *)
(* one relayer, modelled in detail, reads the set the contract has         *)
(* installed and submits what is confirmed, other relayers do the same,    *)
(* and what is submitted waits in the mempool and succeeds or reverts.     *)
(*                                                                         *)
(* height is the number of the block being built.  A block holds at most   *)
(* one successful call, and the relayer sees the chain up to the last      *)
(* sealed block.  The bridge is not paused here.                           *)
(*                                                                         *)
(* An operator that stands right before another with the same parameters   *)
(* and is used nowhere is a faulty variant of it: PROJECT.json names the   *)
(* property each one breaks.                                               *)
(***************************************************************************)
EXTENDS Peggy

CONSTANTS
  NoValset,          \* nil
  InjectiveValsets,  \* the sets Injective creates, in order of their nonces 1, 2, ...
  InjectiveBatches,  \* the batches Injective creates, in order of their nonces 1, 2, ...
  RelayValsets,      \* configuration
  RelayBatches,
  findValsetBlocksToSearch,
  totalPeggyPower,
  maxAttempts,       \* attempts of retry (10 in the code)
  MaxIdleHeight,     \* bound: from this block on no block is without a call to the bridge
  MaxFaults          \* bound: queries and submissions that fail, offsets not reached

\* Injective numbers sets and batches from 1 and sorts the members of a set as
\* BridgeValidators.Sort does: by falling power, then by address.
ASSUME InjectiveAssumption ==
  /\ Validator \subseteq Nat
  /\ InjectiveValsets \in Seq(Valset)
  /\ InjectiveBatches \in Seq(Batch)
  /\ \A n \in DOMAIN InjectiveValsets :
       LET vs == InjectiveValsets[n]
       IN  /\ vs.nonce = n
           /\ \A i, j \in DOMAIN vs.members : i < j =>
                \/ vs.powers[i] > vs.powers[j]
                \/ vs.powers[i] = vs.powers[j] /\ vs.members[i] < vs.members[j]
  /\ \A n \in DOMAIN InjectiveBatches : InjectiveBatches[n].nonce = n

ASSUME RelayerAssumption ==
  /\ NoValset \notin Valset
  /\ {RelayValsets, RelayBatches} \subseteq BOOLEAN
  /\ {findValsetBlocksToSearch, totalPeggyPower, maxAttempts} \subseteq Nat \ {0}
  /\ {MaxIdleHeight, MaxFaults} \subseteq Nat

VARIABLES
  valsets,         \* Injective: number of sets created
  batches,         \* Injective: number of batches created
  outgoing,        \* Injective: nonces of the batches neither observed as executed nor timed out
  valsetConfirms,  \* Injective: nonce -> validators that confirmed the set
  batchConfirms,   \* Injective: nonce -> validators that confirmed the batch
  mempool,         \* calls submitted to Ethereum and not yet included
  pc,              \* of relay: "idle", "header", "nonce", "relay"
  header,          \* latestHeader of findLatestValsetOnEth
  cosmosValset,    \* Injective's set for the nonce read from the contract
  ethValset,       \* the set both tasks use as the current one
  valsetTask,      \* the goroutine of relayValset
  batchTask,       \* the goroutine of relayTokenBatch
  alarm,           \* history: checkIfValsetsDiffer last warned of a hijacking
  faults           \* bound: number of failures so far

injectiveVars == <<valsets, batches, outgoing, valsetConfirms, batchConfirms>>
searchVars == <<pc, header, cosmosValset, ethValset, alarm>>
relayVars == <<searchVars, valsetTask, batchTask, mempool, faults>>
bridge == <<vars, injectiveVars, relayVars>>

Ended == [pc |-> "ended", item |-> 0, confirms |-> {}, attempts |-> 0]
Started == [Ended EXCEPT !.pc = "choose"]
Failed == [Ended EXCEPT !.pc = "failed"]

RelayerInit ==
  /\ Init
  /\ valsets = 0
  /\ batches = 0
  /\ outgoing = {}
  /\ valsetConfirms = [n \in DOMAIN InjectiveValsets |-> {}]
  /\ batchConfirms = [n \in DOMAIN InjectiveBatches |-> {}]
  /\ mempool = {}
  /\ pc = "idle"
  /\ header = 0
  /\ cosmosValset = NoValset
  /\ ethValset = NoValset
  /\ valsetTask = Ended
  /\ batchTask = Ended
  /\ alarm = FALSE
  /\ faults = 0

Fault == faults < MaxFaults /\ faults' = faults + 1

-----------------------------------------------------------------------------
(* Injective, its signers and its batch creators.                          *)

CreateValset ==
  /\ valsets < Len(InjectiveValsets)
  /\ valsets' = valsets + 1
  /\ UNCHANGED <<vars, batches, outgoing, valsetConfirms, batchConfirms, relayVars>>

\* A batch creator asks for a batch of a token with unbatched withdrawals whose
\* fees are worth it; a request that fails is ignored.
requestTokenBatch ==
  /\ batches < Len(InjectiveBatches)
  /\ TokenExists(InjectiveBatches[batches + 1].token)
  /\ batches' = batches + 1
  /\ outgoing' = outgoing \cup {batches + 1}
  /\ UNCHANGED <<vars, valsets, valsetConfirms, batchConfirms, relayVars>>

\* The events of the contract and the height have been attested.
Attest ==
  /\ outgoing' = {n \in outgoing :
                    LET b == InjectiveBatches[n]
                    IN  n > state_lastBatchNonces[b.token] /\ height <= b.timeout}
  /\ UNCHANGED <<vars, valsets, batches, valsetConfirms, batchConfirms, relayVars>>

OldestUnsigned(v, nonces, confirms) ==
  {n \in nonces : v \notin confirms[n] /\ \A m \in nonces : m < n => v \in confirms[m]}

signValidatorSets(v) ==
  \E n \in OldestUnsigned(v, 1..valsets, valsetConfirms) :
    /\ valsetConfirms' = [valsetConfirms EXCEPT ![n] = @ \cup {v}]
    /\ UNCHANGED <<vars, valsets, batches, outgoing, batchConfirms, relayVars>>

signNewBatch(v) ==
  \E n \in OldestUnsigned(v, outgoing, batchConfirms) :
    /\ batchConfirms' = [batchConfirms EXCEPT ![n] = @ \cup {v}]
    /\ UNCHANGED <<vars, valsets, batches, outgoing, valsetConfirms, relayVars>>

\* What a confirmation is a signature of.
EncodeValsetConfirm(vs) == <<"checkpoint", peggyId, vs>>

EncodeTxBatchConfirmWithoutTimeout(b) ==
  <<"transactionBatch", peggyId, [b EXCEPT !.timeout = 0]>>

EncodeTxBatchConfirm(b) == <<"transactionBatch", peggyId, b>>

-----------------------------------------------------------------------------
(* Calls of the contract.                                                  *)

\* One signature for each member of the installed set, in its order, and an
\* empty one for a member that has not confirmed.
RepackWithoutGaps(valset, confirms, hash) ==
  LET signed == SelectSeq(valset.members, LAMBDA m : m \in confirms)
  IN  [i \in DOMAIN valset.members |->
         IF i \in DOMAIN signed THEN <<signed[i], hash>> ELSE NoSig]

Repack(valset, confirms, hash) ==
  [i \in DOMAIN valset.members |->
     IF valset.members[i] \in confirms THEN <<valset.members[i], hash>> ELSE NoSig]

\* peggyPowerToPercent of the power that has signed is at least 66.
EnoughPower(valset, sigs) ==
  LET good[i \in 0..Len(sigs)] ==
        IF i = 0 THEN 0
        ELSE good[i - 1] + (IF sigs[i] = NoSig THEN 0 ELSE valset.powers[i])
  IN  100 * good[Len(sigs)] >= 66 * totalPeggyPower

valsetUpdateByNewSet(current, new, confirms) ==
  [type |-> "updateValset", item |-> new, current |-> current,
   sigs |-> Repack(new, confirms, EncodeValsetConfirm(new))]

valsetUpdate(current, new, confirms) ==
  [type |-> "updateValset", item |-> new, current |-> current,
   sigs |-> Repack(current, confirms, EncodeValsetConfirm(new))]

transactionBatch(current, b, confirms) ==
  [type |-> "submitBatch", item |-> b, current |-> current,
   sigs |-> Repack(current, confirms, EncodeTxBatchConfirm(b))]

Execute(call) ==
  IF call.type = "updateValset"
  THEN updateValset(call.item, call.current, call.sigs)
  ELSE submitBatch(call.current, call.sigs, call.item)

\* A call that does not revert.
Succeeds(call) ==
  IF call.type = "updateValset"
  THEN updateValsetRequires(call.item, call.current, call.sigs)
  ELSE submitBatchRequires(call.current, call.sigs, call.item)

EstimateGasOfAnything(call) == TRUE

\* SendTx simulates a call before it sends it: one that would revert is an error.
EstimateGas(call) == Succeeds(call)

-----------------------------------------------------------------------------
(* Ethereum.                                                               *)

Sealed == events[Len(events)].height < height

SealBlock ==
  /\ Sealed => height < MaxIdleHeight
  /\ NextBlock
  /\ UNCHANGED <<injectiveVars, relayVars>>

Include(call) ==
  /\ Sealed
  /\ mempool' = mempool \ {call}
  /\ \/ Execute(call)
     \/ ~Succeeds(call) /\ UNCHANGED vars
  /\ UNCHANGED <<injectiveVars, searchVars, valsetTask, batchTask, faults>>

DeployToken ==
  /\ Sealed
  /\ \E t \in CosmosERC20 : deployERC20(t)
  /\ UNCHANGED <<injectiveVars, relayVars>>

\* Another relayer, which holds the installed set, has its call included.
OtherRelayer ==
  /\ Sealed
  /\ \E current \in Valset :
       \/ \E n \in 1..valsets :
            Execute(valsetUpdate(current, InjectiveValsets[n], valsetConfirms[n]))
       \/ \E n \in outgoing :
            Execute(transactionBatch(current, InjectiveBatches[n], batchConfirms[n]))
  /\ UNCHANGED <<injectiveVars, relayVars>>

-----------------------------------------------------------------------------
(* relay: the search for the installed set.                                *)

\* Injective has no set for the nonce the contract was deployed with.
ValsetAt(nonce) == IF nonce \in 1..valsets THEN InjectiveValsets[nonce] ELSE NoValset

ReadHeader ==
  /\ pc = "idle"
  /\ Sealed
  /\ pc' = "header"
  /\ header' = height - 1
  /\ UNCHANGED <<vars, injectiveVars, cosmosValset, ethValset, alarm, valsetTask,
                 batchTask, mempool, faults>>

ReadNonce ==
  /\ pc = "header"
  /\ Sealed
  /\ pc' = "nonce"
  /\ cosmosValset' = ValsetAt(state_lastValsetNonce)
  /\ UNCHANGED <<vars, injectiveVars, header, ethValset, alarm, valsetTask, batchTask,
                 mempool, faults>>

\* The validator sets of the ValsetUpdated events of the blocks from..to.
GetValsetUpdatedEvents(from, to) ==
  {events[i].data : i \in {j \in DOMAIN events :
     events[j].type = "ValsetUpdated" /\ events[j].height \in from..to}}

\* Without the reversal the lowest nonce goes first.
FirstWithoutReverse(found) == CHOOSE vs \in found : \A w \in found : vs.nonce <= w.nonce

First(found) == CHOOSE vs \in found : \A w \in found : vs.nonce >= w.nonce

\* The search goes backwards in windows whose ends overlap in one block.
findLatestValset(currentBlock) ==
  LET search[current \in 0..currentBlock] ==
        IF current = 0 THEN NoValset
        ELSE LET start == IF current <= findValsetBlocksToSearch
                          THEN 0 ELSE current - findValsetBlocksToSearch
                 found == GetValsetUpdatedEvents(start, current)
             IN  IF found = {} THEN search[start] ELSE First(found)
  IN  search[currentBlock]

Sort(vs) ==
  LET places     == DOMAIN vs.members
      less(i, j) == \/ vs.powers[i] > vs.powers[j]
                    \/ vs.powers[i] = vs.powers[j] /\ vs.members[i] < vs.members[j]
      order      == CHOOSE p \in Bijection(places, places) :
                      \A i, j \in places : i < j => ~less(p[j], p[i])
  IN  [vs EXCEPT !.members = [i \in places |-> vs.members[order[i]]],
                 !.powers  = [i \in places |-> vs.powers[order[i]]]]

\* checkIfValsetsDiffer returns nothing: it warns, and it sorts the members of
\* the set in place when there is something to compare them with.
WarnsWhenBootstrapping(cosmos, eth) ==
  \/ cosmos = NoValset
  \/ cosmos.nonce # eth.nonce
  \/ Len(cosmos.members) # Len(eth.members)

Warns(cosmos, eth) ==
  \/ cosmos = NoValset /\ eth.nonce # 0
  \/ /\ cosmos # NoValset
     /\ \/ cosmos.nonce # eth.nonce
        \/ Len(cosmos.members) # Len(eth.members)

checkIfValsetsDifferSortsFirst(cosmos, eth) == Sort(eth)

checkIfValsetsDiffer(cosmos, eth) ==
  IF cosmos = NoValset \/ Warns(cosmos, eth) THEN eth ELSE Sort(eth)

findLatestValsetOnEth ==
  LET found == findLatestValset(header)
  IN  /\ pc = "nonce"
      /\ Sealed
      /\ found # NoValset
      /\ pc' = "relay"
      /\ ethValset' = checkIfValsetsDiffer(cosmosValset, found)
      /\ alarm' = Warns(cosmosValset, found)
      /\ valsetTask' = IF RelayValsets THEN Started ELSE Ended
      /\ batchTask' = IF RelayBatches THEN Started ELSE Ended
      /\ UNCHANGED <<vars, injectiveVars, header, cosmosValset, mempool, faults>>

Forget ==
  /\ pc' = "idle"
  /\ header' = 0
  /\ cosmosValset' = NoValset
  /\ ethValset' = NoValset
  /\ valsetTask' = Ended
  /\ batchTask' = Ended
  /\ UNCHANGED <<vars, injectiveVars, alarm, mempool>>

\* Nothing is found, or a query fails: the search is retried from its first
\* query, or fails and ends the process, which starts over.
searchFails ==
  /\ \/ /\ pc = "nonce"
        /\ findLatestValset(header) = NoValset
        /\ UNCHANGED faults
     \/ /\ pc \in {"header", "nonce"}
        /\ Fault
  /\ Sealed
  /\ Forget

\* Wait returns when both tasks have ended, or already when one has failed: the
\* error then ends the process, the other task included, and it starts over.
relayReturns ==
  /\ pc = "relay"
  /\ \/ valsetTask.pc = "ended" /\ batchTask.pc = "ended"
     \/ "failed" \in {valsetTask.pc, batchTask.pc}
  /\ UNCHANGED faults
  /\ Forget

-----------------------------------------------------------------------------
(* relayValset and relayTokenBatch, two goroutines with the same ethValset. *)

valsetUnchanged == <<vars, injectiveVars, searchVars, batchTask>>
batchUnchanged == <<vars, injectiveVars, searchVars, valsetTask>>

\* The newest set anybody has confirmed, unless the contract has it already.
chooseValset ==
  LET confirmed == {n \in 1..valsets : valsetConfirms[n] # {}}
  IN  /\ valsetTask.pc = "choose"
      /\ Sealed
      /\ \/ confirmed = {} /\ valsetTask' = Ended
         \/ \E n \in confirmed :
              /\ \A m \in confirmed : m <= n
              /\ valsetTask' =
                   IF n <= state_lastValsetNonce THEN Ended
                   ELSE [valsetTask EXCEPT !.pc = "send", !.item = n,
                                           !.confirms = valsetConfirms[n]]
      /\ UNCHANGED <<valsetUnchanged, mempool, faults>>

\* The nonce or the block of Injective could not be read, or the relay offset
\* has not passed: shouldRelayValset is false.
skipValset ==
  /\ valsetTask.pc = "choose"
  /\ Fault
  /\ valsetTask' = Ended
  /\ UNCHANGED <<valsetUnchanged, mempool>>

\* An error is retried with the same ethValset, the last one is returned.
valsetErrorOnceMore ==
  valsetTask' = IF valsetTask.attempts < maxAttempts
                THEN [Started EXCEPT !.attempts = valsetTask.attempts + 1]
                ELSE Failed

valsetError ==
  valsetTask' = IF valsetTask.attempts + 1 < maxAttempts
                THEN [Started EXCEPT !.attempts = valsetTask.attempts + 1]
                ELSE Failed

\* The list of inputs that were announced as pending.  It may have a call of the
\* mempool or not: there may be no subscription, the list keeps the last 100
\* inputs, and the oldest entry of an input decides how long it counts.  A call
\* that is out of the mempool succeeds no more, whatever the list says.
IsPendingTxInput(call) == IF call \in mempool THEN BOOLEAN ELSE {FALSE}

SendEthValsetUpdate ==
  LET new  == InjectiveValsets[valsetTask.item]
      call == valsetUpdate(ethValset, new, valsetTask.confirms)
  IN  /\ valsetTask.pc = "send"
      /\ Sealed
      /\ \E pending \in IsPendingTxInput(call) :
           IF /\ new.nonce > ethValset.nonce
              /\ EnoughPower(ethValset, call.sigs)
              /\ ~pending
              /\ EstimateGas(call)
           THEN /\ mempool' = mempool \cup {call}
                /\ valsetTask' = Ended
           ELSE /\ valsetError
                /\ UNCHANGED mempool
      /\ UNCHANGED <<valsetUnchanged, faults>>

\* A query of Injective fails, or the node does not take the transaction.
valsetFails ==
  /\ valsetTask.pc \in {"choose", "send"}
  /\ Fault
  /\ valsetError
  /\ UNCHANGED <<valsetUnchanged, mempool>>

\* Injective lists the newest batch first, and the loop keeps the last confirmed
\* one it meets.
oldestConfirmedBatchKeepsFirst(n, confirmed) ==
  n \in confirmed /\ \A m \in confirmed : m <= n

oldestConfirmedBatch(n, confirmed) == n \in confirmed /\ \A m \in confirmed : n <= m

\* The oldest batch anybody has confirmed of those that have not timed out,
\* unless the contract is past it.
chooseBatch ==
  LET confirmed == {n \in outgoing : /\ InjectiveBatches[n].timeout > height - 1
                                    /\ batchConfirms[n] # {}}
  IN  /\ batchTask.pc = "choose"
      /\ Sealed
      /\ \/ confirmed = {} /\ batchTask' = Ended
         \/ \E n \in outgoing :
              /\ oldestConfirmedBatch(n, confirmed)
              /\ batchTask' =
                   IF n <= state_lastBatchNonces[InjectiveBatches[n].token]
                   THEN Ended
                   ELSE [Ended EXCEPT !.pc = "send", !.item = n,
                                      !.confirms = batchConfirms[n]]
      /\ UNCHANGED <<batchUnchanged, mempool, faults>>

SendTransactionBatchUnchecked ==
  /\ batchTask.pc = "send"
  /\ Sealed
  /\ batchTask' = Ended
  /\ mempool' = mempool \cup {transactionBatch(ethValset, InjectiveBatches[batchTask.item],
                                               batchTask.confirms)}
  /\ UNCHANGED <<batchUnchanged, faults>>

\* A call that is pending already is an error, too, which changes nothing.
SendTransactionBatch ==
  LET call == transactionBatch(ethValset, InjectiveBatches[batchTask.item],
                               batchTask.confirms)
  IN  /\ batchTask.pc = "send"
      /\ Sealed
      /\ batchTask' = Ended
      /\ mempool' = IF EnoughPower(ethValset, call.sigs) /\ EstimateGas(call)
                    THEN mempool \cup {call} ELSE mempool
      /\ UNCHANGED <<batchUnchanged, faults>>

\* A query of Injective fails, which is retried or returned, or shouldRelayBatch
\* is false, or the submission fails: that error is logged and not returned.
batchFails ==
  /\ Fault
  /\ \/ batchTask.pc \in {"choose", "send"} /\ batchTask' = Ended
     \/ batchTask.pc = "choose" /\ batchTask' \in {Started, Failed}
  /\ UNCHANGED <<batchUnchanged, mempool>>

-----------------------------------------------------------------------------

Sign == \E v \in Validator : signValidatorSets(v) \/ signNewBatch(v)

Mine == \E call \in mempool : Include(call)

Search == ReadHeader \/ ReadNonce \/ findLatestValsetOnEth \/ searchFails \/ relayReturns

relayValset == chooseValset \/ skipValset \/ SendEthValsetUpdate \/ valsetFails

relayTokenBatch == chooseBatch \/ SendTransactionBatch \/ batchFails

RelayerNext ==
  \/ CreateValset
  \/ requestTokenBatch
  \/ Attest
  \/ Sign
  \/ SealBlock
  \/ Mine
  \/ DeployToken
  \/ OtherRelayer
  \/ Search
  \/ relayValset
  \/ relayTokenBatch

RelayerSpec == RelayerInit /\ [][RelayerNext]_bridge

\* Every loop goes on, the node seals blocks and includes what it was given.
\* Nothing obliges Injective to create anything, and no other relayer to act.
RelayerFairSpec ==
  /\ RelayerSpec
  /\ WF_bridge(Sign)
  /\ WF_bridge(Attest)
  /\ WF_bridge(SealBlock)
  /\ WF_bridge(Mine)
  /\ WF_bridge(Search)
  /\ WF_bridge(relayValset)
  /\ WF_bridge(relayTokenBatch)

-----------------------------------------------------------------------------
(* Properties.                                                             *)

Task == [pc: {"ended", "choose", "send", "failed"}, item: Nat, confirms: SUBSET Validator,
         attempts: 0..(maxAttempts - 1)]

\* The type of Injective's state, of the mempool and of the relayer.
RelayerTypeOK ==
  /\ valsets \in 0..Len(InjectiveValsets)
  /\ batches \in 0..Len(InjectiveBatches)
  /\ outgoing \subseteq 1..batches
  /\ valsetConfirms \in [DOMAIN InjectiveValsets -> SUBSET Validator]
  /\ batchConfirms \in [DOMAIN InjectiveBatches -> SUBSET Validator]
  /\ \A call \in mempool : call.current \in Valset /\ call.item \in Valset \cup Batch
  /\ pc \in {"idle", "header", "nonce", "relay"}
  /\ header \in 0..MaxHeight
  /\ {cosmosValset, ethValset} \subseteq Valset \cup {NoValset}
  /\ valsetTask \in Task
  /\ batchTask \in Task
  /\ alarm \in BOOLEAN
  /\ faults \in 0..MaxFaults

\* The set both tasks pass as the current one is, member for member and in the
\* order the contract hashed it, the set that was installed at the header the
\* search began with: the windows of findLatestValsetOnEth miss no event and the
\* in-place sort of checkIfValsetsDiffer does not change the checkpoint.
RelayerHoldsInstalledSet ==
  pc = "relay" =>
    \E i \in DOMAIN events :
      /\ IsValsetEvent(i)
      /\ events[i].height <= header
      /\ events[i].data = ethValset
      /\ \A j \in DOMAIN events :
           IsValsetEvent(j) /\ j > i => events[j].height > header

Installed(vs) == makeCheckpoint(vs) = state_lastValsetCheckpoint

AbovePowerThreshold(vs, confirms) ==
  cumulativePower(vs.powers, [i \in DOMAIN vs.powers |-> vs.members[i] \in confirms])
    [Len(vs.powers)] > PowerThreshold

\* When the set the relayer holds is still installed and members above the
\* contract's threshold have confirmed, the contract accepts the call the
\* relayer is about to make: absent signatures are padded, every signature is
\* at its signer's place and is over the hash the contract computes
\* (checkValsetSigsAndRepack, checkBatchSigsAndRepack, EncodeValsetConfirm,
\* EncodeTxBatchConfirm).  What is left to the item itself: its nonce must still
\* be ahead, it must be possible to pay it, a set must be able to vote and a
\* batch must not have timed out.
ConfirmedCallIsAccepted ==
  /\ LET new == InjectiveValsets[valsetTask.item]
     IN  valsetTask.pc = "send" /\ Installed(ethValset)
           /\ AbovePowerThreshold(ethValset, valsetTask.confirms)
           /\ nonceAdvances(new.nonce, state_lastValsetNonce)
           /\ validateValidatorSet(new) /\ RewardIsCovered(new)
         => Succeeds(valsetUpdate(ethValset, new, valsetTask.confirms))
  /\ LET b == InjectiveBatches[batchTask.item]
     IN  batchTask.pc = "send" /\ Installed(ethValset)
           /\ AbovePowerThreshold(ethValset, batchTask.confirms)
           /\ nonceAdvances(b.nonce, state_lastBatchNonces[b.token])
           /\ height < b.timeout /\ BatchIsCovered(b)
         => Succeeds(transactionBatch(ethValset, b, batchTask.confirms))

\* A submitted call reverts only when it was overtaken while it waited: a newer
\* set than the one it names as the current one was installed, or its batch was
\* executed or passed, timed out, or can no longer be paid.  Nothing the relayer
\* submits is bound to fail from the start (SendTx estimates the gas first), and
\* nothing else that happens on either chain makes it fail later.
RevertsOnlyWhenOvertaken ==
  \A call \in mempool :
    \/ Succeeds(call)
    \/ state_lastValsetNonce > call.current.nonce
    \/ call.type = "updateValset" /\ ~RewardIsCovered(call.item)
    \/ /\ call.type = "submitBatch"
       /\ \/ call.item.nonce <= state_lastBatchNonces[call.item.token]
          \/ call.item.timeout <= height
          \/ ~BatchIsCovered(call.item)

\* The relayer overtakes no batch that could still be executed: when it is about
\* to submit a batch, or has, every older one Injective still lists has timed
\* out.  This takes both the order in which every signer confirms (signNewBatch,
\* the oldest first) and the choice of relayTokenBatch: the contract executes no
\* batch after a later one of its token.
NoLiveBatchIsOvertaken ==
  \A n \in DOMAIN InjectiveBatches :
    \/ batchTask.pc = "send" /\ batchTask.item = n
    \/ \E call \in mempool : call.type = "submitBatch" /\ call.item = InjectiveBatches[n]
    => \A m \in outgoing : m < n => InjectiveBatches[m].timeout < height

\* The contract executes only what Injective created and members of the installed
\* set above the threshold confirmed to Injective: no set is installed and no batch
\* paid with confirmations of another item or of another set, although a
\* confirmation passes through the task that copies it, the repacked array, and a
\* mempool in which the call can outlive the set it was made for.
ExecutedWasConfirmed ==
  [][\A i \in DOMAIN events' \ DOMAIN events :
       LET e == events'[i]
           confirmedBy(confirms) ==
             \E current \in Valset :
               Installed(current) /\ PowerOf(current, confirms) > PowerThreshold
       IN  /\ e.type = "ValsetUpdated" =>
                \E n \in 1..valsets :
                  e.data = InjectiveValsets[n] /\ confirmedBy(valsetConfirms[n])
           /\ e.type = "BatchExecuted" =>
                \E n \in 1..batches :
                  e.data = InjectiveBatches[n] /\ confirmedBy(batchConfirms[n])]_bridge

Ideal == INSTANCE IdealBridge WITH installed <- state_lastValsetCheckpoint[3],
                                   executed  <- state_lastBatchNonces,
                                   paid      <- released

\* Relayers, the mempool and the log are only a way to get there: whatever they
\* do, and whenever they fail, the validator set in power, the batches executed and
\* the tokens paid out or minted change as if the contract read the confirmations
\* on Injective itself, and a batch that waits while Injective takes it off its
\* list (it timed out, or was executed or passed over) is not executed any more.
ImplementsIdealBridge == Ideal!Spec

\* A warning of a hijacking is not raised unless the contract's set was updated
\* between the header and the nonce that one search reads.
AlarmOnlyInRace ==
  pc = "relay" /\ alarm => state_lastValsetNonce > ethValset.nonce

\* "This function exists to provide a warning if Cosmos and Ethereum have
\* different validator sets for a given nonce" (relayer.go, checkIfValsetsDiffer):
\* it does not warn of a set Injective created itself.
AlarmMeansDifferentSets ==
  pc = "relay" /\ alarm => ValsetAt(ethValset.nonce) # ethValset

\* Every set Injective creates reaches the contract or is overtaken by a newer
\* one that does, although the newest set anybody confirmed hides older ones, the
\* set the relayer holds can be out of date, and its retries do not refresh it.
NewestSetIsInstalled == <>[](state_lastValsetNonce = valsets)

\* A batch Injective creates is executed, overtaken by a later one of its token,
\* or times out: no older, timed out or executed batch blocks it for ever.
BatchesAreExecuted ==
  <>[](\A n \in 1..batches :
         \/ state_lastBatchNonces[InjectiveBatches[n].token] >= n
         \/ height > InjectiveBatches[n].timeout)

=============================================================================
