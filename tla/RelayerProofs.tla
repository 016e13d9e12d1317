--------------------------- MODULE RelayerProofs ----------------------------
(***************************************************************************)
(* The order of batches, for every number of validators, sets and batches, *)
(* every timeout and any number of failures: the relayer overtakes no      *)
(* batch that could still be executed. The invariant that carries the      *)
(* proof is about the signers: of two listed batches the older one has     *)
(* every confirmation the newer one has. The second part has the invariant *)
(* of the composed system (RelayInv), from which module RelayerSetProofs   *)
(* derives its theorems, and shows that every step keeps it but the one    *)
(* that searches for the installed set. The last part is about the calls   *)
(* that wait: what the estimation of a call established stays as the       *)
(* contract moves on.                                                      *)
(***************************************************************************)
EXTENDS Relayer, PeggyProofs

IB == InjectiveBatches

TimedOut(m) == IB[m].timeout < height

\* Everything older than n that Injective still lists has timed out.
NothingBefore(n) == \A m \in outgoing : m < n => TimedOut(m)

BatchTypes ==
  /\ height \in Nat
  /\ batches \in 0..Len(IB)
  /\ outgoing \subseteq 1..batches
  /\ batchConfirms \in [DOMAIN IB -> SUBSET Validator]

\* A batch that does not exist yet is confirmed by nobody, and every signer has
\* confirmed an older listed batch before a newer one.
OlderConfirmedFirst ==
  /\ \A n \in DOMAIN IB : n > batches => batchConfirms[n] = {}
  /\ \A m, n \in outgoing : m < n => batchConfirms[n] \subseteq batchConfirms[m]

TaskOvertakesNothing ==
  batchTask.pc = "send" => batchTask.item \in 1..batches /\ NothingBefore(batchTask.item)

CallOvertakesNothing(call) ==
  call.type = "submitBatch" => call.item.nonce \in 1..batches /\ NothingBefore(call.item.nonce)

BatchInv ==
  /\ BatchTypes
  /\ OlderConfirmedFirst
  /\ TaskOvertakesNothing
  /\ \A call \in mempool : CallOvertakesNothing(call)

batchVars == <<batches, outgoing, batchConfirms, batchTask, mempool, height>>

-----------------------------------------------------------------------------

\* Injective numbers its batches, and each one has a timeout.
LEMMA BatchFacts ==
  /\ DOMAIN IB = 1..Len(IB)
  /\ Len(IB) \in Nat
  /\ \A n \in DOMAIN IB : IB[n].nonce = n /\ IB[n].timeout \in Nat
<1>1. IB \in Seq(Batch) /\ \A n \in DOMAIN IB : IB[n].nonce = n
  BY InjectiveAssumption DEF IB
<1>2. DOMAIN IB = 1..Len(IB) /\ Len(IB) \in Nat
  BY <1>1
<1>3. \A n \in DOMAIN IB : IB[n] \in Batch
  BY <1>1
<1>4. \A n \in DOMAIN IB : IB[n].timeout \in Nat
  BY <1>3, BatchAssumption
<1> QED
  BY <1>1, <1>2, <1>4

\* The start satisfies the invariant.
LEMMA BatchInvInit == RelayerInit => BatchInv
<1> SUFFICES ASSUME RelayerInit PROVE BatchInv
  OBVIOUS
<1>1. BatchTypes
  BY BatchFacts DEF RelayerInit, Init, BatchTypes, IB
<1>2. OlderConfirmedFirst
  BY DEF RelayerInit, OlderConfirmedFirst, IB
<1>3. TaskOvertakesNothing
  BY DEF RelayerInit, TaskOvertakesNothing, Ended
<1> QED
  BY <1>1, <1>2, <1>3 DEF RelayerInit, BatchInv

\* A successful call of the contract does not change the block number.
LEMMA ExecuteKeepsHeight ==
  ASSUME NEW call, Execute(call)
  PROVE  height' = height
BY DEF Execute, updateValset, submitBatch

\* Steps of the search for the installed set, of the task that relays sets, and
\* of everybody else's business with the contract.
LEMMA StepsApart ==
  ASSUME \/ CreateValset
         \/ \E v \in Validator : signValidatorSets(v)
         \/ DeployToken
         \/ OtherRelayer
         \/ ReadHeader \/ ReadNonce
         \/ chooseValset \/ skipValset \/ valsetFails
  PROVE  UNCHANGED batchVars
<1> USE DEF vars, relayVars, searchVars, injectiveVars, valsetUnchanged, batchVars
<1>1. CASE CreateValset
  BY <1>1 DEF CreateValset
<1>2. CASE \E v \in Validator : signValidatorSets(v)
  BY <1>2 DEF signValidatorSets
<1>3. CASE DeployToken
  BY <1>3 DEF DeployToken, deployERC20
<1>4. CASE OtherRelayer
  BY <1>4, ExecuteKeepsHeight DEF OtherRelayer
<1>5. CASE ReadHeader \/ ReadNonce
  BY <1>5 DEF ReadHeader, ReadNonce
<1>6. CASE chooseValset \/ skipValset \/ valsetFails
  BY <1>6, Zenon DEF chooseValset, skipValset, valsetFails
<1> QED
  BY <1>1, <1>2, <1>3, <1>4, <1>5, <1>6

\* A step that leaves batches, confirmations and log alone keeps it.
LEMMA UnchangedKeepsBatchInv ==
  ASSUME BatchInv, UNCHANGED batchVars
  PROVE  BatchInv'
BY DEF BatchInv, BatchTypes, OlderConfirmedFirst, TaskOvertakesNothing,
       CallOvertakesNothing, NothingBefore, TimedOut, batchVars

\* The list, the confirmations and the task stay: only the mempool may change.
LEMMA MempoolKeepsBatchInv ==
  ASSUME BatchInv, UNCHANGED <<batches, outgoing, batchConfirms, batchTask, height>>,
         \A call \in mempool' : call \in mempool \/ CallOvertakesNothing(call)
  PROVE  BatchInv'
<1>1. BatchTypes' /\ OlderConfirmedFirst' /\ TaskOvertakesNothing'
  BY DEF BatchInv, BatchTypes, OlderConfirmedFirst, TaskOvertakesNothing,
         NothingBefore, TimedOut
<1>2. ASSUME NEW call \in mempool' PROVE CallOvertakesNothing(call)'
  BY DEF BatchInv, CallOvertakesNothing, NothingBefore, TimedOut
<1> QED
  BY <1>1, <1>2 DEF BatchInv

\* The task ends or starts anew.
LEMMA TaskKeepsBatchInv ==
  ASSUME BatchInv, UNCHANGED <<batches, outgoing, batchConfirms, mempool, height>>,
         TaskOvertakesNothing'
  PROVE  BatchInv'
BY DEF BatchInv, BatchTypes, OlderConfirmedFirst, CallOvertakesNothing,
       NothingBefore, TimedOut

\* A new batch comes after the ones there are.
LEMMA requestTokenBatchKeeps ==
  ASSUME BatchInv, requestTokenBatch
  PROVE  BatchInv'
<1> USE DEF vars, relayVars, searchVars
<1>1. /\ batches < Len(IB)
      /\ batches' = batches + 1
      /\ outgoing' = outgoing \cup {batches + 1}
      /\ UNCHANGED <<height, batchConfirms, batchTask, mempool>>
  BY DEF requestTokenBatch, IB
<1>2. batches \in Nat /\ outgoing \subseteq 1..batches /\ BatchTypes
  BY BatchFacts DEF BatchInv, BatchTypes
<1>3. BatchTypes'
  BY <1>1, <1>2, BatchFacts DEF BatchTypes
<1>4. OlderConfirmedFirst'
  <2>1. \A n \in DOMAIN IB : n > batches' => batchConfirms'[n] = {}
    BY <1>1, <1>2, BatchFacts DEF BatchInv, OlderConfirmedFirst
  <2>2. batchConfirms[batches + 1] = {}
    BY <1>1, <1>2, BatchFacts DEF BatchInv, OlderConfirmedFirst
  <2>3. ASSUME NEW m \in outgoing', NEW n \in outgoing', m < n
        PROVE  batchConfirms'[n] \subseteq batchConfirms'[m]
    <3>1. CASE n = batches + 1
      BY <3>1, <2>2, <1>1
    <3>2. CASE n # batches + 1
      <4>1. n \in outgoing /\ m \in outgoing
        BY <3>2, <2>3, <1>1, <1>2
      <4> QED
        BY <4>1, <2>3, <1>1 DEF BatchInv, OlderConfirmedFirst
    <3> QED
      BY <3>1, <3>2
  <2> QED
    BY <2>1, <2>3 DEF OlderConfirmedFirst
<1>5. ASSUME NEW n \in 1..batches, NothingBefore(n) PROVE n \in 1..batches' /\ NothingBefore(n)'
  BY <1>1, <1>2, <1>5 DEF NothingBefore, TimedOut
<1>6. TaskOvertakesNothing'
  BY <1>1, <1>5 DEF BatchInv, TaskOvertakesNothing
<1>7. ASSUME NEW call \in mempool' PROVE CallOvertakesNothing(call)'
  BY <1>1, <1>5 DEF BatchInv, CallOvertakesNothing
<1> QED
  BY <1>3, <1>4, <1>6, <1>7 DEF BatchInv

\* An attestation only takes batches off the list.
LEMMA AttestKeeps ==
  ASSUME BatchInv, Attest
  PROVE  BatchInv'
<1> USE DEF vars, relayVars, searchVars
<1>1. outgoing' \subseteq outgoing /\ UNCHANGED <<batches, batchConfirms, batchTask, mempool, height>>
  BY DEF Attest
<1>2. BatchTypes' /\ OlderConfirmedFirst'
  BY <1>1 DEF BatchInv, BatchTypes, OlderConfirmedFirst
<1>3. TaskOvertakesNothing'
  BY <1>1 DEF BatchInv, TaskOvertakesNothing, NothingBefore, TimedOut
<1>4. ASSUME NEW call \in mempool' PROVE CallOvertakesNothing(call)'
  BY <1>1 DEF BatchInv, CallOvertakesNothing, NothingBefore, TimedOut
<1> QED
  BY <1>2, <1>3, <1>4 DEF BatchInv

\* A signer confirms the oldest listed batch it has not confirmed.
LEMMA signNewBatchKeeps ==
  ASSUME BatchInv, NEW v \in Validator, signNewBatch(v)
  PROVE  BatchInv'
<1> USE DEF vars, relayVars, searchVars
<1>1. PICK k \in OldestUnsigned(v, outgoing, batchConfirms) :
        /\ batchConfirms' = [batchConfirms EXCEPT ![k] = @ \cup {v}]
        /\ UNCHANGED <<batches, outgoing, batchTask, mempool, height>>
  BY Zenon DEF signNewBatch
<1>2. k \in outgoing /\ \A m \in outgoing : m < k => v \in batchConfirms[m]
  BY DEF OldestUnsigned
<1>3. k \in 1..batches /\ k \in DOMAIN IB /\ batches \in Nat /\ outgoing \subseteq DOMAIN IB
  <2>1. batches \in 0..Len(IB) /\ outgoing \subseteq 1..batches
    BY DEF BatchInv, BatchTypes
  <2>2. batches \in Nat /\ 1..batches \subseteq 1..Len(IB)
    BY <2>1, BatchFacts
  <2> QED
    BY <2>1, <2>2, <1>2, BatchFacts
<1>4. BatchTypes'
  BY <1>1, <1>3 DEF BatchInv, BatchTypes
<1>5. \A n \in DOMAIN IB : batchConfirms'[n] = IF n = k THEN batchConfirms[n] \cup {v}
                                               ELSE batchConfirms[n]
  BY <1>1, Zenon DEF BatchInv, BatchTypes
<1>6. OlderConfirmedFirst'
  <2>1. \A n \in DOMAIN IB : n > batches' => batchConfirms'[n] = {}
    BY <1>1, <1>3, <1>5, BatchFacts DEF BatchInv, OlderConfirmedFirst
  <2>2. ASSUME NEW m \in outgoing', NEW n \in outgoing', m < n
        PROVE  batchConfirms'[n] \subseteq batchConfirms'[m]
    <3>1. batchConfirms[n] \subseteq batchConfirms[m] /\ m \in DOMAIN IB /\ n \in DOMAIN IB
      BY <2>2, <1>1, <1>3 DEF BatchInv, OlderConfirmedFirst
    <3>2. n = k => v \in batchConfirms[m]
      BY <2>2, <1>1, <1>2
    <3> QED
      BY <3>1, <3>2, <1>5, Zenon
  <2> QED
    BY <2>1, <2>2 DEF OlderConfirmedFirst
<1>7. TaskOvertakesNothing' /\ \A call \in mempool' : CallOvertakesNothing(call)'
  BY <1>1 DEF BatchInv, TaskOvertakesNothing, CallOvertakesNothing, NothingBefore, TimedOut
<1> QED
  BY <1>4, <1>6, <1>7 DEF BatchInv

\* Time only makes more batches time out.
LEMMA SealBlockKeeps ==
  ASSUME BatchInv, SealBlock
  PROVE  BatchInv'
<1> USE DEF vars, injectiveVars, relayVars, searchVars
<1>1. height \in Nat /\ height' = height + 1
      /\ UNCHANGED <<batches, outgoing, batchConfirms, batchTask, mempool>>
  BY DEF SealBlock, NextBlock, BatchInv, BatchTypes
<1>2. BatchTypes' /\ OlderConfirmedFirst'
  BY <1>1 DEF BatchInv, BatchTypes, OlderConfirmedFirst
<1>3. ASSUME NEW n, NothingBefore(n) PROVE NothingBefore(n)'
  <2>1. ASSUME NEW m \in outgoing PROVE IB[m].timeout \in Nat
    BY BatchFacts DEF BatchInv, BatchTypes
  <2> QED
    BY <2>1, <1>1, <1>3 DEF NothingBefore, TimedOut
<1>4. TaskOvertakesNothing'
  BY <1>1, <1>3 DEF BatchInv, TaskOvertakesNothing
<1>5. ASSUME NEW call \in mempool' PROVE CallOvertakesNothing(call)'
  BY <1>1, <1>3 DEF BatchInv, CallOvertakesNothing
<1> QED
  BY <1>2, <1>4, <1>5 DEF BatchInv

\* A block takes a call out of the mempool.
LEMMA MineKeeps ==
  ASSUME BatchInv, Mine
  PROVE  BatchInv'
<1> USE DEF vars, injectiveVars, searchVars
<1>1. PICK call \in mempool : Include(call)
  BY DEF Mine
<1>2. height' = height
  BY <1>1, ExecuteKeepsHeight DEF Include
<1>3. mempool' \subseteq mempool /\ UNCHANGED <<batches, outgoing, batchConfirms, batchTask>>
  BY <1>1 DEF Include
<1> QED
  BY <1>2, <1>3, MempoolKeepsBatchInv

\* A validator set update is no batch.
LEMMA SendEthValsetUpdateKeeps ==
  ASSUME BatchInv, SendEthValsetUpdate
  PROVE  BatchInv'
<1> USE DEF vars, injectiveVars, searchVars, valsetUnchanged
<1>1. UNCHANGED <<batches, outgoing, batchConfirms, batchTask, height>>
  BY DEF SendEthValsetUpdate
<1>2. PICK new, current, confirms :
        mempool' \subseteq mempool \cup {valsetUpdate(current, new, confirms)}
  BY DEF SendEthValsetUpdate
<1>3. CallOvertakesNothing(valsetUpdate(current, new, confirms))
  BY DEF valsetUpdate, CallOvertakesNothing
<1> QED
  BY <1>1, <1>2, <1>3, MempoolKeepsBatchInv

\* The batch that is sent is the oldest confirmed one.
LEMMA SendTransactionBatchKeeps ==
  ASSUME BatchInv, SendTransactionBatch
  PROVE  BatchInv'
<1> USE DEF vars, injectiveVars, searchVars, batchUnchanged
<1> DEFINE n == batchTask.item
           call == transactionBatch(ethValset, IB[n], batchTask.confirms)
<1>1. /\ batchTask.pc = "send" /\ batchTask' = Ended
      /\ mempool' \subseteq mempool \cup {call}
      /\ UNCHANGED <<batches, outgoing, batchConfirms, height>>
  BY DEF SendTransactionBatch, IB
<1>2. n \in 1..batches /\ NothingBefore(n)
  BY <1>1 DEF BatchInv, TaskOvertakesNothing
<1>3. IB[n].nonce = n
  BY <1>2, BatchFacts DEF BatchInv, BatchTypes
<1>4. call.item = IB[n]
  BY DEF transactionBatch
<1> HIDE DEF n, call
<1>5. CallOvertakesNothing(call)
  BY <1>2, <1>3, <1>4 DEF CallOvertakesNothing
<1>6. ASSUME NEW c \in mempool' PROVE CallOvertakesNothing(c)'
  <2>1. CallOvertakesNothing(c)
    BY <1>1, <1>5 DEF BatchInv
  <2> QED
    BY <2>1, <1>1 DEF CallOvertakesNothing, NothingBefore, TimedOut
<1>7. TaskOvertakesNothing'
  BY <1>1 DEF Ended, TaskOvertakesNothing
<1>8. BatchTypes' /\ OlderConfirmedFirst'
  BY <1>1 DEF BatchInv, BatchTypes, OlderConfirmedFirst
<1> QED
  BY <1>6, <1>7, <1>8 DEF BatchInv

\* Whoever confirmed the chosen batch confirmed every older one listed, so an
\* older one that has not timed out would have been chosen.
LEMMA chooseBatchKeeps ==
  ASSUME BatchInv, chooseBatch
  PROVE  BatchInv'
<1> USE DEF vars, injectiveVars, searchVars, batchUnchanged
<1> DEFINE confirmed == {n \in outgoing : IB[n].timeout > height - 1 /\ batchConfirms[n] # {}}
<1>1. UNCHANGED <<batches, outgoing, batchConfirms, mempool, height>>
  BY Zenon DEF chooseBatch
<1>2. ASSUME batchTask'.pc = "send"
      PROVE  batchTask'.item \in confirmed /\ \A m \in confirmed : batchTask'.item <= m
  <2>1. batchTask' # Ended
    BY <1>2 DEF Ended
  <2>2. PICK n \in outgoing :
          /\ oldestConfirmedBatch(n, confirmed)
          /\ batchTask' = [Ended EXCEPT !.pc = "send", !.item = n, !.confirms = batchConfirms[n]]
    BY <2>1, Zenon DEF chooseBatch, IB
  <2>3. batchTask'.item = n
    BY <2>2 DEF Ended
  <2> QED
    BY <2>2, <2>3 DEF oldestConfirmedBatch
<1>3. ASSUME NEW n \in confirmed, \A m \in confirmed : n <= m
      PROVE  n \in 1..batches /\ NothingBefore(n)
  <2>1. n \in 1..batches /\ n \in outgoing
    BY DEF BatchInv, BatchTypes
  <2>2. ASSUME NEW m \in outgoing, m < n PROVE IB[m].timeout < height
    <3>1. m \notin confirmed
      BY <1>3, <2>1, <2>2 DEF BatchInv, BatchTypes
    <3>2. batchConfirms[m] # {}
      BY <2>1, <2>2 DEF BatchInv, OlderConfirmedFirst
    <3>3. ~(IB[m].timeout > height - 1)
      BY <3>1, <3>2
    <3>4. IB[m].timeout \in Nat /\ height \in Nat
      BY BatchFacts DEF BatchInv, BatchTypes
    <3> QED
      BY <3>3, <3>4
  <2> QED
    BY <2>1, <2>2 DEF NothingBefore, TimedOut
<1>4. batchTask'.pc = "send" =>
        batchTask'.item \in 1..batches /\ NothingBefore(batchTask'.item)
  BY <1>2, <1>3
<1>5. TaskOvertakesNothing'
  BY <1>1, <1>4 DEF TaskOvertakesNothing, NothingBefore, TimedOut
<1> QED
  BY <1>1, <1>5, TaskKeepsBatchInv

\* The other steps of the relayer send nothing.
LEMMA OtherTaskStepsKeep ==
  ASSUME BatchInv, findLatestValsetOnEth \/ searchFails \/ relayReturns \/ batchFails
  PROVE  BatchInv'
<1> USE DEF vars, injectiveVars, searchVars, batchUnchanged
<1>1. UNCHANGED <<batches, outgoing, batchConfirms, mempool, height>>
  BY DEF findLatestValsetOnEth, searchFails, relayReturns, Forget, batchFails
<1>2. batchTask' \in {Started, Ended, Failed}
  BY DEF findLatestValsetOnEth, searchFails, relayReturns, Forget, batchFails
<1>3. TaskOvertakesNothing'
  BY <1>2 DEF Started, Ended, Failed, TaskOvertakesNothing
<1> QED
  BY <1>1, <1>3, TaskKeepsBatchInv

-----------------------------------------------------------------------------

\* The invariant holds in every behaviour of the relayer.
LEMMA BatchInvInductive == RelayerInit /\ [][RelayerNext]_bridge => []BatchInv
<1>1. RelayerInit => BatchInv
  BY BatchInvInit
<1>2. BatchInv /\ [RelayerNext]_bridge => BatchInv'
  <2> SUFFICES ASSUME BatchInv, [RelayerNext]_bridge PROVE BatchInv'
    OBVIOUS
  <2>1. CASE RelayerNext
    <3>1. CASE \/ CreateValset \/ (\E v \in Validator : signValidatorSets(v))
               \/ DeployToken \/ OtherRelayer
               \/ ReadHeader \/ ReadNonce
               \/ chooseValset \/ skipValset \/ valsetFails
      BY <3>1, StepsApart, UnchangedKeepsBatchInv
    <3>2. CASE requestTokenBatch
      BY <3>2, requestTokenBatchKeeps
    <3>3. CASE Attest
      BY <3>3, AttestKeeps
    <3>4. CASE \E v \in Validator : signNewBatch(v)
      BY <3>4, signNewBatchKeeps
    <3>5. CASE SealBlock
      BY <3>5, SealBlockKeeps
    <3>6. CASE Mine
      BY <3>6, MineKeeps
    <3>7. CASE SendEthValsetUpdate
      BY <3>7, SendEthValsetUpdateKeeps
    <3>8. CASE chooseBatch
      BY <3>8, chooseBatchKeeps
    <3>9. CASE SendTransactionBatch
      BY <3>9, SendTransactionBatchKeeps
    <3>10. CASE findLatestValsetOnEth \/ searchFails \/ relayReturns \/ batchFails
      BY <3>10, OtherTaskStepsKeep
    <3> QED
      BY <2>1, <3>1, <3>2, <3>3, <3>4, <3>5, <3>6, <3>7, <3>8, <3>9, <3>10, Zenon
         DEF RelayerNext, Sign, Search, relayValset, relayTokenBatch
  <2>2. CASE UNCHANGED bridge
    BY <2>2, UnchangedKeepsBatchInv
       DEF bridge, vars, injectiveVars, relayVars, searchVars, batchVars
  <2> QED
    BY <2>1, <2>2
<1> QED
  BY <1>1, <1>2, PTL

\* The relayer overtakes no batch that could still be executed: whatever the
\* number of validators and batches, when it is about to submit a batch, or has,
\* every older one Injective still lists has timed out (signNewBatch and
\* relayTokenBatch).
THEOREM BatchOrder == RelayerSpec => []NoLiveBatchIsOvertaken
<1>1. BatchInv => NoLiveBatchIsOvertaken
  <2> SUFFICES ASSUME BatchInv, NEW n \in DOMAIN IB,
                      \/ batchTask.pc = "send" /\ batchTask.item = n
                      \/ \E call \in mempool : call.type = "submitBatch" /\ call.item = IB[n]
               PROVE  NothingBefore(n)
    BY DEF NoLiveBatchIsOvertaken, NothingBefore, TimedOut, IB
  <2>1. CASE batchTask.pc = "send" /\ batchTask.item = n
    BY <2>1 DEF BatchInv, TaskOvertakesNothing
  <2>2. CASE \E call \in mempool : call.type = "submitBatch" /\ call.item = IB[n]
    BY <2>2, BatchFacts DEF BatchInv, CallOvertakesNothing
  <2> QED
    BY <2>1, <2>2
<1> QED
  BY <1>1, BatchInvInductive, PTL DEF RelayerSpec

-----------------------------------------------------------------------------
(* What the relayer holds and submits.                                     *)

IV == InjectiveValsets

\* A call a relayer can make: the current set is one a caller can pass, Injective
\* has created the item, and what is repacked are confirmations of that item.
Submitted(call) ==
  \E current \in Valset, confirms \in SUBSET Validator :
    \/ \E n \in 1..valsets : /\ confirms \subseteq valsetConfirms[n]
                             /\ call = valsetUpdate(current, IV[n], confirms)
    \/ \E n \in 1..batches : /\ confirms \subseteq batchConfirms[n]
                             /\ call = transactionBatch(current, IB[n], confirms)

\* What a task is about to send exists, and was confirmed by those it says.
SendsConfirmed(task, created, confirms) ==
  task.pc = "send" => task.item \in 1..created /\ task.confirms \subseteq confirms[task.item]

\* Types, and what the tasks work on.
TasksInv ==
  /\ RelayerTypeOK
  /\ height <= MaxHeight
  /\ \A call \in mempool : Submitted(call)
  /\ pc # "relay" => valsetTask = Ended /\ batchTask = Ended
  /\ pc = "relay" => ethValset \in Valset
  /\ SendsConfirmed(valsetTask, valsets, valsetConfirms)
  /\ SendsConfirmed(batchTask, batches, batchConfirms)

\* Every set of the log but the first is one Injective created, a set can be
\* compared with its powers, and the nonces of the sets increase along the log.
LogInv ==
  /\ \A i \in 1..Len(events) : IsValsetEvent(i) =>
       /\ Len(events[i].data.members) = Len(events[i].data.powers)
       /\ events[i].data.nonce # 0 =>
            events[i].data.nonce \in 1..valsets /\ events[i].data = IV[events[i].data.nonce]
  /\ \A i, j \in 1..Len(events) :
       IsValsetEvent(i) /\ IsValsetEvent(j) /\ i < j
         => events[i].data.nonce < events[j].data.nonce

\* The i-th event is of a set and in a block the search looks at.
Seen(i) == IsValsetEvent(i) /\ events[i].height <= header

\* Injective's set for the nonce that was read is not older than the sets the
\* search will find, and not newer than the installed one.
NonceRead ==
  \/ cosmosValset = NoValset /\ \A i \in 1..Len(events) : Seen(i) => events[i].data.nonce = 0
  \/ \E k \in 1..valsets :
       /\ cosmosValset = IV[k]
       /\ k <= state_lastValsetNonce
       /\ \A i \in 1..Len(events) : Seen(i) => events[i].data.nonce <= k

SearchInv ==
  /\ pc # "idle" => header < height
  /\ pc = "nonce" => NonceRead
  /\ RelayerHoldsInstalledSet
  /\ AlarmOnlyInRace

ContractInv == TypeOK /\ EventLogContiguous /\ CurrentValsetInLog

RelayInv == ContractInv /\ TasksInv /\ LogInv /\ SearchInv

-----------------------------------------------------------------------------
(* What the calls do to the contract.                                      *)

\* Injective numbers its sets and none of them is nil.
LEMMA ValsetFacts ==
  /\ DOMAIN IV = 1..Len(IV)
  /\ Len(IV) \in Nat
  /\ \A n \in DOMAIN IV : IV[n] \in Valset /\ IV[n].nonce = n /\ IV[n] # NoValset
<1>1. IV \in Seq(Valset) /\ \A n \in DOMAIN IV : IV[n].nonce = n
  BY InjectiveAssumption DEF IV
<1>2. DOMAIN IV = 1..Len(IV) /\ Len(IV) \in Nat
  BY <1>1
<1>3. \A n \in DOMAIN IV : IV[n] \in Valset
  BY <1>1
<1> QED
  BY <1>1, <1>2, <1>3, RelayerAssumption

\* What Injective has created so far are sets and batches, each confirmed by
\* validators.
LEMMA Created ==
  ASSUME TasksInv
  PROVE  /\ valsets \in Nat /\ batches \in Nat /\ header \in Nat
         /\ valsetConfirms \in [DOMAIN IV -> SUBSET Validator]
         /\ batchConfirms \in [DOMAIN IB -> SUBSET Validator]
         /\ \A n \in 1..valsets : /\ n \in DOMAIN IV /\ IV[n] \in Valset
                                  /\ IV[n].nonce = n /\ IV[n] # NoValset
         /\ \A n \in 1..batches : n \in DOMAIN IB /\ IB[n] \in Batch
<1>1. /\ valsets \in 0..Len(IV) /\ batches \in 0..Len(IB) /\ header \in 0..MaxHeight
      /\ valsetConfirms \in [DOMAIN IV -> SUBSET Validator]
      /\ batchConfirms \in [DOMAIN IB -> SUBSET Validator]
  BY Zenon DEF TasksInv, RelayerTypeOK, IV, IB
<1>2. valsets \in Nat /\ \A n \in 1..valsets : n \in DOMAIN IV
  BY <1>1, ValsetFacts
<1>3. batches \in Nat /\ \A n \in 1..batches : n \in DOMAIN IB
  BY <1>1, BatchFacts
<1>4. \A n \in DOMAIN IB : IB[n] \in Batch
  <2>1. IB \in Seq(Batch)
    BY InjectiveAssumption DEF IB
  <2> QED
    BY <2>1
<1>5. header \in Nat
  BY <1>1, BoundAssumption
<1> QED
  BY <1>1, <1>2, <1>3, <1>4, <1>5, ValsetFacts, Zenon

\* What it is to be a validator set.
LEMMA ValsetType ==
  ASSUME NEW vs \in Valset
  PROVE  /\ vs \in [nonce: Nat, members: Seq(Validator), powers: Seq(Nat),
                    rewardAmount: Nat, rewardToken: Token \cup {NoAddress}]
         /\ vs.members \in Seq(Validator) /\ DOMAIN vs.members = 1..Len(vs.members)
         /\ vs.powers \in Seq(Nat) /\ DOMAIN vs.powers = 1..Len(vs.powers)
         /\ Len(vs.members) \in Nat /\ Len(vs.powers) \in Nat
         /\ vs.nonce \in Nat
BY ValsetAssumption

\* The log is left alone, or one event is added to it: that of a set Injective
\* created, newer than the installed one, or one that is of no set.
LogGrows ==
  \/ /\ UNCHANGED <<events, state_lastValsetNonce>>
     /\ height' \in Nat /\ height <= height'
  \/ /\ height' = height
     /\ \E type, data :
          /\ Emit(type, data)
          /\ IF type = "ValsetUpdated"
             THEN \E n \in 1..valsets : /\ data = IV[n]
                                        /\ Len(IV[n].members) = Len(IV[n].powers)
                                        /\ n > state_lastValsetNonce
                                        /\ state_lastValsetNonce' = n
             ELSE UNCHANGED state_lastValsetNonce

\* Repacked confirmations are an array of signatures a caller can pass.
LEMMA RepackType ==
  ASSUME NEW current \in Valset, NEW confirms, NEW hash
  PROVE  Repack(current, confirms, hash) \in SigArrays(current, hash)
<1>1. /\ DOMAIN current.members = 1..Len(current.members)
      /\ \A i \in DOMAIN current.members : current.members[i] \in Validator
  BY ValsetType
<1> QED
  BY <1>1 DEF Repack, SigArrays

\* The set whose checkpoint is stored has the stored nonce.
LEMMA InstalledNonce ==
  ASSUME ContractInv, NEW current \in Valset,
         makeCheckpoint(current) = state_lastValsetCheckpoint
  PROVE  current.nonce = state_lastValsetNonce
<1>1. PICK i \in 1..Len(events) :
        IsValsetEvent(i) /\ events[i].data.nonce = state_lastValsetNonce
  BY DEF ContractInv, CurrentValsetInLog
<1>2. makeCheckpoint(events[i].data) = makeCheckpoint(current)
  BY <1>1 DEF ContractInv, CurrentValsetInLog
<1>3. events[i].data = current
  BY <1>2 DEF makeCheckpoint
<1> QED
  BY <1>1, <1>3

\* A submitted call that succeeds is a step of the contract.
LEMMA ExecuteIsContractStep ==
  ASSUME ContractInv, TasksInv, NEW call, Submitted(call), Execute(call)
  PROVE  Next /\ LogGrows
<1>1. PICK current \in Valset, confirms \in SUBSET Validator :
        \/ \E n \in 1..valsets : call = valsetUpdate(current, IV[n], confirms)
        \/ \E n \in 1..batches : call = transactionBatch(current, IB[n], confirms)
  BY DEF Submitted
<1>2. CASE \E n \in 1..valsets : call = valsetUpdate(current, IV[n], confirms)
  <2>1. PICK n \in 1..valsets : call = valsetUpdate(current, IV[n], confirms)
    BY <1>2
  <2>2. n \in DOMAIN IV /\ IV[n] \in Valset /\ IV[n].nonce = n
    BY Created, Zenon
  <2> DEFINE sigs == Repack(current, confirms, EncodeValsetConfirm(IV[n]))
  <2>3. updateValset(IV[n], current, sigs)
    BY <2>1 DEF Execute, valsetUpdate
  <2>4. sigs \in SigArrays(current, makeCheckpoint(IV[n]))
    BY RepackType DEF EncodeValsetConfirm, makeCheckpoint
  <2> HIDE DEF sigs
  <2>5. Next
    BY <2>2, <2>3, <2>4, Zenon DEF Next
  <2>6. /\ Emit("ValsetUpdated", IV[n]) /\ height' = height
        /\ Len(IV[n].members) = Len(IV[n].powers)
        /\ n > current.nonce /\ state_lastValsetNonce' = n
        /\ makeCheckpoint(current) = state_lastValsetCheckpoint
    BY <2>2, <2>3 DEF updateValset, updateValsetRequires, nonceAdvances, validateValidatorSet
  <2>7. n > state_lastValsetNonce
    BY <2>6, InstalledNonce
  <2> QED
    BY <2>5, <2>6, <2>7 DEF LogGrows
<1>3. CASE \E n \in 1..batches : call = transactionBatch(current, IB[n], confirms)
  <2>1. PICK n \in 1..batches : call = transactionBatch(current, IB[n], confirms)
    BY <1>3
  <2>2. IB[n] \in Batch
    BY Created, Zenon
  <2> DEFINE sigs == Repack(current, confirms, EncodeTxBatchConfirm(IB[n]))
  <2>3. submitBatch(current, sigs, IB[n])
    BY <2>1 DEF Execute, transactionBatch
  <2>4. sigs \in SigArrays(current, batchHash(IB[n]))
    BY RepackType DEF EncodeTxBatchConfirm, batchHash
  <2> HIDE DEF sigs
  <2>5. Next
    BY <2>2, <2>3, <2>4 DEF Next
  <2>6. /\ Emit("BatchExecuted", IB[n]) /\ height' = height
        /\ UNCHANGED state_lastValsetNonce
    BY <2>3 DEF submitBatch, valsetVars
  <2> QED
    BY <2>5, <2>6 DEF LogGrows
<1> QED
  BY <1>1, <1>2, <1>3

\* What another relayer has included is a call a relayer can make.
LEMMA OtherRelayerSubmits ==
  ASSUME TasksInv, BatchInv, OtherRelayer
  PROVE  \E call : Submitted(call) /\ Execute(call)
<1>1. PICK current \in Valset :
        \/ \E n \in 1..valsets : Execute(valsetUpdate(current, IV[n], valsetConfirms[n]))
        \/ \E n \in outgoing : Execute(transactionBatch(current, IB[n], batchConfirms[n]))
  BY DEF OtherRelayer, IV, IB
<1>2. \A n \in 1..valsets : valsetConfirms[n] \in SUBSET Validator
  BY Created, Zenon
<1>3. \A n \in outgoing : n \in 1..batches /\ batchConfirms[n] \in SUBSET Validator
  <2>1. outgoing \subseteq 1..batches
    BY DEF BatchInv, BatchTypes
  <2> QED
    BY <2>1, Created, Zenon
<1> QED
  BY <1>1, <1>2, <1>3, Zenon DEF Submitted

EthereumStep == SealBlock \/ Mine \/ DeployToken \/ OtherRelayer

relayerOnly == <<pc, header, cosmosValset, ethValset, alarm, valsetTask, batchTask, faults>>

\* What happens on Ethereum is a step of the contract and is nobody else's step.
LEMMA EthereumSteps ==
  ASSUME ContractInv, TasksInv, BatchInv, EthereumStep
  PROVE  /\ [Next]_vars
         /\ LogGrows
         /\ height' <= MaxHeight
         /\ mempool' \subseteq mempool
         /\ UNCHANGED <<injectiveVars, relayerOnly>>
<1> USE DEF relayVars, searchVars, relayerOnly
<1>0. /\ height \in Nat /\ height <= MaxHeight /\ MaxHeight \in Nat
      /\ batches \in 0..Len(IB) /\ outgoing \subseteq 1..batches
  BY BoundAssumption DEF ContractInv, TypeOK, TasksInv, BatchInv, BatchTypes
<1>1. UNCHANGED vars => LogGrows /\ height' = height
  BY <1>0, StutterFrame DEF LogGrows
<1>3. CASE SealBlock
  <2>1. NextBlock
    BY <1>3 DEF SealBlock
  <2>2. height < MaxHeight
    BY <2>1 DEF NextBlock
  <2>3. Next /\ LogGrows /\ height' <= MaxHeight
    BY <1>0, <2>1, <2>2, NextBlockFrame DEF Next, LogGrows
  <2> QED
    BY <1>3, <2>3 DEF SealBlock
<1>4. CASE Mine
  <2>1. PICK call \in mempool : Include(call)
    BY <1>4 DEF Mine
  <2>2. Submitted(call)
    BY DEF TasksInv
  <2>3. CASE Execute(call)
    <3>1. Next /\ LogGrows
      BY <2>2, <2>3, ExecuteIsContractStep
    <3>2. height' = height
      BY <2>3, ExecuteKeepsHeight
    <3> QED
      BY <1>0, <2>1, <3>1, <3>2 DEF Include
  <2>4. CASE UNCHANGED vars
    BY <1>0, <1>1, <2>1, <2>4 DEF Include
  <2> QED
    BY <2>1, <2>3, <2>4 DEF Include
<1>5. CASE DeployToken
  <2>1. PICK t \in CosmosERC20 : deployERC20(t)
    BY <1>5 DEF DeployToken
  <2>2. Next
    BY <2>1 DEF Next
  <2>3. /\ Emit("ERC20Deployed", t) /\ height' = height /\ UNCHANGED state_lastValsetNonce
    BY <2>1 DEF deployERC20, valsetVars
  <2>4. LogGrows
    BY <2>3 DEF LogGrows
  <2> QED
    BY <1>0, <1>5, <2>2, <2>3, <2>4 DEF DeployToken
<1>6. CASE OtherRelayer
  <2>1. PICK call : Submitted(call) /\ Execute(call)
    BY <1>6, OtherRelayerSubmits
  <2>2. Next /\ LogGrows /\ height' = height
    BY <2>1, ExecuteIsContractStep, ExecuteKeepsHeight
  <2> QED
    BY <1>0, <1>6, <2>2 DEF OtherRelayer
<1> QED
  BY <1>3, <1>4, <1>5, <1>6 DEF EthereumStep

\* The event that is added stands at the end and is in the block being built,
\* which no search has looked at yet.
LEMMA GrownLog ==
  ASSUME ContractInv, NEW type, NEW data, Emit(type, data)
  PROVE  /\ Len(events) \in Nat /\ Len(events') = Len(events) + 1
         /\ \A i \in 1..Len(events) : events'[i] = events[i]
         /\ \A i \in 1..Len(events') : i \in 1..Len(events) \/ i = Len(events')
         /\ events'[Len(events')].type = type
         /\ events'[Len(events')].height = height
         /\ events'[Len(events')].data = data
BY EmitAppends DEF ContractInv

\* The sets of the log stay Injective's, in the order of their nonces.
LEMMA EthereumKeepsLogInv ==
  ASSUME ContractInv, TasksInv, LogInv, LogGrows, valsets' = valsets
  PROVE  LogInv'
<1>1. CASE UNCHANGED <<events, state_lastValsetNonce>>
  BY <1>1 DEF LogInv, IsValsetEvent
<1>2. CASE \E type, data :
             /\ Emit(type, data)
             /\ IF type = "ValsetUpdated"
                THEN \E n \in 1..valsets : /\ data = IV[n]
                                           /\ Len(IV[n].members) = Len(IV[n].powers)
                                           /\ n > state_lastValsetNonce
                                           /\ state_lastValsetNonce' = n
                ELSE UNCHANGED state_lastValsetNonce
  <2>1. PICK type, data :
          /\ Emit(type, data)
          /\ type = "ValsetUpdated" =>
               \E n \in 1..valsets : /\ data = IV[n]
                                     /\ Len(IV[n].members) = Len(IV[n].powers)
                                     /\ n > state_lastValsetNonce
    BY <1>2
  <2> DEFINE new == Len(events')
  <2>2. /\ Len(events) \in Nat /\ new = Len(events) + 1
        /\ \A i \in 1..Len(events) : events'[i] = events[i]
        /\ \A i \in 1..new : i \in 1..Len(events) \/ i = new
        /\ events'[new].type = type
        /\ events'[new].data = data
    BY <2>1, GrownLog
  <2> HIDE DEF new
  <2>3. \A i \in 1..new : (IsValsetEvent(i))' <=>
          \/ i \in 1..Len(events) /\ IsValsetEvent(i)
          \/ i = new /\ type = "ValsetUpdated"
    BY <2>2 DEF IsValsetEvent, new
  <2>4. \A i \in 1..Len(events) : IsValsetEvent(i) => events[i].data.nonce <= state_lastValsetNonce
    BY DEF ContractInv, CurrentValsetInLog
  <2>5. \A i \in 1..Len(events) : IsValsetEvent(i) => events[i].data.nonce \in Nat
    BY EventType, ValsetType DEF ContractInv, IsValsetEvent
  <2>6. /\ type = "ValsetUpdated" =>
             /\ Len(data.members) = Len(data.powers)
             /\ data.nonce \in 1..valsets /\ data = IV[data.nonce]
             /\ data.nonce > state_lastValsetNonce
        /\ state_lastValsetNonce \in Nat
    <3>1. \A n \in 1..valsets : IV[n].nonce = n
      BY Created, Zenon
    <3> QED
      BY <2>1, <3>1 DEF ContractInv, TypeOK
  <2>7. ASSUME NEW i \in 1..new, (IsValsetEvent(i))'
        PROVE  /\ Len(events'[i].data.members) = Len(events'[i].data.powers)
               /\ events'[i].data.nonce # 0 =>
                    events'[i].data.nonce \in 1..valsets /\ events'[i].data = IV[events'[i].data.nonce]
    <3>1. CASE i \in 1..Len(events) /\ IsValsetEvent(i)
      BY <2>2, <3>1 DEF LogInv
    <3>2. CASE i = new /\ type = "ValsetUpdated"
      BY <2>2, <2>6, <3>2
    <3> QED
      BY <2>3, <2>7, <3>1, <3>2
  <2>8. ASSUME NEW i \in 1..new, NEW j \in 1..new, (IsValsetEvent(i))', (IsValsetEvent(j))', i < j
        PROVE  events'[i].data.nonce < events'[j].data.nonce
    <3>1. i \in 1..Len(events) /\ IsValsetEvent(i) /\ events'[i] = events[i]
      BY <2>2, <2>3, <2>8
    <3>2. CASE j \in 1..Len(events)
      BY <2>2, <2>3, <2>8, <3>1, <3>2 DEF LogInv
    <3>3. CASE j = new
      <4>1. type = "ValsetUpdated" /\ events'[j].data = data
        BY <2>2, <2>3, <2>8, <3>3
      <4>2. data.nonce \in Nat
        BY <2>6, <4>1
      <4> QED
        BY <2>4, <2>5, <2>6, <3>1, <4>1, <4>2
    <3> QED
      BY <2>2, <3>2, <3>3
  <2> QED
    BY <2>7, <2>8 DEF LogInv, new
<1> QED
  BY <1>1, <1>2 DEF LogGrows

\* What a search has seen stays as it is, and the installed set only gets newer.
LEMMA EthereumKeepsSearchInv ==
  ASSUME ContractInv, TasksInv, LogInv, SearchInv, LogGrows,
         UNCHANGED <<valsets, relayerOnly>>
  PROVE  SearchInv'
<1>0. /\ height \in Nat /\ header \in Nat /\ state_lastValsetNonce \in Nat
      /\ height' \in Nat /\ height' >= height
      /\ state_lastValsetNonce' \in Nat /\ state_lastValsetNonce' >= state_lastValsetNonce
  <2>1. height \in Nat /\ state_lastValsetNonce \in Nat
    BY Zenon DEF ContractInv, TypeOK
  <2>2. header \in Nat /\ valsets \in Nat
    BY Created, Zenon
  <2>3. height' = height \/ (height' \in Nat /\ height <= height')
    BY DEF LogGrows
  <2>4. \/ state_lastValsetNonce' = state_lastValsetNonce
        \/ \E n \in 1..valsets : n > state_lastValsetNonce /\ state_lastValsetNonce' = n
    BY Zenon DEF LogGrows
  <2>5. height' \in Nat /\ height' >= height
    BY <2>1, <2>3
  <2>6. state_lastValsetNonce' \in Nat /\ state_lastValsetNonce' >= state_lastValsetNonce
    BY <2>1, <2>2, <2>4
  <2> QED
    BY <2>1, <2>2, <2>5, <2>6
<1>1. UNCHANGED <<pc, header, cosmosValset, ethValset, alarm, valsets>>
  BY DEF relayerOnly
<1>2. CASE pc = "idle"
  BY <1>1, <1>2 DEF SearchInv, RelayerHoldsInstalledSet, AlarmOnlyInRace
<1>3. CASE pc # "idle"
  <2>1. header < height /\ header' < height'
    BY <1>0, <1>1, <1>3 DEF SearchInv
  <2>2. /\ DOMAIN events = 1..Len(events) /\ DOMAIN events' = 1..Len(events')
        /\ \A i \in 1..Len(events) : /\ i \in 1..Len(events') /\ events'[i] = events[i]
                                     /\ (IsValsetEvent(i))' = IsValsetEvent(i)
                                     /\ Seen(i)' = Seen(i)
        /\ \A i \in 1..Len(events') : i \in 1..Len(events) \/ events'[i].height > header
    <3>1. CASE UNCHANGED <<events, state_lastValsetNonce>>
      BY <1>1, <3>1 DEF ContractInv, TypeOK, IsValsetEvent, Seen
    <3>2. CASE \E type, data : Emit(type, data)
      <4>1. PICK type, data : Emit(type, data)
        BY <3>2
      <4>2. /\ Len(events) \in Nat /\ Len(events') = Len(events) + 1
            /\ \A i \in 1..Len(events) : events'[i] = events[i]
            /\ \A i \in 1..Len(events') : i \in 1..Len(events) \/ i = Len(events')
            /\ events'[Len(events')].height = height
        BY <4>1, GrownLog
      <4>3. DOMAIN events = 1..Len(events) /\ DOMAIN events' = 1..Len(events')
        BY <4>1 DEF ContractInv, TypeOK, Emit
      <4>4. \A i \in 1..Len(events) : /\ i \in 1..Len(events')
                                      /\ (IsValsetEvent(i))' = IsValsetEvent(i)
                                      /\ Seen(i)' = Seen(i)
        BY <1>1, <4>2 DEF IsValsetEvent, Seen
      <4> QED
        BY <2>1, <4>2, <4>3, <4>4
    <3> QED
      BY <3>1, <3>2 DEF LogGrows
  <2>3. pc = "nonce" => NonceRead'
    <3> SUFFICES ASSUME pc = "nonce" PROVE NonceRead'
      OBVIOUS
    <3>1. NonceRead
      BY DEF SearchInv
    <3>2. \A i \in 1..Len(events') : Seen(i)' => i \in 1..Len(events) /\ Seen(i) /\ events'[i] = events[i]
      <4> SUFFICES ASSUME NEW i \in 1..Len(events'), Seen(i)' PROVE i \in 1..Len(events)
        BY <2>2
      <4>1. events'[i].height <= header
        BY <1>1 DEF Seen
      <4>2. i \notin 1..Len(events) => events'[i].height = height
        <5>1. CASE UNCHANGED <<events, state_lastValsetNonce>>
          BY <5>1
        <5>2. CASE \E type, data : Emit(type, data)
          BY <5>2, GrownLog
        <5> QED
          BY <5>1, <5>2 DEF LogGrows
      <4> QED
        BY <1>0, <2>1, <4>1, <4>2
    <3>3. CASE cosmosValset = NoValset /\ \A i \in 1..Len(events) : Seen(i) => events[i].data.nonce = 0
      BY <1>1, <3>2, <3>3 DEF NonceRead
    <3>4. CASE \E k \in 1..valsets :
                 /\ cosmosValset = IV[k]
                 /\ k <= state_lastValsetNonce
                 /\ \A i \in 1..Len(events) : Seen(i) => events[i].data.nonce <= k
      <4>1. PICK k \in 1..valsets :
                 /\ cosmosValset = IV[k]
                 /\ k <= state_lastValsetNonce
                 /\ \A i \in 1..Len(events) : Seen(i) => events[i].data.nonce <= k
        BY <3>4
      <4>2. k \in 1..valsets' /\ cosmosValset' = IV[k] /\ k <= state_lastValsetNonce'
        BY <1>0, <1>1, <4>1
      <4>3. \A i \in 1..Len(events') : Seen(i)' => events'[i].data.nonce <= k
        BY <3>2, <4>1
      <4> QED
        BY <4>2, <4>3 DEF NonceRead
    <3> QED
      BY <3>1, <3>3, <3>4 DEF NonceRead
  <2>4. RelayerHoldsInstalledSet'
    <3> SUFFICES ASSUME pc = "relay" PROVE RelayerHoldsInstalledSet'
      BY <1>1 DEF RelayerHoldsInstalledSet
    <3>1. PICK i \in DOMAIN events :
            /\ IsValsetEvent(i)
            /\ events[i].height <= header
            /\ events[i].data = ethValset
            /\ \A j \in DOMAIN events : IsValsetEvent(j) /\ j > i => events[j].height > header
      BY DEF SearchInv, RelayerHoldsInstalledSet
    <3>2. /\ i \in DOMAIN events' /\ (IsValsetEvent(i))'
          /\ events'[i].height <= header' /\ events'[i].data = ethValset'
      BY <1>1, <2>2, <3>1
    <3>3. ASSUME NEW j \in DOMAIN events', (IsValsetEvent(j))', j > i
          PROVE  events'[j].height > header'
      BY <1>1, <2>2, <3>1, <3>3
    <3> QED
      BY <3>2, <3>3 DEF RelayerHoldsInstalledSet
  <2>5. AlarmOnlyInRace'
    <3> SUFFICES ASSUME pc = "relay", alarm PROVE state_lastValsetNonce' > ethValset.nonce
      BY <1>1 DEF AlarmOnlyInRace
    <3>1. ethValset.nonce \in Nat
      BY ValsetType DEF TasksInv
    <3> QED
      BY <1>0, <3>1 DEF SearchInv, AlarmOnlyInRace
  <2> QED
    BY <1>1, <2>1, <2>3, <2>4, <2>5 DEF SearchInv
<1> QED
  BY <1>2, <1>3

\* A step of the contract keeps what is proved of the contract.
LEMMA ContractStep ==
  ASSUME ContractInv, [Next]_vars
  PROVE  ContractInv'
BY TypeStep, LogStep, CurrentValsetStep DEF ContractInv

\* The invariant is kept by what happens on Ethereum.
LEMMA EthereumKeeps ==
  ASSUME RelayInv, BatchInv, EthereumStep
  PROVE  RelayInv'
<1>1. ContractInv /\ TasksInv /\ LogInv /\ SearchInv
  BY DEF RelayInv
<1>2. /\ [Next]_vars /\ LogGrows /\ height' <= MaxHeight /\ mempool' \subseteq mempool
      /\ UNCHANGED <<injectiveVars, relayerOnly>>
  BY <1>1, EthereumSteps
<1>3. /\ UNCHANGED <<valsets, batches, outgoing, valsetConfirms, batchConfirms>>
      /\ UNCHANGED <<pc, header, cosmosValset, ethValset, alarm, valsetTask, batchTask, faults>>
  BY <1>2 DEF injectiveVars, relayerOnly
<1>4. ContractInv'
  BY <1>1, <1>2, ContractStep
<1>5. LogInv'
  BY <1>1, <1>2, <1>3, EthereumKeepsLogInv
<1>6. SearchInv'
  BY <1>1, <1>2, <1>3, EthereumKeepsSearchInv, Zenon
<1>7. TasksInv'
  <2>1. RelayerTypeOK'
    BY <1>1, <1>2, <1>3, Zenon DEF TasksInv, RelayerTypeOK
  <2>2. \A call \in mempool' : Submitted(call)'
    <3>1. ASSUME NEW call, Submitted(call) PROVE Submitted(call)'
      BY <1>3, <3>1 DEF Submitted
    <3> QED
      BY <1>1, <1>2, <3>1, SMTT(20) DEF TasksInv
  <2> QED
    BY <1>1, <1>2, <1>3, <2>1, <2>2 DEF TasksInv, SendsConfirmed
<1> QED
  BY <1>4, <1>5, <1>6, <1>7 DEF RelayInv

-----------------------------------------------------------------------------
(* Injective.                                                              *)

InjectiveStep ==
  \/ CreateValset \/ requestTokenBatch \/ Attest
  \/ \E v \in Validator : signValidatorSets(v) \/ signNewBatch(v)

\* Injective only adds sets, batches and confirmations, and touches nothing else.
LEMMA InjectiveSteps ==
  ASSUME TasksInv, BatchInv, InjectiveStep
  PROVE  /\ UNCHANGED <<vars, relayVars>>
         /\ valsets \in Nat /\ batches \in Nat
         /\ valsets' \in 0..Len(IV) /\ valsets <= valsets'
         /\ batches' \in Nat /\ batches <= batches'
         /\ valsetConfirms' \in [DOMAIN IV -> SUBSET Validator]
         /\ \A n \in 1..valsets : valsetConfirms[n] \subseteq valsetConfirms'[n]
         /\ \A n \in 1..batches : batchConfirms[n] \subseteq batchConfirms'[n]
<1>0. /\ valsets \in 0..Len(IV) /\ batches \in 0..Len(IB)
      /\ valsetConfirms \in [DOMAIN IV -> SUBSET Validator]
      /\ Len(IV) \in Nat /\ Len(IB) \in Nat
      /\ batchConfirms \in [DOMAIN IB -> SUBSET Validator]
      /\ 1..valsets \subseteq DOMAIN IV /\ 1..batches \subseteq DOMAIN IB
  <2>1. /\ valsets \in 0..Len(IV) /\ batches \in 0..Len(IB)
        /\ valsetConfirms \in [DOMAIN IV -> SUBSET Validator]
        /\ batchConfirms \in [DOMAIN IB -> SUBSET Validator]
    BY Zenon DEF TasksInv, RelayerTypeOK, IV, IB
  <2>2. /\ Len(IV) \in Nat /\ DOMAIN IV = 1..Len(IV)
        /\ Len(IB) \in Nat /\ DOMAIN IB = 1..Len(IB)
    BY ValsetFacts, BatchFacts, Zenon
  <2>3. 1..valsets \subseteq DOMAIN IV /\ 1..batches \subseteq DOMAIN IB
    BY <2>1, <2>2
  <2> QED
    BY <2>1, <2>2, <2>3
<1>1. CASE CreateValset
  BY <1>0, <1>1 DEF CreateValset, IV
<1>2. CASE requestTokenBatch
  BY <1>0, <1>2 DEF requestTokenBatch
<1>3. CASE Attest
  BY <1>0, <1>3 DEF Attest
<1>4. ASSUME NEW v \in Validator, signValidatorSets(v)
      PROVE  /\ UNCHANGED <<vars, relayVars, valsets, batches, batchConfirms>>
             /\ valsetConfirms' \in [DOMAIN IV -> SUBSET Validator]
             /\ \A n \in DOMAIN IV : valsetConfirms[n] \subseteq valsetConfirms'[n]
  <2>1. PICK n \in 1..valsets :
          /\ valsetConfirms' = [valsetConfirms EXCEPT ![n] = @ \cup {v}]
          /\ UNCHANGED <<vars, relayVars, valsets, batches, batchConfirms>>
    BY <1>4, Zenon DEF signValidatorSets, OldestUnsigned
  <2> QED
    BY <1>0, <2>1
<1>5. ASSUME NEW v \in Validator, signNewBatch(v)
      PROVE  /\ UNCHANGED <<vars, relayVars, valsets, batches, valsetConfirms>>
             /\ \A n \in DOMAIN IB : batchConfirms[n] \subseteq batchConfirms'[n]
  <2>1. PICK n \in outgoing :
          /\ batchConfirms' = [batchConfirms EXCEPT ![n] = @ \cup {v}]
          /\ UNCHANGED <<vars, relayVars, valsets, batches, valsetConfirms>>
    BY <1>5, Zenon DEF signNewBatch, OldestUnsigned
  <2> QED
    BY <1>0, <2>1
<1>6. CASE \E v \in Validator : signValidatorSets(v) \/ signNewBatch(v)
  BY <1>0, <1>4, <1>5, <1>6
<1> QED
  BY <1>1, <1>2, <1>3, <1>6 DEF InjectiveStep

\* The invariant is kept by Injective, its signers and its batch creators.
LEMMA InjectiveKeeps ==
  ASSUME RelayInv, BatchInv, BatchInv', InjectiveStep
  PROVE  RelayInv'
<1>1. ContractInv /\ TasksInv /\ LogInv /\ SearchInv
  BY DEF RelayInv
<1>2. /\ UNCHANGED <<vars, relayVars>>
      /\ valsets \in Nat /\ batches \in Nat
      /\ valsets' \in 0..Len(IV) /\ valsets <= valsets'
      /\ batches' \in Nat /\ batches <= batches'
      /\ valsetConfirms' \in [DOMAIN IV -> SUBSET Validator]
      /\ \A n \in 1..valsets : valsetConfirms[n] \subseteq valsetConfirms'[n]
      /\ \A n \in 1..batches : batchConfirms[n] \subseteq batchConfirms'[n]
      /\ Len(IV) \in Nat
  BY <1>1, InjectiveSteps, ValsetFacts
<1>3. 1..valsets \subseteq 1..valsets' /\ 1..batches \subseteq 1..batches'
  BY <1>2
<1>4. UNCHANGED <<pc, header, cosmosValset, ethValset, alarm, valsetTask, batchTask, mempool, faults>>
  BY <1>2 DEF relayVars, searchVars
<1>5. UNCHANGED <<events, height, state_lastValsetNonce, state_lastValsetCheckpoint>>
  BY <1>2 DEF vars, logVars, valsetVars
<1>6. ContractInv'
  BY <1>1, <1>2, ContractStep
<1>7. LogInv'
  BY <1>1, <1>3, <1>5 DEF LogInv, IsValsetEvent
<1>8. SearchInv'
  <2>1. RelayerHoldsInstalledSet' /\ AlarmOnlyInRace'
    BY <1>1, <1>4, <1>5 DEF SearchInv, RelayerHoldsInstalledSet, AlarmOnlyInRace, IsValsetEvent
  <2>2. NonceRead => NonceRead'
    BY <1>3, <1>4, <1>5 DEF NonceRead, Seen, IsValsetEvent
  <2> QED
    BY <1>1, <1>4, <1>5, <2>1, <2>2 DEF SearchInv
<1>9. TasksInv'
  <2>1. /\ batches' \in 0..Len(InjectiveBatches) /\ outgoing' \subseteq 1..batches'
        /\ batchConfirms' \in [DOMAIN InjectiveBatches -> SUBSET Validator]
    BY DEF BatchInv, BatchTypes, IB
  <2>2. RelayerTypeOK'
    BY <1>1, <1>2, <1>4, <2>1, Zenon DEF TasksInv, RelayerTypeOK, IV
  <2>3. ASSUME NEW call, Submitted(call) PROVE Submitted(call)'
    BY <1>2, <1>3, <2>3, Zenon DEF Submitted
  <2>4. /\ SendsConfirmed(valsetTask, valsets, valsetConfirms)'
        /\ SendsConfirmed(batchTask, batches, batchConfirms)'
    BY <1>1, <1>2, <1>3, <1>4, Zenon DEF TasksInv, SendsConfirmed
  <2> QED
    BY <1>1, <1>4, <1>5, <2>2, <2>3, <2>4 DEF TasksInv
<1> QED
  BY <1>6, <1>7, <1>8, <1>9 DEF RelayInv

-----------------------------------------------------------------------------
(* relay: the search for the installed set.                                *)

\* A step of the relayer alone leaves the contract and Injective as they are.
LEMMA RelayerAlone ==
  ASSUME RelayInv, UNCHANGED <<vars, injectiveVars>>
  PROVE  /\ ContractInv' /\ LogInv'
         /\ UNCHANGED <<events, height, state_lastValsetNonce>>
         /\ UNCHANGED <<valsets, batches, outgoing, valsetConfirms, batchConfirms>>
         /\ \A call : Submitted(call)' <=> Submitted(call)
<1>1. UNCHANGED <<events, height, state_lastValsetNonce>>
  BY DEF vars, logVars, valsetVars
<1>2. UNCHANGED <<valsets, batches, outgoing, valsetConfirms, batchConfirms>>
  BY DEF injectiveVars
<1>3. ContractInv'
  BY ContractStep DEF RelayInv
<1>4. LogInv'
  BY <1>1, <1>2 DEF RelayInv, LogInv, IsValsetEvent
<1> QED
  BY <1>1, <1>2, <1>3, <1>4, Zenon DEF Submitted

\* The header that is read is that of the block before the one being built.
LEMMA ReadHeaderKeeps ==
  ASSUME RelayInv, ReadHeader
  PROVE  RelayInv'
<1>1. UNCHANGED <<vars, injectiveVars>>
  BY DEF ReadHeader
<1>2. /\ pc = "idle" /\ pc' = "header" /\ header' = height - 1
      /\ UNCHANGED <<cosmosValset, ethValset, alarm, valsetTask, batchTask, mempool, faults>>
  BY DEF ReadHeader
<1>3. /\ ContractInv' /\ LogInv'
      /\ UNCHANGED <<events, height, state_lastValsetNonce>>
      /\ UNCHANGED <<valsets, batches, outgoing, valsetConfirms, batchConfirms>>
      /\ \A call : Submitted(call)' <=> Submitted(call)
  BY <1>1, RelayerAlone
<1>4. height \in Nat /\ MaxHeight \in Nat /\ height <= MaxHeight /\ height > 0
  <2>1. Len(events) \in 1..Len(events)
    BY DEF RelayInv, ContractInv, TypeOK, CurrentValsetInLog
  <2>2. events[Len(events)].height \in Nat
    BY <2>1, EventType DEF RelayInv, ContractInv
  <2>3. events[Len(events)].height < height
    BY DEF ReadHeader, Sealed
  <2> QED
    BY <2>2, <2>3, BoundAssumption DEF RelayInv, ContractInv, TypeOK, TasksInv
<1>5. header' \in 0..MaxHeight /\ header' < height'
  BY <1>2, <1>3, <1>4
<1>6. TasksInv'
  BY <1>2, <1>3, <1>5, Zenon DEF RelayInv, TasksInv, RelayerTypeOK, SendsConfirmed
<1>7. SearchInv'
  BY <1>2, <1>5 DEF SearchInv, RelayerHoldsInstalledSet, AlarmOnlyInRace
<1> QED
  BY <1>3, <1>6, <1>7 DEF RelayInv

\* The nonce that is read is that of the newest set of the log, which Injective
\* knows unless the contract still has its first set.
LEMMA ReadNonceKeeps ==
  ASSUME RelayInv, ReadNonce
  PROVE  RelayInv'
<1>1. UNCHANGED <<vars, injectiveVars>>
  BY DEF ReadNonce
<1>2. /\ pc = "header" /\ pc' = "nonce" /\ cosmosValset' = ValsetAt(state_lastValsetNonce)
      /\ UNCHANGED <<header, ethValset, alarm, valsetTask, batchTask, mempool, faults>>
  BY DEF ReadNonce
<1>3. /\ ContractInv' /\ LogInv'
      /\ UNCHANGED <<events, height, state_lastValsetNonce>>
      /\ UNCHANGED <<valsets, batches, outgoing, valsetConfirms, batchConfirms>>
      /\ \A call : Submitted(call)' <=> Submitted(call)
  BY <1>1, RelayerAlone
<1>4. ContractInv /\ TasksInv /\ LogInv /\ SearchInv
  BY DEF RelayInv
<1> DEFINE k == state_lastValsetNonce
<1>5. /\ k \in Nat
      /\ \A i \in 1..Len(events) : IsValsetEvent(i) => events[i].data.nonce <= k /\ events[i].data.nonce \in Nat
    <2>1. \A i \in 1..Len(events) : IsValsetEvent(i) => events[i].data.nonce \in Nat
      BY <1>4, EventType, ValsetType, Zenon DEF ContractInv, IsValsetEvent
    <2> QED
      BY <1>4, <2>1 DEF ContractInv, TypeOK, CurrentValsetInLog
<1>6. k = 0 \/ k \in 1..valsets
  <2>1. PICK i \in 1..Len(events) : IsValsetEvent(i) /\ events[i].data.nonce = k
    BY <1>4 DEF ContractInv, CurrentValsetInLog
  <2> QED
    BY <1>4, <2>1 DEF LogInv
<1>7. \A i \in 1..Len(events) : Seen(i)' <=> Seen(i)
  BY <1>2, <1>3 DEF Seen, IsValsetEvent
<1>8. NonceRead'
  <2>1. CASE k = 0
    <3>1. cosmosValset' = NoValset
      BY <1>2, <2>1 DEF ValsetAt
    <3>2. \A i \in 1..Len(events) : Seen(i) => events[i].data.nonce = 0
      BY <1>5, <2>1 DEF Seen
    <3> QED
      BY <1>3, <1>7, <3>1, <3>2, Zenon DEF NonceRead
  <2>2. CASE k \in 1..valsets
    <3>1. cosmosValset' = IV[k]
      BY <1>2, <2>2 DEF ValsetAt, IV
    <3>2. \A i \in 1..Len(events) : Seen(i) => events[i].data.nonce <= k
      BY <1>5 DEF Seen
    <3>3. k <= state_lastValsetNonce'
      BY <1>3, <1>5
    <3> HIDE DEF k
    <3> QED
      BY <1>3, <1>7, <2>2, <3>1, <3>2, <3>3 DEF NonceRead
  <2> QED
    BY <1>6, <2>1, <2>2
<1>9. cosmosValset' \in Valset \cup {NoValset}
  <2>1. \A n \in 1..valsets : IV[n] \in Valset
    BY <1>4, Created, Zenon
  <2> QED
    BY <1>2, <2>1 DEF ValsetAt, IV
<1>10. TasksInv'
  BY <1>2, <1>3, <1>4, <1>9, Zenon DEF TasksInv, RelayerTypeOK, SendsConfirmed
<1>11. SearchInv'
  BY <1>2, <1>3, <1>4, <1>8, Zenon DEF SearchInv, RelayerHoldsInstalledSet, AlarmOnlyInRace
<1> QED
  BY <1>3, <1>10, <1>11 DEF RelayInv

\* The task of a goroutine that has just been started, has ended or has failed.
LEMMA TaskTypes ==
  /\ Ended \in Task /\ Started \in Task /\ Failed \in Task
  /\ Ended.pc = "ended" /\ Started.pc = "choose" /\ Failed.pc = "failed"
  /\ \A a \in 0..(maxAttempts - 1) :
       [Started EXCEPT !.attempts = a] \in Task /\ [Started EXCEPT !.attempts = a].pc = "choose"
<1>1. maxAttempts \in Nat \ {0}
  BY RelayerAssumption
<1>2. 0 \in 0..(maxAttempts - 1)
  BY <1>1
<1> QED
  BY <1>2, Zenon DEF Ended, Started, Failed, Task

\* A search that fails and a round that is over leave nothing behind.
LEMMA ForgetKeeps ==
  ASSUME RelayInv, Forget, faults' \in 0..MaxFaults
  PROVE  RelayInv'
<1>1. UNCHANGED <<vars, injectiveVars>>
  BY DEF Forget
<1>2. /\ pc' = "idle" /\ header' = 0 /\ cosmosValset' = NoValset /\ ethValset' = NoValset
      /\ valsetTask' = Ended /\ batchTask' = Ended
      /\ UNCHANGED <<alarm, mempool>>
  BY DEF Forget
<1>3. /\ ContractInv' /\ LogInv'
      /\ UNCHANGED <<events, height, state_lastValsetNonce>>
      /\ UNCHANGED <<valsets, batches, outgoing, valsetConfirms, batchConfirms>>
      /\ \A call : Submitted(call)' <=> Submitted(call)
  BY <1>1, RelayerAlone
<1>4. header' \in 0..MaxHeight
  BY <1>2, BoundAssumption
<1>5. TasksInv'
  BY <1>2, <1>3, <1>4, TaskTypes DEF RelayInv, TasksInv, RelayerTypeOK, SendsConfirmed
<1>6. SearchInv'
  BY <1>2 DEF SearchInv, RelayerHoldsInstalledSet, AlarmOnlyInRace
<1> QED
  BY <1>3, <1>5, <1>6 DEF RelayInv

-----------------------------------------------------------------------------
(* relayValset and relayTokenBatch.                                        *)

\* The current set and the item of a submitted call.
LEMMA SubmittedType ==
  ASSUME TasksInv, NEW call, Submitted(call)
  PROVE  call.current \in Valset /\ call.item \in Valset \cup Batch
<1>1. \A n \in 1..valsets : IV[n] \in Valset
  BY Created, Zenon
<1>2. \A n \in 1..batches : IB[n] \in Batch
  BY Created, Zenon
<1>3. PICK current \in Valset, confirms \in SUBSET Validator :
        \/ \E n \in 1..valsets : call = valsetUpdate(current, IV[n], confirms)
        \/ \E n \in 1..batches : call = transactionBatch(current, IB[n], confirms)
  BY Zenon DEF Submitted
<1>4. ASSUME NEW n \in 1..valsets, call = valsetUpdate(current, IV[n], confirms)
      PROVE  call.current = current /\ call.item = IV[n]
  BY <1>4 DEF valsetUpdate
<1>5. ASSUME NEW n \in 1..batches, call = transactionBatch(current, IB[n], confirms)
      PROVE  call.current = current /\ call.item = IB[n]
  BY <1>5 DEF transactionBatch
<1> QED
  BY <1>1, <1>2, <1>3, <1>4, <1>5, Zenon

\* A step of a task keeps the invariant when it keeps the task's own part of it.
LEMMA TaskStepKeeps ==
  ASSUME RelayInv, UNCHANGED <<vars, injectiveVars, searchVars>>, pc = "relay",
         valsetTask' \in Task, batchTask' \in Task, faults' \in 0..MaxFaults,
         SendsConfirmed(valsetTask', valsets, valsetConfirms),
         SendsConfirmed(batchTask', batches, batchConfirms),
         \A call \in mempool' : call \in mempool \/ Submitted(call)
  PROVE  RelayInv'
<1>1. /\ ContractInv' /\ LogInv'
      /\ UNCHANGED <<events, height, state_lastValsetNonce>>
      /\ UNCHANGED <<valsets, batches, outgoing, valsetConfirms, batchConfirms>>
      /\ \A call : Submitted(call)' <=> Submitted(call)
  BY RelayerAlone
<1>2. UNCHANGED <<pc, header, cosmosValset, ethValset, alarm>>
  BY DEF searchVars
<1>3. ContractInv /\ TasksInv /\ LogInv /\ SearchInv
  BY DEF RelayInv
<1>4. \A call \in mempool' : Submitted(call)
  BY <1>3 DEF TasksInv
<1>5. RelayerTypeOK'
  <2>1. \A call \in mempool' : call.current \in Valset /\ call.item \in Valset \cup Batch
    BY <1>3, <1>4, SubmittedType, Zenon
  <2> QED
    BY <1>1, <1>2, <1>3, <2>1, Zenon DEF TasksInv, RelayerTypeOK
<1>6. TasksInv'
  BY <1>1, <1>2, <1>3, <1>4, <1>5, Zenon DEF TasksInv, SendsConfirmed
<1>7. SearchInv'
  BY <1>1, <1>2, <1>3, Zenon
     DEF SearchInv, RelayerHoldsInstalledSet, AlarmOnlyInRace, IsValsetEvent
<1> QED
  BY <1>1, <1>6, <1>7 DEF RelayInv

\* A task that has something to do runs in a round of relay, with a set.
LEMMA TaskRuns ==
  ASSUME RelayInv, valsetTask.pc \in {"choose", "send"} \/ batchTask.pc \in {"choose", "send"}
  PROVE  /\ pc = "relay" /\ ethValset \in Valset
         /\ valsetTask \in Task /\ batchTask \in Task
         /\ faults \in 0..MaxFaults /\ MaxFaults \in Nat
<1>1. /\ valsetTask \in Task /\ batchTask \in Task /\ faults \in 0..MaxFaults
      /\ pc # "relay" => valsetTask = Ended /\ batchTask = Ended
      /\ pc = "relay" => ethValset \in Valset
  BY Zenon DEF RelayInv, TasksInv, RelayerTypeOK
<1> QED
  BY <1>1, TaskTypes, RelayerAssumption

\* A failure is counted.
LEMMA FaultType ==
  ASSUME faults \in 0..MaxFaults, MaxFaults \in Nat, Fault
  PROVE  faults' \in 0..MaxFaults
BY DEF Fault

\* An error starts the task anew or ends it with the error.
LEMMA valsetErrorType ==
  ASSUME valsetTask \in Task, valsetError
  PROVE  valsetTask' \in Task /\ valsetTask'.pc # "send"
<1>1. valsetTask.attempts \in 0..(maxAttempts - 1) /\ maxAttempts \in Nat \ {0}
  BY RelayerAssumption DEF Task
<1>2. CASE valsetTask.attempts + 1 < maxAttempts
  <2>1. valsetTask.attempts + 1 \in 0..(maxAttempts - 1)
    BY <1>1, <1>2
  <2>2. valsetTask' = [Started EXCEPT !.attempts = valsetTask.attempts + 1]
    BY <1>2 DEF valsetError
  <2> QED
    BY <2>1, <2>2, TaskTypes
<1>3. CASE ~(valsetTask.attempts + 1 < maxAttempts)
  BY <1>3, TaskTypes DEF valsetError
<1> QED
  BY <1>2, <1>3

\* The steps of relayValset keep the invariant.
LEMMA relayValsetKeeps ==
  ASSUME RelayInv, relayValset
  PROVE  RelayInv'
<1>0. /\ pc = "relay" /\ ethValset \in Valset
      /\ valsetTask \in Task /\ batchTask \in Task
      /\ faults \in 0..MaxFaults /\ MaxFaults \in Nat
  BY TaskRuns, Zenon DEF relayValset, chooseValset, skipValset, SendEthValsetUpdate, valsetFails
<1>1. /\ UNCHANGED <<vars, injectiveVars, searchVars, batchTask>>
      /\ SendsConfirmed(batchTask', batches, batchConfirms)
  <2>1. UNCHANGED <<vars, injectiveVars, searchVars, batchTask>>
    BY Zenon DEF relayValset, chooseValset, skipValset, SendEthValsetUpdate, valsetFails,
           valsetUnchanged
  <2> QED
    BY <2>1 DEF RelayInv, TasksInv
<1>2. CASE chooseValset
  <2>1. UNCHANGED <<mempool, faults>>
    BY <1>2, Zenon DEF chooseValset
  <2>2. ASSUME NEW n \in 1..valsets
        PROVE  [valsetTask EXCEPT !.pc = "send", !.item = n, !.confirms = valsetConfirms[n]]
                 \in [pc: {"send"}, item: {n}, confirms: {valsetConfirms[n]}, attempts: 0..(maxAttempts - 1)]
    BY <1>0, Zenon DEF Task
  <2>3. \/ valsetTask' = Ended
        \/ \E n \in 1..valsets :
             valsetTask' = [valsetTask EXCEPT !.pc = "send", !.item = n, !.confirms = valsetConfirms[n]]
    BY <1>2, Zenon DEF chooseValset
  <2>4. valsetTask' \in Task /\ SendsConfirmed(valsetTask', valsets, valsetConfirms)
    <3>1. CASE valsetTask' = Ended
      BY <3>1, TaskTypes DEF SendsConfirmed
    <3>2. CASE \E n \in 1..valsets :
             valsetTask' = [valsetTask EXCEPT !.pc = "send", !.item = n, !.confirms = valsetConfirms[n]]
      <4>1. PICK n \in 1..valsets :
              valsetTask' \in [pc: {"send"}, item: {n}, confirms: {valsetConfirms[n]}, attempts: 0..(maxAttempts - 1)]
        BY <2>2, <3>2, Zenon
      <4>2. n \in Nat /\ valsetConfirms[n] \in SUBSET Validator
        <5>1. valsets \in Nat /\ valsetConfirms[n] \in SUBSET Validator
          BY Created, Zenon DEF RelayInv
        <5> QED
          BY <5>1
      <4> QED
        BY <4>1, <4>2, Zenon DEF Task, SendsConfirmed
    <3> QED
      BY <2>3, <3>1, <3>2, Zenon
  <2> QED
    BY <1>0, <1>1, <2>1, <2>4, TaskStepKeeps
<1>3. CASE skipValset
  <2>1. valsetTask' = Ended /\ Fault /\ UNCHANGED mempool
    BY <1>3 DEF skipValset
  <2> QED
    BY <1>0, <1>1, <2>1, FaultType, TaskTypes, TaskStepKeeps DEF SendsConfirmed
<1>4. CASE SendEthValsetUpdate
  <2> DEFINE call == valsetUpdate(ethValset, IV[valsetTask.item], valsetTask.confirms)
  <2>1. /\ UNCHANGED faults /\ valsetTask.pc = "send"
        /\ \/ mempool' = mempool \cup {call} /\ valsetTask' = Ended
           \/ valsetError /\ UNCHANGED mempool
    BY <1>4, Zenon DEF SendEthValsetUpdate, IV
  <2>2. Submitted(call)
    <3>1. /\ valsetTask.item \in 1..valsets /\ valsetTask.confirms \in SUBSET Validator
          /\ valsetTask.confirms \subseteq valsetConfirms[valsetTask.item]
      BY <1>0, <2>1, Zenon DEF RelayInv, TasksInv, SendsConfirmed, Task
    <3> QED
      BY <1>0, <3>1, Zenon DEF Submitted
  <2> HIDE DEF call
  <2>3. valsetTask' \in Task /\ valsetTask'.pc # "send"
    BY <1>0, <2>1, TaskTypes, valsetErrorType
  <2>4. \A c \in mempool' : c \in mempool \/ Submitted(c)
    BY <2>1, <2>2
  <2> QED
    BY <1>0, <1>1, <2>1, <2>3, <2>4, TaskStepKeeps, Zenon DEF SendsConfirmed
<1>5. CASE valsetFails
  <2>1. valsetError /\ Fault /\ UNCHANGED mempool
    BY <1>5 DEF valsetFails
  <2> QED
    BY <1>0, <1>1, <2>1, FaultType, valsetErrorType, TaskStepKeeps DEF SendsConfirmed
<1> QED
  BY <1>2, <1>3, <1>4, <1>5 DEF relayValset

\* The steps of relayTokenBatch keep the invariant.
LEMMA relayTokenBatchKeeps ==
  ASSUME RelayInv, BatchInv, relayTokenBatch
  PROVE  RelayInv'
<1>0. /\ pc = "relay" /\ ethValset \in Valset
      /\ valsetTask \in Task /\ batchTask \in Task
      /\ faults \in 0..MaxFaults /\ MaxFaults \in Nat
  BY TaskRuns, Zenon DEF relayTokenBatch, chooseBatch, SendTransactionBatch, batchFails
<1>1. UNCHANGED <<vars, injectiveVars, searchVars, valsetTask>>
  BY Zenon DEF relayTokenBatch, chooseBatch, SendTransactionBatch, batchFails, batchUnchanged
<1>2. valsetTask' \in Task /\ SendsConfirmed(valsetTask', valsets, valsetConfirms)
  BY <1>0, <1>1 DEF RelayInv, TasksInv
<1>3. CASE chooseBatch
  <2>1. /\ UNCHANGED <<mempool, faults>>
        /\ \/ batchTask' = Ended
           \/ \E n \in outgoing :
                batchTask' = [Ended EXCEPT !.pc = "send", !.item = n, !.confirms = batchConfirms[n]]
    BY <1>3, Zenon DEF chooseBatch
  <2>2. ASSUME NEW n \in outgoing,
               batchTask' = [Ended EXCEPT !.pc = "send", !.item = n, !.confirms = batchConfirms[n]]
        PROVE  batchTask' \in Task /\ SendsConfirmed(batchTask', batches, batchConfirms)
    <3>1. n \in Nat /\ n \in 1..batches /\ batchConfirms[n] \in SUBSET Validator
      <4>1. batches \in 0..Len(IB) /\ n \in 1..batches
        BY DEF BatchInv, BatchTypes
      <4>2. n \in Nat /\ n \in DOMAIN IB
        BY <4>1, BatchFacts
      <4> QED
        BY <4>1, <4>2 DEF BatchInv, BatchTypes
    <3>2. Ended \in Task
      BY TaskTypes
    <3>3. batchTask' \in [pc: {"send"}, item: {n}, confirms: {batchConfirms[n]}, attempts: 0..(maxAttempts - 1)]
      BY <2>2, <3>2, Zenon DEF Task
    <3> QED
      BY <3>1, <3>3 DEF Task, SendsConfirmed
  <2>3. batchTask' \in Task /\ SendsConfirmed(batchTask', batches, batchConfirms)
    <3>1. CASE batchTask' = Ended
      BY <3>1, TaskTypes DEF SendsConfirmed
    <3> QED
      BY <2>1, <2>2, <3>1, Zenon
  <2> QED
    BY <1>0, <1>1, <1>2, <2>1, <2>3, TaskStepKeeps, Zenon
<1>4. CASE SendTransactionBatch
  <2> DEFINE call == transactionBatch(ethValset, IB[batchTask.item], batchTask.confirms)
  <2>1. /\ UNCHANGED faults /\ batchTask.pc = "send" /\ batchTask' = Ended
        /\ mempool' = mempool \cup {call} \/ mempool' = mempool
    BY <1>4, Zenon DEF SendTransactionBatch, IB
  <2>2. Submitted(call)
    <3>1. /\ batchTask.item \in 1..batches /\ batchTask.confirms \in SUBSET Validator
          /\ batchTask.confirms \subseteq batchConfirms[batchTask.item]
      BY <1>0, <2>1, Zenon DEF RelayInv, TasksInv, SendsConfirmed, Task
    <3> QED
      BY <1>0, <3>1, Zenon DEF Submitted
  <2> HIDE DEF call
  <2>3. \A c \in mempool' : c \in mempool \/ Submitted(c)
    BY <2>1, <2>2
  <2> QED
    BY <1>0, <1>1, <1>2, <2>1, <2>3, TaskTypes, TaskStepKeeps DEF SendsConfirmed
<1>5. CASE batchFails
  <2>1. batchTask' \in {Ended, Started, Failed} /\ Fault /\ UNCHANGED mempool
    BY <1>5 DEF batchFails
  <2>2. batchTask' \in Task /\ SendsConfirmed(batchTask', batches, batchConfirms)
    BY <2>1, TaskTypes DEF SendsConfirmed
  <2> QED
    BY <1>0, <1>1, <1>2, <2>1, <2>2, FaultType, TaskStepKeeps
<1> QED
  BY <1>3, <1>4, <1>5 DEF relayTokenBatch

-----------------------------------------------------------------------------
(* The invariant.                                                          *)

\* The start satisfies the invariant.
LEMMA RelayInvInit == RelayerInit => RelayInv
<1> SUFFICES ASSUME RelayerInit PROVE RelayInv
  OBVIOUS
<1>1. Init
  BY DEF RelayerInit
<1>2. ContractInv
  <2>1. TypeOK
    BY <1>1, InitType
  <2>2. EventLogContiguous
    BY <1>1 DEF Init, EventLogContiguous
  <2>3. CurrentValsetInLog
    BY <1>1, ValsetAssumption DEF Init, CurrentValsetInLog, IsValsetEvent
  <2> QED
    BY <2>1, <2>2, <2>3 DEF ContractInv
<1>3. LogInv
  <2>1. /\ Len(events) = 1 /\ events[1].data = InitialValset
        /\ InitialValset.nonce = 0
        /\ Len(InitialValset.members) = Len(InitialValset.powers)
    BY <1>1, ValsetAssumption DEF Init, validateValidatorSet
  <2>2. \A i \in 1..Len(events) : i = 1
    BY <2>1
  <2>3. \A i \in 1..Len(events) :
          /\ Len(events[i].data.members) = Len(events[i].data.powers)
          /\ events[i].data.nonce = 0
    BY <2>1, <2>2, Zenon
  <2>4. \A i, j \in 1..Len(events) : ~(i < j)
    BY <2>2
  <2> QED
    BY <2>3, <2>4, Zenon DEF LogInv
<1>4. RelayerTypeOK
  <2>1. 0 \in 0..MaxHeight /\ 0 \in 0..MaxFaults
    BY BoundAssumption, RelayerAssumption
  <2>2. 0 \in 0..Len(InjectiveValsets) /\ 0 \in 0..Len(InjectiveBatches)
    BY ValsetFacts, BatchFacts DEF IV, IB
  <2> QED
    BY <2>1, <2>2, TaskTypes, Zenon DEF RelayerInit, RelayerTypeOK
<1>5. TasksInv
  <2>1. height <= MaxHeight
    BY <1>1, BoundAssumption DEF Init
  <2> QED
    BY <1>4, <2>1, TaskTypes DEF RelayerInit, TasksInv, SendsConfirmed
<1>6. SearchInv
  BY DEF RelayerInit, SearchInv, RelayerHoldsInstalledSet, AlarmOnlyInRace
<1> QED
  BY <1>2, <1>3, <1>5, <1>6 DEF RelayInv

\* Every step but the search for the installed set keeps the invariant, and is a
\* step of the contract or leaves the contract alone.
LEMMA OtherStepsKeepRelayInv ==
  ASSUME RelayInv, BatchInv, BatchInv', [RelayerNext]_bridge, ~findLatestValsetOnEth
  PROVE  RelayInv' /\ [Next]_vars
<1>1. CASE InjectiveStep
  <2>1. UNCHANGED vars
    BY <1>1, InjectiveSteps DEF RelayInv
  <2> QED
    BY <1>1, <2>1, InjectiveKeeps
<1>2. CASE EthereumStep
  BY <1>2, EthereumSteps, EthereumKeeps DEF RelayInv
<1>3. CASE ReadHeader
  BY <1>3, ReadHeaderKeeps DEF ReadHeader
<1>4. CASE ReadNonce
  BY <1>4, ReadNonceKeeps DEF ReadNonce
<1>5. CASE searchFails \/ relayReturns
  <2>1. Forget /\ (UNCHANGED faults \/ Fault)
    BY <1>5 DEF searchFails, relayReturns
  <2>2. faults' \in 0..MaxFaults
    <3>1. faults \in 0..MaxFaults
      BY Zenon DEF RelayInv, TasksInv, RelayerTypeOK
    <3> QED
      BY <2>1, <3>1, FaultType, RelayerAssumption
  <2> QED
    BY <2>1, <2>2, ForgetKeeps DEF Forget
<1>6. CASE relayValset
  <2>1. UNCHANGED vars
    BY <1>6, Zenon DEF relayValset, chooseValset, skipValset, SendEthValsetUpdate, valsetFails,
                valsetUnchanged
  <2> QED
    BY <1>6, <2>1, relayValsetKeeps
<1>7. CASE relayTokenBatch
  <2>1. UNCHANGED vars
    BY <1>7, Zenon DEF relayTokenBatch, chooseBatch, SendTransactionBatch, batchFails, batchUnchanged
  <2> QED
    BY <1>7, <2>1, relayTokenBatchKeeps
<1>8. CASE UNCHANGED bridge
  <2>1. UNCHANGED <<vars, injectiveVars, relayVars>>
    BY <1>8 DEF bridge
  <2>2. UNCHANGED <<mempool, faults, pc, header, cosmosValset, ethValset, alarm, valsetTask, batchTask>>
    BY <2>1 DEF relayVars, searchVars
  <2>3. /\ ContractInv' /\ LogInv'
        /\ UNCHANGED <<events, height, state_lastValsetNonce>>
        /\ UNCHANGED <<valsets, batches, outgoing, valsetConfirms, batchConfirms>>
        /\ \A call : Submitted(call)' <=> Submitted(call)
    BY <2>1, RelayerAlone
  <2>4. TasksInv'
    BY <2>2, <2>3, Zenon DEF RelayInv, TasksInv, RelayerTypeOK, SendsConfirmed
  <2>5. SearchInv'
    BY <2>2, <2>3, Zenon DEF RelayInv, SearchInv, RelayerHoldsInstalledSet, AlarmOnlyInRace,
                      NonceRead, Seen, IsValsetEvent
  <2> QED
    BY <2>1, <2>3, <2>4, <2>5 DEF RelayInv
<1> QED
  BY <1>1, <1>2, <1>3, <1>4, <1>5, <1>6, <1>7, <1>8, Zenon
     DEF RelayerNext, Sign, Search, InjectiveStep, EthereumStep

\* Every step is one of Injective, one of the relayer alone, or one of the
\* contract: a block is sealed, a token deployed, or a call succeeds that a
\* relayer can make.
LEMMA StepKinds ==
  ASSUME TasksInv, BatchInv, [RelayerNext]_bridge
  PROVE  \/ InjectiveStep
         \/ UNCHANGED <<vars, injectiveVars>>
         \/ /\ UNCHANGED injectiveVars
            /\ \/ NextBlock
               \/ \E token \in CosmosERC20 : deployERC20(token)
               \/ \E call : Submitted(call) /\ Execute(call)
<1>1. CASE SealBlock
  BY <1>1 DEF SealBlock
<1>2. CASE Mine
  <2>1. PICK call \in mempool :
          (Execute(call) \/ UNCHANGED vars) /\ UNCHANGED injectiveVars
    BY <1>2 DEF Mine, Include
  <2>2. Submitted(call)
    BY DEF TasksInv
  <2> QED
    BY <2>1, <2>2
<1>3. CASE DeployToken
  BY <1>3 DEF DeployToken
<1>4. CASE OtherRelayer
  <2>1. UNCHANGED injectiveVars
    BY <1>4 DEF OtherRelayer
  <2> QED
    BY <1>4, <2>1, OtherRelayerSubmits
<1>5. CASE Search
  BY <1>5 DEF Search, ReadHeader, ReadNonce, findLatestValsetOnEth, searchFails,
              relayReturns, Forget
<1>6. CASE relayValset \/ relayTokenBatch
  BY <1>6, Zenon DEF relayValset, chooseValset, skipValset, SendEthValsetUpdate, valsetFails,
                     valsetUnchanged, relayTokenBatch, chooseBatch, SendTransactionBatch,
                     batchFails, batchUnchanged
<1>7. CASE UNCHANGED bridge
  BY <1>7 DEF bridge
<1> QED
  BY <1>1, <1>2, <1>3, <1>4, <1>5, <1>6, <1>7, Zenon DEF RelayerNext, Sign, InjectiveStep

\* An event is added to the log by a call a relayer can make, or when a token is
\* deployed.
LEMMA LogGrowsByCall ==
  ASSUME TasksInv, BatchInv, [RelayerNext]_bridge
  PROVE  \/ UNCHANGED events
         \/ \E call : Submitted(call) /\ Execute(call)
         \/ \E token : Emit("ERC20Deployed", token)
<1>1. UNCHANGED vars => UNCHANGED events
  BY DEF vars, logVars
<1>2. InjectiveStep => UNCHANGED vars
  BY InjectiveSteps
<1>3. NextBlock => UNCHANGED events
  BY NextBlockFrame
<1>4. \A token \in CosmosERC20 : deployERC20(token) => Emit("ERC20Deployed", token)
  BY DEF deployERC20
<1> QED
  BY <1>1, <1>2, <1>3, <1>4, StepKinds

\* What enters the mempool would have succeeded when it was sent: EstimateGas.
LEMMA SentSucceeds ==
  ASSUME [RelayerNext]_bridge, NEW call \in mempool', call \notin mempool
  PROVE  UNCHANGED <<vars, injectiveVars>> /\ Succeeds(call)
<1> USE DEF relayVars, searchVars
<1>1. CASE SendEthValsetUpdate
  BY <1>1, Zenon DEF SendEthValsetUpdate, valsetUnchanged, EstimateGas
<1>2. CASE SendTransactionBatch
  BY <1>2, Zenon DEF SendTransactionBatch, batchUnchanged, EstimateGas
<1>3. CASE mempool' \subseteq mempool
  BY <1>3
<1>4. CASE CreateValset \/ requestTokenBatch \/ Attest \/ SealBlock \/ Mine \/ DeployToken \/ OtherRelayer
  BY <1>3, <1>4, Zenon DEF CreateValset, requestTokenBatch, Attest, SealBlock, Mine, Include,
                    DeployToken, OtherRelayer
<1>5. CASE Sign
  BY <1>3, <1>5, Zenon DEF Sign, signValidatorSets, signNewBatch
<1>6. CASE Search
  BY <1>3, <1>6 DEF Search, ReadHeader, ReadNonce, findLatestValsetOnEth, searchFails,
                    relayReturns, Forget
<1>7. CASE chooseValset \/ skipValset \/ valsetFails \/ chooseBatch \/ batchFails
  BY <1>3, <1>7, Zenon DEF chooseValset, skipValset, valsetFails, chooseBatch, batchFails
<1>8. CASE UNCHANGED bridge
  BY <1>3, <1>8 DEF bridge
<1> QED
  BY <1>1, <1>2, <1>4, <1>5, <1>6, <1>7, <1>8, Zenon
     DEF RelayerNext, relayValset, relayTokenBatch

-----------------------------------------------------------------------------
(* Repacked confirmations.                                                *)

\* Confirmations of members above the threshold, repacked in the order of the
\* set, pass checkValidatorSignatures: the gaps are passed over, and the position
\* of every signature is that of its signer.
LEMMA RepackedIsAccepted ==
  ASSUME NEW vs \in Valset, validateValidatorSet(vs), NEW confirms, NEW hash,
         AbovePowerThreshold(vs, confirms)
  PROVE  /\ wellFormed(vs, Repack(vs, confirms, hash))
         /\ checkValidatorSignatures(vs, Repack(vs, confirms, hash), hash)
<1> DEFINE sigs == Repack(vs, confirms, hash)
           present == [i \in DOMAIN sigs |-> sigs[i] # NoSig]
           signed == [i \in DOMAIN vs.powers |-> vs.members[i] \in confirms]
<1>1. /\ Len(vs.members) = Len(vs.powers) /\ Len(vs.members) \in Nat
      /\ DOMAIN vs.members = 1..Len(vs.members)
      /\ DOMAIN vs.powers = DOMAIN vs.members
  BY ValsetType, SMTT(20) DEF validateValidatorSet
<1>2. DOMAIN sigs = 1..Len(vs.members) /\ Len(sigs) = Len(vs.members)
  BY <1>1, SMTT(20) DEF Repack
<1>3. \A i \in DOMAIN sigs :
        /\ sigs[i] = IF vs.members[i] \in confirms THEN <<vs.members[i], hash>> ELSE NoSig
        /\ <<vs.members[i], hash>> # NoSig
  BY <1>1, <1>2 DEF Repack, NoSig
<1> HIDE DEF sigs
<1>4. present = signed
  <2>1. \A i \in DOMAIN sigs : (sigs[i] # NoSig) = (vs.members[i] \in confirms)
    BY <1>3
  <2>2. DOMAIN sigs = DOMAIN vs.powers
    BY <1>1, <1>2
  <2> QED
    BY <2>1, <2>2
<1>5. cumulativePower(vs.powers, present)[Len(sigs)] > PowerThreshold
  <2>1. cumulativePower(vs.powers, signed)[Len(vs.powers)] > PowerThreshold
    BY DEF AbovePowerThreshold
  <2> QED
    BY <1>1, <1>2, <1>4, <2>1, Zenon
<1>6. \A i \in DOMAIN sigs : present[i] => verifySig(vs.members[i], hash, sigs[i])
  BY <1>3, Zenon DEF verifySig
<1>7. wellFormed(vs, sigs)
  BY <1>1, <1>2 DEF wellFormed
<1>8. checkValidatorSignatures(vs, sigs, hash)
  <2> HIDE DEF present
  <2> QED
    BY <1>5, <1>6, Zenon DEF checkValidatorSignatures, present
<1> QED
  BY <1>7, <1>8 DEF sigs

\* Only confirmations are repacked.
LEMMA RepackedSigners ==
  ASSUME NEW valset, NEW confirms, NEW hash
  PROVE  Signers(Repack(valset, confirms, hash)) \subseteq confirms
<1> DEFINE sigs == Repack(valset, confirms, hash)
<1> SUFFICES ASSUME NEW i \in DOMAIN sigs, sigs[i] # NoSig
             PROVE  sigs[i][1] \in confirms
  BY DEF Signers
<1>1. sigs[i] = <<valset.members[i], hash>> /\ valset.members[i] \in confirms
  BY DEF Repack
<1> HIDE DEF sigs
<1> QED
  BY <1>1, SMTT(20)

-----------------------------------------------------------------------------
(* How the contract moves.                                                 *)

\* A call that succeeds moves the nonces of the contract forwards: that of its
\* validator set, and then the set changes, or that of a token's batches.
LEMMA ExecuteMoves ==
  ASSUME ContractInv, TasksInv, NEW call, Submitted(call), Execute(call)
  PROVE  /\ UNCHANGED <<paused, height>>
         /\ UNCHANGED valsetVars \/ state_lastValsetNonce' > state_lastValsetNonce
         /\ \A t \in Token : state_lastBatchNonces'[t] >= state_lastBatchNonces[t]
<1>1. PICK current \in Valset, confirms \in SUBSET Validator :
        \/ \E n \in 1..valsets : call = valsetUpdate(current, IV[n], confirms)
        \/ \E n \in 1..batches : call = transactionBatch(current, IB[n], confirms)
  BY DEF Submitted
<1>2. state_lastBatchNonces \in [Token -> Nat]
  BY DEF ContractInv, TypeOK
<1>3. ASSUME NEW n \in 1..valsets, call = valsetUpdate(current, IV[n], confirms)
      PROVE  /\ UNCHANGED <<paused, height, state_lastBatchNonces>>
             /\ state_lastValsetNonce' > state_lastValsetNonce
  <2>1. \E sigs : updateValset(IV[n], current, sigs)
    BY <1>3 DEF Execute, valsetUpdate
  <2>2. /\ UNCHANGED <<paused, height, state_lastBatchNonces>>
        /\ makeCheckpoint(current) = state_lastValsetCheckpoint
        /\ state_lastValsetNonce' = IV[n].nonce /\ IV[n].nonce > current.nonce
    BY <2>1, Zenon DEF updateValset, updateValsetRequires, nonceAdvances, adminVars
  <2> QED
    BY <2>2, InstalledNonce
<1>4. ASSUME NEW n \in 1..batches, call = transactionBatch(current, IB[n], confirms)
      PROVE  /\ UNCHANGED <<paused, height, valsetVars>>
             /\ \A t \in Token : state_lastBatchNonces'[t] >= state_lastBatchNonces[t]
  <2> DEFINE b == IB[n]
  <2>1. \E sigs : submitBatch(current, sigs, b)
    BY <1>4 DEF Execute, transactionBatch
  <2>2. b \in Batch
    BY Created, Zenon
  <2>3. b.token \in Token /\ b.nonce \in Nat
    BY <2>2, BatchAssumption
  <2> HIDE DEF b
  <2>4. /\ UNCHANGED <<paused, height, valsetVars>>
        /\ b.nonce > state_lastBatchNonces[b.token]
        /\ state_lastBatchNonces' = [state_lastBatchNonces EXCEPT ![b.token] = b.nonce]
    BY <2>1 DEF submitBatch, submitBatchRequires, nonceAdvances, adminVars
  <2> QED
    BY <1>2, <2>3, <2>4
<1>5. CASE \E n \in 1..valsets : call = valsetUpdate(current, IV[n], confirms)
  BY <1>2, <1>3, <1>5, SMTT(20)
<1>6. CASE \E n \in 1..batches : call = transactionBatch(current, IB[n], confirms)
  BY <1>4, <1>6
<1> QED
  BY <1>1, <1>5, <1>6, Zenon

\* Nothing that relayers, signers and Injective do pauses the contract or takes a
\* nonce or the height back.
LEMMA ContractMoves ==
  ASSUME RelayInv, BatchInv, [RelayerNext]_bridge
  PROVE  /\ UNCHANGED paused /\ height' >= height
         /\ UNCHANGED valsetVars \/ state_lastValsetNonce' > state_lastValsetNonce
         /\ \A t \in Token : state_lastBatchNonces'[t] >= state_lastBatchNonces[t]
<1>1. ContractInv /\ TasksInv
  BY DEF RelayInv
<1>2. state_lastBatchNonces \in [Token -> Nat] /\ height \in Nat
  BY <1>1 DEF ContractInv, TypeOK
<1>3. UNCHANGED state_lastBatchNonces
      => \A t \in Token : state_lastBatchNonces'[t] >= state_lastBatchNonces[t]
  BY <1>2
<1>4. UNCHANGED vars => UNCHANGED <<paused, height, valsetVars, state_lastBatchNonces>>
  BY DEF vars, adminVars
<1>5. InjectiveStep => UNCHANGED vars
  BY <1>1, InjectiveSteps
<1>6. NextBlock => /\ height' = height + 1
                   /\ UNCHANGED <<paused, valsetVars, state_lastBatchNonces>>
  BY DEF NextBlock, adminVars
<1>7. \A token : deployERC20(token) =>
        UNCHANGED <<paused, height, valsetVars, state_lastBatchNonces>>
  BY DEF deployERC20, adminVars
<1>8. ASSUME NEW call, Submitted(call), Execute(call)
      PROVE  /\ UNCHANGED paused /\ height' >= height
             /\ UNCHANGED valsetVars \/ state_lastValsetNonce' > state_lastValsetNonce
             /\ \A t \in Token : state_lastBatchNonces'[t] >= state_lastBatchNonces[t]
  BY <1>1, <1>2, <1>8, ExecuteMoves
<1> QED
  BY <1>1, <1>2, <1>3, <1>4, <1>5, <1>6, <1>7, <1>8, StepKinds

-----------------------------------------------------------------------------
(* What can happen to a call while it waits in the mempool.                *)

\* What is left of the estimation of a call as the contract moves on.  The set
\* the call names as the current one is installed, or its nonce is behind; what
\* concerns the call alone is as it was; the nonce of a batch is not too far
\* ahead, for the contract's only comes closer.
WasEstimated(call) ==
  /\ call.current.nonce <= state_lastValsetNonce
  /\ call.current.nonce = state_lastValsetNonce => Installed(call.current)
  /\ wellFormed(call.current, call.sigs)
  /\ IF call.type = "updateValset"
     THEN /\ nonceAdvances(call.item.nonce, call.current.nonce)
          /\ checkValidatorSignatures(call.current, call.sigs, makeCheckpoint(call.item))
          /\ validateValidatorSet(call.item)
     ELSE /\ call.item.nonce < state_lastBatchNonces[call.item.token] + MAX_NONCE_JUMP_LIMIT
          /\ checkValidatorSignatures(call.current, call.sigs, batchHash(call.item))

MempoolInv == \A call \in mempool : WasEstimated(call)

\* The parts of a call a relayer can make, and the numbers that are compared.
LEMMA SubmittedCall ==
  ASSUME ContractInv, TasksInv, NEW call, Submitted(call)
  PROVE  /\ call.current \in Valset /\ call.current.nonce \in Nat
         /\ state_lastValsetNonce \in Nat /\ height \in Nat
         /\ call.type \in {"updateValset", "submitBatch"}
         /\ call.type = "submitBatch" =>
              /\ call.item.token \in Token
              /\ call.item.nonce \in Nat /\ call.item.timeout \in Nat
              /\ state_lastBatchNonces[call.item.token] \in Nat
<1>1. PICK current \in Valset, confirms \in SUBSET Validator :
        \/ \E n \in 1..valsets : call = valsetUpdate(current, IV[n], confirms)
        \/ \E n \in 1..batches : call = transactionBatch(current, IB[n], confirms)
  BY Zenon DEF Submitted
<1>2. /\ state_lastValsetNonce \in Nat /\ height \in Nat
      /\ state_lastBatchNonces \in [Token -> Nat]
  BY DEF ContractInv, TypeOK
<1>3. current.nonce \in Nat
  BY ValsetType
<1>4. ASSUME NEW n \in 1..valsets, call = valsetUpdate(current, IV[n], confirms)
      PROVE  call.current = current /\ call.type = "updateValset"
  BY <1>4 DEF valsetUpdate
<1>5. ASSUME NEW n \in 1..batches, call = transactionBatch(current, IB[n], confirms)
      PROVE  call.current = current /\ call.type = "submitBatch" /\ call.item = IB[n]
  BY <1>5 DEF transactionBatch
<1>6. \A n \in 1..batches : IB[n] \in Batch
  BY Created, Zenon
<1>7. \A b \in Batch : b.token \in Token /\ b.nonce \in Nat /\ b.timeout \in Nat
  BY BatchAssumption, SMTT(20)
<1>8. CASE \E n \in 1..valsets : call = valsetUpdate(current, IV[n], confirms)
  <2>1. call.current = current /\ call.type = "updateValset"
    BY <1>4, <1>8, SMTT(20)
  <2> QED
    BY <1>2, <1>3, <2>1
<1>9. CASE \E n \in 1..batches : call = transactionBatch(current, IB[n], confirms)
  <2>1. call.current = current /\ call.type = "submitBatch" /\ call.item \in Batch
    BY <1>5, <1>6, <1>9, Zenon
  <2> QED
    BY <1>2, <1>3, <1>7, <2>1
<1> QED
  BY <1>1, <1>8, <1>9, Zenon

\* A call that would succeed has been estimated.
LEMMA SucceedsIsEstimated ==
  ASSUME ContractInv, TasksInv, NEW call, Submitted(call), Succeeds(call)
  PROVE  WasEstimated(call)
<1>1. call.current \in Valset /\ state_lastValsetNonce \in Nat
  BY SubmittedCall, Zenon
<1>2. Installed(call.current)
  BY Zenon DEF Succeeds, updateValsetRequires, submitBatchRequires, Installed
<1>3. call.current.nonce = state_lastValsetNonce
  BY <1>1, <1>2, InstalledNonce DEF Installed
<1>4. call.current.nonce <= state_lastValsetNonce
  BY <1>1, <1>3
<1>5. CASE call.type = "updateValset"
  <2>1. updateValsetRequires(call.item, call.current, call.sigs)
    BY <1>5 DEF Succeeds
  <2>2. /\ wellFormed(call.current, call.sigs)
        /\ nonceAdvances(call.item.nonce, call.current.nonce)
        /\ checkValidatorSignatures(call.current, call.sigs, makeCheckpoint(call.item))
        /\ validateValidatorSet(call.item)
    BY <2>1, Zenon DEF updateValsetRequires
  <2> QED
    BY <1>4, <1>2, <1>5, <2>2, Zenon DEF WasEstimated
<1>6. CASE call.type # "updateValset"
  <2>1. submitBatchRequires(call.current, call.sigs, call.item)
    BY <1>6 DEF Succeeds
  <2>2. /\ wellFormed(call.current, call.sigs)
        /\ nonceAdvances(call.item.nonce, state_lastBatchNonces[call.item.token])
        /\ checkValidatorSignatures(call.current, call.sigs, batchHash(call.item))
    BY <2>1, Zenon DEF submitBatchRequires
  <2> QED
    BY <1>4, <1>2, <1>6, <2>2, Zenon DEF WasEstimated, nonceAdvances
<1> QED
  BY <1>5, <1>6

\* An estimation stays as the contract moves on.
LEMMA EstimationStays ==
  ASSUME RelayInv, BatchInv, [RelayerNext]_bridge, RelayInv',
         NEW call, Submitted(call), WasEstimated(call)
  PROVE  WasEstimated(call)'
<1> DEFINE t == call.item.token
           Ahead(nonces) == call.item.nonce < nonces[t] + MAX_NONCE_JUMP_LIMIT
           Alone == /\ wellFormed(call.current, call.sigs)
                    /\ call.type = "updateValset" =>
                         /\ nonceAdvances(call.item.nonce, call.current.nonce)
                         /\ checkValidatorSignatures(call.current, call.sigs, makeCheckpoint(call.item))
                         /\ validateValidatorSet(call.item)
                    /\ call.type # "updateValset" =>
                         checkValidatorSignatures(call.current, call.sigs, batchHash(call.item))
<1>1. /\ call.current.nonce \in Nat /\ state_lastValsetNonce \in Nat
      /\ call.type \in {"updateValset", "submitBatch"}
      /\ call.type = "submitBatch" => /\ t \in Token /\ call.item.nonce \in Nat
                                      /\ state_lastBatchNonces[t] \in Nat
  BY SubmittedCall, SMTT(20) DEF RelayInv
<1>2. state_lastValsetNonce' \in Nat /\ state_lastBatchNonces' \in [Token -> Nat]
  BY DEF RelayInv, ContractInv, TypeOK
<1>3. /\ UNCHANGED valsetVars \/ state_lastValsetNonce' > state_lastValsetNonce
      /\ \A s \in Token : state_lastBatchNonces'[s] >= state_lastBatchNonces[s]
  BY ContractMoves, Zenon
<1>4. Alone /\ (call.type # "updateValset" => Ahead(state_lastBatchNonces))
  BY Zenon DEF WasEstimated
<1>5. call.type # "updateValset" => Ahead(state_lastBatchNonces')
  <2> SUFFICES ASSUME call.type # "updateValset"
               PROVE  Ahead(state_lastBatchNonces')
    OBVIOUS
  <2>1. t \in Token /\ call.item.nonce \in Nat /\ state_lastBatchNonces[t] \in Nat
    BY <1>1, Zenon
  <2>2. state_lastBatchNonces'[t] \in Nat
    BY <1>2, <2>1, Zenon
  <2>3. state_lastBatchNonces'[t] >= state_lastBatchNonces[t]
    BY <1>3, <2>1, Zenon
  <2>4. call.item.nonce < state_lastBatchNonces[t] + MAX_NONCE_JUMP_LIMIT
    BY <1>4, Zenon
  <2> HIDE DEF t
  <2>5. call.item.nonce < state_lastBatchNonces'[t] + MAX_NONCE_JUMP_LIMIT
    BY <2>1, <2>2, <2>3, <2>4, BoundAssumption, SMTT(20)
  <2> QED
    BY <2>5, Zenon
<1>6. /\ call.current.nonce <= state_lastValsetNonce'
      /\ call.current.nonce = state_lastValsetNonce' => Installed(call.current)'
  <2>1. /\ call.current.nonce <= state_lastValsetNonce
        /\ call.current.nonce = state_lastValsetNonce => Installed(call.current)
    BY Zenon DEF WasEstimated
  <2>2. CASE UNCHANGED valsetVars
    BY <2>1, <2>2 DEF valsetVars, Installed
  <2>3. CASE state_lastValsetNonce' > state_lastValsetNonce
    <3>1. call.current.nonce <= state_lastValsetNonce
      BY <2>1, Zenon
    <3>2. /\ call.current.nonce <= state_lastValsetNonce'
          /\ call.current.nonce # state_lastValsetNonce'
      <4> HIDE DEF t, Ahead, Alone
      <4> QED
        BY <1>1, <1>2, <2>3, <3>1, SMTT(20)
    <3> QED
      BY <3>2, Zenon
  <2> QED
    BY <1>3, <2>2, <2>3, Zenon
<1> QED
  BY <1>4, <1>5, <1>6, Zenon DEF WasEstimated

=============================================================================
