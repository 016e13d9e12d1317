# Peggo: a TLA+ model of the Injective–Ethereum bridge

Peggo is the orchestrator every Injective validator runs next to its node, and
`solidity/contracts/Peggy.sol` is the contract it serves. This directory holds
TLA+ modules of both, the TLC configurations that check them on small instances,
and TLAPS proofs of their main properties for every value of the constants.
`PROJECT.json` lists the components, the runs, the source lines every definition
stands for, the hazards of the code and the theorems.

## The system

| part | state | operations | talks to |
|---|---|---|---|
| bridge contract (`Peggy.sol`) | valset checkpoint and nonce, last batch nonce per token, last event nonce, tokens it created, its balances, pause, owner | `updateValset`, `submitBatch`, `sendToInjective`, `deployERC20`, pause and ownership calls | callers; emits events with consecutive nonces |
| oracle loop (`oracle.go`) | `lastObservedEthHeight` | reads confirmed events, claims them on Injective | Ethereum node, Injective node |
| signer loop (`signer.go`) | none | signs unsigned valsets and batches | Injective node |
| batch creator loop (`batch_creator.go`) | none | requests a batch when fees are worth it | Injective node, price feed |
| relayer loop (`relayer.go`) | none between iterations | finds the contract's valset in its events, sends signed valsets and batches | both nodes, committer |
| committer (`eth_committer.go`, `noncecache.go`) | cached account nonce | prices, numbers, sends and resends transactions | Ethereum node |
| pending transactions (`pending_transactions.go`) | the last 100 pending calls | avoids sending what is already pending | Ethereum node |
| loop helpers (`loops/`) | error channel, wait group | run the loops, end the process on an error | |
| broadcast client (`broadcast.go`) | a mutex | sends messages, waits for CheckTx only | Injective node |
| commands (`cmd/peggo`) | flags, keys | load the keys, connect, choose the mode, run the loops; register the Ethereum key | both nodes, key stores |

The behaviours that are hard to test are listed as hazards in `PROJECT.json`, at
the line where they bite: Ethereum reorganises, a node leaves events out of a
reply, a claim that passed CheckTx is never executed, the process exits between
two claims, a validator leaves the active set in the middle of an iteration,
relayers race each other, batches time out on their way, a node forgets a
transaction or its answer gets lost, a loop fails while the others hang, and the
contract is paused or loses its owner between any two calls.

## Modules

| module | models | checked by | proved in |
|---|---|---|---|
| `Peggy` | the contract, its ownership and pause, and what it does with tokens | `MCPeggy` (`MCPeggy.cfg`) | `PeggyProofs`, `PeggyQuorumProofs` |
| `Oracle` | the oracle loop and its start-up, with Ethereum and Injective as its environment | `OracleSafety.cfg`, `OracleLiveness.cfg`, `OracleResync.cfg` | `OracleProofs` |
| `ClaimStream` | what the Peggy module of Injective may rely on: the abstract specification of the oracle | refinement in `OracleSafety.cfg` | `OracleProofs` |
| `Relayer` | signers, batch creators and relayers, the mempool of Ethereum, composed with `Peggy` | `MCRelayer` (`RelayerValsets.cfg`, `RelayerBatches.cfg`, `RelayerAlarm.cfg`) | `RelayerProofs`, `RelayerSetProofs` |
| `IdealBridge` | what the bridge promises to those who withdraw: the abstract specification of `Relayer` | refinement in `RelayerValsets.cfg`, `RelayerBatches.cfg` | `RelayerSetProofs` |
| `EthCommitter` | `SendTx`, the nonce cache, the node's pool of transactions | `EthCommitter.cfg`, `EthCommitterKnown.cfg` | `EthCommitterProofs` |
| `ParanoidGroup` | a group of goroutines and the one that waits for it | through `Orchestrator` | `ParanoidGroupProofs` |
| `Orchestrator` | the loops of both modes, the relayer's iterations, how the process ends; composed of two `ParanoidGroup`s | `Orchestrator.cfg`, `OrchestratorWait.cfg` | `OrchestratorProofs` |
| `Startup` | the commands `orchestrator` and `tx register-eth-key` up to the loops | `StartupEthFrom.cfg` | |

In all modules an operator that stands right before another with the same
parameters, and is used nowhere, is a faulty variant of it: `PROJECT.json` names the
property that each one breaks.

### Peggy

One action is one successful transaction; a transaction that reverts changes
nothing. `Init` is the state after `initialize`. A hash is a tagged tuple of what
is hashed, a signature the pair of signer and hash, and a batch carries the sums
of its amounts and fees. `checkValidatorSignatures` keeps the control of the code:
absent signatures are skipped, present ones must verify until the sum passes the
threshold, later ones are never looked at (`cumulativePower`). What a call of
`updateValset` or `submitBatch` requires is an operator of its own
(`updateValsetRequires`, `submitBatchRequires`), so that "this call does not revert" is
a state predicate; whether a payment can be made (`RewardIsCovered`, `BatchIsCovered`)
is part of it. `PayReward` and
`PayBatch` are the transfers: a bridge-created token is minted, any other one is
paid out of the contract's balance, fees always are. `received <= amount` in
`sendToInjective` is a token with a transfer fee. `ReceiveTokens` is a transfer
that does not go through the contract.

`credited`, `released` and `lastApproval` are history variables.

### Oracle

The loop's program counter follows `observeEthEvents`: `idle`, `height`, `events`,
`filter`, `attempt`, `sending`, and `down` for a process that has exited. One step
is one call to a node, because everything else can happen between two calls.

| action | code |
|---|---|
| `startValidatorMode` | start-up: the height of the last claim, or the start height of the contract when there is none or the query fails |
| `checkBonded` | `CurrentValset`, the search for the own address |
| `getLatestEthHeight`, `SearchEnd` | the head, less the confirmation delay, cut to the search range |
| `getEthEvents`, `EventsInRange` | the five event queries; the reply may leave events out |
| `getLastClaimEvent` | last claim, filter, sort, gap check: nothing new, go back, or send |
| `sendNewEventClaims`, `sendEthEventClaim`, `ClaimRejected`, `LastClaimUnknown`, `BroadcastTimesOut` | the retried function: reload the last claim, filter, broadcast one by one |
| `Exit`, `Crash` | an error that is returned from an iteration ends the process |

The environment: `MineBlock` appends a block with any number of events, `Reorg`
drops blocks but none at or below `peak - ethBlockConfirmationDelay`, `fork` tells
a replaced event from the original. On Injective `claims` are the executed claims
and `mempool` the ones that passed `CheckTx`; `ExecuteClaim` executes or rejects,
`DropClaim` loses, `ChangeBond` moves the validator in and out of the active set.
`faults` bounds the faults, `missed` remembers how long the log was when last a
reply was incomplete or a claim was lost.

The five event queries are one step. This is enough because they all ask for
blocks below the confirmation delay, which no reorganisation changes.

### Relayer

`Relayer` extends `Peggy`: a call that the relayer submits is the contract's own
action, with the arguments `SendEthValsetUpdate` and `SendTransactionBatch` build.
`height` is the block being built, and a block holds at most one successful call.

| action | code |
|---|---|
| `signValidatorSets`, `signNewBatch` | `signer.go`: the oldest set and the oldest batch the validator has not confirmed |
| `requestTokenBatch` | `batch_creator.go`: whether the fees are worth it is left open |
| `ReadHeader`, `ReadNonce`, `findLatestValsetOnEth` | the three reads of one search; everything else can happen between them. The last one includes the windows (`findLatestValset`), the choice of the event (`First`) and the comparison that sorts in place (`checkIfValsetsDiffer`), and starts both tasks |
| `chooseValset`, `skipValset`, `SendEthValsetUpdate`, `valsetFails` | `relayValset` with `shouldRelayValset`; an error is retried with the same installed set |
| `chooseBatch`, `SendTransactionBatch`, `batchFails` | `relayTokenBatch` with `shouldRelayBatch`; an error of the submission is only logged |
| `relayReturns`, `searchFails` | the end of an iteration, or of the process, which then starts over |

`Repack` pads the signatures in the order of the installed set, `EnoughPower` is the
66 percent of `peggyPowerToPercent`, `EstimateGas` the simulation before a call is
sent: the call would not revert now (`Succeeds`). `Include` executes it later, or it
reverts.
`IsPendingTxInput` is open for a call that is in the mempool, so that no result rests
on the list of pending transactions. Injective's part (`CreateValset`, `Attest`, the
order in which it lists batches) is external. The relayer sees one chain without
reorganisations.

`IdealBridge` is the same bridge with everything between Injective and the contract
left out: Injective's sets, batches, list of outgoing batches and confirmations, and of
the contract the installed set, the last batch of each token, what was paid, and the
height. A set is installed, and a listed batch executed, when a quorum of the installed
set has confirmed it. `Relayer` maps to it the set inside the stored checkpoint,
`state_lastBatchNonces` and `released`; Injective's variables and `height` are the same.

### EthCommitter

One step is one call of the node or one operation on the cache. `Serialize` takes the
lock and the nonce; the branches of the `switch` in `SendTx` are `Sent`, `WrongNonce`
with `Resync` and `ResyncFails`, `KnownTransaction`, `InvalidSender`, `VMException` and
`OtherError`. The node has a nonce and a pool; `queues` says whether it keeps
transactions above a gap. `Evict` forgets a transaction, `SendElsewhere` is another
user of the account, `SendTimesOut` a transaction that is taken while its answer gets
lost, `Restart` a new process. `used`, `skipped` and `known` are history variables.

### ParanoidGroup and Orchestrator

A step of a group is one operation on its channel or wait group: `SendErr`, `Done`,
`CloseErrCh`, and in `Wait` the receipt of an error, of the closing, or of nothing.
`Orchestrator` has one group for the loops of its mode and a new one for every
iteration of the relayer. Iterations of the other loops succeed or fail; any iteration
may also hang. Wait polls with errors in hand only once the channel is empty.

### Startup

One step is one call of a command that may end it. A key stands for its address, and
each way to load keys (`fromLedger`, `fromPrivKey`, `fromKeystore`, `newInMemoryKeyring`,
`newKeyringFromDir`) is a function from the flags to an account, or an error.

## Runs

| run | question | states |
|---|---|---|
| `peggy` | Does any order of transactions, with any validators' signatures in any position, break the log, the approvals, the holdings or the pause? | 86,616 |
| `oracle_safety` | Can reorganisations, incomplete replies, lost claims, lost answers, crashes or bond changes make the loop claim anything but the final events in order, or pass over one? | 1,107,990 |
| `oracle_liveness` | Is every confirmed event eventually claimed, up to the ones in the log at the last loss? | 266,910 |
| `oracle_resync` | Is a missed event claimed without a newer one, as the documentation says? No. | |
| `relayer_valsets` | Does the relayer find the installed set and submit with it what the contract accepts, does the newest set get installed, and only as confirmed? | 121,835 |
| `relayer_batches` | Do batches get executed, or time out, without a later one in their way, and only what was confirmed and is still listed? | 247,643 |
| `relayer_alarm` | Is a reported hijacking one? Not always. | |
| `committer` | Can a nonce be given out twice, the cache run ahead, or a call never return? | 88,892 |
| `committer_known` | Does "known transaction" skip a nonce? No. | |
| `orchestrator` | Does a failing loop end the process, whatever the others do, and does every task end in time? | 263,040 |
| `orchestrator_wait` | Does `Wait` report every failure? No. | |
| `startup_eth_from` | Does a process that runs have the account it was asked for? No. | |

`peggy` has three validators and five validator sets (the order of powers, a
reward, a set below the threshold, a jump at the limit), four batches of two
tokens (fees, a timeout in reach) and four events, so that an update, a batch under
the old and one under the new set, a deposit and a deployment all meet. Deadlock is
not checked there: the bounds stop the contract. `oracle_safety` has three events
(two in one block among the possibilities), a search range of two blocks so that
it is cut, one reorganisation, two faults and two attempts. `oracle_liveness` has
two events, one fault and six blocks. The height matters: the loop first looks at
block three, so a loss is at block three or later, the event that heals it is in
block four and is confirmed at block six. With four blocks
nothing is ever healed, and `NewerEventsHeal` holds of a loop that never goes back.

`relayer_valsets` has three sets. The first one is not in the order
`BridgeValidators.Sort` gives, as a set chosen at deployment need not be; two of its
three members reach the relayer's 66 percent but not the contract's threshold. The
window of the search is one block, so that it takes several. Two faults are queries
and submissions that fail, or offsets that have not passed. `relayer_batches` has two
sets, two batches of one token, of which the first times out within the bounds, and
no faults; the batch task's failures are taken, without batches, in `relayer_valsets`.
With one fault `relayer_batches` has 535,216 states and holds as well, but takes more
than twice the time, which is why it is not the configuration that is kept.
`MaxIdleHeight` is
the last block without a call, which bounds the behaviours; calls may still come in
later blocks.
`committer` has two goroutines, four nonces and two faults: one to create a gap or lose
an answer, one to meet it again. `orchestrator` has one loop that only a validator
runs, three loops in all, and two attempts; the loops do not differ in how they fail.
Deadlock is not checked there: a process that has ended does nothing.

### Properties of the contract

* `EventLogContiguous`: the n-th event has nonce n. The oracle loops rest on it.
* `LogRevealsCheckpoint`: the valset event with the highest nonce carries the set
  whose checkpoint is stored. The relayer rests on it (`findLatestValsetOnEth`).
* `BatchesExecuteOnceInOrder`, `Backed`: no batch twice, none after its timeout,
  none after a later one; deposits are held until they are paid out.
* `ApprovedByQuorum`: whatever changes the sets, the batch nonces, or takes or
  mints tokens was signed by members of the set installed at that moment whose
  powers, by an independent sum, exceed the threshold.
* `InstalledValsetCanVote`: no set is installed that could approve nothing.
* `PauseFreezesBridge`, `OwnerlessPauseIsForever`: what a pause stops, and that it
  is final once there is no owner.

### Properties of the oracle

* `ClaimsAreFinal` and `ImplementsClaimStream`: the claims are the final events in
  order, so any two validators agree on every nonce both have claimed.
* `NothingSkipped`: below `lastObservedEthHeight` everything is claimed or in the
  mempool, up to losses.
* `NewerEventsHeal`: liveness, and with it the repair after a loss.
* `MissedEventsAreResynced`: violated, see the findings.

### Properties of the relayer

* `RelayerHoldsInstalledSet`: what both tasks use as the current set is, in the order
  the contract has hashed, the set installed at the header the search began with. The
  sort in place is harmless only because it is skipped for the set of the deployment,
  which Injective does not know, and Injective's own sets are sorted.
* `ConfirmedCallIsAccepted`: if that set is still installed and enough members have
  confirmed, the contract accepts the call, unless the item itself stands in the way:
  its nonce is behind, it can not be paid, a set can not vote, a batch has timed out.
* `RevertsOnlyWhenOvertaken`: a call that waits in the mempool can come to revert only
  because a newer set was installed, its batch was executed, passed or timed out, or
  there is no longer enough to pay it. Its array of signatures, its hashes and the limit
  on nonce jumps never become wrong while it waits.
* `ImplementsIdealBridge`: the composed system is an `IdealBridge`. Searches, outdated
  sets, signature arrays, waiting calls and reverts change nothing of what is installed,
  executed and paid. A batch is executed only while Injective lists it: one that waits in
  the mempool while Injective attests its timeout, or its execution by another relayer,
  is not paid any more. `Attest` drops a batch once `height` is past its timeout and the
  contract refuses it from the timeout on, so that one block lies between the two.
* `ExecutedWasConfirmed`: from end to end, whatever the contract executes is a set or a
  batch Injective created, and members of the set installed at that moment, above the
  threshold, have confirmed it to Injective. A confirmation is copied into a task, put
  into an array in the order of one set and waits in the mempool, where the set can be
  replaced, before the contract counts it.
* `NoLiveBatchIsOvertaken`: nothing the relayer submits makes an older batch that
  could still be executed worthless. `OtherRelayer` may do so: it is not bound by the
  order.
* `NewestSetIsInstalled`, `BatchesAreExecuted`: liveness. The newest set with any
  confirmation hides older ones; it gets its other confirmations in the end.
* `AlarmOnlyInRace`: a reported hijacking means that the set was updated in between.

### Properties of the committer

* `NonceUsedOnce`: a transaction whose hash `SendTx` has returned is never replaced.
  This does not rest on the cache only growing: a resync can set it back. It is set
  back only when the node is past the nonce, or keeps nothing above a gap.
* `NoGap`: the cache is ahead of the node only after an eviction, an "invalid sender"
  or repeated "known transaction" answers. A node that keeps transactions above a gap
  never complains, so that such a gap lasts until the process is restarted.
* `SendTxReturns`: every call ends, unless the node keeps a known transaction above a
  gap: then the loop of `SendTx` spins.

`noncecache.go` describes a nonce that is decreased again when a transaction was not
submitted; `Decr` is never called.

### Properties of the process

* `FailureEndsProcess`: an error of one loop ends the process although the other
  loops hang, unless they have all ended.
* `FailedTaskEnds`: no goroutine blocks on the error channel after `Wait` is gone.
* `NoStrayRelayTask`, `WaitIsSound`: what `Wait` promises, and that iterations of the
  relayer do not overlap.

### Fairness

`FairSpec` asks for three things. Blocks go on (`MineBlock`) and Injective handles
the claims in its mempool (`ExecuteClaim`): both are the business of the chains.
The loop makes its next call (`Oracle`), which `RunLoop` does every minute, and
`startValidatorMode` is part of it: the code exits on an error and relies on
whoever runs it to start it again. No fairness is asked of `ChangeBond`; the
liveness properties are about a validator that stays in the active set from some
point on. All are weak fairness.

`RelayerFairSpec` asks that signers confirm, that Injective attests, that blocks are
sealed and include what was submitted, and that the search and both tasks go on; the
loops do so by their timers, and an error only starts the process over. Nothing
obliges Injective to create a set or a batch, or another relayer to act. `FairSpec` of
`EthCommitter` asks that the node mines what it can, that a call in progress goes on,
and, as strong fairness, that a goroutine gets a mutex that is free again and again:
Go's mutexes are starvation free. `FairSpec` of `Orchestrator` only asks the runtime to
schedule what can go on, never that an iteration ends.

That a loop or a call goes on includes that the nodes answer. The code enforces this
for few requests: sending an Ethereum transaction has a timeout, but the queries of
the loops and `PendingNonceAt` in a resync, which is called with the lock of the nonce
held, have none. The liveness of oracle, relayer and committer is therefore about nodes
that answer, with an error or not; one that never does stops them, and `orchestrator`
shows only that a loop that hangs does not keep another one's error from ending the
process.

### Findings

* `docs/ARCHITECTURE.md` describes a periodic resync every 24 hours for missed
  events. The code stores `lastResyncWithInjective` and never reads it. An event
  that a reply leaves out is therefore claimed only after a newer event, or after a
  restart (`oracle_resync`); `oracle_liveness` shows that a newer event is enough.
* `Wait` of `ParanoidGroup` is documented to return an error if a task failed. It
  returns nil when the last task leaves between the receipt of an error and the next
  poll (`orchestrator_wait`). The relayer then goes on with its next iteration; a
  process whose loops have all ended waits for a signal and does nothing.
* After "known transaction" the committer is documented to skip a nonce. The new
  nonce goes to a variable of the inner block, and the same one is sent again
  (`committer_known`).
* `checkIfValsetsDiffer` is documented to warn of sets that differ for a nonce. The
  header is read before the nonce, so that an ordinary update in between is reported
  as a possible hijacking (`relayer_alarm`). Nothing else follows from the warning.
* A from address that does not fit the private key, or is no address, is an error
  without an error: `errors.Wrap` of nil is nil. The process starts with the zero
  address and no signer (`startup_eth_from`), although `--eth-from` is documented as
  an address that must match.

## Proofs

All theorems hold for every value of the constants, bounds included.

`PeggyProofs` proves the type invariant, `EventLogContiguous`,
`LogRevealsCheckpoint`, `BatchesExecuteOnceInOrder`, `Backed`, `PauseFreezesBridge`
and `OwnerlessPauseIsForever`, from the named assumptions of `Peggy` on its
constants. Every step of the contract is one of four kinds, a valset step, a batch
step, another event or no event (`LogSteps`), and the proofs about the log argue by
these. `LogRevealsCheckpoint` is not inductive: it says nothing when several events
share the highest nonce, or of the set an update starts from. The strengthening
`CurrentValsetInLog` adds that the installed set is in the log, that no event has a
higher valset nonce, and that every event with that nonce carries that set.

`PeggyQuorumProofs` proves `ApprovedByQuorum` and `InstalledValsetCanVote`. Both relate
the contract's loops, which skip positions and stop once the threshold is passed
(`cumulativePower`), to a plain sum over the positions of the signers (`PowerOf`).
`RunningSumBelowSum` is that relation, for sets of any size: what a loop holds at its end
is at most the sum over any positions that include those it counted. It is an induction
over positions, done with the least position that would be wrong (`LeastNat`), and it
first takes proofs that the recursive functions exist (`SumsExist`, `CumulativePower`)
and that a sum does not depend on the order of its terms (`SumTakesAny`). The invariant
is `InstalledValsetIsValid`: the set whose checkpoint is stored has passed
`_validateValidatorSet`.

`OracleProofs` proves the type invariant, `ClaimsAreFinal`, the refinement of
`ClaimStream` and `NothingSkipped`. The inductive invariant `IInv` adds that the log is
in block order with the n-th event at nonce n, that the head is within the confirmation
delay of the highest block there was, that the end of a query's range is final, and
that the fetched events, the unsent ones and the mempool hold final events only.
`FinalStep` is the fact about Ethereum all rests on: in every step the final events
stay and new ones have higher nonces. `NothingSkipped` speaks of the time between two
iterations; `SkipInv` follows an event of the range through the iteration, from the
reply to the unsent events and from there to the mempool and the claims.

`RelayerProofs` proves `NoLiveBatchIsOvertaken` for the whole composition. The choice of
the oldest confirmed batch is not enough; `BatchInv` adds that of two batches Injective
lists, the older one has every confirmation of the newer one, which is the order in
which the signers go. It also has the invariant `RelayInv` of the composition, and shows
that every step but the search for the installed set keeps it; that step is shown in
`RelayerSetProofs`, which needs more of arithmetic for it. Its last part is what happens
to calls that wait (`ContractMoves`, `EstimationStays`).

`RelayerSetProofs` proves, of the same composition,

* `RelayerHoldsInstalledSet`, `AlarmOnlyInRace` and the type invariant. `RelayInv` is the
  inductive invariant. It adds to them that the sets of the log are Injective's but for
  the first, with increasing nonces (`LogInv`), that Injective's set for the nonce that
  was read lies between what the search will find and what is installed (`NonceRead`),
  and that tasks run only within an iteration and send only what exists. That the windows
  miss no event, whatever their size, is `SearchFindsInstalled`; that the sort in place
  changes no set of Injective is `SortedStays`: an order of positions that sorts a sorted
  set is the identity. Here too the induction is by a least counterexample.
* `BridgeImplementsPeggy`: every step of the composition is a step of the contract or
  leaves it alone. All theorems about `Peggy` therefore hold of the composition.
* `ExecutedWasConfirmed`, with what `RelayInv` says of calls in the mempool: the array of
  each is made of confirmations of its item, and confirmations are never taken back.
* `ConfirmedCallIsAccepted`. That the set and the signatures pass the checks of the
  contract is a lemma (`ConfirmedCallAuthorized`); the rest is that nothing in the
  composition pauses the contract (`NeverPaused`), and the conditions on the item that the
  property names.
* `RevertsOnlyWhenOvertaken`. It is not inductive: of a call that can not be paid at the
  moment it says nothing else, so that its signatures could be wrong when it can be paid
  again. `MempoolInv` keeps what remains of the estimation of the gas
  while the contract moves on (`WasEstimated`): the named set is installed, or its nonce is
  behind for ever, since nonces only grow (`ContractMoves`); the checks of the signatures
  and of a new set do not depend on the state; and the limit on jumps of batch nonces only
  gets further away.
* `ImplementsIdealBridge`: every step of Injective is one of `IdealBridge` or is not seen
  there, every call that succeeds installs or executes what its quorum has confirmed and
  pays exactly that (`ExecuteIsIdeal`, `RewardIsPaid`, `BatchIsPaid`), and everything else
  stutters. The quorum comes from `PeggyQuorumProofs`. That a batch is listed when it is
  executed takes the invariant `GivenUpIsClosed`: of every batch that is off the list the
  nonce or the timeout has passed, and neither the contract's nonces nor the height go
  back.

`EthCommitterProofs` proves `NonceUsedOnce`, `NoGap` and the type invariant. The cache alone does not say
which nonces are in use: `NonceInv` adds that only the holder of the lock is in a call,
that the cache and the nonce of the call are past every nonce in use, that a node that
keeps nothing above a gap has everything in use, and that a resync only happens where
it can not go below them. `GapInv` adds that the node has what it called known, and
that within a call the cache is ahead of the call's nonce by such transactions only.

`ParanoidGroupProofs` proves that `Wait` is sound for any tasks and any buffer
(`GroupInv`: closed only after all have ended, errors only of tasks that failed);
`OrchestratorProofs` takes it over, by instantiation, for both groups of the process and
proves `NoStrayRelayTask` and the type invariant.

Model-checked only: the liveness properties `NewerEventsHeal`, `NewestSetIsInstalled`,
`BatchesAreExecuted`, `SendTxReturns`, `FailureEndsProcess` and `FailedTaskEnds`. They
rest on fairness, which is out of reach of the prover. Every other property that a passing
run checks is proved.

## Not modelled

* Two thirds of the Go lines of the repository are generated contract wrappers; they
  are outside of the model.
* The contract: token callbacks and the reentrancy guard, upgrades, gas.
* The batch creator's arithmetic on fees and prices, the price feed, gas prices; the
  model takes any outcome.
* The list of pending transactions is a nondeterministic answer. Its slice is written
  and read by two goroutines without a lock; what such a race leaves in it is one of
  these answers, a crash of the process excepted.
* `SendToCosmos` and `SendToEth`, which no loop calls.
* In `Startup`, parsing of flags, cryptography and key files. `HasRegisteredOrchestrator`
  takes a query that fails for an address that is not registered, and the process of a
  validator then runs in relayer mode; the model has it, but no document says what it
  should do.
* The start of `startValidatorMode` ends the process when the contract's id or the
  parameters can not be read; `Orchestrator` begins after it.
* The Peggy module of Injective is not in this repository; its behaviour is taken from
  how the code uses it. A validator that joins late starts, on Injective, from a claim
  the module makes up; the model starts every validator at the first event. Several
  oracles and the counting of their claims are not composed: `ClaimStream` is what such
  a composition would use of each.
* Reorganisations as the relayer sees them; it submits by the head of the chain and
  a call that no longer fits reverts.
* Metrics, logging, the subgraph.
