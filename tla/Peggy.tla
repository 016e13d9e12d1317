------------------------------- MODULE Peggy --------------------------------
(***************************************************************************)
(* The bridge contract on Ethereum (solidity/contracts/Peggy.sol with      *)
(* OwnableUpgradeableWithExpiry, Pausable and CosmosToken).                *)
(*                                                                         *)
(* One action is one transaction that succeeds: a transaction that         *)
(* reverts changes nothing.  A hash is a tagged tuple of what is hashed    *)
(* (keccak256 is taken to be injective), a signature is the pair of the    *)
(* signer and the hash that was signed, and a batch carries the sum of its *)
(* amounts and the sum of its fees, of at least one transaction.  Tokens   *)
(* do not call back.                                                       *)
(*                                                                         *)
(* An operator that stands right before another with the same parameters   *)
(* and is used nowhere is a faulty variant of it: PROJECT.json names the   *)
(* property each one breaks.                                               *)
(***************************************************************************)
EXTENDS Naturals, Sequences, Functions

CONSTANTS
  Validator,       \* Ethereum addresses of validators
  ERC20,           \* token contracts that exist outside the bridge
  CosmosERC20,     \* addresses deployERC20 can create a token at
  Account,         \* callers that can own the contract
  NoAddress,       \* address(0)
  peggyId,         \* state_peggyId, set once by initialize
  Valset,          \* the validator sets a caller can pass
  InitialValset,   \* the validator set given to initialize
  Batch,           \* the batches a caller can pass
  Amount,          \* the token amounts of a deposit or a transfer
  PowerThreshold,  \* state_powerThreshold, set once by initialize
  MAX_NONCE_JUMP_LIMIT,
  MaxHeight,       \* bound: last Ethereum block
  MaxEventNonce,   \* bound: number of events
  MaxBalance       \* bound: tokens of a kind the contract can be sent

Token == ERC20 \cup CosmosERC20

ASSUME TokenAssumption ==
  /\ ERC20 \cap CosmosERC20 = {}
  /\ NoAddress \notin Token \cup Account
  /\ Amount \subseteq Nat

ASSUME ValsetAssumption ==
  /\ Valset \subseteq [nonce: Nat, members: Seq(Validator), powers: Seq(Nat),
                       rewardAmount: Nat, rewardToken: Token \cup {NoAddress}]
  /\ InitialValset \in Valset
  /\ InitialValset.nonce = 0
  /\ InitialValset.rewardAmount = 0
  /\ InitialValset.rewardToken = NoAddress

ASSUME BatchAssumption ==
  Batch \subseteq [token: Token, nonce: Nat, timeout: Nat, total: Nat, fee: Nat]

ASSUME BoundAssumption ==
  /\ PowerThreshold \in Nat
  /\ MAX_NONCE_JUMP_LIMIT \in Nat
  /\ MaxHeight \in Nat
  /\ MaxEventNonce \in Nat \ {0}
  /\ MaxBalance \in Nat

VARIABLES
  state_lastValsetCheckpoint,
  state_lastValsetNonce,
  state_lastBatchNonces,
  state_lastEventNonce,
  isInjectiveNativeToken,  \* the set of tokens deployERC20 created
  paused,
  owner,
  expired,       \* block.timestamp is past the ownership expiry
  height,        \* block.number
  balance,       \* token -> balanceOf(Peggy)
  supply,        \* token created by deployERC20 -> totalSupply
  events,        \* the log of the contract
  credited,      \* history: token -> sum of the SendToInjective amounts
  released,      \* history: token -> what batches and rewards paid out or minted
  lastApproval   \* history: what the last quorum approved, of which valset

valsetVars == <<state_lastValsetCheckpoint, state_lastValsetNonce>>
fundVars == <<balance, supply, credited, released>>
logVars == <<state_lastEventNonce, events>>
adminVars == <<paused, owner, expired>>

vars == <<valsetVars, state_lastBatchNonces, isInjectiveNativeToken, adminVars,
          height, fundVars, logVars, lastApproval>>

NoSig == <<>>

-----------------------------------------------------------------------------
(* Hashes and signatures.                                                  *)

makeCheckpoint(valset) == <<"checkpoint", peggyId, valset>>

batchHash(batch) == <<"transactionBatch", peggyId, batch>>

verifySigOfAnyone(signer, hash, sig) == sig[2] = hash

verifySig(signer, hash, sig) == sig = <<signer, hash>>

cumulativePowerOfAll(powers, counted) ==
  LET sum[i \in 0..Len(powers)] ==
        IF i = 0 THEN 0
        ELSE IF sum[i - 1] > PowerThreshold THEN sum[i - 1] ELSE sum[i - 1] + powers[i]
  IN  sum

\* What the two power loops hold after each position: positions that are not
\* counted are passed over, and nothing is added once the threshold is passed.
cumulativePower(powers, counted) ==
  LET sum[i \in 0..Len(powers)] ==
        IF i = 0 THEN 0
        ELSE IF sum[i - 1] > PowerThreshold \/ ~counted[i]
             THEN sum[i - 1]
             ELSE sum[i - 1] + powers[i]
  IN  sum

validateValidatorSetAtThreshold(valset) ==
  /\ Len(valset.members) = Len(valset.powers)
  /\ cumulativePower(valset.powers, [i \in DOMAIN valset.powers |-> TRUE])
        [Len(valset.powers)] >= PowerThreshold

validateValidatorSet(valset) ==
  /\ Len(valset.members) = Len(valset.powers)
  /\ cumulativePower(valset.powers, [i \in DOMAIN valset.powers |-> TRUE])
        [Len(valset.powers)] > PowerThreshold

\* A signature that is absent (v = 0) is skipped, and one past the position
\* where the loop breaks is never looked at; any other one must verify.
checkValidatorSignatures(valset, sigs, hash) ==
  LET present == [i \in DOMAIN sigs |-> sigs[i] # NoSig]
      power   == cumulativePower(valset.powers, present)
  IN  /\ \A i \in DOMAIN sigs :
           present[i] /\ power[i - 1] <= PowerThreshold
             => verifySig(valset.members[i], hash, sigs[i])
      /\ power[Len(sigs)] > PowerThreshold

wellFormed(valset, sigs) ==
  /\ Len(valset.members) = Len(valset.powers)
  /\ Len(valset.members) = Len(sigs)

Signers(sigs) == {sigs[i][1] : i \in {j \in DOMAIN sigs : sigs[j] # NoSig}}

-----------------------------------------------------------------------------
(* Helpers of the actions.                                                 *)

Emit(type, data) ==
  /\ state_lastEventNonce < MaxEventNonce
  /\ state_lastEventNonce' = state_lastEventNonce + 1
  /\ events' = Append(events, [type   |-> type,
                               nonce  |-> state_lastEventNonce + 1,
                               height |-> height,
                               data   |-> data])

whenNotPausedDropped == TRUE

whenNotPaused == ~paused

onlyOwnerIfAny(sender) == owner \in {sender, NoAddress}

onlyOwner(sender) == owner = sender

\* A new validator set or batch nonce lies above the last one, and not so far
\* above it that no further one could follow.
nonceAdvancesOrRepeats(new, last) == new >= last /\ new < last + MAX_NONCE_JUMP_LIMIT

nonceMayGoBack(new, last) == new # last /\ new < last + MAX_NONCE_JUMP_LIMIT

nonceAdvances(new, last) == new > last /\ new < last + MAX_NONCE_JUMP_LIMIT

\* A call to an address without code reverts (SafeERC20, Address).
TokenExists(t) == t \in ERC20 \cup isInjectiveNativeToken

Add(f, t, n) == [f EXCEPT ![t] = f[t] + n]
Sub(f, t, n) == [f EXCEPT ![t] = f[t] - n]

-----------------------------------------------------------------------------
(* initialize has run: the initial validator set is installed under nonce  *)
(* 0 and the log holds its event.                                          *)

Init ==
  /\ validateValidatorSet(InitialValset)
  /\ state_lastValsetCheckpoint = makeCheckpoint(InitialValset)
  /\ state_lastValsetNonce = 0
  /\ state_lastBatchNonces = [t \in Token |-> 0]
  /\ state_lastEventNonce = 1
  /\ isInjectiveNativeToken = {}
  /\ paused = FALSE
  /\ owner \in Account
  /\ expired = FALSE
  /\ height = 0
  /\ balance = [t \in Token |-> 0]
  /\ supply = [t \in CosmosERC20 |-> 0]
  /\ events = <<[type |-> "ValsetUpdated", nonce |-> 1, height |-> 0,
                 data |-> InitialValset]>>
  /\ credited = [t \in Token |-> 0]
  /\ released = [t \in Token |-> 0]
  /\ lastApproval = [valset |-> InitialValset, signers |-> {}]

RewardTokenExists(valset) ==
  valset.rewardToken # NoAddress /\ valset.rewardAmount # 0 => TokenExists(valset.rewardToken)

\* The submission reward is paid out of what the contract holds.
RewardIsCovered(valset) ==
  LET t == valset.rewardToken
      n == valset.rewardAmount
  IN  t # NoAddress /\ n # 0 => TokenExists(t) /\ n <= balance[t]

PayReward(valset) ==
  LET t == valset.rewardToken
      n == valset.rewardAmount
  IN  IF t # NoAddress /\ n # 0
      THEN /\ balance' = Sub(balance, t, n)
           /\ released' = IF t \in isInjectiveNativeToken
                          THEN released ELSE Add(released, t, n)
           /\ UNCHANGED <<supply, credited>>
      ELSE UNCHANGED fundVars

\* The conditions under which a call of updateValset does not revert.
updateValsetRequires(newValset, currentValset, sigs) ==
  /\ whenNotPaused
  /\ nonceAdvances(newValset.nonce, currentValset.nonce)
  /\ wellFormed(currentValset, sigs)
  /\ makeCheckpoint(currentValset) = state_lastValsetCheckpoint
  /\ checkValidatorSignatures(currentValset, sigs, makeCheckpoint(newValset))
  /\ validateValidatorSet(newValset)
  /\ RewardIsCovered(newValset)

updateValset(newValset, currentValset, sigs) ==
  /\ updateValsetRequires(newValset, currentValset, sigs)
  /\ state_lastValsetCheckpoint' = makeCheckpoint(newValset)
  /\ state_lastValsetNonce' = newValset.nonce
  /\ PayReward(newValset)
  /\ Emit("ValsetUpdated", newValset)
  /\ lastApproval' = [valset |-> currentValset, signers |-> Signers(sigs)]
  /\ UNCHANGED <<state_lastBatchNonces, isInjectiveNativeToken, adminVars, height>>

\* Amounts are minted for a token the bridge created and otherwise paid out of
\* what the contract holds; the fees are always paid out of what it holds.
BatchIsCovered(batch) ==
  LET t == batch.token
  IN  /\ TokenExists(t)
      /\ IF t \in isInjectiveNativeToken
         THEN batch.fee <= balance[t]
         ELSE batch.total + batch.fee <= balance[t]

PayBatch(batch) ==
  LET t == batch.token
  IN  /\ IF t \in isInjectiveNativeToken
         THEN /\ supply' = Add(supply, t, batch.total)
              /\ balance' = Sub(balance, t, batch.fee)
              /\ released' = Add(released, t, batch.total)
         ELSE /\ balance' = Sub(balance, t, batch.total + batch.fee)
              /\ released' = Add(released, t, batch.total + batch.fee)
              /\ UNCHANGED supply
      /\ UNCHANGED credited

\* The conditions under which a call of submitBatch does not revert.
submitBatchRequires(currentValset, sigs, batch) ==
  /\ whenNotPaused
  /\ nonceAdvances(batch.nonce, state_lastBatchNonces[batch.token])
  /\ height < batch.timeout
  /\ wellFormed(currentValset, sigs)
  /\ makeCheckpoint(currentValset) = state_lastValsetCheckpoint
  /\ checkValidatorSignatures(currentValset, sigs, batchHash(batch))
  /\ BatchIsCovered(batch)

submitBatch(currentValset, sigs, batch) ==
  /\ submitBatchRequires(currentValset, sigs, batch)
  /\ state_lastBatchNonces' = [state_lastBatchNonces EXCEPT ![batch.token] = batch.nonce]
  /\ PayBatch(batch)
  /\ Emit("BatchExecuted", batch)
  /\ lastApproval' = [valset |-> currentValset, signers |-> Signers(sigs)]
  /\ UNCHANGED <<valsetVars, isInjectiveNativeToken, adminVars, height>>

sendToInjectiveCreditsSent(t, amount, received) ==
  /\ whenNotPaused
  /\ t \in ERC20
  /\ received <= amount
  /\ balance' = Add(balance, t, received)
  /\ credited' = Add(credited, t, amount)
  /\ Emit("SendToInjective", [token |-> t, amount |-> amount])
  /\ UNCHANGED <<valsetVars, state_lastBatchNonces, isInjectiveNativeToken,
                 adminVars, height, supply, released, lastApproval>>

\* The event of a token that exists outside the bridge carries what arrived,
\* which a token with a transfer fee makes less than what was sent.
sendToInjective(t, amount, received) ==
  /\ whenNotPaused
  /\ TokenExists(t)
  /\ received <= amount
  /\ IF t \in isInjectiveNativeToken
     THEN /\ received = amount
          /\ amount <= supply[t] - balance[t]
          /\ supply' = Sub(supply, t, amount)
          /\ UNCHANGED balance
     ELSE /\ balance' = Add(balance, t, received)
          /\ UNCHANGED supply
  /\ credited' = Add(credited, t, received)
  /\ Emit("SendToInjective", [token |-> t, amount |-> received])
  /\ UNCHANGED <<valsetVars, state_lastBatchNonces, isInjectiveNativeToken,
                 adminVars, height, released, lastApproval>>

deployERC20KeepsNonce(t) ==
  /\ t \notin isInjectiveNativeToken
  /\ isInjectiveNativeToken' = isInjectiveNativeToken \cup {t}
  /\ events' = Append(events, [type   |-> "ERC20Deployed",
                               nonce  |-> state_lastEventNonce,
                               height |-> height,
                               data   |-> t])
  /\ UNCHANGED <<valsetVars, state_lastBatchNonces, state_lastEventNonce, adminVars,
                 height, fundVars, lastApproval>>

deployERC20(t) ==
  /\ t \notin isInjectiveNativeToken
  /\ isInjectiveNativeToken' = isInjectiveNativeToken \cup {t}
  /\ Emit("ERC20Deployed", t)
  /\ UNCHANGED <<valsetVars, state_lastBatchNonces, adminVars, height, fundVars,
                 lastApproval>>

-----------------------------------------------------------------------------
(* Administration.                                                         *)

bridgeVars == <<valsetVars, state_lastBatchNonces, isInjectiveNativeToken,
                height, fundVars, logVars, lastApproval>>

emergencyPause(sender) ==
  /\ onlyOwner(sender)
  /\ ~paused
  /\ paused' = TRUE
  /\ UNCHANGED <<owner, expired, bridgeVars>>

emergencyUnpause(sender) ==
  /\ onlyOwner(sender)
  /\ paused
  /\ paused' = FALSE
  /\ UNCHANGED <<owner, expired, bridgeVars>>

transferOwnership(sender, newOwner) ==
  /\ onlyOwner(sender)
  /\ newOwner # NoAddress
  /\ owner' = newOwner
  /\ UNCHANGED <<paused, expired, bridgeVars>>

renounceOwnership(sender) ==
  /\ onlyOwner(sender)
  /\ owner' = NoAddress
  /\ UNCHANGED <<paused, expired, bridgeVars>>

renounceOwnershipAfterExpiry ==
  /\ expired
  /\ owner' = NoAddress
  /\ UNCHANGED <<paused, expired, bridgeVars>>

-----------------------------------------------------------------------------
(* The environment: time passes, and a holder transfers tokens to the      *)
(* contract without calling it.                                            *)

NextBlock ==
  /\ height < MaxHeight
  /\ height' = height + 1
  /\ UNCHANGED <<valsetVars, state_lastBatchNonces, isInjectiveNativeToken,
                 adminVars, fundVars, logVars, lastApproval>>

OwnershipExpires ==
  /\ ~expired
  /\ expired' = TRUE
  /\ UNCHANGED <<paused, owner, bridgeVars>>

ReceiveTokens(t, amount) ==
  /\ TokenExists(t)
  /\ balance[t] + amount <= MaxBalance
  /\ t \in isInjectiveNativeToken => amount <= supply[t] - balance[t]
  /\ balance' = Add(balance, t, amount)
  /\ UNCHANGED <<valsetVars, state_lastBatchNonces, isInjectiveNativeToken,
                 adminVars, height, supply, credited, released, logVars, lastApproval>>

\* Any validator may have signed any hash: a caller can pass each signature
\* over the hash in any position.
SigArrays(valset, hash) ==
  [1..Len(valset.members) -> {NoSig} \cup {<<v, hash>> : v \in Validator}]

Next ==
  \/ \E newValset, currentValset \in Valset :
       \E sigs \in SigArrays(currentValset, makeCheckpoint(newValset)) :
         updateValset(newValset, currentValset, sigs)
  \/ \E currentValset \in Valset, batch \in Batch :
       \E sigs \in SigArrays(currentValset, batchHash(batch)) :
         submitBatch(currentValset, sigs, batch)
  \/ \E t \in Token, amount, received \in Amount : sendToInjective(t, amount, received)
  \/ \E t \in CosmosERC20 : deployERC20(t)
  \/ \E a \in Account : emergencyPause(a) \/ emergencyUnpause(a) \/ renounceOwnership(a)
  \/ \E a, b \in Account : transferOwnership(a, b)
  \/ renounceOwnershipAfterExpiry
  \/ NextBlock
  \/ OwnershipExpires
  \/ \E t \in Token, amount \in Amount : ReceiveTokens(t, amount)

Spec == Init /\ [][Next]_vars

-----------------------------------------------------------------------------
(* Properties.                                                             *)

Checkpoint == {makeCheckpoint(valset) : valset \in Valset}

Event ==
  [type: {"ValsetUpdated"}, nonce: Nat, height: Nat, data: Valset]
    \cup [type: {"BatchExecuted"}, nonce: Nat, height: Nat, data: Batch]
    \cup [type: {"SendToInjective"}, nonce: Nat, height: Nat,
          data: [token: Token, amount: Nat]]
    \cup [type: {"ERC20Deployed"}, nonce: Nat, height: Nat, data: CosmosERC20]

\* The type of the contract's storage, of its log and of its holdings.
TypeOK ==
  /\ state_lastValsetCheckpoint \in Checkpoint
  /\ state_lastValsetNonce \in Nat
  /\ state_lastBatchNonces \in [Token -> Nat]
  /\ state_lastEventNonce \in Nat
  /\ isInjectiveNativeToken \in SUBSET CosmosERC20
  /\ paused \in BOOLEAN
  /\ owner \in Account \cup {NoAddress}
  /\ expired \in BOOLEAN
  /\ height \in Nat
  /\ balance \in [Token -> Nat]
  /\ supply \in [CosmosERC20 -> Nat]
  /\ events \in Seq(Event)
  /\ credited \in [Token -> Nat]
  /\ released \in [Token -> Nat]
  /\ lastApproval \in [valset: Valset, signers: SUBSET Validator]

\* The event log is what the oracle loops walk through: the n-th event carries
\* event nonce n, whichever function emitted it, no nonce is skipped or used
\* twice, and events are in block order (state_lastEventNonce + 1 in every
\* emitting function of Peggy.sol).
EventLogContiguous ==
  /\ Len(events) = state_lastEventNonce
  /\ \A i \in 1..Len(events) : events[i].nonce = i /\ events[i].height <= height
  /\ \A i, j \in 1..Len(events) : i <= j => events[i].height <= events[j].height

IsValsetEvent(i) == i \in 1..Len(events) /\ events[i].type = "ValsetUpdated"

\* A relayer does not see the stored checkpoint's preimage: it takes the
\* ValsetUpdatedEvent with the highest valset nonce (findLatestValsetOnEth) and
\* submits the set it carries.  That set is always the one whose checkpoint the
\* contract stores, and its nonce is state_lastValsetNonce.
LogRevealsCheckpoint ==
  \A i \in 1..Len(events) :
    /\ IsValsetEvent(i)
    /\ \A j \in 1..Len(events) :
         IsValsetEvent(j) => events[j].data.nonce <= events[i].data.nonce
    => /\ makeCheckpoint(events[i].data) = state_lastValsetCheckpoint
       /\ events[i].data.nonce = state_lastValsetNonce

IsBatchEvent(i, t) ==
  /\ i \in 1..Len(events)
  /\ events[i].type = "BatchExecuted"
  /\ events[i].data.token = t

\* No batch is ever executed twice, and none after a later one of its token:
\* the nonces of the batches executed for a token strictly increase along the
\* log, across validator set updates and pauses, none is above the stored last
\* nonce, and every batch was executed in a block before its timeout.
BatchesExecuteOnceInOrder ==
  \A t \in Token : \A i \in 1..Len(events) : IsBatchEvent(i, t) =>
    /\ events[i].data.nonce <= state_lastBatchNonces[t]
    /\ events[i].height < events[i].data.timeout
    /\ \A j \in 1..Len(events) :
         IsBatchEvent(j, t) /\ i < j => events[i].data.nonce < events[j].data.nonce

\* What SendToInjective events have told Injective and batches and rewards have
\* not paid back is still held by the contract, even for a token that takes a
\* fee on transfers; and of a token the bridge created exactly what batches
\* minted and deposits did not burn exists.
Backed ==
  /\ \A t \in ERC20 : credited[t] <= balance[t] + released[t]
  /\ \A t \in CosmosERC20 : supply[t] + credited[t] = released[t] /\ balance[t] <= supply[t]

PowerOf(valset, signers) ==
  SumFunctionOnSet(valset.powers,
                   {i \in DOMAIN valset.members : valset.members[i] \in signers})

\* Nothing changes the validator set or a batch nonce, takes a token out of the
\* contract or mints one unless validators of the set installed at that moment,
\* counted once each and together above the threshold, have signed it
\* (checkValidatorSignatures and the checkpoint comparison of updateValset and
\* submitBatch).
ApprovedByQuorum ==
  [][\/ state_lastValsetCheckpoint' # state_lastValsetCheckpoint
     \/ state_lastBatchNonces' # state_lastBatchNonces
     \/ \E t \in Token : balance'[t] < balance[t]
     \/ \E t \in CosmosERC20 : supply'[t] > supply[t]
     => /\ makeCheckpoint(lastApproval'.valset) = state_lastValsetCheckpoint
        /\ PowerOf(lastApproval'.valset, lastApproval'.signers) > PowerThreshold]_vars

\* The contract never installs a validator set that could not approve anything:
\* all its members together exceed the threshold (_validateValidatorSet).
InstalledValsetCanVote ==
  \A valset \in Valset :
    makeCheckpoint(valset) = state_lastValsetCheckpoint
      => PowerOf(valset, Validator) > PowerThreshold

\* While the contract is paused no token leaves it, none is minted, no deposit
\* is credited and neither a batch nor a validator set is accepted
\* (whenNotPaused on updateValset, submitBatch and sendToInjective).
PauseFreezesBridge ==
  [][paused => /\ UNCHANGED <<valsetVars, state_lastBatchNonces, supply, credited>>
               /\ \A t \in Token : balance'[t] >= balance[t]]_vars

\* Renouncing ownership while the contract is paused is final: no sequence of
\* calls unpauses it again.
OwnerlessPauseIsForever ==
  [][paused /\ owner = NoAddress => paused' /\ owner' = NoAddress]_vars

=============================================================================
