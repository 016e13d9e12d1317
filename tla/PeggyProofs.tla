---------------------------- MODULE PeggyProofs -----------------------------
(***************************************************************************)
(* Proofs about the bridge contract, for every set of validators, tokens,  *)
(* validator sets and batches and for every bound.                         *)
(***************************************************************************)
EXTENDS Peggy, TLAPS

\* Every emitting function appends one event with the next nonce and leaves
\* the rest of the log as it is (Emit).
LEMMA EmitAppends ==
  ASSUME TypeOK, EventLogContiguous, NEW type, NEW data, Emit(type, data)
  PROVE  /\ Len(events) \in Nat
         /\ Len(events') = Len(events) + 1
         /\ state_lastEventNonce' = Len(events')
         /\ \A i \in 1..Len(events) : events'[i] = events[i]
         /\ \A i \in 1..Len(events') : i \in 1..Len(events) \/ i = Len(events')
         /\ events'[Len(events')].type = type
         /\ events'[Len(events')].nonce = Len(events')
         /\ events'[Len(events')].height = height
         /\ events'[Len(events')].data = data
<1>1. /\ Len(events) \in Nat
      /\ Len(events') = Len(events) + 1
      /\ state_lastEventNonce' = Len(events')
      /\ \A i \in 1..Len(events) : events'[i] = events[i]
      /\ events'[Len(events) + 1] = [type |-> type, nonce |-> Len(events) + 1,
                                     height |-> height, data |-> data]
  BY DEF TypeOK, EventLogContiguous, Emit
<1> QED
  BY <1>1

\* What the type of the log says of one event.
LEMMA EventType ==
  ASSUME TypeOK, NEW i \in 1..Len(events)
  PROVE  /\ events[i].height \in Nat
         /\ events[i].type = "ValsetUpdated" => events[i].data \in Valset
         /\ events[i].type = "BatchExecuted" => events[i].data \in Batch
<1>1. events[i] \in Event
  BY DEF TypeOK
<1> QED
  BY <1>1 DEF Event

\* The event an emitting function appends has the type of the log.
LEMMA EmitType ==
  ASSUME TypeOK, NEW type, NEW data, Emit(type, data),
         \/ type = "ValsetUpdated" /\ data \in Valset
         \/ type = "BatchExecuted" /\ data \in Batch
         \/ type = "SendToInjective" /\ data \in [token: Token, amount: Nat]
         \/ type = "ERC20Deployed" /\ data \in CosmosERC20
  PROVE  state_lastEventNonce' \in Nat /\ events' \in Seq(Event)
<1> DEFINE e == [type |-> type, nonce |-> state_lastEventNonce + 1,
                 height |-> height, data |-> data]
<1>1. e \in Event
  BY DEF TypeOK, Event
<1>2. events' = Append(events, e)
  BY DEF Emit
<1> QED
  BY <1>1, <1>2 DEF TypeOK, Emit

\* The caller of a call that an array of signatures accompanies passed
\* signatures of validators (SigArrays).
LEMMA SignersType ==
  ASSUME NEW valset \in Valset, NEW hash, NEW sigs \in SigArrays(valset, hash)
  PROVE  Signers(sigs) \in SUBSET Validator
<1> SUFFICES ASSUME NEW i \in DOMAIN sigs, sigs[i] # NoSig
             PROVE  sigs[i][1] \in Validator
  BY DEF Signers
<1>1. sigs[i] \in {<<v, hash>> : v \in Validator}
  BY DEF SigArrays, NoSig
<1> QED
  BY <1>1

-----------------------------------------------------------------------------
(* Type correctness.                                                       *)

\* Adding to or taking from the holdings of one token.
LEMMA AddSub ==
  ASSUME NEW S, NEW f \in [S -> Nat], NEW t \in S, NEW n \in Nat
  PROVE  /\ Add(f, t, n) \in [S -> Nat]
         /\ Add(f, t, n)[t] = f[t] + n
         /\ \A u \in S \ {t} : Add(f, t, n)[u] = f[u]
         /\ n <= f[t] => /\ Sub(f, t, n) \in [S -> Nat]
                         /\ Sub(f, t, n)[t] = f[t] - n
                         /\ \A u \in S \ {t} : Sub(f, t, n)[u] = f[u]
<1>1. f[t] \in Nat /\ f[t] + n \in Nat /\ (n <= f[t] => f[t] - n \in Nat)
  OBVIOUS
<1> DEFINE plus == f[t] + n
           minus == f[t] - n
<1>2. /\ [f EXCEPT ![t] = plus] \in [S -> Nat]
      /\ [f EXCEPT ![t] = plus][t] = plus
      /\ \A u \in S \ {t} : [f EXCEPT ![t] = plus][u] = f[u]
  <2> plus \in Nat
    BY <1>1
  <2> HIDE DEF plus
  <2> QED OBVIOUS
<1>3. ASSUME n <= f[t]
      PROVE  /\ [f EXCEPT ![t] = minus] \in [S -> Nat]
             /\ [f EXCEPT ![t] = minus][t] = minus
             /\ \A u \in S \ {t} : [f EXCEPT ![t] = minus][u] = f[u]
  <2> minus \in Nat
    BY <1>1, <1>3
  <2> HIDE DEF minus
  <2> QED OBVIOUS
<1> QED
  BY <1>2, <1>3 DEF Add, Sub

\* What the type invariant says of the holdings alone.
LEMMA FundsType ==
  ASSUME TypeOK
  PROVE  /\ balance \in [Token -> Nat] /\ supply \in [CosmosERC20 -> Nat]
         /\ credited \in [Token -> Nat] /\ released \in [Token -> Nat]
BY DEF TypeOK

\* initialize leaves the contract in its types.
LEMMA InitType == Init => TypeOK
<1> SUFFICES ASSUME Init PROVE TypeOK
  OBVIOUS
<1>1. [type |-> "ValsetUpdated", nonce |-> 1, height |-> 0, data |-> InitialValset] \in Event
  BY ValsetAssumption DEF Event
<1>2. events \in Seq(Event)
  BY <1>1 DEF Init
<1> QED
  BY <1>2, ValsetAssumption DEF Init, TypeOK, Checkpoint, Token

\* updateValset keeps the types: the reward is never more than what is held.
LEMMA UpdateValsetType ==
  ASSUME TypeOK, NEW newValset \in Valset, NEW currentValset \in Valset,
         NEW sigs \in SigArrays(currentValset, makeCheckpoint(newValset)),
         updateValset(newValset, currentValset, sigs)
  PROVE  TypeOK'
<1>1. state_lastEventNonce' \in Nat /\ events' \in Seq(Event)
  BY EmitType DEF updateValset
<1>2. lastApproval' \in [valset: Valset, signers: SUBSET Validator]
  BY SignersType DEF updateValset
<1>3. /\ newValset.nonce \in Nat /\ newValset.rewardAmount \in Nat
      /\ newValset.rewardToken \in Token \cup {NoAddress}
  BY ValsetAssumption
<1>4. /\ balance' \in [Token -> Nat] /\ supply' \in [CosmosERC20 -> Nat]
      /\ credited' \in [Token -> Nat] /\ released' \in [Token -> Nat]
  <2>1. PayReward(newValset) /\ RewardIsCovered(newValset)
    BY DEF updateValset, updateValsetRequires
  <2>2. CASE newValset.rewardToken # NoAddress /\ newValset.rewardAmount # 0
    <3>1. /\ newValset.rewardAmount <= balance[newValset.rewardToken]
          /\ balance' = Sub(balance, newValset.rewardToken, newValset.rewardAmount)
          /\ \/ released' = released
             \/ released' = Add(released, newValset.rewardToken, newValset.rewardAmount)
          /\ UNCHANGED <<supply, credited>>
      BY <2>1, <2>2 DEF PayReward, RewardIsCovered
    <3>2. newValset.rewardToken \in Token
      BY <1>3, <2>2
    <3>3. balance' \in [Token -> Nat]
      BY <1>3, <3>1, <3>2, FundsType, AddSub
    <3>4. released' \in [Token -> Nat]
      BY <1>3, <3>1, <3>2, FundsType, AddSub
    <3> QED
      BY <3>1, <3>3, <3>4, FundsType
  <2>3. CASE ~(newValset.rewardToken # NoAddress /\ newValset.rewardAmount # 0)
    BY <2>1, <2>3 DEF PayReward, TypeOK, fundVars
  <2> QED
    BY <2>2, <2>3
<1>5. /\ state_lastValsetCheckpoint' \in Checkpoint
      /\ state_lastValsetNonce' \in Nat
      /\ UNCHANGED <<state_lastBatchNonces, isInjectiveNativeToken, paused, owner, expired, height>>
  BY <1>3 DEF updateValset, Checkpoint, adminVars
<1> QED
  BY <1>1, <1>2, <1>4, <1>5 DEF TypeOK

\* submitBatch keeps the types: amounts and fees are never more than what is
\* held, or the amounts are minted.
LEMMA SubmitBatchType ==
  ASSUME TypeOK, NEW currentValset \in Valset, NEW batch \in Batch,
         NEW sigs \in SigArrays(currentValset, batchHash(batch)),
         submitBatch(currentValset, sigs, batch)
  PROVE  TypeOK'
<1>1. state_lastEventNonce' \in Nat /\ events' \in Seq(Event)
  BY EmitType DEF submitBatch
<1>2. lastApproval' \in [valset: Valset, signers: SUBSET Validator]
  BY SignersType DEF submitBatch
<1>3. /\ batch.token \in Token /\ batch.nonce \in Nat
      /\ batch.total \in Nat /\ batch.fee \in Nat /\ batch.total + batch.fee \in Nat
  BY BatchAssumption
<1>4. /\ balance' \in [Token -> Nat] /\ supply' \in [CosmosERC20 -> Nat]
      /\ credited' \in [Token -> Nat] /\ released' \in [Token -> Nat]
  <2>1. PayBatch(batch) /\ BatchIsCovered(batch)
    BY DEF submitBatch, submitBatchRequires
  <2>2. CASE batch.token \in isInjectiveNativeToken
    <3>1. batch.token \in CosmosERC20
      BY <2>2 DEF TypeOK
    <3>2. /\ batch.fee <= balance[batch.token]
          /\ supply' = Add(supply, batch.token, batch.total)
          /\ balance' = Sub(balance, batch.token, batch.fee)
          /\ released' = Add(released, batch.token, batch.total)
          /\ UNCHANGED credited
      BY <2>1, <2>2 DEF PayBatch, BatchIsCovered
    <3> QED
      BY <1>3, <3>1, <3>2, FundsType, AddSub
  <2>3. CASE batch.token \notin isInjectiveNativeToken
    <3>1. /\ batch.total + batch.fee <= balance[batch.token]
          /\ balance' = Sub(balance, batch.token, batch.total + batch.fee)
          /\ released' = Add(released, batch.token, batch.total + batch.fee)
          /\ UNCHANGED <<supply, credited>>
      BY <2>1, <2>3 DEF PayBatch, BatchIsCovered
    <3> QED
      BY <1>3, <3>1, FundsType, AddSub
  <2> QED
    BY <2>2, <2>3
<1>5. /\ state_lastBatchNonces' \in [Token -> Nat]
      /\ UNCHANGED <<state_lastValsetCheckpoint, state_lastValsetNonce,
                     isInjectiveNativeToken, paused, owner, expired, height>>
  BY <1>3 DEF submitBatch, TypeOK, adminVars, valsetVars
<1> QED
  BY <1>1, <1>2, <1>4, <1>5 DEF TypeOK

\* sendToInjective keeps the types: no more is burned than exists.
LEMMA SendToInjectiveType ==
  ASSUME TypeOK, NEW t \in Token, NEW amount \in Amount, NEW received \in Amount,
         sendToInjective(t, amount, received)
  PROVE  TypeOK'
<1>1. amount \in Nat /\ received \in Nat
  BY TokenAssumption
<1>2. state_lastEventNonce' \in Nat /\ events' \in Seq(Event)
  BY <1>1, EmitType DEF sendToInjective
<1>3. /\ balance' \in [Token -> Nat] /\ supply' \in [CosmosERC20 -> Nat]
      /\ credited' \in [Token -> Nat]
  <2>1. CASE t \in isInjectiveNativeToken
    <3>1. t \in CosmosERC20 /\ supply[t] \in Nat /\ balance[t] \in Nat
      BY <2>1 DEF TypeOK
    <3>2. amount <= supply[t]
      BY <1>1, <2>1, <3>1 DEF sendToInjective
    <3>3. /\ supply' = Sub(supply, t, amount)
          /\ credited' = Add(credited, t, received)
          /\ UNCHANGED balance
      BY <2>1 DEF sendToInjective
    <3> QED
      BY <1>1, <3>1, <3>2, <3>3, FundsType, AddSub
  <2>2. CASE t \notin isInjectiveNativeToken
    <3>1. /\ balance' = Add(balance, t, received)
          /\ credited' = Add(credited, t, received)
          /\ UNCHANGED supply
      BY <2>2 DEF sendToInjective
    <3> QED
      BY <1>1, <3>1, FundsType, AddSub
  <2> QED
    BY <2>1, <2>2
<1>4. UNCHANGED <<state_lastValsetCheckpoint, state_lastValsetNonce,
                  state_lastBatchNonces, isInjectiveNativeToken, paused, owner,
                  expired, height, released, lastApproval>>
  BY DEF sendToInjective, valsetVars, adminVars
<1> QED
  BY <1>2, <1>3, <1>4 DEF TypeOK

\* deployERC20 keeps the types.
LEMMA DeployERC20Type ==
  ASSUME TypeOK, NEW t \in CosmosERC20, deployERC20(t)
  PROVE  TypeOK'
<1>1. state_lastEventNonce' \in Nat /\ events' \in Seq(Event)
  BY EmitType DEF deployERC20
<1>2. isInjectiveNativeToken' \in SUBSET CosmosERC20
  BY DEF deployERC20, TypeOK
<1>3. UNCHANGED <<state_lastValsetCheckpoint, state_lastValsetNonce,
                  state_lastBatchNonces, paused, owner, expired, height,
                  balance, supply, credited, released, lastApproval>>
  BY DEF deployERC20, valsetVars, adminVars, fundVars
<1> QED
  BY <1>1, <1>2, <1>3 DEF TypeOK

\* A plain transfer to the contract keeps the types.
LEMMA ReceiveTokensType ==
  ASSUME TypeOK, NEW t \in Token, NEW amount \in Amount, ReceiveTokens(t, amount)
  PROVE  TypeOK'
<1>1. balance' \in [Token -> Nat]
  BY TokenAssumption, FundsType, AddSub DEF ReceiveTokens
<1>2. UNCHANGED <<state_lastValsetCheckpoint, state_lastValsetNonce,
                  state_lastBatchNonces, isInjectiveNativeToken, paused, owner,
                  expired, height, supply, credited, released,
                  state_lastEventNonce, events, lastApproval>>
  BY DEF ReceiveTokens, valsetVars, adminVars, logVars
<1> QED
  BY <1>1, <1>2 DEF TypeOK

\* Pausing, unpausing, transferring or losing ownership: the administrative
\* actions, which touch no other state.
Administer ==
  \/ \E a \in Account : emergencyPause(a) \/ emergencyUnpause(a) \/ renounceOwnership(a)
  \/ \E a, b \in Account : transferOwnership(a, b)
  \/ renounceOwnershipAfterExpiry
  \/ OwnershipExpires

\* The owner's calls and the expiry touch the pause and the ownership only.
LEMMA AdministerFrame ==
  ASSUME Administer
  PROVE  UNCHANGED <<state_lastValsetCheckpoint, state_lastValsetNonce,
                     state_lastBatchNonces, isInjectiveNativeToken, height, balance,
                     supply, credited, released, state_lastEventNonce, events,
                     lastApproval>>
BY DEF Administer, emergencyPause, emergencyUnpause, renounceOwnership,
       transferOwnership, renounceOwnershipAfterExpiry, OwnershipExpires,
       bridgeVars, valsetVars, fundVars, logVars

\* The owner's calls and the expiry keep the types.
LEMMA AdministerType ==
  ASSUME TypeOK, Administer
  PROVE  TypeOK'
<1>1. paused' \in BOOLEAN /\ owner' \in Account \cup {NoAddress} /\ expired' \in BOOLEAN
  BY DEF TypeOK, Administer, emergencyPause, emergencyUnpause, renounceOwnership,
         transferOwnership, renounceOwnershipAfterExpiry, OwnershipExpires
<1> QED
  BY <1>1, AdministerFrame DEF TypeOK

\* A new block changes the height only.
LEMMA NextBlockFrame ==
  ASSUME NextBlock
  PROVE  /\ height' = height + 1
         /\ UNCHANGED <<state_lastValsetCheckpoint, state_lastValsetNonce,
                        state_lastBatchNonces, isInjectiveNativeToken, paused, owner,
                        expired, balance, supply, credited, released,
                        state_lastEventNonce, events, lastApproval>>
BY DEF NextBlock, valsetVars, adminVars, fundVars, logVars

\* Every variable by name is unchanged in a stuttering step.
LEMMA StutterFrame ==
  ASSUME UNCHANGED vars
  PROVE  UNCHANGED <<state_lastValsetCheckpoint, state_lastValsetNonce,
                     state_lastBatchNonces, isInjectiveNativeToken, paused, owner,
                     expired, height, balance, supply, credited, released,
                     state_lastEventNonce, events, lastApproval>>
BY DEF vars, valsetVars, adminVars, fundVars, logVars

\* Every step keeps the storage, the log and the holdings of the contract in
\* their types.
LEMMA TypeStep == TypeOK /\ [Next]_vars => TypeOK'
<1> SUFFICES ASSUME TypeOK, [Next]_vars PROVE TypeOK'
  OBVIOUS
<1>1. NextBlock => TypeOK'
  BY NextBlockFrame DEF TypeOK
<1>2. UNCHANGED vars => TypeOK'
  BY StutterFrame DEF TypeOK
<1> QED
  BY <1>1, <1>2, UpdateValsetType, SubmitBatchType, SendToInjectiveType,
     DeployERC20Type, ReceiveTokensType, AdministerType DEF Next, Administer

\* Type correctness: the storage, the log and the holdings of the contract keep
\* their types; no balance goes below zero.
THEOREM TypeCorrect == Spec => []TypeOK
BY InitType, TypeStep, PTL DEF Spec

-----------------------------------------------------------------------------
(* What a step does to the log: it installs a validator set, executes a    *)
(* batch, emits another event, or leaves the log alone.                    *)

ValsetStep(valset) ==
  /\ Emit("ValsetUpdated", valset)
  /\ \E current \in Valset :
       makeCheckpoint(current) = state_lastValsetCheckpoint /\ valset.nonce > current.nonce
  /\ state_lastValsetCheckpoint' = makeCheckpoint(valset)
  /\ state_lastValsetNonce' = valset.nonce
  /\ UNCHANGED <<state_lastBatchNonces, height>>

BatchStep(batch) ==
  /\ Emit("BatchExecuted", batch)
  /\ state_lastBatchNonces[batch.token] < batch.nonce
  /\ height < batch.timeout
  /\ state_lastBatchNonces' = [state_lastBatchNonces EXCEPT ![batch.token] = batch.nonce]
  /\ UNCHANGED <<state_lastValsetCheckpoint, state_lastValsetNonce, height>>

OtherEventStep(type, data) ==
  /\ Emit(type, data)
  /\ type \in {"SendToInjective", "ERC20Deployed"}
  /\ UNCHANGED <<state_lastValsetCheckpoint, state_lastValsetNonce,
                 state_lastBatchNonces, height>>

QuietStep ==
  /\ height' \in Nat
  /\ height <= height'
  /\ UNCHANGED <<state_lastValsetCheckpoint, state_lastValsetNonce,
                 state_lastBatchNonces, state_lastEventNonce, events>>

\* Every step of the contract is one of these four.
LEMMA LogSteps ==
  ASSUME TypeOK, [Next]_vars
  PROVE  \/ \E valset \in Valset : ValsetStep(valset)
         \/ \E batch \in Batch : BatchStep(batch)
         \/ \E type, data : OtherEventStep(type, data)
         \/ QuietStep
<1>1. ASSUME NEW newValset \in Valset, NEW currentValset \in Valset,
             NEW sigs \in SigArrays(currentValset, makeCheckpoint(newValset)),
             updateValset(newValset, currentValset, sigs)
      PROVE  ValsetStep(newValset)
  BY <1>1 DEF updateValset, updateValsetRequires, nonceAdvances, ValsetStep
<1>2. ASSUME NEW currentValset \in Valset, NEW batch \in Batch,
             NEW sigs \in SigArrays(currentValset, batchHash(batch)),
             submitBatch(currentValset, sigs, batch)
      PROVE  BatchStep(batch)
  BY <1>2 DEF submitBatch, submitBatchRequires, nonceAdvances, BatchStep, valsetVars
<1>3. ASSUME NEW t \in Token, NEW amount \in Amount, NEW received \in Amount,
             sendToInjective(t, amount, received)
      PROVE  OtherEventStep("SendToInjective", [token |-> t, amount |-> received])
  BY <1>3 DEF sendToInjective, OtherEventStep, valsetVars
<1>4. ASSUME NEW t \in CosmosERC20, deployERC20(t)
      PROVE  OtherEventStep("ERC20Deployed", t)
  BY <1>4 DEF deployERC20, OtherEventStep, valsetVars
<1>5. ASSUME NEW t \in Token, NEW amount \in Amount, ReceiveTokens(t, amount)
      PROVE  QuietStep
  BY <1>5 DEF ReceiveTokens, QuietStep, valsetVars, logVars, TypeOK
<1>6. Administer => QuietStep
  BY AdministerFrame DEF QuietStep, TypeOK
<1>7. NextBlock => QuietStep
  BY NextBlockFrame DEF QuietStep, TypeOK
<1>8. UNCHANGED vars => QuietStep
  BY StutterFrame DEF QuietStep, TypeOK
<1> QED
  BY <1>1, <1>2, <1>3, <1>4, <1>5, <1>6, <1>7, <1>8, Zenon DEF Next, Administer

-----------------------------------------------------------------------------
(* The event log.                                                          *)

\* Every step keeps the event nonces contiguous.
LEMMA LogStep == TypeOK /\ EventLogContiguous /\ [Next]_vars => EventLogContiguous'
<1> SUFFICES ASSUME TypeOK, EventLogContiguous, [Next]_vars
             PROVE  EventLogContiguous'
  OBVIOUS
<1>1. ASSUME NEW type, NEW data, Emit(type, data), height' = height
      PROVE  EventLogContiguous'
  <2>1. /\ Len(events) \in Nat /\ Len(events') = Len(events) + 1
        /\ state_lastEventNonce' = Len(events')
    BY <1>1, EmitAppends
  <2>2. \A i \in 1..Len(events) : events'[i] = events[i]
    BY <1>1, EmitAppends
  <2>3. /\ events'[Len(events')].nonce = Len(events')
        /\ events'[Len(events')].height = height'
        /\ height' \in Nat
    BY <1>1, EmitAppends DEF TypeOK
  <2>4. \A i \in 1..Len(events') : i \in 1..Len(events) \/ i = Len(events')
    BY <2>1
  <2>5. \A i \in 1..Len(events) :
          /\ events[i].nonce = i /\ events[i].height <= height'
          /\ \A j \in 1..Len(events) : i <= j => events[i].height <= events[j].height
    BY <1>1 DEF EventLogContiguous
  <2>6. \A i \in 1..Len(events') : events'[i].nonce = i /\ events'[i].height <= height'
    BY <2>2, <2>3, <2>4, <2>5
  <2>7. ASSUME NEW i \in 1..Len(events'), NEW j \in 1..Len(events'), i <= j
        PROVE  events'[i].height <= events'[j].height
    <3>1. CASE j = Len(events')
      BY <2>3, <2>6, <3>1
    <3>2. CASE j \in 1..Len(events)
      <4>1. i \in 1..Len(events)
        BY <2>1, <2>7, <3>2
      <4> QED
        BY <2>2, <2>5, <2>7, <3>2, <4>1
    <3> QED
      BY <2>4, <3>1, <3>2
  <2> QED
    BY <2>1, <2>6, <2>7 DEF EventLogContiguous
<1>2. CASE QuietStep
  <2>1. \A i \in 1..Len(events) : events[i].height <= height'
    BY <1>2, EventType DEF QuietStep, EventLogContiguous, TypeOK
  <2> QED
    BY <1>2, <2>1 DEF QuietStep, EventLogContiguous
<1> QED
  BY <1>1, <1>2, LogSteps DEF ValsetStep, BatchStep, OtherEventStep

\* The event nonces of the log are 1, 2, 3, ... in block order, for any number
\* of events (EventLogContiguous).
THEOREM LogContiguous == Spec => []EventLogContiguous
<1>1. Init => EventLogContiguous
  BY DEF Init, EventLogContiguous
<1> QED
  BY <1>1, LogStep, TypeCorrect, PTL DEF Spec

\* The stored nonce and checkpoint against the log: no ValsetUpdated event is
\* above the stored nonce, one carries it, and any that does carries the set
\* whose checkpoint is stored.  This is what makes LogRevealsCheckpoint
\* inductive.
CurrentValsetInLog ==
  /\ \A i \in 1..Len(events) : IsValsetEvent(i) =>
       /\ events[i].data.nonce <= state_lastValsetNonce
       /\ events[i].data.nonce = state_lastValsetNonce
            => makeCheckpoint(events[i].data) = state_lastValsetCheckpoint
  /\ \E i \in 1..Len(events) :
       IsValsetEvent(i) /\ events[i].data.nonce = state_lastValsetNonce

\* Every step keeps the installed set in the log.
LEMMA CurrentValsetStep ==
  TypeOK /\ EventLogContiguous /\ CurrentValsetInLog /\ [Next]_vars => CurrentValsetInLog'
<1> SUFFICES ASSUME TypeOK, EventLogContiguous, CurrentValsetInLog, [Next]_vars
             PROVE  CurrentValsetInLog'
  OBVIOUS
<1>1. ASSUME NEW valset \in Valset, ValsetStep(valset)
      PROVE  CurrentValsetInLog'
  <2>1. Emit("ValsetUpdated", valset)
    BY <1>1 DEF ValsetStep
  <2>2. state_lastValsetNonce < valset.nonce /\ valset.nonce \in Nat
    <3>1. PICK current \in Valset : /\ makeCheckpoint(current) = state_lastValsetCheckpoint
                                    /\ valset.nonce > current.nonce
      BY <1>1 DEF ValsetStep
    <3>2. PICK i \in 1..Len(events) :
            IsValsetEvent(i) /\ events[i].data.nonce = state_lastValsetNonce
      BY DEF CurrentValsetInLog
    <3>3. makeCheckpoint(events[i].data) = makeCheckpoint(current)
      BY <3>1, <3>2 DEF CurrentValsetInLog
    <3>4. events[i].data = current
      BY <3>3 DEF makeCheckpoint
    <3> QED
      BY <3>1, <3>2, <3>4, ValsetAssumption
  <2>3. \A i \in 1..Len(events) : IsValsetEvent(i) => events[i].data.nonce < valset.nonce
    <3> SUFFICES ASSUME NEW i \in 1..Len(events), IsValsetEvent(i)
                 PROVE  events[i].data.nonce < valset.nonce
      OBVIOUS
    <3>1. events[i].data.nonce \in Nat
      BY EventType, ValsetAssumption DEF IsValsetEvent
    <3> QED
      BY <2>2, <3>1 DEF CurrentValsetInLog, TypeOK
  <2>4. /\ state_lastValsetNonce' = valset.nonce
        /\ state_lastValsetCheckpoint' = makeCheckpoint(valset)
    BY <1>1 DEF ValsetStep
  <2>5. /\ \A i \in 1..Len(events) : events'[i] = events[i]
        /\ \A i \in 1..Len(events') : i \in 1..Len(events) \/ i = Len(events')
        /\ events'[Len(events')].type = "ValsetUpdated"
        /\ events'[Len(events')].data = valset
        /\ Len(events') \in 1..Len(events')
    BY <2>1, EmitAppends
  <2>6. \A i \in 1..Len(events) : (IsValsetEvent(i))' => IsValsetEvent(i)
    BY <2>5 DEF IsValsetEvent
  <2>7. ASSUME NEW i \in 1..Len(events'), (IsValsetEvent(i))'
        PROVE  \/ events'[i].data.nonce < valset.nonce
               \/ events'[i].data = valset
    BY <2>3, <2>5, <2>6, <2>7
  <2>8. \A i \in 1..Len(events') : (IsValsetEvent(i))' =>
          /\ events'[i].data.nonce <= state_lastValsetNonce'
          /\ events'[i].data.nonce = state_lastValsetNonce'
               => (makeCheckpoint(events[i].data))' = state_lastValsetCheckpoint'
    <3> SUFFICES ASSUME NEW i \in 1..Len(events'), (IsValsetEvent(i))'
                 PROVE  /\ events'[i].data.nonce <= valset.nonce
                        /\ events'[i].data.nonce = valset.nonce
                             => makeCheckpoint(events'[i].data) = makeCheckpoint(valset)
      BY <2>4 DEF makeCheckpoint
    <3>1. CASE events'[i].data = valset
      BY <2>2, <3>1
    <3>2. CASE events'[i].data.nonce < valset.nonce
      <4>1. events'[i].data \in Valset
        BY <2>3, <2>5, <2>6, EventType DEF IsValsetEvent
      <4> QED
        BY <2>2, <3>2, <4>1, ValsetAssumption
    <3> QED
      BY <2>7, <3>1, <3>2
  <2>9. (IsValsetEvent(Len(events)))' /\ events'[Len(events')].data.nonce = state_lastValsetNonce'
    BY <2>4, <2>5 DEF IsValsetEvent
  <2> QED
    BY <2>5, <2>8, <2>9 DEF CurrentValsetInLog
<1>2. ASSUME NEW type, NEW data, Emit(type, data), type # "ValsetUpdated",
             UNCHANGED <<state_lastValsetCheckpoint, state_lastValsetNonce>>
      PROVE  CurrentValsetInLog'
  <2>1. /\ \A i \in 1..Len(events) : events'[i] = events[i]
        /\ \A i \in 1..Len(events') : i \in 1..Len(events) \/ i = Len(events')
        /\ events'[Len(events')].type = type
        /\ \A i \in 1..Len(events) : i \in 1..Len(events')
    BY <1>2, EmitAppends
  <2>2. \A i \in 1..Len(events') :
          (IsValsetEvent(i))' => i \in 1..Len(events) /\ IsValsetEvent(i)
    BY <1>2, <2>1 DEF IsValsetEvent
  <2>3. \A i \in 1..Len(events) : IsValsetEvent(i) => (IsValsetEvent(i))'
    BY <2>1 DEF IsValsetEvent
  <2> QED
    BY <1>2, <2>1, <2>2, <2>3 DEF CurrentValsetInLog, makeCheckpoint
<1>3. CASE QuietStep
  BY <1>3 DEF QuietStep, CurrentValsetInLog, IsValsetEvent, makeCheckpoint
<1> QED
  BY <1>1, <1>2, <1>3, LogSteps DEF BatchStep, OtherEventStep

\* The strengthening is inductive: the installed set is always the valset of
\* some event of the log, and no event carries a higher valset nonce.
LEMMA CurrentValsetInLogInvariant == Spec => []CurrentValsetInLog
<1>1. Init => CurrentValsetInLog
  BY ValsetAssumption DEF Init, CurrentValsetInLog, IsValsetEvent
<1> QED
  BY <1>1, CurrentValsetStep, TypeCorrect, LogContiguous, PTL DEF Spec

\* The validator set a relayer finds in the log is the one the contract will
\* accept as the current one, whatever the validator sets, however many times
\* they changed (LogRevealsCheckpoint).
THEOREM RelayerFindsCheckpoint == Spec => []LogRevealsCheckpoint
<1>1. TypeOK /\ CurrentValsetInLog => LogRevealsCheckpoint
  <2> SUFFICES ASSUME TypeOK, CurrentValsetInLog, NEW i \in 1..Len(events),
                      IsValsetEvent(i),
                      \A j \in 1..Len(events) :
                        IsValsetEvent(j) => events[j].data.nonce <= events[i].data.nonce
               PROVE  /\ makeCheckpoint(events[i].data) = state_lastValsetCheckpoint
                      /\ events[i].data.nonce = state_lastValsetNonce
    BY DEF LogRevealsCheckpoint
  <2>1. events[i].data.nonce \in Nat
    BY EventType, ValsetAssumption DEF IsValsetEvent
  <2>2. events[i].data.nonce = state_lastValsetNonce
    BY <2>1 DEF CurrentValsetInLog, TypeOK
  <2> QED
    BY <2>2 DEF CurrentValsetInLog
<1> QED
  BY <1>1, TypeCorrect, CurrentValsetInLogInvariant, PTL

-----------------------------------------------------------------------------
(* Batches.                                                                *)

\* No batch is executed twice, out of the order of its token's nonces or past
\* its timeout, for any batches and any jump limit (BatchesExecuteOnceInOrder).
THEOREM BatchesOnce == Spec => []BatchesExecuteOnceInOrder
<1>1. Init => BatchesExecuteOnceInOrder
  BY DEF Init, BatchesExecuteOnceInOrder, IsBatchEvent
<1>2. TypeOK /\ EventLogContiguous /\ BatchesExecuteOnceInOrder /\ [Next]_vars
        => BatchesExecuteOnceInOrder'
  <2> SUFFICES ASSUME TypeOK, EventLogContiguous, BatchesExecuteOnceInOrder, [Next]_vars
               PROVE  BatchesExecuteOnceInOrder'
    OBVIOUS
  <2>1. ASSUME NEW batch \in Batch, BatchStep(batch)
        PROVE  BatchesExecuteOnceInOrder'
    <3>1. /\ Emit("BatchExecuted", batch)
          /\ state_lastBatchNonces[batch.token] < batch.nonce
          /\ height < batch.timeout
          /\ state_lastBatchNonces' = [state_lastBatchNonces EXCEPT ![batch.token] = batch.nonce]
      BY <2>1 DEF BatchStep
    <3>2. /\ \A i \in 1..Len(events) : events'[i] = events[i]
          /\ \A i \in 1..Len(events') : i \in 1..Len(events) \/ i = Len(events')
          /\ \A i \in 1..Len(events) : i < Len(events')
          /\ events'[Len(events')].type = "BatchExecuted"
          /\ events'[Len(events')].data = batch
          /\ events'[Len(events')].height = height
      BY <3>1, EmitAppends
    <3>3. batch.token \in Token /\ batch.nonce \in Nat
      BY BatchAssumption
    <3>4. /\ state_lastBatchNonces'[batch.token] = batch.nonce
          /\ \A t \in Token : /\ state_lastBatchNonces[t] \in Nat
                               /\ state_lastBatchNonces'[t] \in Nat
                               /\ state_lastBatchNonces[t] <= state_lastBatchNonces'[t]
      BY <3>1, <3>3 DEF TypeOK
    <3> SUFFICES ASSUME NEW t \in Token, NEW i \in 1..Len(events'), IsBatchEvent(i, t)'
                 PROVE  /\ events'[i].data.nonce <= state_lastBatchNonces'[t]
                        /\ events'[i].height < events'[i].data.timeout
                        /\ \A j \in 1..Len(events') : IsBatchEvent(j, t)' /\ i < j
                             => events'[i].data.nonce < events'[j].data.nonce
      BY DEF BatchesExecuteOnceInOrder
    <3>5. CASE i = Len(events')
      <4>1. t = batch.token
        BY <3>2, <3>5 DEF IsBatchEvent
      <4>2. \A j \in 1..Len(events') : ~(i < j)
        BY <3>2, <3>5
      <4> QED
        BY <3>1, <3>2, <3>3, <3>4, <3>5, <4>1, <4>2
    <3>6. CASE i \in 1..Len(events)
      <4>1. IsBatchEvent(i, t) /\ events'[i] = events[i]
        BY <3>2, <3>6 DEF IsBatchEvent
      <4>2. events[i].data.nonce \in Nat
        BY <3>6, <4>1, EventType, BatchAssumption DEF IsBatchEvent
      <4>3. /\ events[i].data.nonce <= state_lastBatchNonces[t]
            /\ events[i].height < events[i].data.timeout
        BY <3>6, <4>1 DEF BatchesExecuteOnceInOrder
      <4>4. ASSUME NEW j \in 1..Len(events'), IsBatchEvent(j, t)', i < j
            PROVE  events'[i].data.nonce < events'[j].data.nonce
        <5>1. CASE j = Len(events')
          <6>1. t = batch.token /\ events'[j].data.nonce = batch.nonce
            BY <3>2, <4>4, <5>1 DEF IsBatchEvent
          <6> QED
            BY <3>1, <3>3, <3>4, <4>1, <4>2, <4>3, <6>1
        <5>2. CASE j \in 1..Len(events)
          <6>1. IsBatchEvent(j, t) /\ events'[j] = events[j]
            BY <3>2, <4>4, <5>2 DEF IsBatchEvent
          <6> QED
            BY <3>6, <4>1, <4>4, <5>2, <6>1 DEF BatchesExecuteOnceInOrder
        <5> QED
          BY <3>2, <5>1, <5>2
      <4> QED
        BY <3>4, <4>1, <4>2, <4>3, <4>4
    <3> QED
      BY <3>2, <3>5, <3>6
  <2>2. ASSUME NEW type, NEW data, Emit(type, data), type # "BatchExecuted",
               UNCHANGED state_lastBatchNonces
        PROVE  BatchesExecuteOnceInOrder'
    <3>1. /\ \A i \in 1..Len(events) : events'[i] = events[i]
          /\ \A i \in 1..Len(events') : i \in 1..Len(events) \/ i = Len(events')
          /\ events'[Len(events')].type = type
      BY <2>2, EmitAppends
    <3>2. \A t \in Token, i \in 1..Len(events') : IsBatchEvent(i, t)' =>
            i \in 1..Len(events) /\ IsBatchEvent(i, t) /\ events'[i] = events[i]
      BY <2>2, <3>1 DEF IsBatchEvent
    <3> QED
      BY <2>2, <3>2 DEF BatchesExecuteOnceInOrder
  <2>3. CASE QuietStep
    BY <2>3 DEF QuietStep, BatchesExecuteOnceInOrder, IsBatchEvent
  <2> QED
    BY <2>1, <2>2, <2>3, LogSteps DEF ValsetStep, OtherEventStep
<1> QED
  BY <1>1, <1>2, TypeCorrect, LogContiguous, PTL DEF Spec

-----------------------------------------------------------------------------
(* Holdings.                                                               *)

BackedToken(t) ==
  /\ t \in ERC20 => credited[t] <= balance[t] + released[t]
  /\ t \in CosmosERC20 =>
       supply[t] + credited[t] = released[t] /\ balance[t] <= supply[t]

\* Backed, token by token.
LEMMA BackedTokens == Backed <=> \A t \in Token : BackedToken(t)
BY DEF Backed, BackedToken, Token

\* Native tokens are the ones deployERC20 made, and the holdings are numbers.
LEMMA TokenType ==
  ASSUME TypeOK, NEW t \in Token
  PROVE  /\ balance[t] \in Nat /\ credited[t] \in Nat /\ released[t] \in Nat
         /\ t \in CosmosERC20 => supply[t] \in Nat
         /\ t \in isInjectiveNativeToken => t \in CosmosERC20 /\ t \notin ERC20
         /\ TokenExists(t) /\ t \notin isInjectiveNativeToken
              => t \in ERC20 /\ t \notin CosmosERC20
BY TokenAssumption DEF TypeOK, TokenExists, Token

\* Executing a batch keeps the deposits backed: what leaves is released.
LEMMA PayBatchBacked ==
  ASSUME TypeOK, Backed, NEW batch \in Batch, BatchIsCovered(batch), PayBatch(batch)
  PROVE  Backed'
<1> DEFINE t == batch.token
<1>1. t \in Token /\ batch.total \in Nat /\ batch.fee \in Nat /\ batch.total + batch.fee \in Nat
  BY BatchAssumption
<1>2. ASSUME NEW u \in Token PROVE BackedToken(u)'
  <2>1. BackedToken(u)
    BY BackedTokens
  <2>2. CASE t \in isInjectiveNativeToken
    <3>1. t \in CosmosERC20 /\ t \notin ERC20
      BY <1>1, <2>2, TokenType
    <3>2. /\ batch.fee <= balance[t]
          /\ supply' = Add(supply, t, batch.total)
          /\ balance' = Sub(balance, t, batch.fee)
          /\ released' = Add(released, t, batch.total)
          /\ credited' = credited
      BY <2>2 DEF PayBatch, BatchIsCovered
    <3>3. balance'[u] = IF u = t THEN balance[u] - batch.fee ELSE balance[u]
      BY <1>1, <3>2, FundsType DEF Add, Sub
    <3>4. released'[u] = IF u = t THEN released[u] + batch.total ELSE released[u]
      BY <1>1, <3>2, FundsType DEF Add, Sub
    <3>5. u \in CosmosERC20
            => supply'[u] = IF u = t THEN supply[u] + batch.total ELSE supply[u]
      BY <1>1, <3>1, <3>2, FundsType DEF Add, Sub
    <3> HIDE DEF t
    <3> QED
      <4>1. CASE u = t
        <5>1. /\ balance[u] \in Nat /\ credited[u] \in Nat /\ released[u] \in Nat
              /\ supply[u] \in Nat /\ u \in CosmosERC20 /\ u \notin ERC20
          BY <3>1, <4>1, TokenType
        <5>2. supply[u] + credited[u] = released[u] /\ balance[u] <= supply[u]
          BY <2>1, <5>1 DEF BackedToken
        <5>3. /\ balance'[u] = balance[u] - batch.fee
              /\ released'[u] = released[u] + batch.total
              /\ supply'[u] = supply[u] + batch.total /\ credited'[u] = credited[u]
          BY <3>2, <3>3, <3>4, <3>5, <4>1, <5>1
        <5>4. supply'[u] + credited'[u] = released'[u] /\ balance'[u] <= supply'[u]
          BY <1>1, <5>1, <5>2, <5>3
        <5> QED
          BY <5>1, <5>4 DEF BackedToken
      <4>2. CASE u # t
        BY <2>1, <3>2, <3>3, <3>4, <3>5, <4>2 DEF BackedToken
      <4> QED
        BY <4>1, <4>2
  <2>3. CASE t \notin isInjectiveNativeToken
    <3>1. t \in ERC20 /\ t \notin CosmosERC20
      BY <1>1, <2>3, TokenType DEF BatchIsCovered
    <3>2. /\ batch.total + batch.fee <= balance[t]
          /\ balance' = Sub(balance, t, batch.total + batch.fee)
          /\ released' = Add(released, t, batch.total + batch.fee)
          /\ supply' = supply /\ credited' = credited
      BY <2>3 DEF PayBatch, BatchIsCovered
    <3>3. balance'[u] = IF u = t THEN balance[u] - (batch.total + batch.fee)
                               ELSE balance[u]
      BY <1>1, <3>2, FundsType DEF Add, Sub
    <3>4. released'[u] = IF u = t THEN released[u] + (batch.total + batch.fee)
                                ELSE released[u]
      BY <1>1, <3>2, FundsType DEF Add, Sub
    <3> HIDE DEF t
    <3> QED
      BY <1>1, <2>1, <3>1, <3>2, <3>3, <3>4, TokenType DEF BackedToken
  <2> QED
    BY <2>2, <2>3
<1>3. (\A u \in Token : BackedToken(u))' => Backed'
  BY DEF Backed, BackedToken, Token
<1> QED
  BY <1>2, <1>3

\* Paying a valset reward keeps the deposits backed.
LEMMA PayRewardBacked ==
  ASSUME TypeOK, Backed, NEW valset \in Valset, RewardIsCovered(valset), PayReward(valset)
  PROVE  Backed'
<1> DEFINE t == valset.rewardToken
           n == valset.rewardAmount
<1>1. CASE ~(t # NoAddress /\ n # 0)
  BY <1>1 DEF PayReward, Backed, fundVars
<1>2. CASE t # NoAddress /\ n # 0
  <2>1. t \in Token /\ n \in Nat
    BY <1>2, ValsetAssumption
  <2>2. /\ TokenExists(t) /\ n <= balance[t]
        /\ balance' = Sub(balance, t, n)
        /\ released' = IF t \in isInjectiveNativeToken THEN released ELSE Add(released, t, n)
        /\ supply' = supply /\ credited' = credited
    BY <1>2 DEF PayReward, RewardIsCovered
  <2>3. ASSUME NEW u \in Token PROVE BackedToken(u)'
    <3>1. BackedToken(u)
      BY BackedTokens
    <3>2. balance'[u] = IF u = t THEN balance[u] - n ELSE balance[u]
      BY <2>1, <2>2, FundsType DEF Add, Sub
    <3>3. CASE t \in isInjectiveNativeToken
      <4>1. released' = released /\ t \in CosmosERC20 /\ t \notin ERC20
        BY <2>1, <2>2, <3>3, TokenType
      <4> HIDE DEF t, n
      <4> QED
        BY <2>1, <2>2, <3>1, <3>2, <4>1, TokenType DEF BackedToken
    <3>4. CASE t \notin isInjectiveNativeToken
      <4>1. released' = Add(released, t, n) /\ t \in ERC20 /\ t \notin CosmosERC20
        BY <2>1, <2>2, <3>4, TokenType
      <4>2. released'[u] = IF u = t THEN released[u] + n ELSE released[u]
        BY <2>1, <4>1, FundsType DEF Add, Sub
      <4> HIDE DEF t, n
      <4> QED
        BY <2>1, <2>2, <3>1, <3>2, <4>1, <4>2, TokenType DEF BackedToken
    <3> QED
      BY <3>3, <3>4
  <2>4. (\A u \in Token : BackedToken(u))' => Backed'
    BY DEF Backed, BackedToken, Token
  <2> QED
    BY <2>3, <2>4
<1> QED
  BY <1>1, <1>2

\* A deposit keeps the deposits backed: what is credited has arrived or is burned.
LEMMA SendToInjectiveBacked ==
  ASSUME TypeOK, Backed, NEW t \in Token, NEW amount \in Amount, NEW received \in Amount,
         sendToInjective(t, amount, received)
  PROVE  Backed'
<1>1. amount \in Nat /\ received \in Nat /\ TokenExists(t)
  BY TokenAssumption DEF sendToInjective
<1>2. ASSUME NEW u \in Token PROVE BackedToken(u)'
  <2>1. BackedToken(u)
    BY BackedTokens
  <2>2. credited'[u] = IF u = t THEN credited[u] + received ELSE credited[u]
    BY <1>1, FundsType DEF sendToInjective, Add
  <2>3. CASE t \in isInjectiveNativeToken
    <3>1. /\ t \in CosmosERC20 /\ t \notin ERC20
      BY <2>3, TokenType
    <3>2. /\ received = amount /\ amount <= supply[t] - balance[t]
          /\ supply' = Sub(supply, t, amount)
          /\ balance' = balance /\ released' = released
      BY <2>3 DEF sendToInjective
    <3>3. u \in CosmosERC20
            => supply'[u] = IF u = t THEN supply[u] - amount ELSE supply[u]
      BY <1>1, <3>1, <3>2, FundsType DEF Sub
    <3> QED
      BY <1>1, <2>1, <2>2, <3>1, <3>2, <3>3, TokenType DEF BackedToken
  <2>4. CASE t \notin isInjectiveNativeToken
    <3>1. t \in ERC20 /\ t \notin CosmosERC20
      BY <1>1, <2>4, TokenType
    <3>2. /\ balance' = Add(balance, t, received)
          /\ supply' = supply /\ released' = released
      BY <2>4 DEF sendToInjective
    <3>3. balance'[u] = IF u = t THEN balance[u] + received ELSE balance[u]
      BY <1>1, <3>2, FundsType DEF Add
    <3> QED
      BY <1>1, <2>1, <2>2, <3>1, <3>2, <3>3, TokenType DEF BackedToken
  <2> QED
    BY <2>3, <2>4
<1>3. (\A u \in Token : BackedToken(u))' => Backed'
  BY DEF Backed, BackedToken, Token
<1> QED
  BY <1>2, <1>3

\* A plain transfer to the contract keeps the deposits backed.
LEMMA ReceiveTokensBacked ==
  ASSUME TypeOK, Backed, NEW t \in Token, NEW amount \in Amount, ReceiveTokens(t, amount)
  PROVE  Backed'
<1>1. amount \in Nat /\ TokenExists(t)
  BY TokenAssumption DEF ReceiveTokens
<1>2. /\ t \in isInjectiveNativeToken => amount <= supply[t] - balance[t]
      /\ balance' = Add(balance, t, amount)
      /\ supply' = supply /\ credited' = credited /\ released' = released
  BY DEF ReceiveTokens
<1>3. ASSUME NEW u \in Token PROVE BackedToken(u)'
  <2>1. BackedToken(u)
    BY BackedTokens
  <2>2. balance'[u] = IF u = t THEN balance[u] + amount ELSE balance[u]
    BY <1>1, <1>2, FundsType DEF Add
  <2> QED
    BY <1>1, <1>2, <2>1, <2>2, TokenType DEF BackedToken
<1>4. (\A u \in Token : BackedToken(u))' => Backed'
  BY DEF Backed, BackedToken, Token
<1> QED
  BY <1>3, <1>4

\* What Injective was told has been deposited and has not been paid back is
\* held by the contract, and the supply of a token the bridge created is what
\* was minted less what was burned, for any tokens and amounts (Backed).
THEOREM DepositsBacked == Spec => []Backed
<1>1. Init => Backed
  BY DEF Init, Backed, Token
<1>2. TypeOK /\ Backed /\ [Next]_vars => Backed'
  <2> SUFFICES ASSUME TypeOK, Backed, [Next]_vars PROVE Backed'
    OBVIOUS
  <2>1. ASSUME UNCHANGED <<balance, supply, credited, released>> PROVE Backed'
    BY <2>1 DEF Backed
  <2>2. ASSUME NEW newValset \in Valset, NEW currentValset \in Valset, NEW sigs,
               updateValset(newValset, currentValset, sigs)
        PROVE  Backed'
    BY <2>2, PayRewardBacked DEF updateValset, updateValsetRequires
  <2>3. ASSUME NEW currentValset \in Valset, NEW batch \in Batch, NEW sigs,
               submitBatch(currentValset, sigs, batch)
        PROVE  Backed'
    BY <2>3, PayBatchBacked DEF submitBatch, submitBatchRequires
  <2>4. ASSUME NEW t \in CosmosERC20, deployERC20(t) PROVE Backed'
    BY <2>1, <2>4 DEF deployERC20, fundVars
  <2>5. Administer => Backed'
    BY <2>1, AdministerFrame
  <2>6. NextBlock => Backed'
    BY <2>1, NextBlockFrame
  <2>7. UNCHANGED vars => Backed'
    BY <2>1, StutterFrame
  <2> QED
    BY <2>2, <2>3, <2>4, <2>5, <2>6, <2>7, SendToInjectiveBacked, ReceiveTokensBacked,
       Zenon DEF Next, Administer
<1> QED
  BY <1>1, <1>2, TypeCorrect, PTL DEF Spec

-----------------------------------------------------------------------------
(* The pause.                                                              *)

\* Nothing leaves a paused contract and nothing is accepted by it, for any
\* caller and any signatures (PauseFreezesBridge).
THEOREM PauseFreezes == Spec => PauseFreezesBridge
<1> DEFINE Frozen == /\ UNCHANGED <<valsetVars, state_lastBatchNonces, supply, credited>>
                     /\ \A t \in Token : balance'[t] >= balance[t]
<1>1. TypeOK /\ [Next]_vars => [paused => Frozen]_vars
  <2> SUFFICES ASSUME TypeOK, [Next]_vars, paused PROVE Frozen
    OBVIOUS
  <2>1. ASSUME UNCHANGED <<state_lastValsetCheckpoint, state_lastValsetNonce,
                           state_lastBatchNonces, supply, credited, balance>>
        PROVE  Frozen
    BY <2>1 DEF valsetVars, TypeOK
  <2>2. ASSUME NEW t \in CosmosERC20, deployERC20(t) PROVE Frozen
    BY <2>1, <2>2 DEF deployERC20, fundVars, valsetVars
  <2>3. ASSUME NEW t \in Token, NEW amount \in Amount, ReceiveTokens(t, amount)
        PROVE  Frozen
    <3>1. \A u \in Token : balance'[u] = IF u = t THEN balance[u] + amount ELSE balance[u]
      BY <2>3, FundsType DEF ReceiveTokens, Add
    <3>2. \A u \in Token : balance'[u] >= balance[u]
      BY <3>1, TokenAssumption, FundsType
    <3> QED
      BY <2>3, <3>2 DEF ReceiveTokens
  <2>4. Administer => Frozen
    BY <2>1, AdministerFrame
  <2>5. NextBlock => Frozen
    BY <2>1, NextBlockFrame
  <2>6. UNCHANGED vars => Frozen
    BY <2>1, StutterFrame
  <2>7. /\ \A a, b, c : ~updateValset(a, b, c) /\ ~submitBatch(a, b, c)
                         /\ ~sendToInjective(a, b, c)
    BY DEF updateValset, updateValsetRequires, submitBatch, submitBatchRequires, sendToInjective,
           whenNotPaused
  <2> HIDE DEF Frozen
  <2> QED
    BY <2>2, <2>3, <2>4, <2>5, <2>6, <2>7, Zenon DEF Next, Administer
<1> QED
  BY <1>1, TypeCorrect, PTL DEF Spec, PauseFreezesBridge

\* A paused contract without an owner stays so (OwnerlessPauseIsForever).
THEOREM OwnerlessPause == Spec => OwnerlessPauseIsForever
<1>1. [Next]_vars => [paused /\ owner = NoAddress => paused' /\ owner' = NoAddress]_vars
  <2> SUFFICES ASSUME Next, paused, owner = NoAddress PROVE paused' /\ owner' = NoAddress
    OBVIOUS
  <2>1. \A a \in Account : owner # a
    BY TokenAssumption
  <2> QED
    BY <2>1 DEF Next, updateValset, updateValsetRequires, submitBatch, submitBatchRequires,
       sendToInjective, whenNotPaused,
       deployERC20, emergencyPause, emergencyUnpause, transferOwnership,
       renounceOwnership, renounceOwnershipAfterExpiry, onlyOwner, NextBlock,
       OwnershipExpires, ReceiveTokens, adminVars
<1> QED
  BY <1>1, PTL DEF Spec, OwnerlessPauseIsForever

=============================================================================
