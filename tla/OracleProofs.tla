---------------------------- MODULE OracleProofs ----------------------------
(***************************************************************************)
(* Proofs about the oracle loop, for every confirmation delay, search      *)
(* range, number of attempts and start height, and for every bound.        *)
(***************************************************************************)
EXTENDS Oracle, SequenceTheorems, TLAPS

-----------------------------------------------------------------------------
(* Ethereum's log.                                                         *)

\* The n-th event has nonce n and the events are in block order; the latest
\* block is never more than the confirmation delay below the highest there was.
LogInv ==
  /\ ethHeight <= peak
  /\ peak - ethBlockConfirmationDelay <= ethHeight
  /\ \A i \in 1..Len(log) : log[i].nonce = i /\ log[i].height <= ethHeight
  /\ \A i, j \in 1..Len(log) : i <= j => log[i].height <= log[j].height

\* The types of Ethereum's variables.
EthType ==
  /\ ethHeight \in Nat /\ peak \in Nat /\ fork \in Nat
  /\ log \in Seq(Event)

\* What the type of the log says of one event.
LEMMA LogEvent ==
  ASSUME EthType, NEW i \in 1..Len(log)
  PROVE  log[i] \in Event /\ log[i].height \in Nat
<1>1. log[i] \in Event
  BY DEF EthType
<1> QED
  BY <1>1 DEF Event

\* A new block appends its events and leaves the others where they are.
LEMMA MineBlockLog ==
  ASSUME EthType, NEW n \in Nat, MineBlock(n)
  PROVE  /\ log' \in Seq(Event)
         /\ Len(log') = Len(log) + n
         /\ \A i \in 1..Len(log) : log'[i] = log[i]
         /\ \A i \in 1..Len(log') : i \notin 1..Len(log) =>
              log'[i] = [nonce |-> i, height |-> ethHeight + 1, fork |-> fork]
<1> DEFINE new == [i \in 1..n |-> [nonce |-> Len(log) + i, height |-> ethHeight + 1,
                                   fork |-> fork]]
<1>1. Len(log) \in Nat /\ log \in Seq(Event)
  BY DEF EthType
<1>2. new \in Seq(Event) /\ Len(new) = n
  BY <1>1 DEF EthType, Event
<1>3. log' = log \o new
  BY DEF MineBlock
<1>4. \A i \in 1..n : new[i] = [nonce |-> Len(log) + i, height |-> ethHeight + 1,
                                fork |-> fork]
  OBVIOUS
<1> HIDE DEF new
<1>5. /\ log' \in Seq(Event)
      /\ Len(log') = Len(log) + n
      /\ \A i \in 1..Len(log) : log'[i] = log[i]
      /\ \A i \in 1..Len(log') : i \notin 1..Len(log) => log'[i] = new[i - Len(log)]
  BY <1>1, <1>2, <1>3, ConcatProperties
<1>6. ASSUME NEW i \in 1..Len(log'), i \notin 1..Len(log)
      PROVE  log'[i] = [nonce |-> i, height |-> ethHeight + 1, fork |-> fork]
  <2>1. i - Len(log) \in 1..n /\ Len(log) + (i - Len(log)) = i
    BY <1>1, <1>5, <1>6
  <2> QED
    BY <1>4, <1>5, <1>6, <2>1
<1> QED
  BY <1>5, <1>6

\* A reorganisation keeps the first events and drops the others.
LEMMA ReorgLog ==
  ASSUME EthType, NEW height \in Nat, NEW kept \in Nat, Reorg(height, kept)
  PROVE  /\ log' \in Seq(Event)
         /\ Len(log') = kept
         /\ kept <= Len(log)
         /\ \A i \in 1..kept : log'[i] = log[i]
BY DEF EthType, Reorg

\* Only blocks and reorganisations change Ethereum.
LEMMA EthSteps ==
  ASSUME [Next]_vars
  PROVE  \/ \E n \in Nat : MineBlock(n)
         \/ \E height, kept \in Nat : Reorg(height, kept)
         \/ UNCHANGED ethVars
<1>1. 0..MaxEvents \subseteq Nat /\ 0..MaxHeight \subseteq Nat
  BY OracleAssumption
<1>2. Oracle => UNCHANGED ethVars
  BY DEF Oracle, startValidatorMode, checkBonded, getLatestEthHeight, getEthEvents,
     getLastClaimEvent, sendNewEventClaims, sendEthEventClaim, ClaimRejected
<1>3. \A e : ExecuteClaim(e) \/ DropClaim(e) => UNCHANGED ethVars
  BY DEF ExecuteClaim, DropClaim
<1>4. /\ ChangeBond \/ LastClaimUnknown \/ Crash => UNCHANGED ethVars
      /\ \A e : BroadcastTimesOut(e) => UNCHANGED ethVars
  BY DEF ChangeBond, LastClaimUnknown, BroadcastTimesOut, Crash
<1>5. UNCHANGED vars => UNCHANGED ethVars
  BY DEF vars
<1> QED
  BY <1>1, <1>2, <1>3, <1>4, <1>5 DEF Next

\* What is final stays where it is, and what becomes final comes after it.
FinalStep ==
  /\ peak' \in Nat /\ peak <= peak'
  /\ \A i \in 1..Len(log) : IsFinal(i) => IsFinal(i)' /\ log'[i] = log[i]
  /\ FinalEvents \subseteq FinalEvents'
  /\ \A e \in FinalEvents' \ FinalEvents : \A f \in FinalEvents : f.nonce < e.nonce

\* A step in which every final event stays is a final step.
LEMMA FinalStepFromLog ==
  ASSUME EthType, LogInv, EthType', LogInv', peak <= peak',
         \A i \in 1..Len(log) : IsFinal(i) => i \in 1..Len(log') /\ log'[i] = log[i]
  PROVE  FinalStep
<1>1. ASSUME NEW i \in 1..Len(log), IsFinal(i)
      PROVE  i \in 1..Len(log') /\ IsFinal(i)' /\ log'[i] = log[i]
  <2>1. log[i].height \in Nat
    BY LogEvent
  <2> QED
    BY <1>1, <2>1, OracleAssumption DEF IsFinal, EthType
<1>2. FinalEvents \subseteq FinalEvents'
  BY <1>1 DEF FinalEvents
<1>3. ASSUME NEW e \in FinalEvents', e \notin FinalEvents, NEW f \in FinalEvents
      PROVE  f.nonce < e.nonce
  <2>1. PICK j \in 1..Len(log') : IsFinal(j)' /\ e = log'[j]
    BY DEF FinalEvents
  <2>2. PICK i \in 1..Len(log) : IsFinal(i) /\ f = log[i]
    BY DEF FinalEvents
  <2>3. f.nonce = i /\ e.nonce = j
    BY <2>1, <2>2 DEF LogInv
  <2>4. i \in 1..Len(log') /\ log'[i] = log[i]
    BY <1>1, <2>2
  <2>5. ASSUME j <= i PROVE FALSE
    <3>1. j \in 1..Len(log)
      BY <2>5, <2>1, <2>2 DEF EthType
    <3>2. log[j].height <= log[i].height /\ log[j].height \in Nat /\ log[i].height \in Nat
      BY <2>5, <3>1, LogEvent DEF LogInv
    <3>3. IsFinal(j)
      <4>1. log[i].height <= peak - ethBlockConfirmationDelay
        BY <2>2 DEF IsFinal
      <4>2. peak - ethBlockConfirmationDelay \in Int
        BY OracleAssumption DEF EthType
      <4>3. log[j].height <= peak - ethBlockConfirmationDelay
        BY <3>2, <4>1, <4>2
      <4> QED
        BY <3>1, <4>3 DEF IsFinal
    <3> QED
      BY <1>1, <1>3, <2>1, <3>1, <3>3 DEF FinalEvents
  <2> QED
    BY <2>3, <2>5, <2>1, <2>2 DEF EthType
<1> QED
  BY <1>1, <1>2, <1>3 DEF FinalStep, EthType

\* A new block keeps the log in order and replaces nothing.
LEMMA MineBlockFinal ==
  ASSUME EthType, LogInv, NEW n \in Nat, MineBlock(n)
  PROVE  EthType' /\ LogInv' /\ FinalStep
<1>1. /\ ethHeight' = ethHeight + 1 /\ fork' = fork
      /\ peak' = IF peak < ethHeight + 1 THEN ethHeight + 1 ELSE peak
  BY DEF MineBlock
<1>2. EthType'
  BY <1>1, MineBlockLog DEF EthType
<1>3. LogInv'
  <2>1. ethHeight' <= peak' /\ peak' - ethBlockConfirmationDelay <= ethHeight' /\ peak <= peak'
    BY <1>1, OracleAssumption DEF LogInv, EthType
  <2>2. ASSUME NEW i \in 1..Len(log')
        PROVE  /\ log'[i].nonce = i /\ log'[i].height <= ethHeight'
               /\ i \in 1..Len(log) => /\ log'[i] = log[i]
                                      /\ log[i].height \in Nat /\ log[i].height <= ethHeight
               /\ i \notin 1..Len(log) => log'[i].height = ethHeight + 1
    <3>1. CASE i \in 1..Len(log)
      <4>1. log'[i] = log[i] /\ log[i].height \in Nat
        BY <3>1, MineBlockLog, LogEvent
      <4> QED
        BY <1>1, <3>1, <4>1 DEF LogInv, EthType
    <3>2. CASE i \notin 1..Len(log)
      <4>1. log'[i] = [nonce |-> i, height |-> ethHeight + 1, fork |-> fork]
        BY <3>2, MineBlockLog
      <4> QED
        BY <1>1, <3>2, <4>1 DEF EthType
    <3> QED
      BY <3>1, <3>2
  <2>3. ASSUME NEW i \in 1..Len(log'), NEW j \in 1..Len(log'), i <= j
        PROVE  log'[i].height <= log'[j].height
    <3>1. CASE j \in 1..Len(log)
      <4>1. i \in 1..Len(log)
        BY <2>3, <3>1 DEF EthType
      <4> QED
        BY <2>2, <2>3, <3>1, <4>1 DEF LogInv
    <3>2. CASE j \notin 1..Len(log)
      BY <1>1, <2>2, <3>2 DEF EthType
    <3> QED
      BY <3>1, <3>2
  <2> QED
    BY <2>1, <2>2, <2>3 DEF LogInv
<1>4. peak <= peak'
  BY <1>1 DEF EthType
<1>5. \A i \in 1..Len(log) : i \in 1..Len(log') /\ log'[i] = log[i]
  BY MineBlockLog DEF EthType
<1> QED
  BY <1>2, <1>3, <1>4, <1>5, FinalStepFromLog

\* A reorganisation keeps the log in order and replaces nothing that is final.
LEMMA ReorgFinal ==
  ASSUME EthType, LogInv, NEW height \in Nat, NEW kept \in Nat, Reorg(height, kept)
  PROVE  EthType' /\ LogInv' /\ FinalStep
<1>1. /\ ethHeight' = height /\ fork' = fork + 1 /\ peak' = peak
      /\ height < ethHeight /\ height >= peak - ethBlockConfirmationDelay
      /\ \A i \in 1..Len(log) : log[i].height <= height <=> i <= kept
  BY DEF Reorg
<1>2. EthType'
  BY <1>1, ReorgLog DEF EthType
<1>3. \A i \in 1..Len(log') : i \in 1..Len(log) /\ log'[i] = log[i] /\ log[i].height <= height
  BY <1>1, ReorgLog DEF EthType
<1>4. LogInv'
  <2>1. ethHeight' <= peak' /\ peak' - ethBlockConfirmationDelay <= ethHeight'
    BY <1>1 DEF LogInv, EthType
  <2> QED
    BY <1>1, <1>3, <2>1 DEF LogInv
<1>5. ASSUME NEW i \in 1..Len(log), IsFinal(i)
      PROVE  i \in 1..Len(log') /\ log'[i] = log[i]
  <2>1. log[i].height \in Nat
    BY LogEvent
  <2>2. i <= kept
    BY <1>1, <1>5, <2>1, OracleAssumption DEF IsFinal, EthType
  <2> QED
    BY <2>2, ReorgLog DEF EthType
<1> QED
  BY <1>1, <1>2, <1>4, <1>5, FinalStepFromLog DEF EthType

\* Every step keeps the log in order and what is final.
LEMMA EthStepFinal ==
  ASSUME EthType, LogInv, [Next]_vars
  PROVE  EthType' /\ LogInv' /\ FinalStep
<1>1. ASSUME UNCHANGED ethVars PROVE EthType' /\ LogInv' /\ FinalStep
  <2>1. EthType' /\ LogInv'
    BY <1>1 DEF EthType, LogInv, ethVars
  <2>2. peak <= peak' /\ log' = log
    BY <1>1 DEF EthType, ethVars
  <2> QED
    BY <2>1, <2>2, FinalStepFromLog
<1> QED
  BY <1>1, EthSteps, MineBlockFinal, ReorgFinal

-----------------------------------------------------------------------------
(* The loop.                                                               *)

\* The loop holds, and Injective's mempool holds, final events only; the range
\* of a query ends with a final block.
LoopInv ==
  /\ newEvents \subseteq FinalEvents
  /\ unsent \subseteq FinalEvents
  /\ mempool \subseteq FinalEvents
  /\ pc = "events" => latestHeight <= peak - ethBlockConfirmationDelay

\* LoopInv after a step, against the events that were final before it.
LoopStep ==
  /\ newEvents' \subseteq FinalEvents
  /\ unsent' \subseteq FinalEvents
  /\ mempool' \subseteq FinalEvents
  /\ pc' = "events" => latestHeight' <= peak - ethBlockConfirmationDelay

\* The types of the variables that are neither Ethereum's nor sets of events.
ProcessType ==
  /\ bonded \in BOOLEAN
  /\ pc \in {"down", "idle", "height", "events", "filter", "attempt", "sending"}
  /\ lastObservedEthHeight \in Nat
  /\ latestHeight \in Nat
  /\ attempts \in 0..(maxAttempts - 1)
  /\ faults \in Nat /\ missed \in Nat

\* Final events have the type of events.
LEMMA FinalEventsType == EthType => FinalEvents \subseteq Event
BY LogEvent DEF FinalEvents

\* The last claim is the number and the height of an event.
LEMMA LastClaimType ==
  ASSUME claims \in Seq(Event)
  PROVE  LastClaim.nonce = Len(claims) /\ LastClaim.height \in Nat
<1>1. CASE claims = <<>>
  BY <1>1 DEF LastClaim
<1>2. CASE claims # <<>>
  <2>1. Len(claims) \in 1..Len(claims)
    BY <1>2
  <2>2. claims[Len(claims)] \in Event
    BY <2>1
  <2>3. claims[Len(claims)].height \in Nat
    BY <2>2 DEF Event
  <2> QED
    BY <1>2, <2>3 DEF LastClaim
<1> QED
  BY <1>1, <1>2

\* Returning from an iteration leaves nothing behind.
LEMMA ReturnStep ==
  ASSUME NEW height \in Nat, Return(height)
  PROVE  /\ pc' = "idle" /\ lastObservedEthHeight' \in Nat
         /\ latestHeight' \in Nat /\ attempts' \in 0..(maxAttempts - 1)
         /\ newEvents' = {} /\ unsent' = {}
BY OracleAssumption DEF Return

\* Neither does exiting.
LEMMA ExitStep ==
  ASSUME Exit
  PROVE  /\ pc' = "down" /\ lastObservedEthHeight' \in Nat
         /\ latestHeight' \in Nat /\ attempts' \in 0..(maxAttempts - 1)
         /\ newEvents' = {} /\ unsent' = {}
BY OracleAssumption DEF Exit

\* A failed attempt is repeated or ends the process.
LEMMA AttemptStep ==
  ASSUME ProcessType, LoopInv, AttemptFails
  PROVE  /\ pc' \in {"down", "attempt"} /\ lastObservedEthHeight' \in Nat
         /\ latestHeight' \in Nat /\ attempts' \in 0..(maxAttempts - 1)
         /\ newEvents' \subseteq FinalEvents /\ unsent' \subseteq FinalEvents
<1>1. CASE attempts + 1 = maxAttempts
  BY <1>1, ExitStep DEF AttemptFails
<1>2. CASE attempts + 1 # maxAttempts
  BY <1>2, OracleAssumption DEF AttemptFails, ProcessType, LoopInv
<1> QED
  BY <1>1, <1>2

\* Faults are counted, and a loss remembers the length of the log.
LEMMA FaultStep ==
  ASSUME EthType, ProcessType, Fault \/ Loss \/ UNCHANGED faultVars
  PROVE  faults' \in Nat /\ missed' \in Nat
BY DEF EthType, ProcessType, Fault, Loss, faultVars

\* Every action keeps the loop's state in its types and takes only final events
\* into it.
LEMMA ProcessStep ==
  ASSUME EthType, LogInv, ProcessType, LoopInv, claims \in Seq(Event), [Next]_vars
  PROVE  ProcessType' /\ LoopStep
<1> DEFINE Goal == ProcessType' /\ LoopStep
<1>1. ASSUME UNCHANGED <<injVars, loopVars, faultVars>> PROVE Goal
  BY <1>1 DEF ProcessType, LoopInv, LoopStep, injVars, loopVars, faultVars
<1>2. ASSUME NEW n, MineBlock(n) PROVE Goal
  BY <1>1, <1>2 DEF MineBlock
<1>3. ASSUME NEW height, NEW kept, Reorg(height, kept) PROVE Goal
  BY <1>1, <1>3 DEF Reorg
<1>4. ASSUME NEW e, ExecuteClaim(e) PROVE Goal
  BY <1>4 DEF ExecuteClaim, ProcessType, LoopInv, LoopStep, loopVars, faultVars, EthType
<1>5. ASSUME NEW e, DropClaim(e) PROVE Goal
  BY <1>5, FaultStep DEF DropClaim, ProcessType, LoopInv, LoopStep, loopVars
<1>6. ASSUME ChangeBond PROVE Goal
  BY <1>6 DEF ChangeBond, ProcessType, LoopInv, LoopStep, loopVars, faultVars
<1>7. ASSUME startValidatorMode PROVE Goal
  <2>1. PICK height \in Nat : Return(height)
    BY <1>7, LastClaimType, OracleAssumption DEF startValidatorMode
  <2> QED
    BY <1>7, <2>1, ReturnStep DEF startValidatorMode, ProcessType, LoopInv, LoopStep,
       injVars, faultVars
<1>8. ASSUME checkBonded PROVE Goal
  BY <1>8 DEF checkBonded, ProcessType, LoopInv, LoopStep, injVars, faultVars
<1>9. ASSUME getLatestEthHeight PROVE Goal
  <2>1. CASE Return(lastObservedEthHeight)
    BY <1>9, <2>1, ReturnStep DEF getLatestEthHeight, ProcessType, LoopInv, LoopStep,
       injVars, faultVars
  <2>2. CASE ~Return(lastObservedEthHeight)
    <3>1. /\ ethHeight > ethBlockConfirmationDelay
          /\ pc' = "events" /\ latestHeight' = SearchEnd
          /\ UNCHANGED <<lastObservedEthHeight, newEvents, unsent, attempts, injVars, faultVars>>
      BY <1>9, <2>2, OracleAssumption DEF getLatestEthHeight, EthType
    <3>2. SearchEnd \in Nat /\ SearchEnd <= peak - ethBlockConfirmationDelay
      BY <3>1, OracleAssumption DEF SearchEnd, EthType, ProcessType, LogInv
    <3> QED
      BY <3>1, <3>2 DEF ProcessType, LoopInv, LoopStep, injVars, faultVars
  <2> QED
    BY <2>1, <2>2
<1>10. ASSUME NEW reply \in SUBSET EventsInRange, getEthEvents(reply) PROVE Goal
  <2>1. pc = "events" /\ pc' = "filter" /\ newEvents' = reply
        /\ UNCHANGED <<lastObservedEthHeight, latestHeight, unsent, attempts, injVars>>
    BY <1>10 DEF getEthEvents
  <2>2. EventsInRange \subseteq FinalEvents
    <3> SUFFICES ASSUME NEW i \in 1..Len(log), log[i].height <= latestHeight
                 PROVE  log[i].height <= peak - ethBlockConfirmationDelay
      BY DEF EventsInRange, FinalEvents, IsFinal
    <3> QED
      BY <2>1, LogEvent, OracleAssumption DEF LoopInv, ProcessType, EthType
  <2>3. faults' \in Nat /\ missed' \in Nat
    BY <1>10, FaultStep DEF getEthEvents
  <2> QED
    BY <2>1, <2>2, <2>3 DEF ProcessType, LoopInv, LoopStep, injVars
<1>11. ASSUME getLastClaimEvent PROVE Goal
  <2>1. \/ Return(latestHeight)
        \/ Return(RewindHeight)
        \/ /\ pc' = "attempt" /\ newEvents' = filterEvents(newEvents, LastClaim.nonce)
           /\ UNCHANGED <<lastObservedEthHeight, latestHeight, unsent, attempts>>
    BY <1>11 DEF getLastClaimEvent
  <2>2. UNCHANGED <<injVars, faultVars>>
    BY <1>11 DEF getLastClaimEvent
  <2>3. ASSUME NEW height \in Nat, Return(height) PROVE Goal
    BY <2>2, <2>3, ReturnStep DEF ProcessType, LoopInv, LoopStep, injVars, faultVars
  <2>4. RewindHeight \in Nat /\ latestHeight \in Nat
    BY LastClaimType DEF RewindHeight, ProcessType
  <2>5. filterEvents(newEvents, LastClaim.nonce) \subseteq newEvents
    BY DEF filterEvents
  <2>6. CASE /\ pc' = "attempt" /\ newEvents' = filterEvents(newEvents, LastClaim.nonce)
             /\ UNCHANGED <<lastObservedEthHeight, latestHeight, unsent, attempts>>
    BY <2>2, <2>5, <2>6 DEF ProcessType, LoopInv, LoopStep, injVars, faultVars
  <2> QED
    BY <2>1, <2>3, <2>4, <2>6
<1>12. ASSUME sendNewEventClaims PROVE Goal
  <2>1. UNCHANGED <<injVars, faultVars>>
    BY <1>12 DEF sendNewEventClaims
  <2>2. CASE Return(latestHeight)
    BY <2>1, <2>2, ReturnStep DEF ProcessType, LoopInv, LoopStep, injVars, faultVars
  <2>3. CASE ~Return(latestHeight)
    BY <1>12, <2>1, <2>3 DEF sendNewEventClaims, filterEvents, ProcessType, LoopInv,
       LoopStep, injVars, faultVars
  <2> QED
    BY <2>2, <2>3
<1>13. ASSUME NEW e \in unsent, sendEthEventClaim(e) PROVE Goal
  <2>1. UNCHANGED <<bonded, faultVars>> /\ mempool' = mempool \cup {e}
    BY <1>13 DEF sendEthEventClaim, Broadcast
  <2>2. mempool' \subseteq FinalEvents
    BY <2>1 DEF LoopInv
  <2>3. CASE Return(latestHeight)
    BY <2>1, <2>2, <2>3, ReturnStep DEF ProcessType, LoopStep, faultVars
  <2>4. CASE ~Return(latestHeight)
    BY <1>13, <2>1, <2>2, <2>4 DEF sendEthEventClaim, ProcessType, LoopInv, LoopStep,
       faultVars
  <2> QED
    BY <2>3, <2>4
<1>14. ASSUME NEW e \in unsent, ClaimRejected(e) PROVE Goal
  BY <1>14, AttemptStep DEF ClaimRejected, ProcessType, LoopInv, LoopStep, injVars, faultVars
<1>15. ASSUME LastClaimUnknown PROVE Goal
  BY <1>15, AttemptStep, FaultStep DEF LastClaimUnknown, ProcessType, LoopInv, LoopStep, injVars
<1>16. ASSUME NEW e \in unsent, BroadcastTimesOut(e) PROVE Goal
  <2>1. mempool' \subseteq FinalEvents
    BY <1>16 DEF BroadcastTimesOut, Broadcast, LoopInv
  <2> QED
    BY <1>16, <2>1, AttemptStep, FaultStep DEF BroadcastTimesOut, ProcessType, LoopStep
<1>17. ASSUME Crash PROVE Goal
  BY <1>17, ExitStep, FaultStep DEF Crash, ProcessType, LoopInv, LoopStep, injVars
<1>18. ASSUME UNCHANGED vars PROVE Goal
  BY <1>1, <1>18 DEF vars
<1> HIDE DEF Goal
<1>19. Goal
  BY <1>2, <1>3, <1>4, <1>5, <1>6, <1>7, <1>8, <1>9, <1>10, <1>11, <1>12, <1>13, <1>14,
     <1>15, <1>16, <1>17, <1>18, Zenon DEF Next, Oracle
<1> QED
  BY <1>19 DEF Goal

-----------------------------------------------------------------------------
(* The claims.                                                             *)

\* A step executes the claim with the next nonce, or none.
LEMMA ClaimSteps ==
  ASSUME claims \in Seq(Event), [Next]_vars
  PROVE  \/ claims' = claims
         \/ /\ UNCHANGED ethVars
            /\ \E e \in mempool : e.nonce = Len(claims) + 1 /\ claims' = Append(claims, e)
<1>1. ASSUME NEW e \in mempool, ExecuteClaim(e)
      PROVE  \/ claims' = claims
             \/ /\ UNCHANGED ethVars
                /\ e.nonce = Len(claims) + 1 /\ claims' = Append(claims, e)
  <2>1. CASE CheckTx(e)
    BY <1>1, <2>1, LastClaimType DEF ExecuteClaim, CheckTx
  <2>2. CASE ~CheckTx(e)
    BY <1>1, <2>2 DEF ExecuteClaim
  <2> QED
    BY <2>1, <2>2
<1>2. Oracle => claims' = claims
  BY DEF Oracle, startValidatorMode, checkBonded, getLatestEthHeight, getEthEvents,
     getLastClaimEvent, sendNewEventClaims, sendEthEventClaim, ClaimRejected, injVars
<1>3. /\ \A n : MineBlock(n) => claims' = claims
      /\ \A height, kept : Reorg(height, kept) => claims' = claims
      /\ \A e : DropClaim(e) => claims' = claims
      /\ \A e : BroadcastTimesOut(e) => claims' = claims
      /\ ChangeBond \/ LastClaimUnknown \/ Crash => claims' = claims
  BY DEF MineBlock, Reorg, DropClaim, ChangeBond, LastClaimUnknown, BroadcastTimesOut,
     Crash, injVars
<1>4. UNCHANGED vars => claims' = claims
  BY DEF vars, injVars
<1> QED
  BY <1>1, <1>2, <1>3, <1>4, Zenon DEF Next

\* The inductive invariant.
IInv ==
  /\ EthType /\ LogInv
  /\ ProcessType /\ LoopInv
  /\ claims \in Seq(Event) /\ ClaimsAreFinal

\* The start of the bridge satisfies the invariant.
LEMMA InitIInv == Init => IInv
<1> SUFFICES ASSUME Init PROVE IInv
  OBVIOUS
<1>1. EthType /\ LogInv
  BY OracleAssumption DEF Init, EthType, LogInv
<1>2. ProcessType /\ LoopInv
  BY OracleAssumption DEF Init, ProcessType, LoopInv
<1>3. claims \in Seq(Event) /\ ClaimsAreFinal
  BY DEF Init, ClaimsAreFinal
<1> QED
  BY <1>1, <1>2, <1>3 DEF IInv

\* An executed claim is the final event that follows the claimed ones.
LEMMA ClaimedEvent ==
  ASSUME IInv, NEW e \in mempool, e.nonce = Len(claims) + 1
  PROVE  IsFinal(Len(claims) + 1) /\ e = log[Len(claims) + 1]
<1>1. PICK i \in 1..Len(log) : IsFinal(i) /\ e = log[i]
  BY DEF IInv, LoopInv, FinalEvents
<1>2. e.nonce = i
  BY <1>1 DEF IInv, LogInv
<1> QED
  BY <1>1, <1>2

\* Every step keeps the invariant.
LEMMA NextIInv == IInv /\ [Next]_vars => IInv'
<1> SUFFICES ASSUME IInv, [Next]_vars PROVE IInv'
  OBVIOUS
<1>1. EthType' /\ LogInv' /\ FinalStep
  BY EthStepFinal DEF IInv
<1>2. ProcessType' /\ LoopStep
  BY ProcessStep DEF IInv
<1>3. LoopInv'
  <2>1. pc' = "events" => latestHeight' <= peak' - ethBlockConfirmationDelay
    <3>1. peak \in Nat /\ peak' \in Nat /\ peak <= peak' /\ latestHeight' \in Nat
      BY <1>1, <1>2 DEF IInv, EthType, ProcessType, FinalStep
    <3>2. ethBlockConfirmationDelay \in Nat
      BY OracleAssumption
    <3>3. ASSUME pc' = "events"
          PROVE  latestHeight' <= peak' - ethBlockConfirmationDelay
      <4>1. latestHeight' <= peak - ethBlockConfirmationDelay
        BY <1>2, <3>3 DEF LoopStep
      <4> QED
        <5>1. \A h, p, q, d \in Nat : h <= p - d /\ p <= q => h <= q - d
          OBVIOUS
        <5> QED
          BY <3>1, <3>2, <4>1, <5>1
    <3> QED
      BY <3>3
  <2> QED
    BY <1>1, <1>2, <2>1 DEF LoopStep, LoopInv, FinalStep
<1>4. ASSUME NEW i \in 1..Len(claims)
      PROVE  IsFinal(i)' /\ claims[i] = log'[i]
  <2>1. IsFinal(i) /\ claims[i] = log[i]
    BY DEF IInv, ClaimsAreFinal
  <2> QED
    BY <1>1, <2>1 DEF FinalStep, IsFinal
<1>5. claims' \in Seq(Event) /\ ClaimsAreFinal'
  <2>1. CASE claims' = claims
    BY <1>4, <2>1 DEF IInv, ClaimsAreFinal
  <2>2. CASE /\ UNCHANGED ethVars
             /\ \E e \in mempool : e.nonce = Len(claims) + 1 /\ claims' = Append(claims, e)
    <3>1. PICK e \in mempool : e.nonce = Len(claims) + 1 /\ claims' = Append(claims, e)
      BY <2>2
    <3>2. PICK n \in Nat : n = Len(claims) + 1
      BY DEF IInv
    <3>3. IsFinal(n)' /\ e = log'[n]
      <4>1. IsFinal(n) /\ e = log[n]
        BY <3>1, <3>2, ClaimedEvent
      <4>2. peak' = peak /\ log' = log
        BY <2>2 DEF ethVars
      <4> QED
        BY <4>1, <4>2 DEF IsFinal
    <3>4. e \in Event
      BY <3>1, FinalEventsType DEF IInv, LoopInv
    <3>5. /\ claims' \in Seq(Event) /\ Len(claims') = n /\ claims'[n] = e
          /\ \A i \in 1..Len(claims) : claims'[i] = claims[i]
          /\ \A i \in 1..n : i \in 1..Len(claims) \/ i = n
      BY <3>1, <3>2, <3>4 DEF IInv
    <3>6. ASSUME NEW i \in 1..Len(claims')
          PROVE  IsFinal(i)' /\ claims'[i] = log'[i]
      BY <1>4, <3>3, <3>5
    <3> QED
      BY <3>5, <3>6 DEF ClaimsAreFinal
  <2> QED
    BY <2>1, <2>2, ClaimSteps DEF IInv
<1> QED
  BY <1>1, <1>2, <1>3, <1>5 DEF IInv

\* The invariant holds in every reachable state.
LEMMA Invariance == Spec => []IInv
BY InitIInv, NextIInv, PTL DEF Spec

\* Both chains, the loop and its local state keep their types: TypeOK.
THEOREM TypeCorrect == Spec => []TypeOK
<1>1. IInv => TypeOK
  BY FinalEventsType DEF IInv, EthType, ProcessType, LoopInv, TypeOK
<1> QED
  BY <1>1, Invariance, PTL

\* Reorganisations within the confirmation delay, incomplete replies, lost and
\* repeated broadcasts and restarts can not make the validator claim anything
\* but the final events in order (ClaimsAreFinal).
THEOREM ClaimsFinal == Spec => []ClaimsAreFinal
<1>1. IInv => ClaimsAreFinal
  BY DEF IInv
<1> QED
  BY <1>1, Invariance, PTL

\* The loop implements the stream of claims Injective relies on: each of its
\* steps finalises events, claims the next one or does neither.
THEOREM OracleImplementsClaimStream == Spec => ImplementsClaimStream
<1>1. Init => Stream!Init
  BY DEF Init, Stream!Init, FinalEvents
<1>2. IInv /\ [Next]_vars => [Stream!Next]_<<FinalEvents, claims>>
  <2> SUFFICES ASSUME IInv, [Next]_vars
               PROVE  Stream!Next \/ UNCHANGED <<FinalEvents, claims>>
    OBVIOUS
  <2>1. CASE claims' = claims
    BY <2>1, EthStepFinal DEF IInv, FinalStep, Stream!Next, Stream!Finalize
  <2>2. CASE /\ UNCHANGED ethVars
             /\ \E e \in mempool : e.nonce = Len(claims) + 1 /\ claims' = Append(claims, e)
    <3>1. FinalEvents' = FinalEvents
      BY <2>2 DEF ethVars, FinalEvents, IsFinal
    <3>2. mempool \subseteq FinalEvents
      BY DEF IInv, LoopInv
    <3> QED
      BY <2>2, <3>1, <3>2 DEF Stream!Next, Stream!Claim
  <2> QED
    BY <2>1, <2>2, ClaimSteps DEF IInv
<1> QED
  BY <1>1, <1>2, Invariance, PTL DEF Spec, ImplementsClaimStream, Stream!Spec

-----------------------------------------------------------------------------
(* What the loop passes over.                                              *)

\* The event is claimed or on its way, or was in the log when something got lost.
Brought(i) == i <= missed \/ i <= Len(claims) \/ log[i] \in mempool

InRange(i) == lastObservedEthHeight <= log[i].height /\ log[i].height <= latestHeight

\* The search has reached final blocks only, and there is nothing before the
\* start height.
SearchInv ==
  /\ BridgeContractStartHeight - 1 <= ethHeight
  /\ \A i \in 1..Len(log) : BridgeContractStartHeight <= log[i].height
  /\ \/ lastObservedEthHeight <= BridgeContractStartHeight
     \/ lastObservedEthHeight <= peak - ethBlockConfirmationDelay
  /\ pc \in {"events", "filter", "attempt", "sending"} =>
       latestHeight <= peak - ethBlockConfirmationDelay

\* Injective takes no claim into its mempool that skips a nonce.
MempoolInv == \A e \in mempool : e.nonce <= Len(claims) + 1

\* Every event below the height the loop has observed is brought.
ObservedInv ==
  \A i \in 1..Len(log) : log[i].height < lastObservedEthHeight => Brought(i)

\* The events of the range that are not claimed yet are in the reply.
ReplyInv ==
  pc \in {"filter", "attempt", "sending"} =>
    \A i \in 1..Len(log) :
      InRange(i) => i <= missed \/ i <= Len(claims) \/ log[i] \in newEvents

\* An attempt has brought the events of the range, but the ones it has left.
AttemptInv ==
  pc = "sending" => \A i \in 1..Len(log) : InRange(i) => Brought(i) \/ log[i] \in unsent

\* NothingSkipped, with what makes it inductive.
SkipInv == SearchInv /\ MempoolInv /\ ObservedInv /\ ReplyInv /\ AttemptInv

\* At the start there is nothing to pass over.
LEMMA SkipInvInit == Init => SkipInv
<1> SUFFICES ASSUME Init PROVE SkipInv
  OBVIOUS
<1>1. SearchInv
  BY OracleAssumption DEF Init, SearchInv
<1>2. MempoolInv /\ ObservedInv /\ ReplyInv /\ AttemptInv
  BY DEF Init, MempoolInv, ObservedInv, ReplyInv, AttemptInv
<1> QED
  BY <1>1, <1>2 DEF SkipInv

\* The events of a new block are above everything the loop has looked at.
LEMMA MineBlockKeepsSkipInv ==
  ASSUME IInv, SkipInv, NEW n \in Nat, MineBlock(n)
  PROVE  SkipInv'
<1>1. /\ ethHeight' = ethHeight + 1 /\ peak' >= peak /\ peak' \in Nat
      /\ UNCHANGED <<claims, mempool, missed, pc, lastObservedEthHeight, latestHeight,
                     newEvents, unsent>>
  BY DEF MineBlock, injVars, loopVars, faultVars, IInv, EthType
<1>2. /\ ethHeight \in Nat /\ peak \in Nat /\ lastObservedEthHeight \in Nat /\ latestHeight \in Nat
      /\ ethBlockConfirmationDelay \in Nat /\ BridgeContractStartHeight \in Nat
      /\ peak - ethBlockConfirmationDelay <= ethHeight
  BY OracleAssumption DEF IInv, EthType, ProcessType, LogInv
<1>3. ASSUME NEW i \in 1..Len(log'), i \in 1..Len(log)
      PROVE  log'[i] = log[i]
  BY <1>3, MineBlockLog DEF IInv
<1>4. ASSUME NEW i \in 1..Len(log'), i \notin 1..Len(log)
      PROVE  log'[i].height = ethHeight + 1
  <2>1. log'[i] = [nonce |-> i, height |-> ethHeight + 1, fork |-> fork]
    BY <1>4, MineBlockLog DEF IInv
  <2> QED
    BY <2>1
<1>10. \A h \in Nat : h <= peak - ethBlockConfirmationDelay =>
                        h <= peak' - ethBlockConfirmationDelay
  <2>1. \A h, p, q, d \in Nat : h <= p - d /\ q >= p => h <= q - d
    OBVIOUS
  <2> QED
    BY <1>1, <1>2, <2>1
<1>11. pc \in {"filter", "attempt", "sending"} => latestHeight < ethHeight + 1
  <2>1. pc \in {"filter", "attempt", "sending"} =>
          latestHeight <= peak - ethBlockConfirmationDelay
    BY DEF SkipInv, SearchInv
  <2> QED
    BY <1>2, <2>1
<1>5. SearchInv'
  <2>1. BridgeContractStartHeight - 1 <= ethHeight'
    BY <1>1, <1>2 DEF SkipInv, SearchInv
  <2>2. ASSUME NEW i \in 1..Len(log') PROVE BridgeContractStartHeight <= log'[i].height
    <3>1. CASE i \in 1..Len(log)
      BY <1>3, <3>1 DEF SkipInv, SearchInv
    <3>2. CASE i \notin 1..Len(log)
      BY <1>2, <1>4, <3>2 DEF SkipInv, SearchInv
    <3> QED
      BY <3>1, <3>2
  <2>3. \/ lastObservedEthHeight <= BridgeContractStartHeight
        \/ lastObservedEthHeight <= peak' - ethBlockConfirmationDelay
    BY <1>2, <1>10 DEF SkipInv, SearchInv
  <2>4. pc \in {"events", "filter", "attempt", "sending"} =>
          latestHeight <= peak' - ethBlockConfirmationDelay
    BY <1>2, <1>10 DEF SkipInv, SearchInv
  <2> QED
    BY <1>1, <2>1, <2>2, <2>3, <2>4 DEF SearchInv
<1>6. MempoolInv'
  BY <1>1 DEF SkipInv, MempoolInv
<1>7. ObservedInv'
  <2> SUFFICES ASSUME NEW i \in 1..Len(log'), log'[i].height < lastObservedEthHeight
               PROVE  i <= missed \/ i <= Len(claims) \/ log'[i] \in mempool
    BY <1>1 DEF ObservedInv, Brought
  <2>1. i \in 1..Len(log)
    BY <1>2, <1>4 DEF SkipInv, SearchInv
  <2> QED
    BY <1>3, <2>1 DEF SkipInv, ObservedInv, Brought
<1>8. ReplyInv'
  <2> SUFFICES ASSUME pc \in {"filter", "attempt", "sending"}, NEW i \in 1..Len(log'),
                      lastObservedEthHeight <= log'[i].height, log'[i].height <= latestHeight
               PROVE  i <= missed \/ i <= Len(claims) \/ log'[i] \in newEvents
    BY <1>1 DEF ReplyInv, InRange
  <2>1. i \in 1..Len(log)
    BY <1>2, <1>4, <1>11
  <2> QED
    BY <1>3, <2>1 DEF SkipInv, ReplyInv, InRange
<1>9. AttemptInv'
  <2> SUFFICES ASSUME pc = "sending", NEW i \in 1..Len(log'),
                      lastObservedEthHeight <= log'[i].height, log'[i].height <= latestHeight
               PROVE  \/ i <= missed \/ i <= Len(claims) \/ log'[i] \in mempool
                      \/ log'[i] \in unsent
    BY <1>1 DEF AttemptInv, InRange, Brought
  <2>1. i \in 1..Len(log)
    BY <1>2, <1>4, <1>11
  <2> QED
    BY <1>3, <2>1 DEF SkipInv, AttemptInv, InRange, Brought
<1> QED
  BY <1>5, <1>6, <1>7, <1>8, <1>9 DEF SkipInv

\* A reorganisation only takes events away.
LEMMA ReorgKeepsSkipInv ==
  ASSUME IInv, SkipInv, NEW height \in Nat, NEW kept \in Nat, Reorg(height, kept)
  PROVE  SkipInv'
<1>1. /\ ethHeight' = height /\ peak' = peak /\ height >= BridgeContractStartHeight - 1
      /\ UNCHANGED <<claims, mempool, missed, pc, lastObservedEthHeight, latestHeight,
                     newEvents, unsent>>
  BY DEF Reorg, injVars, loopVars, faultVars
<1>2. ASSUME NEW i \in 1..Len(log') PROVE i \in 1..Len(log) /\ log'[i] = log[i]
  BY ReorgLog DEF IInv, EthType
<1>3. BridgeContractStartHeight - 1 <= height
  BY <1>1, OracleAssumption
<1>4. SearchInv'
  BY <1>1, <1>2, <1>3 DEF SkipInv, SearchInv
<1>5. MempoolInv'
  BY <1>1 DEF SkipInv, MempoolInv
<1>6. ObservedInv'
  BY <1>1, <1>2 DEF SkipInv, ObservedInv, Brought
<1>7. ReplyInv'
  BY <1>1, <1>2 DEF SkipInv, ReplyInv, InRange
<1>8. AttemptInv'
  BY <1>1, <1>2 DEF SkipInv, AttemptInv, InRange, Brought
<1> QED
  BY <1>4, <1>5, <1>6, <1>7, <1>8 DEF SkipInv

\* What Injective does to the claims and the mempool leaves every event brought:
\* executed, still waiting, or part of a loss.
LEMMA InjectiveKeepsSkipInv ==
  ASSUME IInv, SkipInv, UNCHANGED <<ethVars, loopVars>>,
         Len(claims') \in Nat, Len(claims') >= Len(claims), mempool' \subseteq mempool,
         \/ missed' = Len(log)
         \/ missed' = missed /\ \A e \in mempool \ mempool' : e.nonce <= Len(claims')
  PROVE  SkipInv'
<1>1. UNCHANGED <<ethHeight, peak, log, pc, lastObservedEthHeight, latestHeight, newEvents, unsent>>
  BY DEF ethVars, loopVars
<1>2. Len(claims) \in Nat /\ Len(log) \in Nat
  BY DEF IInv, EthType
<1>3. SearchInv'
  BY <1>1 DEF SkipInv, SearchInv
<1>4. MempoolInv'
  <2> SUFFICES ASSUME NEW e \in mempool' PROVE e.nonce <= Len(claims') + 1
    BY DEF MempoolInv
  <2>1. e \in Event
    BY FinalEventsType DEF IInv, LoopInv
  <2>2. e.nonce \in Nat
    BY <2>1 DEF Event
  <2>3. e.nonce <= Len(claims) + 1
    BY DEF SkipInv, MempoolInv
  <2> QED
    BY <1>2, <2>2, <2>3
<1>5. ASSUME NEW i \in 1..Len(log), Brought(i) PROVE Brought(i)'
  <2>1. i \in Nat /\ log[i].nonce = i
    BY DEF IInv, LogInv
  <2>2. CASE missed' = Len(log)
    BY <1>2, <2>2 DEF Brought
  <2>3. CASE missed' = missed /\ \A e \in mempool \ mempool' : e.nonce <= Len(claims')
    BY <1>1, <1>2, <1>5, <2>1, <2>3 DEF Brought
  <2> QED
    BY <2>2, <2>3
<1>6. ASSUME NEW i \in 1..Len(log), i <= missed \/ i <= Len(claims)
      PROVE  i <= missed' \/ i <= Len(claims')
  BY <1>2, <1>6
<1>7. ObservedInv'
  BY <1>1, <1>5 DEF SkipInv, ObservedInv
<1>8. ReplyInv'
  BY <1>1, <1>6 DEF SkipInv, ReplyInv, InRange
<1>9. AttemptInv'
  BY <1>1, <1>5 DEF SkipInv, AttemptInv, InRange
<1> QED
  BY <1>3, <1>4, <1>7, <1>8, <1>9 DEF SkipInv

\* A claim that is executed is claimed; one that is not was claimed before.
LEMMA ExecuteClaimKeepsSkipInv ==
  ASSUME IInv, SkipInv, NEW e \in mempool, ExecuteClaim(e)
  PROVE  SkipInv'
<1>1. UNCHANGED <<ethVars, loopVars>> /\ mempool' = mempool \ {e}
  BY DEF ExecuteClaim
<1>2. claims \in Seq(Event) /\ LastClaim.nonce = Len(claims)
  BY LastClaimType DEF IInv
<1>3. e \in Event /\ e.nonce \in Nat /\ e.nonce <= Len(claims) + 1
  <2>1. e \in Event
    BY FinalEventsType DEF IInv, LoopInv
  <2> QED
    BY <2>1 DEF Event, SkipInv, MempoolInv
<1>4. CASE CheckTx(e)
  <2>1. claims' = Append(claims, e) /\ missed' = missed /\ e.nonce = Len(claims) + 1
    BY <1>2, <1>4 DEF ExecuteClaim, CheckTx, faultVars
  <2>2. Len(claims') = Len(claims) + 1
    BY <1>2, <1>3, <2>1
  <2> QED
    BY <1>1, <1>2, <2>1, <2>2, InjectiveKeepsSkipInv
<1>5. CASE ~CheckTx(e) /\ ~bonded
  <2>1. claims' = claims /\ missed' = Len(log)
    BY <1>5 DEF ExecuteClaim
  <2> QED
    BY <1>1, <1>2, <2>1, InjectiveKeepsSkipInv
<1>6. CASE ~CheckTx(e) /\ bonded
  <2>1. claims' = claims /\ missed' = missed /\ e.nonce # Len(claims) + 1
    BY <1>2, <1>6 DEF ExecuteClaim, CheckTx, faultVars
  <2>2. e.nonce <= Len(claims)
    BY <1>2, <1>3, <2>1
  <2> QED
    BY <1>1, <1>2, <2>1, <2>2, InjectiveKeepsSkipInv
<1> QED
  BY <1>4, <1>5, <1>6

\* A lost claim is a loss, and a validator's bond changes no event.
LEMMA InjectiveStepsKeepSkipInv ==
  ASSUME IInv, SkipInv, ChangeBond \/ \E e \in mempool : DropClaim(e)
  PROVE  SkipInv'
<1>1. Len(claims) \in Nat
  BY DEF IInv
<1>2. CASE ChangeBond
  BY <1>1, <1>2, InjectiveKeepsSkipInv DEF ChangeBond, faultVars
<1>3. ASSUME NEW e \in mempool, DropClaim(e) PROVE SkipInv'
  <2>1. UNCHANGED <<ethVars, loopVars, claims>> /\ mempool' \subseteq mempool /\ missed' = Len(log)
    BY <1>3 DEF DropClaim, Loss
  <2> QED
    BY <1>1, <2>1, InjectiveKeepsSkipInv
<1> QED
  BY <1>2, <1>3

\* The loop may go on from this height: nothing below it is left behind.
SafeHeight(height) ==
  /\ \/ height <= BridgeContractStartHeight
     \/ height <= peak - ethBlockConfirmationDelay
  /\ \A i \in 1..Len(log) : log[i].height < height => Brought(i)

\* A step of the process alone: Injective's claims stay, its mempool may grow.
ProcessAlone ==
  /\ UNCHANGED <<ethVars, claims>>
  /\ mempool \subseteq mempool'
  /\ missed' = missed

\* What is brought stays so while the process works.
LEMMA BroughtStays ==
  ASSUME ProcessAlone, NEW i \in 1..Len(log), Brought(i)
  PROVE  Brought(i)'
BY DEF ProcessAlone, ethVars, Brought

\* Everything below the last claim is claimed.
LEMMA LastClaimIsSafe == IInv => SafeHeight(LastClaim.height)
<1> SUFFICES ASSUME IInv PROVE SafeHeight(LastClaim.height)
  OBVIOUS
<1>1. CASE claims = <<>>
  <2>1. LastClaim.height = 0
    BY <1>1 DEF LastClaim
  <2>2. \A i \in 1..Len(log) : ~(log[i].height < 0)
    BY LogEvent DEF IInv
  <2> QED
    BY <2>1, <2>2, OracleAssumption DEF SafeHeight
<1>2. CASE claims # <<>>
  <2> DEFINE c == Len(claims)
  <2>1. c \in 1..Len(claims) /\ LastClaim.height = claims[c].height
    BY <1>2 DEF LastClaim, IInv
  <2>2. IsFinal(c) /\ claims[c] = log[c]
    BY <2>1 DEF IInv, ClaimsAreFinal
  <2>3. c \in 1..Len(log) /\ log[c].height <= peak - ethBlockConfirmationDelay
    BY <2>2 DEF IsFinal
  <2>4. ASSUME NEW i \in 1..Len(log), log[i].height < log[c].height PROVE i <= c
    <3>1. i \in Nat /\ c \in Nat /\ log[i].height \in Nat /\ log[c].height \in Nat
      BY <2>3, LogEvent DEF IInv, EthType
    <3>2. c <= i => log[c].height <= log[i].height
      BY <2>3 DEF IInv, LogInv
    <3> QED
      BY <2>4, <3>1, <3>2
  <2> QED
    BY <2>1, <2>2, <2>3, <2>4 DEF SafeHeight, Brought
<1> QED
  BY <1>1, <1>2

\* When every event of the range is brought, so is everything below its end.
LEMMA RangeEndIsSafe ==
  ASSUME IInv, SkipInv, pc \in {"filter", "attempt", "sending"},
         \A i \in 1..Len(log) : InRange(i) => Brought(i)
  PROVE  SafeHeight(latestHeight)
<1>1. latestHeight <= peak - ethBlockConfirmationDelay
  BY DEF SkipInv, SearchInv
<1>2. ASSUME NEW i \in 1..Len(log), log[i].height < latestHeight PROVE Brought(i)
  <2>1. log[i].height \in Nat /\ lastObservedEthHeight \in Nat /\ latestHeight \in Nat
    BY LogEvent DEF IInv, ProcessType
  <2>2. CASE log[i].height < lastObservedEthHeight
    BY <2>2 DEF SkipInv, ObservedInv
  <2>3. CASE ~(log[i].height < lastObservedEthHeight)
    BY <1>2, <2>1, <2>3 DEF InRange
  <2> QED
    BY <2>2, <2>3
<1> QED
  BY <1>1, <1>2 DEF SafeHeight

\* An iteration may return with a safe height.
LEMMA ReturnKeepsSkipInv ==
  ASSUME SkipInv, NEW height, Return(height), ProcessAlone, MempoolInv',
         SafeHeight(height)
  PROVE  SkipInv'
<1>1. pc' = "idle" /\ lastObservedEthHeight' = height /\ UNCHANGED <<ethHeight, peak, log>>
  BY DEF Return, ProcessAlone, ethVars
<1>2. SearchInv'
  BY <1>1 DEF SkipInv, SearchInv, SafeHeight
<1>3. ObservedInv'
  BY <1>1, BroughtStays DEF ObservedInv, SafeHeight
<1>4. ReplyInv' /\ AttemptInv'
  BY <1>1 DEF ReplyInv, AttemptInv
<1> QED
  BY <1>2, <1>3, <1>4 DEF SkipInv

\* A process that exits has nothing behind it.
LEMMA ExitKeepsSkipInv ==
  ASSUME IInv, SkipInv, Exit, ProcessAlone, MempoolInv'
  PROVE  SkipInv'
<1>1. pc' = "down" /\ lastObservedEthHeight' = 0 /\ UNCHANGED <<ethHeight, peak, log>>
  BY DEF Exit, ProcessAlone, ethVars
<1>2. SearchInv'
  BY <1>1, OracleAssumption DEF SkipInv, SearchInv
<1>3. ObservedInv'
  <2>1. \A i \in 1..Len(log) : ~(log[i].height < 0)
    BY LogEvent DEF IInv
  <2> QED
    BY <1>1, <2>1 DEF ObservedInv
<1>4. ReplyInv' /\ AttemptInv'
  BY <1>1 DEF ReplyInv, AttemptInv
<1> QED
  BY <1>2, <1>3, <1>4 DEF SkipInv

\* A failed attempt keeps the events it is to send again.
LEMMA AttemptFailsKeepsSkipInv ==
  ASSUME IInv, SkipInv, pc \in {"attempt", "sending"}, AttemptFails, ProcessAlone, MempoolInv'
  PROVE  SkipInv'
<1>1. CASE Exit
  BY <1>1, ExitKeepsSkipInv
<1>2. CASE ~Exit
  <2>1. /\ pc' = "attempt"
        /\ UNCHANGED <<ethHeight, peak, log, claims, missed, lastObservedEthHeight,
                       latestHeight, newEvents>>
    BY <1>2 DEF AttemptFails, ProcessAlone, ethVars
  <2>2. SearchInv'
    BY <2>1 DEF SkipInv, SearchInv
  <2>3. ObservedInv'
    BY <2>1, BroughtStays DEF SkipInv, ObservedInv
  <2>4. ReplyInv' /\ AttemptInv'
    BY <2>1 DEF SkipInv, ReplyInv, AttemptInv, InRange
  <2> QED
    BY <2>2, <2>3, <2>4 DEF SkipInv
<1> QED
  BY <1>1, <1>2

\* The steps of an iteration up to the reply.
LEMMA SearchKeepsSkipInv ==
  ASSUME IInv, SkipInv,
         \/ startValidatorMode \/ checkBonded \/ getLatestEthHeight
         \/ \E reply \in SUBSET EventsInRange : getEthEvents(reply)
  PROVE  SkipInv'
<1>1. UNCHANGED <<ethVars, injVars>>
  BY DEF startValidatorMode, checkBonded, getLatestEthHeight, getEthEvents
<1>2. MempoolInv' /\ UNCHANGED <<ethHeight, peak, log, claims, mempool>>
  BY <1>1 DEF ethVars, injVars, SkipInv, MempoolInv
<1>3. missed' = missed => ProcessAlone
  BY <1>1 DEF injVars, ProcessAlone
<1>4. CASE startValidatorMode
  <2>1. missed' = missed
    BY <1>4 DEF startValidatorMode, faultVars
  <2>2. SafeHeight(BridgeContractStartHeight)
    <3>1. \A i \in 1..Len(log) : ~(log[i].height < BridgeContractStartHeight)
      BY LogEvent, OracleAssumption DEF IInv, SkipInv, SearchInv
    <3> QED
      BY <3>1, OracleAssumption DEF SafeHeight
  <2>3. PICK height : Return(height) /\ SafeHeight(height)
    BY <1>4, <2>2, LastClaimIsSafe DEF startValidatorMode
  <2> QED
    BY <1>2, <1>3, <2>1, <2>3, ReturnKeepsSkipInv
<1>5. CASE checkBonded
  <2>1. /\ pc' = "height" /\ lastObservedEthHeight' = lastObservedEthHeight /\ missed' = missed
    BY <1>5 DEF checkBonded, faultVars
  <2>2. SearchInv' /\ ObservedInv' /\ ReplyInv' /\ AttemptInv'
    BY <1>2, <2>1 DEF SkipInv, SearchInv, ObservedInv, Brought, ReplyInv, AttemptInv
  <2> QED
    BY <1>2, <2>2 DEF SkipInv
<1>6. CASE getLatestEthHeight
  <2>1. missed' = missed
    BY <1>6 DEF getLatestEthHeight, faultVars
  <2>2. CASE Return(lastObservedEthHeight)
    <3>1. SafeHeight(lastObservedEthHeight)
      BY DEF SkipInv, SearchInv, ObservedInv, SafeHeight
    <3> QED
      BY <1>2, <1>3, <2>1, <2>2, <3>1, ReturnKeepsSkipInv
  <2>3. CASE ~Return(lastObservedEthHeight)
    <3>1. /\ pc' = "events" /\ latestHeight' = SearchEnd
          /\ lastObservedEthHeight' = lastObservedEthHeight
      BY <1>6, <2>3 DEF getLatestEthHeight
    <3>2. SearchEnd <= peak - ethBlockConfirmationDelay
      BY OracleAssumption DEF SearchEnd, IInv, EthType, ProcessType, LogInv
    <3>3. SearchInv'
      BY <1>2, <3>1, <3>2 DEF SkipInv, SearchInv
    <3>4. ObservedInv' /\ ReplyInv' /\ AttemptInv'
      BY <1>2, <2>1, <3>1 DEF SkipInv, ObservedInv, Brought, ReplyInv, AttemptInv
    <3> QED
      BY <1>2, <3>3, <3>4 DEF SkipInv
  <2> QED
    BY <2>2, <2>3
<1>7. ASSUME NEW reply \in SUBSET EventsInRange, getEthEvents(reply) PROVE SkipInv'
  <2>1. /\ pc = "events" /\ pc' = "filter" /\ newEvents' = reply
        /\ UNCHANGED <<lastObservedEthHeight, latestHeight>>
        /\ (reply = EventsInRange /\ missed' = missed) \/ missed' = Len(log)
    BY <1>7 DEF getEthEvents, Loss, faultVars
  <2>2. SearchInv' /\ AttemptInv'
    BY <1>2, <2>1 DEF SkipInv, SearchInv, AttemptInv
  <2>3. ASSUME NEW i \in 1..Len(log), missed' = Len(log) PROVE i <= missed'
    BY <2>3 DEF IInv, EthType
  <2>4. ObservedInv'
    BY <1>2, <2>1, <2>3 DEF SkipInv, ObservedInv, Brought
  <2>5. ASSUME NEW i \in 1..Len(log), InRange(i) PROVE log[i] \in EventsInRange
    BY <2>5 DEF InRange, EventsInRange
  <2>6. ReplyInv'
    BY <1>2, <2>1, <2>3, <2>5 DEF ReplyInv, InRange
  <2> QED
    BY <1>2, <2>2, <2>4, <2>6 DEF SkipInv
<1> QED
  BY <1>4, <1>5, <1>6, <1>7

\* What the filter leaves out of the reply is claimed.
LEMMA FilteredIsClaimed ==
  ASSUME IInv, NEW i \in 1..Len(log), log[i] \in newEvents,
         log[i] \notin filterEvents(newEvents, LastClaim.nonce)
  PROVE  i <= Len(claims)
<1>1. log[i].nonce = i /\ LastClaim.nonce = Len(claims) /\ Len(claims) \in Nat /\ i \in Nat
  BY LastClaimType DEF IInv, LogInv
<1> QED
  BY <1>1 DEF filterEvents

\* The steps that compare the reply with the last claim.
LEMMA FilterKeepsSkipInv ==
  ASSUME IInv, SkipInv, getLastClaimEvent \/ sendNewEventClaims
  PROVE  SkipInv'
<1> DEFINE new == filterEvents(newEvents, LastClaim.nonce)
<1>1. UNCHANGED <<ethVars, injVars, faultVars>> /\ pc \in {"filter", "attempt"}
  BY DEF getLastClaimEvent, sendNewEventClaims
<1>2. ProcessAlone /\ MempoolInv' /\ UNCHANGED <<ethHeight, peak, log, claims, mempool, missed>>
  BY <1>1 DEF ethVars, injVars, faultVars, ProcessAlone, SkipInv, MempoolInv
<1>3. ASSUME NEW i \in 1..Len(log), InRange(i)
      PROVE  i <= missed \/ i <= Len(claims) \/ log[i] \in new
  BY <1>1, <1>3, FilteredIsClaimed DEF SkipInv, ReplyInv
<1>4. ASSUME new = {}, Return(latestHeight) PROVE SkipInv'
  <2>1. SafeHeight(latestHeight)
    BY <1>1, <1>3, <1>4, RangeEndIsSafe DEF Brought
  <2> QED
    BY <1>2, <1>4, <2>1, ReturnKeepsSkipInv
<1>5. ASSUME Return(RewindHeight) PROVE SkipInv'
  BY <1>2, <1>5, LastClaimIsSafe, ReturnKeepsSkipInv DEF RewindHeight
<1>6. ASSUME UNCHANGED <<lastObservedEthHeight, latestHeight>>,
             \/ pc' = "attempt" /\ newEvents' = new
             \/ pc' = "sending" /\ newEvents' = newEvents /\ unsent' = new
      PROVE  SkipInv'
  <2>1. SearchInv'
    BY <1>1, <1>2, <1>6 DEF SkipInv, SearchInv
  <2>2. ObservedInv'
    BY <1>2, <1>6 DEF SkipInv, ObservedInv, Brought
  <2>3. new \subseteq newEvents
    BY DEF filterEvents
  <2> HIDE DEF new
  <2>4. ReplyInv'
    BY <1>2, <1>3, <1>6, <2>3 DEF ReplyInv, InRange
  <2>5. AttemptInv'
    BY <1>2, <1>3, <1>6 DEF AttemptInv, InRange, Brought
  <2> QED
    BY <1>2, <2>1, <2>2, <2>4, <2>5 DEF SkipInv
<1>7. CASE getLastClaimEvent
  BY <1>4, <1>5, <1>6, <1>7 DEF getLastClaimEvent
<1>8. CASE sendNewEventClaims
  BY <1>4, <1>6, <1>8 DEF sendNewEventClaims
<1> QED
  BY <1>7, <1>8

\* A claim that Injective takes has the next nonce.
LEMMA BroadcastKeepsMempoolInv ==
  ASSUME IInv, SkipInv, NEW e, Broadcast(e), UNCHANGED <<ethVars, claims, missed>>
  PROVE  MempoolInv' /\ ProcessAlone /\ mempool' = mempool \cup {e}
<1>1. e.nonce = Len(claims) + 1 /\ Len(claims) \in Nat
  BY LastClaimType DEF Broadcast, CheckTx, IInv
<1> QED
  BY <1>1 DEF Broadcast, SkipInv, MempoolInv, ProcessAlone

\* The loop moves on only when the attempt has no event left.
LEMMA SendKeepsSkipInv ==
  ASSUME IInv, SkipInv, NEW e \in unsent, sendEthEventClaim(e)
  PROVE  SkipInv'
<1>1. /\ pc = "sending" /\ Broadcast(e) /\ UNCHANGED <<ethVars, claims, missed>>
  BY DEF sendEthEventClaim, faultVars
<1>2. MempoolInv' /\ ProcessAlone /\ mempool' = mempool \cup {e}
  BY <1>1, BroadcastKeepsMempoolInv
<1>3. UNCHANGED <<ethHeight, peak, log>>
  BY <1>1 DEF ethVars
<1>4. CASE unsent = {e}
  <2>1. Return(latestHeight)
    BY <1>4 DEF sendEthEventClaim
  <2>2. pc' = "idle" /\ lastObservedEthHeight' = latestHeight
    BY <2>1 DEF Return
  <2>3. ASSUME NEW i \in 1..Len(log), log[i].height < latestHeight PROVE Brought(i)'
    <3>1. log[i].height \in Nat /\ lastObservedEthHeight \in Nat /\ latestHeight \in Nat
      BY LogEvent DEF IInv, ProcessType
    <3>2. CASE log[i].height < lastObservedEthHeight
      BY <1>2, <3>2, BroughtStays DEF SkipInv, ObservedInv
    <3>3. CASE ~(log[i].height < lastObservedEthHeight)
      <4>1. Brought(i) \/ log[i] = e
        BY <1>1, <1>4, <2>3, <3>1, <3>3 DEF SkipInv, AttemptInv, InRange
      <4> QED
        BY <1>2, <1>3, <4>1, BroughtStays DEF Brought
    <3> QED
      BY <3>2, <3>3
  <2>4. ObservedInv'
    BY <1>3, <2>2, <2>3 DEF ObservedInv
  <2>5. SearchInv' /\ ReplyInv' /\ AttemptInv'
    BY <1>1, <1>3, <2>2 DEF SkipInv, SearchInv, ReplyInv, AttemptInv
  <2> QED
    BY <1>2, <2>4, <2>5 DEF SkipInv
<1>5. CASE unsent # {e}
  <2>1. /\ unsent' = unsent \ {e}
        /\ UNCHANGED <<pc, lastObservedEthHeight, latestHeight, newEvents>>
    BY <1>5 DEF sendEthEventClaim
  <2>2. SearchInv'
    BY <1>3, <2>1 DEF SkipInv, SearchInv
  <2>3. ObservedInv'
    BY <1>2, <1>3, <2>1, BroughtStays DEF SkipInv, ObservedInv
  <2>4. ReplyInv'
    BY <1>1, <1>3, <2>1 DEF SkipInv, ReplyInv, InRange
  <2>5. ASSUME NEW i \in 1..Len(log), InRange(i) PROVE Brought(i)' \/ log[i] \in unsent'
    <3>1. Brought(i) \/ log[i] = e \/ log[i] \in unsent'
      BY <1>1, <2>1, <2>5 DEF SkipInv, AttemptInv
    <3> QED
      BY <1>2, <1>3, <3>1, BroughtStays DEF Brought
  <2>6. AttemptInv'
    BY <1>3, <2>1, <2>5 DEF AttemptInv, InRange
  <2> QED
    BY <1>2, <2>2, <2>3, <2>4, <2>6 DEF SkipInv
<1> QED
  BY <1>4, <1>5

\* The faults of the process and of its connection to Injective.
LEMMA FailureKeepsSkipInv ==
  ASSUME IInv, SkipInv,
         \/ Crash \/ LastClaimUnknown
         \/ \E e \in unsent : ClaimRejected(e) \/ BroadcastTimesOut(e)
  PROVE  SkipInv'
<1>1. ASSUME UNCHANGED <<ethVars, injVars, missed>> PROVE ProcessAlone /\ MempoolInv'
  BY <1>1 DEF injVars, ProcessAlone, SkipInv, MempoolInv
<1>2. CASE Crash
  <2>1. Exit /\ UNCHANGED <<ethVars, injVars, missed>>
    BY <1>2 DEF Crash, Fault
  <2> QED
    BY <1>1, <2>1, ExitKeepsSkipInv
<1>3. CASE LastClaimUnknown \/ \E e \in unsent : ClaimRejected(e)
  <2>1. AttemptFails /\ pc \in {"attempt", "sending"} /\ UNCHANGED <<ethVars, injVars, missed>>
    BY <1>3 DEF LastClaimUnknown, ClaimRejected, Fault, faultVars
  <2> QED
    BY <1>1, <2>1, AttemptFailsKeepsSkipInv
<1>4. ASSUME NEW e \in unsent, BroadcastTimesOut(e) PROVE SkipInv'
  <2>1. AttemptFails /\ pc = "sending" /\ Broadcast(e) /\ UNCHANGED <<ethVars, claims, missed>>
    BY <1>4 DEF BroadcastTimesOut, Fault
  <2> QED
    BY <2>1, BroadcastKeepsMempoolInv, AttemptFailsKeepsSkipInv
<1> QED
  BY <1>2, <1>3, <1>4

\* Every step keeps the invariant.
LEMMA NextSkipInv == IInv /\ SkipInv /\ [Next]_vars => SkipInv'
<1> SUFFICES ASSUME IInv, SkipInv, [Next]_vars PROVE SkipInv'
  OBVIOUS
<1>1. 0..MaxEvents \subseteq Nat /\ 0..MaxHeight \subseteq Nat
  BY OracleAssumption
<1>2. ASSUME NEW n \in 0..MaxEvents, MineBlock(n) PROVE SkipInv'
  BY <1>1, <1>2, MineBlockKeepsSkipInv
<1>3. ASSUME NEW height \in 0..MaxHeight, NEW kept \in 0..MaxEvents, Reorg(height, kept)
      PROVE  SkipInv'
  BY <1>1, <1>3, ReorgKeepsSkipInv
<1>4. CASE UNCHANGED vars
  BY <1>4 DEF vars, ethVars, injVars, loopVars, faultVars, SkipInv, SearchInv, MempoolInv,
     ObservedInv, ReplyInv, AttemptInv, Brought, InRange
<1> QED
  BY <1>2, <1>3, <1>4, ExecuteClaimKeepsSkipInv, InjectiveStepsKeepSkipInv,
     SearchKeepsSkipInv, FilterKeepsSkipInv, SendKeepsSkipInv, FailureKeepsSkipInv, Zenon
     DEF Next, Oracle

\* NothingSkipped for every confirmation delay, search range, number of attempts
\* and of faults: the loop never moves past an event it has not brought to
\* Injective (observeEthEvents, sendNewEventClaims).
THEOREM NothingIsSkipped == Spec => []NothingSkipped
<1>1. IInv /\ SkipInv => NothingSkipped
  <2> SUFFICES ASSUME IInv, SkipInv, NEW i \in 1..Len(log),
                      i > missed, log[i].height < lastObservedEthHeight
               PROVE  i <= Len(claims) \/ log[i] \in mempool
    BY DEF NothingSkipped
  <2>1. i \in Nat /\ missed \in Nat
    BY DEF IInv, ProcessType
  <2> QED
    BY <2>1 DEF SkipInv, ObservedInv, Brought
<1> QED
  BY <1>1, SkipInvInit, NextSkipInv, Invariance, PTL DEF Spec

=============================================================================
