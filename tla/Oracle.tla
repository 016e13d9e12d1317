------------------------------- MODULE Oracle -------------------------------
(***************************************************************************)
(* The oracle loop of one validator's orchestrator (orchestrator/oracle.go *)
(* and the start-up in orchestrator/orchestrator.go): it reads the events  *)
(* of the bridge contract from an Ethereum node and claims them, one after *)
(* the other, on Injective.                                                *)
(*                                                                         *)
(* One step of the loop is one call it makes to a node, so that everything *)
(* else happens between the calls: Ethereum mines blocks and reorganises   *)
(* its unconfirmed ones, an Ethereum node leaves events out of a reply,    *)
(* Injective executes or loses a claim it has taken into its mempool, the  *)
(* validator leaves and enters the active set, and the process exits and   *)
(* is started again.                                                       *)
(*                                                                         *)
(* An operator that stands right before another with the same parameters   *)
(* and is used nowhere is a faulty variant of it: PROJECT.json names the   *)
(* property each one breaks.                                               *)
(***************************************************************************)
EXTENDS Integers, Sequences

CONSTANTS
  ethBlockConfirmationDelay,
  defaultBlocksToSearch,
  maxAttempts,
  BridgeContractStartHeight,  \* PeggyParams of Injective
  MaxHeight,     \* bound: last Ethereum block
  MaxEvents,     \* bound: length of the log
  MaxReorgs,     \* bound: number of reorganisations
  MaxFaults      \* bound: number of faults of nodes and of the process

ASSUME OracleAssumption ==
  /\ ethBlockConfirmationDelay \in Nat \ {0}
  /\ defaultBlocksToSearch \in Nat \ {0}
  /\ maxAttempts \in Nat \ {0}
  /\ BridgeContractStartHeight \in Nat \ {0}
  /\ MaxHeight \in Nat /\ MaxEvents \in Nat /\ MaxReorgs \in Nat /\ MaxFaults \in Nat

VARIABLES
  \* Ethereum
  ethHeight,     \* the latest block
  peak,          \* history: the highest block there has been
  log,           \* the contract's events, the n-th has event nonce n
  fork,          \* number of reorganisations, tells replaced events apart
  \* Injective
  bonded,        \* the validator is in the current validator set
  claims,        \* the validator's executed claims
  mempool,       \* claims that passed CheckTx and are not executed yet
  \* the process
  pc,
  lastObservedEthHeight,
  latestHeight,
  newEvents,     \* the events of the reply, then the ones still to claim
  unsent,        \* what the current attempt of sendNewEventClaims has left
  attempts,      \* failed attempts of sendNewEventClaims
  \* history
  faults,        \* number of faults so far
  missed         \* length of the log when last something got lost

ethVars == <<ethHeight, peak, log, fork>>
injVars == <<bonded, claims, mempool>>
loopVars == <<pc, lastObservedEthHeight, latestHeight, newEvents, unsent, attempts>>
faultVars == <<faults, missed>>

vars == <<ethVars, injVars, loopVars, faultVars>>

Event == [nonce: Nat, height: Nat, fork: Nat]

\* What LastClaimEventByAddr answers.
LastClaim ==
  IF claims = <<>> THEN [nonce |-> 0, height |-> 0]
  ELSE [nonce |-> Len(claims), height |-> claims[Len(claims)].height]

\* A fault that loses nothing, and one that does.
Fault == faults < MaxFaults /\ faults' = faults + 1 /\ UNCHANGED missed
Loss == faults < MaxFaults /\ faults' = faults + 1 /\ missed' = Len(log)

Init ==
  /\ ethHeight = BridgeContractStartHeight - 1
  /\ peak = ethHeight
  /\ log = <<>>
  /\ fork = 0
  /\ bonded \in BOOLEAN
  /\ claims = <<>>
  /\ mempool = {}
  /\ pc = "down"
  /\ lastObservedEthHeight = 0
  /\ latestHeight = 0
  /\ newEvents = {}
  /\ unsent = {}
  /\ attempts = 0
  /\ faults = 0
  /\ missed = 0

-----------------------------------------------------------------------------
(* Ethereum.  The blocks from peak - ethBlockConfirmationDelay down are    *)
(* never replaced.                                                         *)

MineBlock(n) ==
  /\ ethHeight < MaxHeight
  /\ Len(log) + n <= MaxEvents
  /\ ethHeight' = ethHeight + 1
  /\ peak' = IF peak < ethHeight + 1 THEN ethHeight + 1 ELSE peak
  /\ log' = log \o [i \in 1..n |-> [nonce |-> Len(log) + i, height |-> ethHeight + 1,
                                    fork |-> fork]]
  /\ UNCHANGED <<fork, injVars, loopVars, faultVars>>

Reorg(height, kept) ==
  /\ fork < MaxReorgs
  /\ height < ethHeight
  /\ height >= peak - ethBlockConfirmationDelay
  /\ height >= BridgeContractStartHeight - 1
  /\ kept <= Len(log)
  /\ \A i \in 1..Len(log) : log[i].height <= height <=> i <= kept
  /\ ethHeight' = height
  /\ log' = SubSeq(log, 1, kept)
  /\ fork' = fork + 1
  /\ UNCHANGED <<peak, injVars, loopVars, faultVars>>

-----------------------------------------------------------------------------
(* Injective.                                                              *)

CheckTx(e) == bonded /\ e.nonce = LastClaim.nonce + 1

ExecuteClaim(e) ==
  /\ e \in mempool
  /\ mempool' = mempool \ {e}
  /\ IF CheckTx(e)
     THEN claims' = Append(claims, e) /\ UNCHANGED faultVars
     ELSE /\ claims' = claims
          /\ IF bonded THEN UNCHANGED faultVars
             ELSE missed' = Len(log) /\ UNCHANGED faults
  /\ UNCHANGED <<bonded, ethVars, loopVars>>

DropClaim(e) ==
  /\ e \in mempool
  /\ mempool' = mempool \ {e}
  /\ Loss
  /\ UNCHANGED <<bonded, claims, ethVars, loopVars>>

ChangeBond ==
  /\ bonded' = ~bonded
  /\ UNCHANGED <<claims, mempool, ethVars, loopVars, faultVars>>

-----------------------------------------------------------------------------
(* The process.                                                            *)

\* The iteration returns and the loop observes height from now on.
Return(height) ==
  /\ pc' = "idle"
  /\ lastObservedEthHeight' = height
  /\ latestHeight' = 0
  /\ newEvents' = {}
  /\ unsent' = {}
  /\ attempts' = 0

\* An error of an iteration ends the loop, and with it the process.
Exit ==
  /\ pc' = "down"
  /\ lastObservedEthHeight' = 0
  /\ latestHeight' = 0
  /\ newEvents' = {}
  /\ unsent' = {}
  /\ attempts' = 0

\* The start-up takes the start height of the contract when there is no claim
\* yet, and also when the query for the last claim fails.
startValidatorMode ==
  /\ pc = "down"
  /\ \/ Return(IF LastClaim.height = 0 THEN BridgeContractStartHeight ELSE LastClaim.height)
     \/ Return(BridgeContractStartHeight)
  /\ UNCHANGED <<ethVars, injVars, faultVars>>

\* An iteration of a validator outside the current validator set does nothing.
checkBonded ==
  /\ pc = "idle"
  /\ bonded
  /\ pc' = "height"
  /\ UNCHANGED <<lastObservedEthHeight, latestHeight, newEvents, unsent, attempts,
                 ethVars, injVars, faultVars>>

SearchEndUnconfirmed ==
  IF ethHeight > lastObservedEthHeight + defaultBlocksToSearch
  THEN lastObservedEthHeight + defaultBlocksToSearch
  ELSE ethHeight

SearchEndOneShort ==
  IF ethHeight - ethBlockConfirmationDelay > lastObservedEthHeight + defaultBlocksToSearch
  THEN lastObservedEthHeight + defaultBlocksToSearch + 1
  ELSE ethHeight - ethBlockConfirmationDelay + 1

\* The highest block the loop looks at in one iteration.
SearchEnd ==
  IF ethHeight - ethBlockConfirmationDelay > lastObservedEthHeight + defaultBlocksToSearch
  THEN lastObservedEthHeight + defaultBlocksToSearch
  ELSE ethHeight - ethBlockConfirmationDelay

getLatestEthHeight ==
  /\ pc = "height"
  /\ IF \/ ethHeight <= ethBlockConfirmationDelay
        \/ ethHeight - ethBlockConfirmationDelay <= lastObservedEthHeight
     THEN Return(lastObservedEthHeight)
     ELSE /\ pc' = "events"
          /\ latestHeight' = SearchEnd
          /\ UNCHANGED <<lastObservedEthHeight, newEvents, unsent, attempts>>
  /\ UNCHANGED <<ethVars, injVars, faultVars>>

EventsAfterLastObserved ==
  {log[i] : i \in {j \in 1..Len(log) : /\ lastObservedEthHeight < log[j].height
                                       /\ log[j].height <= latestHeight}}

\* Both ends of the range are included.
EventsInRange ==
  {log[i] : i \in {j \in 1..Len(log) : /\ lastObservedEthHeight <= log[j].height
                                       /\ log[j].height <= latestHeight}}

\* The node answers with all events of the range, or leaves some out.
getEthEvents(reply) ==
  /\ pc = "events"
  /\ pc' = "filter"
  /\ newEvents' = reply
  /\ IF reply = EventsInRange THEN UNCHANGED faultVars ELSE Loss
  /\ UNCHANGED <<lastObservedEthHeight, latestHeight, unsent, attempts, ethVars, injVars>>

filterEvents(events, nonce) == {e \in events : e.nonce > nonce}

\* The first event of the sorted list.
IsFirst(e, events) == e \in events /\ \A f \in events : e.nonce <= f.nonce

RewindHeightNone == lastObservedEthHeight

\* Where the search goes on when an event is missing.
RewindHeight == LastClaim.height

getLastClaimEvent ==
  LET new == filterEvents(newEvents, LastClaim.nonce)
  IN  /\ pc = "filter"
      /\ \/ new = {} /\ Return(latestHeight)
         \/ \E e \in new :
              /\ IsFirst(e, new)
              /\ IF e.nonce # LastClaim.nonce + 1
                 THEN Return(RewindHeight)
                 ELSE /\ pc' = "attempt"
                      /\ newEvents' = new
                      /\ UNCHANGED <<lastObservedEthHeight, latestHeight, unsent, attempts>>
      /\ UNCHANGED <<ethVars, injVars, faultVars>>

\* An attempt of sendNewEventClaims starts over from the last claim.
sendNewEventClaims ==
  LET new == filterEvents(newEvents, LastClaim.nonce)
  IN  /\ pc = "attempt"
      /\ IF new = {}
         THEN Return(latestHeight)
         ELSE /\ pc' = "sending"
              /\ unsent' = new
              /\ UNCHANGED <<lastObservedEthHeight, latestHeight, newEvents, attempts>>
      /\ UNCHANGED <<ethVars, injVars, faultVars>>

AttemptFailsOffByOne ==
  IF attempts = maxAttempts
  THEN Exit
  ELSE /\ pc' = "attempt"
       /\ attempts' = attempts + 1
       /\ unsent' = {}
       /\ UNCHANGED <<lastObservedEthHeight, latestHeight, newEvents>>

AttemptFails ==
  IF attempts + 1 = maxAttempts
  THEN Exit
  ELSE /\ pc' = "attempt"
       /\ attempts' = attempts + 1
       /\ unsent' = {}
       /\ UNCHANGED <<lastObservedEthHeight, latestHeight, newEvents>>

\* A broadcast succeeds when Injective's node has run CheckTx on the claim; the
\* claim is not executed yet.
Broadcast(e) ==
  /\ CheckTx(e)
  /\ mempool' = mempool \cup {e}

sendEthEventClaim(e) ==
  /\ pc = "sending"
  /\ IsFirst(e, unsent)
  /\ Broadcast(e)
  /\ IF unsent = {e}
     THEN Return(latestHeight)
     ELSE /\ unsent' = unsent \ {e}
          /\ UNCHANGED <<pc, lastObservedEthHeight, latestHeight, newEvents, attempts>>
  /\ UNCHANGED <<bonded, claims, ethVars, faultVars>>

ClaimRejected(e) ==
  /\ pc = "sending"
  /\ IsFirst(e, unsent)
  /\ ~CheckTx(e)
  /\ AttemptFails
  /\ UNCHANGED <<ethVars, injVars, faultVars>>

\* The attempt's query for the last claim fails.
LastClaimUnknown ==
  /\ pc = "attempt"
  /\ AttemptFails
  /\ Fault
  /\ UNCHANGED <<ethVars, injVars>>

\* The answer to a broadcast is lost, of a claim that Injective has taken.
BroadcastTimesOut(e) ==
  /\ pc = "sending"
  /\ IsFirst(e, unsent)
  /\ Broadcast(e)
  /\ AttemptFails
  /\ Fault
  /\ UNCHANGED <<bonded, claims, ethVars>>

\* A query of the iteration fails for good, or the process is killed.
Crash ==
  /\ pc # "down"
  /\ Exit
  /\ Fault
  /\ UNCHANGED <<ethVars, injVars>>

Oracle ==
  \/ startValidatorMode
  \/ checkBonded
  \/ getLatestEthHeight
  \/ \E reply \in SUBSET EventsInRange : getEthEvents(reply)
  \/ getLastClaimEvent
  \/ sendNewEventClaims
  \/ \E e \in unsent : sendEthEventClaim(e) \/ ClaimRejected(e)

Next ==
  \/ \E n \in 0..MaxEvents : MineBlock(n)
  \/ \E height \in 0..MaxHeight, kept \in 0..MaxEvents : Reorg(height, kept)
  \/ \E e \in mempool : ExecuteClaim(e) \/ DropClaim(e)
  \/ ChangeBond
  \/ Oracle
  \/ LastClaimUnknown
  \/ \E e \in unsent : BroadcastTimesOut(e)
  \/ Crash

Spec == Init /\ [][Next]_vars

\* Ethereum goes on, Injective executes the claims it has taken or drops them,
\* and whoever runs the orchestrator starts it again after it has exited.
Fairness ==
  /\ WF_vars(\E n \in 0..MaxEvents : MineBlock(n))
  /\ WF_vars(\E e \in mempool : ExecuteClaim(e))
  /\ WF_vars(Oracle)

FairSpec == Spec /\ Fairness

-----------------------------------------------------------------------------
(* Properties.                                                             *)

\* The types of the two chains, of the loop and of its local state.
TypeOK ==
  /\ ethHeight \in Nat /\ peak \in Nat /\ fork \in Nat
  /\ log \in Seq(Event)
  /\ bonded \in BOOLEAN
  /\ claims \in Seq(Event)
  /\ mempool \in SUBSET Event
  /\ pc \in {"down", "idle", "height", "events", "filter", "attempt", "sending"}
  /\ lastObservedEthHeight \in Nat
  /\ latestHeight \in Nat
  /\ newEvents \in SUBSET Event
  /\ unsent \in SUBSET Event
  /\ attempts \in 0..(maxAttempts - 1)
  /\ faults \in Nat /\ missed \in Nat

IsFinal(i) == i \in 1..Len(log) /\ log[i].height <= peak - ethBlockConfirmationDelay

FinalEvents == {log[i] : i \in {j \in 1..Len(log) : IsFinal(j)}}

\* Whatever Ethereum reorganises, loses or answers incompletely and however
\* often the process is restarted, the validator's claims on Injective are the
\* first events of the log, in order, each one below the confirmation depth and
\* so never replaced afterwards (ethBlockConfirmationDelay in observeEthEvents).
ClaimsAreFinal ==
  \A i \in 1..Len(claims) : IsFinal(i) /\ claims[i] = log[i]

\* The loop never moves its search past an event it has not brought to
\* Injective: every event below lastObservedEthHeight is claimed or on its way,
\* the ones apart that were in the log when a reply was incomplete or a claim
\* got lost.  (lastObservedEthHeight is only moved after the claims are sent,
\* and a range starts with the block the last one ended with.)
NothingSkipped ==
  \A i \in 1..Len(log) :
    i > missed /\ log[i].height < lastObservedEthHeight
      => i <= Len(claims) \/ log[i] \in mempool

Stream == INSTANCE ClaimStream WITH finalized <- FinalEvents, claimed <- claims

\* Whatever the loop goes through, what Injective sees of it is the stream it
\* relies on: final events only, each one once, no nonce left out.
ImplementsClaimStream == Stream!Spec

\* One block above it has the confirmations, too: the loop only looks when
\* there is a block it has not observed.
Confirmed(i) ==
  i \in 1..Len(log) /\ log[i].height < ethHeight - ethBlockConfirmationDelay

Claimed(i) == i <= Len(claims)

\* A validator that stays in the active set claims every confirmed event that
\* is newer than the last loss; the earlier ones are claimed before it, so a
\* newer event heals a loss (the restart of the block search in
\* observeEthEvents).  Without a loss this is every event.
NewerEventsHeal ==
  <>[]bonded => \A i \in 1..MaxEvents : Confirmed(i) ~> (Claimed(i) \/ i <= missed)

\* docs/ARCHITECTURE.md says of the oracle: "resyncInterval = 24 hours - Auto
\* re-sync interval to catch up with validator's last observed event nonce",
\* "Implemented to handle cases where event nonce falls behind due to [...]
\* Missed events due to infrastructure issues".  So a validator that stays in
\* the active set claims every confirmed event, after a loss too.
MissedEventsAreResynced ==
  <>[]bonded => \A i \in 1..MaxEvents : Confirmed(i) ~> Claimed(i)

=============================================================================
