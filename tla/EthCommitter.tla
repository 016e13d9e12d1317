---------------------------- MODULE EthCommitter ----------------------------
(***************************************************************************)
(* Sending transactions from one Ethereum account                          *)
(* (orchestrator/ethereum/committer/eth_committer.go with the nonce cache  *)
(* of util/noncecache.go).                                                 *)
(*                                                                         *)
(* The goroutines of an orchestrator share the account and the cache, the  *)
(* account can be used elsewhere, too, and the node knows better: it keeps *)
(* the nonce of the account and a pool of transactions that are not mined. *)
(* One step is one call of the node, or one operation on the cache.        *)
(*                                                                         *)
(* An operator that stands right before another with the same parameters   *)
(* and is used nowhere is a faulty variant of it: PROJECT.json names the   *)
(* property each one breaks.                                               *)
(***************************************************************************)
EXTENDS Naturals

CONSTANTS
  Sender,      \* goroutines that call SendTx, each one with its own input
  Elsewhere,   \* whoever else uses the account
  NoSender,
  MaxNonce,    \* bound: last nonce
  MaxFaults    \* bound: number of faults

ASSUME CommitterAssumption ==
  /\ Elsewhere \notin Sender \cup {NoSender}
  /\ NoSender \notin Sender
  /\ MaxNonce \in Nat
  /\ MaxFaults \in Nat

VARIABLES
  queues,        \* the node keeps transactions above a gap, instead of refusing them
  accountNonce,  \* the node's nonce of the account: transactions mined so far
  pool,          \* nonce -> who sent the transaction that waits under it, NoSender if none
  cache,         \* the nonce in the nonce cache
  guard,         \* who is inside of Serialize
  pc, nonce, resyncUsed,  \* locals of SendTx
  used,          \* history: nonces of transactions whose hash SendTx has returned, in
                 \* this process, and that the node has not forgotten
  skipped,       \* history: a nonce went by that no transaction has, see Skip
  known,         \* history: nonces this SendTx was told "known transaction" for
  faults

nodeVars == <<queues, accountNonce, pool>>
callVars == <<guard, pc, nonce, resyncUsed, known>>
vars == <<nodeVars, cache, callVars, used, skipped, faults>>

Nonce == 0..MaxNonce

Pending(n) == n \in Nonce /\ pool[n] # NoSender

\* Nothing waits for a transaction with a nonce below n.
NoGapBelow(n) == \A m \in accountNonce..(n - 1) : Pending(m)

\* PendingNonceAt: the first nonce from the account's on that no transaction has.
IsPendingNonce(n) ==
  /\ n \in accountNonce..(MaxNonce + 1)
  /\ NoGapBelow(n)
  /\ ~Pending(n)

Fault == faults < MaxFaults /\ faults' = faults + 1

Init ==
  /\ queues \in BOOLEAN
  /\ accountNonce = 0
  /\ pool = [n \in Nonce |-> NoSender]
  /\ cache = 0
  /\ guard = NoSender
  /\ pc = [s \in Sender |-> "idle"]
  /\ nonce = [s \in Sender |-> 0]
  /\ resyncUsed = [s \in Sender |-> FALSE]
  /\ used = {}
  /\ skipped = FALSE
  /\ known = {}
  /\ faults = 0

-----------------------------------------------------------------------------
(* The node and the account.                                               *)

Mine ==
  /\ Pending(accountNonce)
  /\ accountNonce' = accountNonce + 1
  /\ pool' = [pool EXCEPT ![accountNonce] = NoSender]
  /\ UNCHANGED <<queues, cache, callVars, used, skipped, faults>>

SendElsewhere ==
  /\ Fault
  /\ \E n \in Nonce : /\ IsPendingNonce(n)
                      /\ pool' = [pool EXCEPT ![n] = Elsewhere]
  /\ UNCHANGED <<queues, accountNonce, cache, callVars, used, skipped>>

\* The node forgets a transaction, say one that pays too little, and the ones
\* above it unless it keeps them.
Evict(n) ==
  LET gone == {m \in Nonce : m = n \/ (m > n /\ ~queues)}
  IN  /\ Pending(n)
      /\ Fault
      /\ pool' = [m \in Nonce |-> IF m \in gone THEN NoSender ELSE pool[m]]
      /\ used' = used \ gone
      /\ skipped' = TRUE
      /\ UNCHANGED <<queues, accountNonce, cache, callVars>>

-----------------------------------------------------------------------------
(* SendTx.                                                                 *)

\* The gas price is asked for and compared with the maximum, and gas is
\* estimated, without the lock.  A call that fails here changes nothing.
EstimateGas(s) ==
  /\ pc[s] = "idle"
  /\ pc' = [pc EXCEPT ![s] = "serialize"]
  /\ UNCHANGED <<nodeVars, cache, guard, nonce, resyncUsed, known, used, skipped, faults>>

SerializeUnguarded(s) ==
  /\ pc[s] = "serialize"
  /\ guard' = s
  /\ nonce' = [nonce EXCEPT ![s] = cache]
  /\ resyncUsed' = [resyncUsed EXCEPT ![s] = FALSE]
  /\ known' = {}
  /\ pc' = [pc EXCEPT ![s] = "send"]
  /\ UNCHANGED <<nodeVars, cache, used, skipped, faults>>

\* Inside of Serialize, the nonce is taken from the cache.
Serialize(s) ==
  /\ pc[s] = "serialize"
  /\ guard = NoSender
  /\ guard' = s
  /\ nonce' = [nonce EXCEPT ![s] = cache]
  /\ resyncUsed' = [resyncUsed EXCEPT ![s] = FALSE]
  /\ known' = {}
  /\ pc' = [pc EXCEPT ![s] = "send"]
  /\ UNCHANGED <<nodeVars, cache, used, skipped, faults>>

Return(s) ==
  /\ pc' = [pc EXCEPT ![s] = "idle"]
  /\ guard' = NoSender
  /\ nonce' = [nonce EXCEPT ![s] = 0]
  /\ resyncUsed' = [resyncUsed EXCEPT ![s] = FALSE]
  /\ known' = {}

\* Beyond the bound of the model the cache stays where it is.
Incr == cache' = IF cache <= MaxNonce THEN cache + 1 ELSE cache

\* Another transaction, not the very same one, waits under the nonce.
Taken(s) == Pending(nonce[s]) /\ nonce[s] \notin known

\* The node takes the transaction: the nonce is not used up, and free, or the
\* new transaction pays enough to replace the one that has it.
Accepts(s) ==
  /\ pc[s] = "send"
  /\ nonce[s] \in Nonce
  /\ nonce[s] >= accountNonce
  /\ queues \/ NoGapBelow(nonce[s])
  /\ Pending(nonce[s]) => Taken(s)
  /\ pool' = [pool EXCEPT ![nonce[s]] = s]
  /\ UNCHANGED <<queues, accountNonce>>

Sent(s) ==
  /\ Accepts(s)
  /\ Incr
  /\ used' = used \cup {nonce[s]}
  /\ Return(s)
  /\ UNCHANGED <<skipped, faults>>

\* The node takes the transaction, but its answer does not arrive in time.
SendTimesOut(s) ==
  /\ Accepts(s)
  /\ Fault
  /\ Return(s)
  /\ UNCHANGED <<cache, used, skipped>>

WrongNonceNotResynced(s) ==
  /\ pc[s] = "send"
  /\ \/ nonce[s] < accountNonce
     \/ ~queues /\ ~NoGapBelow(nonce[s])
  /\ UNCHANGED vars

\* "nonce too low" or "nonce too high": one resync is tried.
WrongNonce(s) ==
  /\ pc[s] = "send"
  /\ \/ nonce[s] < accountNonce
     \/ ~queues /\ ~NoGapBelow(nonce[s])
  /\ IF resyncUsed[s]
     THEN Return(s)
     ELSE /\ pc' = [pc EXCEPT ![s] = "resync"]
          /\ UNCHANGED <<guard, nonce, resyncUsed, known>>
  /\ UNCHANGED <<nodeVars, cache, used, skipped, faults>>

Retry(s, n) ==
  /\ nonce' = [nonce EXCEPT ![s] = n]
  /\ resyncUsed' = [resyncUsed EXCEPT ![s] = TRUE]
  /\ pc' = [pc EXCEPT ![s] = "send"]
  /\ UNCHANGED <<guard, known>>

Resync(s) ==
  /\ pc[s] = "resync"
  /\ \E n \in 0..(MaxNonce + 1) : /\ IsPendingNonce(n)
                                 /\ cache' = n
                                 /\ Retry(s, n)
  /\ UNCHANGED <<nodeVars, used, skipped, faults>>

\* PendingNonceAt fails: the cache keeps its nonce, and it is tried again.
ResyncFails(s) ==
  /\ pc[s] = "resync"
  /\ Fault
  /\ Retry(s, cache)
  /\ UNCHANGED <<nodeVars, cache, used, skipped>>

\* The node has this very transaction already.  The cache advances, but the
\* nonce that the loop sends next is still the same one: the assignment is to a
\* variable of the inner block.
KnownTransaction(s) ==
  /\ pc[s] = "send"
  /\ nonce[s] \in Nonce
  /\ pool[nonce[s]] = s
  /\ Incr
  /\ known' = known \cup {nonce[s]}
  /\ skipped' = (skipped \/ ~NoGapBelow(cache + 1))
  /\ UNCHANGED <<nodeVars, guard, pc, nonce, resyncUsed, used, faults>>

\* "invalid sender": the node takes nothing, the cache advances all the same.
InvalidSender(s) ==
  /\ pc[s] = "send"
  /\ Fault
  /\ Incr
  /\ skipped' = TRUE
  /\ Return(s)
  /\ UNCHANGED <<nodeVars, used>>

\* "VM Exception": the transaction is executed at once, reverts, and has used
\* its nonce.
VMException(s) ==
  /\ pc[s] = "send"
  /\ Fault
  /\ nonce[s] = accountNonce /\ ~Pending(accountNonce) /\ accountNonce <= MaxNonce
  /\ accountNonce' = accountNonce + 1
  /\ Incr
  /\ Return(s)
  /\ UNCHANGED <<queues, pool, used, skipped>>

OtherErrorAdvances(s) ==
  /\ pc[s] = "send"
  /\ \/ Taken(s) /\ UNCHANGED faults
     \/ nonce[s] > MaxNonce /\ UNCHANGED faults
     \/ Fault
  /\ Incr
  /\ Return(s)
  /\ UNCHANGED <<nodeVars, used, skipped>>

OtherErrorDecreases(s) ==
  /\ pc[s] = "send"
  /\ \/ Taken(s) /\ UNCHANGED faults
     \/ nonce[s] > MaxNonce /\ UNCHANGED faults
     \/ Fault
  /\ cache' = cache - 1
  /\ Return(s)
  /\ UNCHANGED <<nodeVars, used, skipped>>

\* Any other error: the transaction pays too little to replace one of the same
\* nonce, or the node does not answer at all.  Beyond the bound of the model
\* every call ends here.
OtherError(s) ==
  /\ pc[s] = "send"
  /\ \/ Taken(s) /\ UNCHANGED faults
     \/ nonce[s] > MaxNonce /\ UNCHANGED faults
     \/ Fault
  /\ Return(s)
  /\ UNCHANGED <<nodeVars, cache, used, skipped>>

\* The process is started again, with the node's nonce or, if that can not be
\* had, with 0.
Restart ==
  /\ Fault
  /\ \E n \in 0..(MaxNonce + 1) : (n = 0 \/ IsPendingNonce(n)) /\ cache' = n
  /\ guard' = NoSender
  /\ pc' = [s \in Sender |-> "idle"]
  /\ nonce' = [s \in Sender |-> 0]
  /\ resyncUsed' = [s \in Sender |-> FALSE]
  /\ known' = {}
  /\ used' = {}
  /\ skipped' = FALSE
  /\ UNCHANGED nodeVars

\* What a SendTx in progress does next, without a fault.
SendTx(s) ==
  \/ Sent(s) \/ WrongNonce(s) \/ Resync(s) \/ KnownTransaction(s) \/ OtherError(s)

Next ==
  \/ Mine \/ SendElsewhere \/ Restart
  \/ \E n \in Nonce : Evict(n)
  \/ \E s \in Sender :
       \/ EstimateGas(s) \/ Serialize(s)
       \/ SendTx(s)
       \/ SendTimesOut(s) \/ ResyncFails(s) \/ InvalidSender(s) \/ VMException(s)

Spec == Init /\ [][Next]_vars

\* The node mines what it can, a call in progress goes on, and a mutex that is
\* free again and again is eventually taken.  A call goes on when the node answers:
\* RPCTimeout bounds the sending, nothing bounds PendingNonceAt in a resync.
FairSpec ==
  /\ Spec
  /\ WF_vars(Mine)
  /\ \A s \in Sender : WF_vars(SendTx(s)) /\ SF_vars(Serialize(s))

-----------------------------------------------------------------------------
(* Properties.                                                             *)

\* The types of the node, of the cache and of the calls.
TypeOK ==
  /\ queues \in BOOLEAN
  /\ accountNonce \in 0..(MaxNonce + 1)
  /\ pool \in [Nonce -> Sender \cup {Elsewhere, NoSender}]
  /\ cache \in 0..(MaxNonce + 1)
  /\ guard \in Sender \cup {NoSender}
  /\ pc \in [Sender -> {"idle", "serialize", "send", "resync"}]
  /\ nonce \in [Sender -> 0..(MaxNonce + 1)]
  /\ resyncUsed \in [Sender -> BOOLEAN]
  /\ used \in SUBSET Nonce
  /\ known \in SUBSET Nonce
  /\ skipped \in BOOLEAN
  /\ faults \in Nat

\* No nonce is given out twice: whoever calls SendTx, whatever the account is
\* used for elsewhere and however often the cache is set back by a resync, a
\* transaction whose hash SendTx has returned is never replaced by a later one
\* of the process (Serialize around Get, send and Incr in SendTx).
NonceUsedOnce ==
  [][\A s \in Sender : Sent(s) \/ SendTimesOut(s) => nonce[s] \notin used]_vars

\* Between calls the cache is never ahead of the node, so that the next
\* transaction can be mined, unless the node has forgotten a transaction or a
\* branch of SendTx has advanced the cache without one.
NoGap == guard = NoSender /\ ~skipped => NoGapBelow(cache)

\* Every call returns: none spins in the loop of SendTx or waits for ever at the
\* mutex (resyncUsed; a "known transaction" is mined some time), unless the node
\* keeps a transaction that can not be mined, above a nonce that none has.  The
\* node is one that answers.
SendTxReturns ==
  \A s \in Sender :
    pc[s] # "idle" ~> (pc[s] = "idle" \/ \E n \in Nonce : Pending(n) /\ ~NoGapBelow(n))

\* eth_committer.go:202 says of a known transaction: "skip one nonce step, try
\* to send again".
KnownTransactionSkipsNonce ==
  \A s \in Sender : pc[s] = "send" => nonce[s] \notin known

=============================================================================
