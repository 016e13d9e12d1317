------------------------- MODULE EthCommitterProofs -------------------------
(***************************************************************************)
(* For any number of goroutines, any number of transactions and any number *)
(* of faults: no nonce is given out twice, and between calls the cache is  *)
(* not ahead of the node unless a nonce was skipped.                       *)
(***************************************************************************)
EXTENDS EthCommitter, TLAPS

Cached == 0..(MaxNonce + 1)

CommitterTypes ==
  /\ queues \in BOOLEAN
  /\ accountNonce \in Cached
  /\ pool \in [Nonce -> Sender \cup {Elsewhere, NoSender}]
  /\ cache \in Cached
  /\ guard \in Sender \cup {NoSender}
  /\ pc \in [Sender -> {"idle", "serialize", "send", "resync"}]
  /\ nonce \in [Sender -> Cached]
  /\ used \in SUBSET Nonce
  /\ known \in SUBSET Nonce
  /\ skipped \in BOOLEAN

InCall(s) == pc[s] \in {"send", "resync"}

\* Only the goroutine inside of Serialize is past it.
OneInCall == \A s \in Sender : InCall(s) => guard = s

\* The cache is past every nonce in use, and a call in progress holds one that is
\* past them, too, and that the cache has not fallen behind.
PastUsed ==
  /\ \A u \in used : u < cache
  /\ \A s \in Sender : InCall(s) => nonce[s] <= cache /\ \A u \in used : u < nonce[s]

\* A node that keeps nothing above a gap has every transaction in use, and all
\* below it, unless they are mined.
NothingAboveGap == ~queues => \A u \in used : \A m \in accountNonce..u : Pending(m)

\* The cache is set back only when the node is past the nonce of the call, or
\* keeps nothing above a gap.
ResyncIsSafe ==
  \A s \in Sender : pc[s] = "resync" => nonce[s] < accountNonce \/ ~queues

\* What the calls agree on, whatever they are doing.
NonceInv ==
  /\ CommitterTypes
  /\ OneInCall
  /\ PastUsed
  /\ NothingAboveGap
  /\ ResyncIsSafe

-----------------------------------------------------------------------------

\* The bound of the model is a number, and so are the nonces.
LEMMA Bound == MaxNonce \in Nat /\ Nonce \subseteq Nat /\ Cached \subseteq Nat
               /\ Nonce \subseteq Cached
BY CommitterAssumption DEF Nonce, Cached

\* No call of SendTx is the free mutex or the account's other user.
LEMMA NoSenderIsNoSender == NoSender \notin Sender /\ Elsewhere # NoSender
BY CommitterAssumption

\* The start satisfies the invariant.
LEMMA NonceInvInit == Init => NonceInv
<1> SUFFICES ASSUME Init PROVE NonceInv
  OBVIOUS
<1>1. 0 \in Cached
  BY CommitterAssumption DEF Cached
<1>2. CommitterTypes
  BY <1>1 DEF Init, CommitterTypes
<1>3. OneInCall /\ PastUsed /\ NothingAboveGap /\ ResyncIsSafe
  BY DEF Init, OneInCall, PastUsed, NothingAboveGap, ResyncIsSafe, InCall
<1> QED
  BY <1>2, <1>3 DEF NonceInv

\* A step of the node or of another user of the account leaves the process as it
\* is; what is in use may only shrink, and the account's nonce only grow.
LEMMA NodeStepKeeps ==
  ASSUME NonceInv,
         UNCHANGED <<cache, callVars>>,
         used' \subseteq used,
         accountNonce' \in Cached, accountNonce' >= accountNonce,
         queues' = queues,
         pool' \in [Nonce -> Sender \cup {Elsewhere, NoSender}],
         skipped' \in BOOLEAN,
         NothingAboveGap'
  PROVE  NonceInv'
<1>1. CommitterTypes'
  BY DEF NonceInv, CommitterTypes, callVars
<1>2. OneInCall' /\ PastUsed'
  BY DEF NonceInv, OneInCall, PastUsed, InCall, callVars
<1>3. ResyncIsSafe'
  <2>1. ASSUME NEW s \in Sender, pc'[s] = "resync"
        PROVE  nonce'[s] < accountNonce' \/ ~queues'
    <3>1. nonce'[s] = nonce[s] /\ pc[s] = "resync" /\ nonce[s] \in Nat /\ accountNonce \in Nat
          /\ accountNonce' \in Nat
      BY <2>1, Bound DEF callVars, NonceInv, CommitterTypes
    <3>2. nonce[s] < accountNonce \/ ~queues
      BY <3>1 DEF NonceInv, ResyncIsSafe
    <3> QED
      BY <3>1, <3>2
  <2> QED
    BY <2>1 DEF ResyncIsSafe
<1> QED
  BY <1>1, <1>2, <1>3 DEF NonceInv

\* A mined transaction stays used.
LEMMA MineKeeps ==
  ASSUME NonceInv, Mine
  PROVE  NonceInv'
<1>1. /\ accountNonce \in Nonce /\ accountNonce' = accountNonce + 1
      /\ pool' = [pool EXCEPT ![accountNonce] = NoSender]
      /\ UNCHANGED <<queues, cache, callVars, used, skipped>>
  BY DEF Mine, Pending
<1>2. accountNonce \in Nat /\ accountNonce' \in Cached /\ accountNonce' >= accountNonce
  BY <1>1, Bound DEF Nonce, Cached
<1>3. pool' \in [Nonce -> Sender \cup {Elsewhere, NoSender}] /\ skipped' \in BOOLEAN
  BY <1>1 DEF NonceInv, CommitterTypes
<1>4. NothingAboveGap'
  <2> SUFFICES ASSUME ~queues', NEW u \in used', NEW m \in accountNonce'..u
               PROVE  m \in Nonce /\ pool'[m] # NoSender
    BY DEF NothingAboveGap, Pending
  <2>1. u \in used /\ u \in Nat /\ ~queues
    BY <1>1, Bound DEF NonceInv, CommitterTypes
  <2>2. m \in accountNonce..u /\ m # accountNonce /\ m \in Nat
    BY <1>1, <1>2, <2>1
  <2>3. Pending(m)
    BY <2>1, <2>2 DEF NonceInv, NothingAboveGap
  <2> QED
    BY <2>2, <2>3, <1>1 DEF Pending, NonceInv, CommitterTypes
<1> QED
  BY <1>1, <1>2, <1>3, <1>4, NodeStepKeeps

\* Once a transaction waits under a nonce it keeps the ones above from a gap.
LEMMA MorePendingKeepsGaps ==
  ASSUME NonceInv, UNCHANGED <<queues, accountNonce>>, used' \subseteq used,
         \A m \in Nonce : pool[m] # NoSender => pool'[m] # NoSender
  PROVE  NothingAboveGap'
BY DEF NonceInv, NothingAboveGap, Pending

\* A transaction from elsewhere takes a nonce that is free.
LEMMA SendElsewhereKeeps ==
  ASSUME NonceInv, SendElsewhere
  PROVE  NonceInv'
<1>1. PICK n \in Nonce : pool' = [pool EXCEPT ![n] = Elsewhere]
  BY DEF SendElsewhere
<1>2. UNCHANGED <<queues, accountNonce, cache, callVars, used, skipped>>
  BY DEF SendElsewhere
<1>3. pool' \in [Nonce -> Sender \cup {Elsewhere, NoSender}]
      /\ accountNonce' \in Cached /\ accountNonce' >= accountNonce /\ skipped' \in BOOLEAN
  BY <1>1, <1>2, Bound DEF NonceInv, CommitterTypes
<1>4. \A m \in Nonce : pool[m] # NoSender => pool'[m] # NoSender
  BY <1>1, NoSenderIsNoSender DEF NonceInv, CommitterTypes
<1>5. NothingAboveGap'
  BY <1>2, <1>4, MorePendingKeepsGaps
<1> QED
  BY <1>2, <1>3, <1>5, NodeStepKeeps

\* An evicted transaction leaves a gap, and nothing of it on the chain.
LEMMA EvictKeeps ==
  ASSUME NonceInv, NEW n \in Nonce, Evict(n)
  PROVE  NonceInv'
<1> DEFINE gone == {m \in Nonce : m = n \/ (m > n /\ ~queues)}
<1>1. /\ pool' = [m \in Nonce |-> IF m \in gone THEN NoSender ELSE pool[m]]
      /\ used' = used \ gone
      /\ skipped' = TRUE
      /\ UNCHANGED <<queues, accountNonce, cache, callVars>>
  BY DEF Evict
<1>2. pool' \in [Nonce -> Sender \cup {Elsewhere, NoSender}]
      /\ accountNonce' \in Cached /\ accountNonce' >= accountNonce
  BY <1>1, Bound DEF NonceInv, CommitterTypes
<1>3. NothingAboveGap'
  <2> SUFFICES ASSUME ~queues', NEW u \in used', NEW m \in accountNonce'..u
               PROVE  m \in Nonce /\ pool'[m] # NoSender
    BY DEF NothingAboveGap, Pending
  <2>1. u \in used /\ u \in Nonce /\ ~queues /\ u \notin gone
    BY <1>1 DEF NonceInv, CommitterTypes
  <2>2. u \in Nat /\ n \in Nat /\ accountNonce \in Nat /\ u < n
    BY <2>1, Bound DEF NonceInv, CommitterTypes
  <2>3. m \in accountNonce..u /\ m < n /\ m \in Nat
    BY <2>2, <1>1
  <2>4. Pending(m)
    BY <2>1, <2>3 DEF NonceInv, NothingAboveGap
  <2>5. m \in Nonce /\ m \notin gone
    BY <2>2, <2>3, <2>4 DEF Pending
  <2> QED
    BY <2>4, <2>5, <1>1 DEF Pending
<1> QED
  BY <1>1, <1>2, <1>3, NodeStepKeeps

\* A call that returns leaves nobody between Serialize and the end of SendTx.
LEMMA ReturnKeeps ==
  ASSUME NonceInv, NEW s \in Sender, InCall(s), Return(s), queues' = queues,
         accountNonce' \in Cached,
         pool' \in [Nonce -> Sender \cup {Elsewhere, NoSender}],
         cache' \in Cached, used' \in SUBSET Nonce, skipped' \in BOOLEAN,
         \A u \in used' : u < cache',
         NothingAboveGap'
  PROVE  NonceInv'
<1>1. 0 \in Cached
  BY CommitterAssumption DEF Cached
<1>2. CommitterTypes'
  BY <1>1 DEF NonceInv, CommitterTypes, Return
<1>3. \A t \in Sender : ~InCall(t)'
  BY NoSenderIsNoSender DEF NonceInv, CommitterTypes, OneInCall, InCall, Return
<1>4. OneInCall' /\ PastUsed'
  BY <1>3 DEF OneInCall, PastUsed
<1>5. ResyncIsSafe'
  BY <1>3 DEF ResyncIsSafe, InCall
<1> QED
  BY <1>2, <1>4, <1>5 DEF NonceInv

\* Incr moves the cache by one nonce.
LEMMA IncrAdvances ==
  ASSUME NonceInv, Incr
  PROVE  /\ cache' \in Cached
         /\ cache' >= cache
         /\ \A n \in Nonce : n <= cache => n < cache'
<1>1. cache \in 0..(MaxNonce + 1) /\ MaxNonce \in Nat
  BY Bound DEF NonceInv, CommitterTypes, Cached
<1> QED
  BY <1>1 DEF Incr, Cached, Nonce

\* A call that returns with an error leaves what is in use, and what waits.
LEMMA ErrorKeeps ==
  ASSUME NonceInv, NEW s \in Sender, InCall(s), Return(s),
         UNCHANGED <<nodeVars, used>>,
         cache' \in Cached, cache' >= cache, skipped' \in BOOLEAN
  PROVE  NonceInv'
<1>1. queues' = queues /\ accountNonce' = accountNonce /\ pool' = pool /\ used' = used
  BY DEF nodeVars
<1>2. used' \in SUBSET Nonce /\ accountNonce' \in Cached
      /\ pool' \in [Nonce -> Sender \cup {Elsewhere, NoSender}]
  BY <1>1 DEF NonceInv, CommitterTypes
<1>3. \A u \in used' : u < cache'
  <2> SUFFICES ASSUME NEW u \in used' PROVE u < cache'
    OBVIOUS
  <2>1. u \in Nat /\ cache \in Nat /\ cache' \in Nat
    BY <1>2, Bound DEF NonceInv, CommitterTypes
  <2>2. u < cache
    BY <1>1 DEF NonceInv, PastUsed
  <2> QED
    BY <2>1, <2>2
<1>4. NothingAboveGap'
  BY <1>1 DEF NonceInv, NothingAboveGap, Pending
<1> QED
  BY <1>1, <1>2, <1>3, <1>4, ReturnKeeps

\* The gas estimate touches no nonce.
LEMMA EstimateGasKeeps ==
  ASSUME NonceInv, NEW s \in Sender, EstimateGas(s)
  PROVE  NonceInv'
<1>1. /\ pc' = [pc EXCEPT ![s] = "serialize"]
      /\ UNCHANGED <<queues, accountNonce, pool, cache, guard, nonce, known, used, skipped>>
  BY DEF EstimateGas, nodeVars
<1>2. CommitterTypes'
  BY <1>1 DEF NonceInv, CommitterTypes
<1>3. OneInCall' /\ PastUsed'
  BY <1>1 DEF NonceInv, CommitterTypes, OneInCall, PastUsed, InCall
<1>4. NothingAboveGap'
  BY <1>1 DEF NonceInv, NothingAboveGap, Pending
<1>5. ResyncIsSafe'
  BY <1>1 DEF NonceInv, CommitterTypes, ResyncIsSafe
<1> QED
  BY <1>2, <1>3, <1>4, <1>5 DEF NonceInv

\* The mutex goes to one call, which reads the cache.
LEMMA SerializeKeeps ==
  ASSUME NonceInv, NEW s \in Sender, Serialize(s)
  PROVE  NonceInv'
<1>1. /\ guard = NoSender /\ guard' = s /\ known' = {}
      /\ nonce' = [nonce EXCEPT ![s] = cache]
      /\ pc' = [pc EXCEPT ![s] = "send"]
      /\ UNCHANGED <<queues, accountNonce, pool, cache, used, skipped>>
  BY DEF Serialize, nodeVars
<1>2. CommitterTypes'
  BY <1>1 DEF NonceInv, CommitterTypes
<1>3. \A t \in Sender : ~InCall(t)
  BY <1>1, NoSenderIsNoSender DEF NonceInv, OneInCall
<1>4. \A t \in Sender : InCall(t)' => t = s
  BY <1>1, <1>3 DEF NonceInv, CommitterTypes, InCall
<1>5. OneInCall'
  BY <1>1, <1>4 DEF OneInCall
<1>6. cache \in Nat /\ nonce'[s] = cache
  BY <1>1, Bound DEF NonceInv, CommitterTypes
<1>7. PastUsed'
  BY <1>1, <1>4, <1>6 DEF NonceInv, PastUsed
<1>8. NothingAboveGap'
  BY <1>1 DEF NonceInv, NothingAboveGap, Pending
<1>9. ResyncIsSafe'
  BY <1>1, <1>4 DEF NonceInv, CommitterTypes, ResyncIsSafe, InCall
<1> QED
  BY <1>2, <1>5, <1>7, <1>8, <1>9 DEF NonceInv

\* What the node takes, and nothing else, waits under the nonce of the call.
LEMMA AcceptsFacts ==
  ASSUME NonceInv, NEW s \in Sender, Accepts(s)
  PROVE  /\ InCall(s) /\ nonce[s] \in Nonce
         /\ queues' = queues /\ accountNonce' = accountNonce
         /\ pool' \in [Nonce -> Sender \cup {Elsewhere, NoSender}]
         /\ pool'[nonce[s]] = s
         /\ \A m \in Nonce : pool[m] # NoSender => pool'[m] # NoSender
         /\ ~queues => \A m \in accountNonce..nonce[s] : m \in Nonce /\ pool'[m] # NoSender
<1>1. InCall(s) /\ nonce[s] \in Nonce /\ queues' = queues /\ accountNonce' = accountNonce
      /\ pool' = [pool EXCEPT ![nonce[s]] = s]
  BY DEF Accepts, InCall
<1>2. pool' \in [Nonce -> Sender \cup {Elsewhere, NoSender}] /\ pool'[nonce[s]] = s
      /\ \A m \in Nonce : pool[m] # NoSender => pool'[m] # NoSender
  BY <1>1, NoSenderIsNoSender DEF NonceInv, CommitterTypes
<1>3. ASSUME ~queues, NEW m \in accountNonce..nonce[s]
      PROVE  m \in Nonce /\ pool'[m] # NoSender
  <2>1. nonce[s] \in Nat /\ accountNonce \in Nat
    BY <1>1, Bound DEF NonceInv, CommitterTypes
  <2>2. CASE m = nonce[s]
    BY <2>2, <1>1, <1>2, NoSenderIsNoSender
  <2>3. CASE m # nonce[s]
    <3>1. m \in accountNonce..(nonce[s] - 1)
      BY <2>1, <2>3
    <3>2. Pending(m)
      BY <1>3, <3>1 DEF Accepts, NoGapBelow
    <3> QED
      BY <3>2, <1>2 DEF Pending
  <2> QED
    BY <2>2, <2>3
<1> QED
  BY <1>1, <1>2, <1>3

\* A sent transaction uses the nonce of the cache, which moves on.
LEMMA SentKeeps ==
  ASSUME NonceInv, NEW s \in Sender, Sent(s)
  PROVE  NonceInv'
<1>1. Accepts(s) /\ Incr /\ Return(s) /\ used' = used \cup {nonce[s]} /\ skipped' = skipped
  BY DEF Sent
<1>2. /\ InCall(s) /\ nonce[s] \in Nonce
      /\ queues' = queues /\ accountNonce' = accountNonce
      /\ pool' \in [Nonce -> Sender \cup {Elsewhere, NoSender}]
  BY <1>1, AcceptsFacts
<1>3. cache' \in Cached /\ \A n \in Nonce : n <= cache => n < cache'
  BY <1>1, IncrAdvances
<1>4. used' \in SUBSET Nonce /\ skipped' \in BOOLEAN /\ accountNonce' \in Cached
  BY <1>1, <1>2 DEF NonceInv, CommitterTypes
<1>5. \A u \in used' : u < cache'
  <2> SUFFICES ASSUME NEW u \in used' PROVE u < cache'
    OBVIOUS
  <2>1. u \in Nonce /\ u \in Nat /\ cache \in Nat
    BY <1>4, Bound DEF NonceInv, CommitterTypes
  <2>2. CASE u \in used
    BY <2>1, <2>2, <1>3 DEF NonceInv, PastUsed
  <2>3. CASE u = nonce[s]
    BY <2>1, <2>3, <1>2, <1>3 DEF NonceInv, PastUsed
  <2> QED
    BY <1>1, <2>2, <2>3
<1>6. NothingAboveGap'
  <2> SUFFICES ASSUME ~queues', NEW u \in used', NEW m \in accountNonce'..u
               PROVE  m \in Nonce /\ pool'[m] # NoSender
    BY DEF NothingAboveGap, Pending
  <2>1. CASE u \in used
    <3>1. Pending(m)
      BY <1>2, <2>1 DEF NonceInv, NothingAboveGap
    <3> QED
      BY <3>1, <1>1, AcceptsFacts DEF Pending
  <2>2. CASE u = nonce[s]
    BY <2>2, <1>1, <1>2, AcceptsFacts
  <2> QED
    BY <1>1, <2>1, <2>2
<1> QED
  BY <1>1, <1>2, <1>3, <1>4, <1>5, <1>6, ReturnKeeps

\* A lost answer leaves the cache on a nonce that is used.
LEMMA SendTimesOutKeeps ==
  ASSUME NonceInv, NEW s \in Sender, SendTimesOut(s)
  PROVE  NonceInv'
<1>1. Accepts(s) /\ Return(s) /\ cache' = cache /\ used' = used /\ skipped' = skipped
  BY DEF SendTimesOut
<1>2. /\ InCall(s) /\ queues' = queues /\ accountNonce' = accountNonce
      /\ pool' \in [Nonce -> Sender \cup {Elsewhere, NoSender}]
      /\ \A m \in Nonce : pool[m] # NoSender => pool'[m] # NoSender
  BY <1>1, AcceptsFacts
<1>3. /\ cache' \in Cached /\ used' \in SUBSET Nonce /\ skipped' \in BOOLEAN
      /\ accountNonce' \in Cached
  BY <1>1, <1>2 DEF NonceInv, CommitterTypes
<1>4. \A u \in used' : u < cache'
  BY <1>1 DEF NonceInv, PastUsed
<1>5. NothingAboveGap'
  BY <1>1, <1>2, MorePendingKeepsGaps
<1> QED
  BY <1>1, <1>2, <1>3, <1>4, <1>5, ReturnKeeps

\* A step inside of the loop of SendTx that leaves the node as it is.
LEMMA StayInCallKeeps ==
  ASSUME NonceInv, NEW s \in Sender, InCall(s),
         UNCHANGED <<nodeVars, guard, used>>,
         NEW step \in {"send", "resync"}, pc' = [pc EXCEPT ![s] = step],
         NEW n \in Cached, nonce' = [nonce EXCEPT ![s] = n],
         cache' \in Cached, n <= cache', \A u \in used : u < n,
         step = "resync" => n < accountNonce \/ ~queues,
         known' \in SUBSET Nonce, skipped' \in BOOLEAN
  PROVE  NonceInv'
<1>1. UNCHANGED <<queues, accountNonce, pool, guard, used>>
  BY DEF nodeVars
<1>2. CommitterTypes'
  BY <1>1 DEF NonceInv, CommitterTypes
<1>3. guard = s /\ \A t \in Sender : InCall(t)' => t = s
  BY <1>1 DEF NonceInv, CommitterTypes, OneInCall, InCall
<1>4. OneInCall'
  BY <1>1, <1>3 DEF OneInCall
<1>5. nonce'[s] = n /\ pc'[s] = step
  BY DEF NonceInv, CommitterTypes
<1>6. PastUsed'
  <2>1. \A u \in used : u \in Nat
    BY Bound DEF NonceInv, CommitterTypes
  <2>2. n \in Nat /\ cache' \in Nat
    BY Bound
  <2>3. \A u \in used' : u < cache'
    BY <1>1, <2>1, <2>2
  <2> QED
    BY <1>1, <1>3, <1>5, <2>3 DEF PastUsed
<1>7. NothingAboveGap'
  BY <1>1 DEF NonceInv, NothingAboveGap, Pending
<1>8. ResyncIsSafe'
  BY <1>1, <1>3, <1>5 DEF ResyncIsSafe, InCall
<1> QED
  BY <1>2, <1>4, <1>6, <1>7, <1>8 DEF NonceInv

\* A rejected nonce is resynced once.
LEMMA WrongNonceKeeps ==
  ASSUME NonceInv, NEW s \in Sender, WrongNonce(s)
  PROVE  NonceInv'
<1>1. /\ InCall(s) /\ UNCHANGED <<nodeVars, used>> /\ cache' = cache /\ skipped' = skipped
      /\ nonce[s] < accountNonce \/ ~queues
  BY DEF WrongNonce, InCall
<1>2. cache' \in Cached /\ cache' >= cache /\ skipped' \in BOOLEAN
  BY <1>1, Bound DEF NonceInv, CommitterTypes
<1>3. CASE resyncUsed[s]
  BY <1>1, <1>2, <1>3, ErrorKeeps DEF WrongNonce
<1>4. CASE ~resyncUsed[s]
  <2>1. pc' = [pc EXCEPT ![s] = "resync"] /\ UNCHANGED <<guard, nonce, known>>
    BY <1>4 DEF WrongNonce
  <2>2. nonce[s] \in Cached /\ nonce' = [nonce EXCEPT ![s] = nonce[s]] /\ known' \in SUBSET Nonce
    BY <2>1 DEF NonceInv, CommitterTypes
  <2>3. nonce[s] <= cache' /\ \A u \in used : u < nonce[s]
    BY <1>1 DEF NonceInv, PastUsed
  <2> QED
    BY <1>1, <1>2, <2>1, <2>2, <2>3, StayInCallKeeps
<1> QED
  BY <1>3, <1>4

\* A resync takes the account's next nonce.
LEMMA ResyncKeeps ==
  ASSUME NonceInv, NEW s \in Sender, Resync(s)
  PROVE  NonceInv'
<1>1. PICK n \in 0..(MaxNonce + 1) : IsPendingNonce(n) /\ cache' = n /\ Retry(s, n)
  BY DEF Resync
<1>2. /\ InCall(s) /\ UNCHANGED <<nodeVars, used, skipped>>
      /\ nonce[s] < accountNonce \/ ~queues
  BY DEF Resync, InCall, NonceInv, ResyncIsSafe
<1>3. n \in Cached /\ n \in Nat /\ accountNonce \in Nat /\ n >= accountNonce
  BY <1>1, Bound DEF Cached, IsPendingNonce, NonceInv, CommitterTypes
<1>4. ASSUME NEW u \in used PROVE u < n
  <2>1. u \in Nat /\ nonce[s] \in Nat
    BY Bound DEF NonceInv, CommitterTypes
  <2>2. u < nonce[s]
    BY <1>2 DEF NonceInv, PastUsed
  <2>3. CASE nonce[s] < accountNonce
    BY <1>3, <2>1, <2>2, <2>3
  <2>4. CASE ~queues
    <3> SUFFICES ASSUME u >= n PROVE FALSE
      BY <2>1, <1>3
    <3>1. n \in accountNonce..u
      BY <2>1, <1>3
    <3>2. Pending(n)
      BY <2>4, <3>1 DEF NonceInv, NothingAboveGap
    <3> QED
      BY <3>2, <1>1 DEF IsPendingNonce
  <2> QED
    BY <1>2, <2>3, <2>4
<1>5. /\ pc' = [pc EXCEPT ![s] = "send"] /\ nonce' = [nonce EXCEPT ![s] = n]
      /\ UNCHANGED <<guard, known>>
  BY <1>1 DEF Retry
<1>6. cache' \in Cached /\ n <= cache' /\ known' \in SUBSET Nonce /\ skipped' \in BOOLEAN
  BY <1>1, <1>2, <1>3, <1>5 DEF NonceInv, CommitterTypes
<1>7. UNCHANGED <<nodeVars, guard, used>>
  BY <1>2, <1>5
<1> QED
  BY <1>2, <1>3, <1>4, <1>5, <1>6, <1>7, StayInCallKeeps

\* A failed resync changes no nonce.
LEMMA ResyncFailsKeeps ==
  ASSUME NonceInv, NEW s \in Sender, ResyncFails(s)
  PROVE  NonceInv'
<1>1. /\ InCall(s) /\ cache' = cache /\ skipped' = skipped
      /\ UNCHANGED <<nodeVars, guard, used>> /\ known' = known
      /\ pc' = [pc EXCEPT ![s] = "send"] /\ nonce' = [nonce EXCEPT ![s] = cache]
  BY DEF ResyncFails, Retry, InCall
<1>2. /\ cache \in Cached /\ cache <= cache' /\ cache' \in Cached
      /\ known' \in SUBSET Nonce /\ skipped' \in BOOLEAN
  BY <1>1, Bound DEF NonceInv, CommitterTypes
<1>3. \A u \in used : u < cache
  BY DEF NonceInv, PastUsed
<1> QED
  BY <1>1, <1>2, <1>3, StayInCallKeeps

\* A known transaction moves the cache, not the nonce of the call.
LEMMA KnownTransactionKeeps ==
  ASSUME NonceInv, NEW s \in Sender, KnownTransaction(s)
  PROVE  NonceInv'
<1>1. /\ InCall(s) /\ pc[s] = "send" /\ nonce[s] \in Nonce /\ Incr
      /\ UNCHANGED <<nodeVars, guard, pc, nonce, used>>
      /\ known' = known \cup {nonce[s]}
      /\ skipped' = (skipped \/ ~NoGapBelow(cache + 1))
  BY DEF KnownTransaction, InCall
<1>2. cache' \in Cached /\ cache' >= cache
  BY <1>1, IncrAdvances
<1>3. nonce[s] \in Cached /\ cache \in Nat /\ nonce[s] \in Nat /\ cache' \in Nat
  BY <1>2, Bound DEF NonceInv, CommitterTypes
<1>4. nonce[s] <= cache' /\ \A u \in used : u < nonce[s]
  BY <1>1, <1>2, <1>3 DEF NonceInv, PastUsed
<1>5. known' \in SUBSET Nonce /\ pc' = [pc EXCEPT ![s] = "send"]
      /\ nonce' = [nonce EXCEPT ![s] = nonce[s]]
  BY <1>1 DEF NonceInv, CommitterTypes
<1>6. skipped' \in BOOLEAN
  BY <1>1
<1> QED
  BY <1>1, <1>2, <1>3, <1>4, <1>5, <1>6, StayInCallKeeps

\* An invalid sender moves the cache and ends the call.
LEMMA InvalidSenderKeeps ==
  ASSUME NonceInv, NEW s \in Sender, InvalidSender(s)
  PROVE  NonceInv'
<1>1. cache' \in Cached /\ cache' >= cache
  BY IncrAdvances DEF InvalidSender
<1> QED
  BY <1>1, ErrorKeeps DEF InvalidSender, InCall

\* Any other error ends the call and leaves the cache.
LEMMA OtherErrorKeeps ==
  ASSUME NonceInv, NEW s \in Sender, OtherError(s)
  PROVE  NonceInv'
<1>1. InCall(s) /\ Return(s) /\ UNCHANGED <<nodeVars, used>> /\ cache' = cache /\ skipped' = skipped
  BY DEF OtherError, InCall
<1>2. cache' \in Cached /\ cache' >= cache /\ skipped' \in BOOLEAN
  BY <1>1, Bound DEF NonceInv, CommitterTypes
<1> QED
  BY <1>1, <1>2, ErrorKeeps

\* A reverted call is on the chain, and the cache moves on.
LEMMA VMExceptionKeeps ==
  ASSUME NonceInv, NEW s \in Sender, VMException(s)
  PROVE  NonceInv'
<1>1. /\ InCall(s) /\ Return(s) /\ Incr /\ accountNonce' = accountNonce + 1
      /\ accountNonce <= MaxNonce
      /\ queues' = queues /\ pool' = pool /\ used' = used /\ skipped' = skipped
  BY DEF VMException, InCall
<1>2. cache' \in Cached /\ \A n \in Nonce : n <= cache => n < cache'
  BY <1>1, IncrAdvances
<1>3. accountNonce \in Nat /\ accountNonce' \in Cached
  BY <1>1, Bound DEF NonceInv, CommitterTypes, Cached
<1>4. used' \in SUBSET Nonce /\ pool' \in [Nonce -> Sender \cup {Elsewhere, NoSender}]
      /\ skipped' \in BOOLEAN
  BY <1>1 DEF NonceInv, CommitterTypes
<1>5. \A u \in used' : u < cache'
  <2> SUFFICES ASSUME NEW u \in used' PROVE u < cache'
    OBVIOUS
  <2>1. u \in Nonce /\ u \in Nat /\ cache \in Nat
    BY <1>4, Bound DEF NonceInv, CommitterTypes
  <2> QED
    BY <2>1, <1>1, <1>2 DEF NonceInv, PastUsed
<1>6. NothingAboveGap'
  <2> SUFFICES ASSUME ~queues', NEW u \in used', NEW m \in accountNonce'..u
               PROVE  m \in Nonce /\ pool'[m] # NoSender
    BY DEF NothingAboveGap, Pending
  <2>1. u \in used /\ u \in Nat
    BY <1>1, Bound DEF NonceInv, CommitterTypes
  <2>2. m \in accountNonce..u
    BY <1>1, <1>3, <2>1
  <2> QED
    BY <1>1, <2>1, <2>2 DEF NonceInv, NothingAboveGap, Pending
<1> QED
  BY <1>1, <1>2, <1>3, <1>4, <1>5, <1>6, ReturnKeeps

\* A restart forgets every call, and takes the cache from the node.
LEMMA RestartKeeps ==
  ASSUME NonceInv, Restart
  PROVE  NonceInv'
<1>1. /\ cache' \in Cached /\ guard' = NoSender /\ pc' = [s \in Sender |-> "idle"]
      /\ nonce' = [s \in Sender |-> 0] /\ known' = {} /\ used' = {} /\ skipped' = FALSE
      /\ UNCHANGED <<queues, accountNonce, pool>>
  BY DEF Restart, nodeVars, Cached
<1>2. 0 \in Cached
  BY CommitterAssumption DEF Cached
<1>3. CommitterTypes'
  BY <1>1, <1>2 DEF NonceInv, CommitterTypes
<1>4. OneInCall' /\ PastUsed' /\ NothingAboveGap' /\ ResyncIsSafe'
  BY <1>1 DEF OneInCall, PastUsed, NothingAboveGap, ResyncIsSafe, InCall
<1> QED
  BY <1>3, <1>4 DEF NonceInv

\* Every step keeps the invariant.
LEMMA NonceInvStep == NonceInv /\ [Next]_vars => NonceInv'
<1> SUFFICES ASSUME NonceInv, [Next]_vars PROVE NonceInv'
  OBVIOUS
<1>1. CASE UNCHANGED vars
  <2>1. UNCHANGED <<queues, accountNonce, pool, cache, guard, pc, nonce, known, used, skipped>>
    BY <1>1 DEF vars, nodeVars, callVars
  <2> QED
    BY <2>1 DEF NonceInv, CommitterTypes, OneInCall, PastUsed, NothingAboveGap, ResyncIsSafe,
                InCall, Pending
<1>2. ASSUME NEW s \in Sender,
             EstimateGas(s) \/ Serialize(s) \/ SendTx(s)
               \/ SendTimesOut(s) \/ ResyncFails(s) \/ InvalidSender(s) \/ VMException(s)
      PROVE  NonceInv'
  <2>1. CASE SendTx(s)
    BY <2>1, SentKeeps, WrongNonceKeeps, ResyncKeeps, KnownTransactionKeeps, OtherErrorKeeps,
       Zenon DEF SendTx
  <2> QED
    BY <1>2, <2>1, EstimateGasKeeps, SerializeKeeps, SendTimesOutKeeps, ResyncFailsKeeps,
       InvalidSenderKeeps, VMExceptionKeeps, Zenon
<1> QED
  BY <1>1, <1>2, MineKeeps, SendElsewhereKeeps, RestartKeeps, EvictKeeps, Zenon DEF Next

\* What every call relies on holds at all times, however the calls interleave
\* and whatever the node answers.
THEOREM NonceInvariant == Spec => []NonceInv
BY NonceInvInit, NonceInvStep, PTL DEF Spec

\* No nonce is given out twice: a transaction whose hash SendTx has returned is
\* never replaced by a later one of the process, for any number of goroutines,
\* nonces and faults (Serialize around Get, send, resync and Incr in SendTx).
THEOREM NonceOnce == Spec => NonceUsedOnce
<1>1. ASSUME NonceInv, NEW s \in Sender, Sent(s) \/ SendTimesOut(s)
      PROVE  nonce[s] \notin used
  <2>1. InCall(s) /\ nonce[s] \in Nat
    BY <1>1, Bound DEF Sent, SendTimesOut, Accepts, InCall
  <2> QED
    BY <1>1, <2>1 DEF NonceInv, PastUsed
<1>2. NonceInv => [\A s \in Sender : Sent(s) \/ SendTimesOut(s) => nonce[s] \notin used]_vars
  BY <1>1
<1> QED
  BY <1>2, NonceInvariant, PTL DEF NonceUsedOnce

-----------------------------------------------------------------------------
(* The cache is not ahead of the node.                                     *)

\* The node has what it called known.
KnownIsThere == \A k \in known : k < accountNonce \/ Pending(k)

\* Within a call the cache runs ahead of its nonce by known transactions only.
AheadByKnown ==
  \A s \in Sender : pc[s] = "send" /\ nonce[s] < cache => nonce[s] \in known

\* NoGap, with what makes it inductive.
GapInv == ~skipped => NoGapBelow(cache) /\ KnownIsThere /\ AheadByKnown

\* Where the node has at least the transactions it had, there are no new gaps.
LEMMA NoNewGap ==
  ASSUME NonceInv, UNCHANGED <<accountNonce, cache>>, NoGapBelow(cache),
         \A m \in Nonce : pool[m] # NoSender => pool'[m] # NoSender
  PROVE  NoGapBelow(cache)'
BY DEF NoGapBelow, Pending

\* The start has no gap.
LEMMA GapInvInit == Init => GapInv
<1> SUFFICES ASSUME Init PROVE NoGapBelow(cache) /\ KnownIsThere /\ AheadByKnown
  BY DEF GapInv
<1> QED
  BY DEF Init, NoGapBelow, KnownIsThere, AheadByKnown

\* A mined transaction opens no gap.
LEMMA MineKeepsGapInv ==
  ASSUME NonceInv, GapInv, Mine
  PROVE  GapInv'
<1> SUFFICES ASSUME ~skipped' PROVE NoGapBelow(cache)' /\ KnownIsThere' /\ AheadByKnown'
  BY DEF GapInv
<1>1. /\ accountNonce' = accountNonce + 1 /\ pool' = [pool EXCEPT ![accountNonce] = NoSender]
      /\ UNCHANGED <<cache, guard, pc, nonce, known, skipped>>
  BY DEF Mine, callVars
<1>2. accountNonce \in Nat /\ cache \in Nat /\ pool \in [Nonce -> Sender \cup {Elsewhere, NoSender}]
      /\ known \subseteq Nat
  BY Bound DEF NonceInv, CommitterTypes
<1>3. NoGapBelow(cache) /\ KnownIsThere /\ AheadByKnown
  BY <1>1 DEF GapInv
<1>4. NoGapBelow(cache)'
  <2> SUFFICES ASSUME NEW m \in accountNonce'..(cache' - 1)
               PROVE  m \in Nonce /\ pool'[m] # NoSender
    BY DEF NoGapBelow, Pending
  <2>1. m \in accountNonce..(cache - 1) /\ m # accountNonce
    BY <1>1, <1>2
  <2> QED
    BY <1>1, <1>2, <1>3, <2>1 DEF NoGapBelow, Pending
<1>5. KnownIsThere'
  <2> SUFFICES ASSUME NEW k \in known'
               PROVE  k < accountNonce' \/ (k \in Nonce /\ pool'[k] # NoSender)
    BY DEF KnownIsThere, Pending
  <2>1. k \in known /\ k \in Nat
    BY <1>1, <1>2
  <2>2. CASE k < accountNonce
    BY <1>1, <1>2, <2>1, <2>2
  <2>3. CASE k = accountNonce
    BY <1>1, <1>2, <2>1, <2>3
  <2>4. CASE Pending(k) /\ k # accountNonce
    BY <1>1, <1>2, <2>4 DEF Pending
  <2> QED
    BY <1>3, <2>1, <2>2, <2>3, <2>4 DEF KnownIsThere
<1>6. AheadByKnown'
  BY <1>1, <1>3 DEF AheadByKnown
<1> QED
  BY <1>4, <1>5, <1>6

\* Neither does a transaction from elsewhere.
LEMMA SendElsewhereKeepsGapInv ==
  ASSUME NonceInv, GapInv, SendElsewhere
  PROVE  GapInv'
<1>1. PICK n \in Nonce : pool' = [pool EXCEPT ![n] = Elsewhere]
  BY DEF SendElsewhere
<1>2. UNCHANGED <<accountNonce, cache, pc, nonce, known, skipped>>
  BY DEF SendElsewhere, callVars
<1>3. \A m \in Nonce : pool[m] # NoSender => pool'[m] # NoSender
  BY <1>1, NoSenderIsNoSender DEF NonceInv, CommitterTypes
<1>4. ~skipped => NoGapBelow(cache)'
  BY <1>2, <1>3, NoNewGap DEF GapInv
<1>5. KnownIsThere => KnownIsThere'
  BY <1>2, <1>3 DEF KnownIsThere, Pending
<1>6. AheadByKnown => AheadByKnown'
  BY <1>2 DEF AheadByKnown
<1> QED
  BY <1>2, <1>4, <1>5, <1>6 DEF GapInv

\* Once a call has returned, only the cache matters.
LEMMA ReturnKeepsGapInv ==
  ASSUME NonceInv, NEW s \in Sender, InCall(s), Return(s),
         ~skipped' => NoGapBelow(cache)'
  PROVE  GapInv'
<1>1. known' = {}
  BY DEF Return
<1>2. \A t \in Sender : pc'[t] # "send"
  BY DEF Return, NonceInv, CommitterTypes, OneInCall, InCall
<1> QED
  BY <1>1, <1>2 DEF GapInv, KnownIsThere, AheadByKnown

\* Neither does an error that leaves the cache.
LEMMA ErrorKeepsGapInv ==
  ASSUME NonceInv, GapInv, NEW s \in Sender, InCall(s), Return(s),
         UNCHANGED <<nodeVars, cache, skipped>>
  PROVE  GapInv'
<1>1. ~skipped' => NoGapBelow(cache)'
  BY DEF nodeVars, GapInv, NoGapBelow, Pending
<1> QED
  BY <1>1, ReturnKeepsGapInv

\* A sent transaction fills the nonce the cache leaves.
LEMMA SentKeepsGapInv ==
  ASSUME NonceInv, GapInv, NEW s \in Sender, Sent(s)
  PROVE  GapInv'
<1>1. Accepts(s) /\ Incr /\ Return(s) /\ skipped' = skipped /\ pc[s] = "send"
  BY DEF Sent, Accepts
<1>2. /\ InCall(s) /\ nonce[s] \in Nonce /\ accountNonce' = accountNonce
      /\ pool'[nonce[s]] = s
      /\ \A m \in Nonce : pool[m] # NoSender => pool'[m] # NoSender
  BY <1>1, AcceptsFacts
<1>3. nonce[s] \in Nat /\ accountNonce \in Nat /\ cache \in Nat /\ nonce[s] <= cache
      /\ nonce[s] >= accountNonce
  BY <1>1, <1>2, Bound DEF NonceInv, CommitterTypes, PastUsed, Accepts
<1>4. ASSUME ~skipped' PROVE NoGapBelow(cache)'
  <2>1. NoGapBelow(cache) /\ KnownIsThere /\ AheadByKnown
    BY <1>1, <1>4 DEF GapInv
  <2>2. nonce[s] = cache
    <3>1. nonce[s] \notin known
      BY <1>1, <1>3, <2>1 DEF Accepts, Taken, KnownIsThere
    <3> QED
      BY <1>1, <1>3, <2>1, <3>1 DEF AheadByKnown
  <2>3. cache' = cache + 1
    BY <2>2, <1>1, <1>2, CommitterAssumption DEF Incr, Nonce
  <2> SUFFICES ASSUME NEW m \in accountNonce..cache
               PROVE  m \in Nonce /\ pool'[m] # NoSender
    BY <1>2, <1>3, <2>3 DEF NoGapBelow, Pending
  <2>4. CASE m = cache
    BY <2>2, <2>4, <1>2, NoSenderIsNoSender
  <2>5. CASE m # cache
    <3>1. m \in accountNonce..(cache - 1)
      BY <1>3, <2>5
    <3> QED
      BY <1>2, <2>1, <3>1 DEF NoGapBelow, Pending
  <2> QED
    BY <2>4, <2>5
<1> QED
  BY <1>1, <1>2, <1>4, ReturnKeepsGapInv

\* So does one whose answer is lost.
LEMMA SendTimesOutKeepsGapInv ==
  ASSUME NonceInv, GapInv, NEW s \in Sender, SendTimesOut(s)
  PROVE  GapInv'
<1>1. Accepts(s) /\ Return(s) /\ cache' = cache /\ skipped' = skipped
  BY DEF SendTimesOut
<1>2. /\ InCall(s) /\ accountNonce' = accountNonce
      /\ \A m \in Nonce : pool[m] # NoSender => pool'[m] # NoSender
  BY <1>1, AcceptsFacts
<1>3. ~skipped' => NoGapBelow(cache)'
  BY <1>1, <1>2, NoNewGap DEF GapInv
<1> QED
  BY <1>1, <1>2, <1>3, ReturnKeepsGapInv

\* So does one that reverts.
LEMMA VMExceptionKeepsGapInv ==
  ASSUME NonceInv, GapInv, NEW s \in Sender, VMException(s)
  PROVE  GapInv'
<1>1. /\ InCall(s) /\ pc[s] = "send" /\ Return(s) /\ Incr /\ accountNonce' = accountNonce + 1
      /\ accountNonce <= MaxNonce /\ nonce[s] = accountNonce /\ ~Pending(accountNonce)
      /\ skipped' = skipped
  BY DEF VMException, InCall
<1>2. accountNonce \in Nat /\ cache \in Nat /\ nonce[s] <= cache
  BY <1>1, Bound DEF NonceInv, CommitterTypes, PastUsed
<1>3. ASSUME ~skipped' PROVE NoGapBelow(cache)'
  <2>1. KnownIsThere /\ AheadByKnown
    BY <1>1, <1>3 DEF GapInv
  <2>2. nonce[s] \notin known
    BY <1>1, <1>2, <2>1 DEF KnownIsThere
  <2>3. cache = accountNonce
    BY <1>1, <1>2, <2>1, <2>2 DEF AheadByKnown
  <2>4. cache' = accountNonce'
    BY <1>1, <2>3 DEF Incr
  <2> QED
    BY <1>1, <1>2, <2>4 DEF NoGapBelow
<1> QED
  BY <1>1, <1>3, ReturnKeepsGapInv

\* The gas estimate opens no gap.
LEMMA EstimateGasKeepsGapInv ==
  ASSUME NonceInv, GapInv, NEW s \in Sender, EstimateGas(s)
  PROVE  GapInv'
<1>1. pc' = [pc EXCEPT ![s] = "serialize"] /\ UNCHANGED <<accountNonce, pool, cache, nonce, known, skipped>>
  BY DEF EstimateGas, nodeVars
<1>2. /\ NoGapBelow(cache) => NoGapBelow(cache)'
      /\ KnownIsThere => KnownIsThere'
  BY <1>1 DEF NoGapBelow, KnownIsThere, Pending
<1>3. AheadByKnown => AheadByKnown'
  BY <1>1 DEF AheadByKnown, NonceInv, CommitterTypes
<1> QED
  BY <1>1, <1>2, <1>3 DEF GapInv

\* A call starts from the cache.
LEMMA SerializeKeepsGapInv ==
  ASSUME NonceInv, GapInv, NEW s \in Sender, Serialize(s)
  PROVE  GapInv'
<1>1. /\ guard = NoSender /\ known' = {}
      /\ nonce' = [nonce EXCEPT ![s] = cache]
      /\ pc' = [pc EXCEPT ![s] = "send"]
      /\ UNCHANGED <<accountNonce, pool, cache, skipped>>
  BY DEF Serialize, nodeVars
<1>2. NoGapBelow(cache) => NoGapBelow(cache)'
  BY <1>1 DEF NoGapBelow, Pending
<1>3. KnownIsThere'
  BY <1>1 DEF KnownIsThere
<1>4. \A t \in Sender : pc'[t] = "send" => t = s
  BY <1>1, NoSenderIsNoSender DEF NonceInv, CommitterTypes, OneInCall, InCall
<1>5. nonce'[s] = cache' /\ cache' \in Nat
  BY <1>1, Bound DEF NonceInv, CommitterTypes
<1>6. AheadByKnown'
  BY <1>4, <1>5 DEF AheadByKnown
<1> QED
  BY <1>1, <1>2, <1>3, <1>6 DEF GapInv

\* A rejected nonce is resynced, or ends the call.
LEMMA WrongNonceKeepsGapInv ==
  ASSUME NonceInv, GapInv, NEW s \in Sender, WrongNonce(s)
  PROVE  GapInv'
<1>1. InCall(s) /\ UNCHANGED <<nodeVars, cache, skipped>>
  BY DEF WrongNonce, InCall
<1>2. CASE resyncUsed[s]
  BY <1>1, <1>2, ErrorKeepsGapInv DEF WrongNonce
<1>3. CASE ~resyncUsed[s]
  <2>1. pc' = [pc EXCEPT ![s] = "resync"] /\ UNCHANGED <<accountNonce, pool, nonce, known>>
    BY <1>1, <1>3 DEF WrongNonce, nodeVars
  <2>2. /\ NoGapBelow(cache) => NoGapBelow(cache)'
        /\ KnownIsThere => KnownIsThere'
    BY <1>1, <2>1 DEF NoGapBelow, KnownIsThere, Pending
  <2>3. AheadByKnown => AheadByKnown'
    BY <1>1, <2>1 DEF AheadByKnown, NonceInv, CommitterTypes
  <2> QED
    BY <1>1, <2>2, <2>3 DEF GapInv
<1> QED
  BY <1>2, <1>3

\* After a resync, or one that failed, the call sends with the nonce of the cache.
LEMMA RetryKeepsGapInv ==
  ASSUME NonceInv, GapInv, NEW s \in Sender, InCall(s), Retry(s, cache'), cache' \in Nat,
         UNCHANGED <<nodeVars, skipped>>, ~skipped => NoGapBelow(cache)'
  PROVE  GapInv'
<1>1. /\ nonce' = [nonce EXCEPT ![s] = cache'] /\ pc' = [pc EXCEPT ![s] = "send"]
      /\ UNCHANGED <<accountNonce, pool, known, guard>>
  BY DEF Retry, nodeVars
<1>2. KnownIsThere => KnownIsThere'
  BY <1>1 DEF KnownIsThere, Pending
<1>3. \A t \in Sender : pc'[t] = "send" => t = s
  BY <1>1 DEF NonceInv, CommitterTypes, OneInCall, InCall
<1>4. nonce'[s] = cache'
  BY <1>1 DEF NonceInv, CommitterTypes
<1>5. AheadByKnown'
  BY <1>3, <1>4 DEF AheadByKnown
<1> QED
  BY <1>2, <1>5 DEF GapInv

\* A resync leaves no gap behind it.
LEMMA ResyncKeepsGapInv ==
  ASSUME NonceInv, GapInv, NEW s \in Sender, Resync(s)
  PROVE  GapInv'
<1>1. PICK n \in 0..(MaxNonce + 1) : IsPendingNonce(n) /\ cache' = n /\ Retry(s, n)
  BY DEF Resync
<1>2. InCall(s) /\ UNCHANGED <<nodeVars, skipped>>
  BY DEF Resync, InCall
<1>3. NoGapBelow(cache)'
  BY <1>1, <1>2 DEF IsPendingNonce, NoGapBelow, Pending, nodeVars
<1>4. Retry(s, cache') /\ cache' \in Nat
  BY <1>1
<1> QED
  BY <1>2, <1>3, <1>4, RetryKeepsGapInv

\* A failed resync changes nothing.
LEMMA ResyncFailsKeepsGapInv ==
  ASSUME NonceInv, GapInv, NEW s \in Sender, ResyncFails(s)
  PROVE  GapInv'
<1>1. InCall(s) /\ Retry(s, cache) /\ cache' = cache /\ UNCHANGED <<nodeVars, skipped>>
  BY DEF ResyncFails, InCall
<1>2. ~skipped => NoGapBelow(cache)'
  BY <1>1 DEF GapInv, NoGapBelow, Pending, nodeVars
<1>3. Retry(s, cache') /\ cache' \in Nat
  BY <1>1, Bound DEF NonceInv, CommitterTypes
<1> QED
  BY <1>1, <1>2, <1>3, RetryKeepsGapInv

\* The known transaction is the one the cache moves past.
LEMMA KnownTransactionKeepsGapInv ==
  ASSUME NonceInv, GapInv, NEW s \in Sender, KnownTransaction(s)
  PROVE  GapInv'
<1> SUFFICES ASSUME ~skipped' PROVE NoGapBelow(cache)' /\ KnownIsThere' /\ AheadByKnown'
  BY DEF GapInv
<1>1. /\ pc[s] = "send" /\ nonce[s] \in Nonce /\ pool[nonce[s]] = s /\ Incr
      /\ known' = known \cup {nonce[s]} /\ NoGapBelow(cache + 1) /\ ~skipped
      /\ UNCHANGED <<accountNonce, pool, guard, pc, nonce>>
  BY DEF KnownTransaction, nodeVars
<1>2. NoGapBelow(cache) /\ KnownIsThere /\ AheadByKnown
  BY <1>1 DEF GapInv
<1>3. NoGapBelow(cache)'
  <2>1. cache' = cache + 1 \/ cache' = cache
    BY <1>1 DEF Incr
  <2> QED
    BY <1>1, <1>2, <2>1 DEF NoGapBelow, Pending
<1>4. Pending(nonce[s])
  BY <1>1, NoSenderIsNoSender DEF Pending
<1>5. KnownIsThere'
  BY <1>1, <1>2, <1>4 DEF KnownIsThere, Pending
<1>6. \A t \in Sender : pc'[t] = "send" => t = s
  BY <1>1 DEF NonceInv, OneInCall, InCall
<1>7. AheadByKnown'
  BY <1>1, <1>6 DEF AheadByKnown
<1> QED
  BY <1>3, <1>5, <1>7

\* A restart closes every gap of the cache.
LEMMA RestartKeepsGapInv ==
  ASSUME NonceInv, GapInv, Restart
  PROVE  GapInv'
<1>1. PICK n \in 0..(MaxNonce + 1) : (n = 0 \/ IsPendingNonce(n)) /\ cache' = n
  BY DEF Restart
<1>2. /\ pc' = [s \in Sender |-> "idle"] /\ known' = {}
      /\ UNCHANGED <<accountNonce, pool>>
  BY DEF Restart, nodeVars
<1>3. accountNonce \in Nat
  BY Bound DEF NonceInv, CommitterTypes
<1>4. NoGapBelow(n)
  BY <1>1, <1>3 DEF IsPendingNonce, NoGapBelow
<1>5. NoGapBelow(cache)'
  BY <1>1, <1>2, <1>4 DEF NoGapBelow, Pending
<1>6. KnownIsThere' /\ AheadByKnown'
  BY <1>2 DEF KnownIsThere, AheadByKnown
<1> QED
  BY <1>5, <1>6 DEF GapInv

\* Every step keeps the cache behind the first free nonce.
LEMMA GapInvStep == NonceInv /\ GapInv /\ [Next]_vars => GapInv'
<1> SUFFICES ASSUME NonceInv, GapInv, [Next]_vars PROVE GapInv'
  OBVIOUS
<1>1. CASE UNCHANGED vars
  <2>1. UNCHANGED <<accountNonce, pool, cache, pc, nonce, known, skipped>>
    BY <1>1 DEF vars, nodeVars, callVars
  <2> QED
    BY <2>1 DEF GapInv, NoGapBelow, KnownIsThere, AheadByKnown, Pending
<1>2. ASSUME NEW s \in Sender,
             EstimateGas(s) \/ Serialize(s) \/ SendTx(s)
               \/ SendTimesOut(s) \/ ResyncFails(s) \/ InvalidSender(s) \/ VMException(s)
      PROVE  GapInv'
  <2>1. CASE OtherError(s)
    BY <2>1, ErrorKeepsGapInv DEF OtherError, InCall
  <2>2. CASE InvalidSender(s)
    BY <2>2, ReturnKeepsGapInv DEF InvalidSender, InCall
  <2>3. CASE SendTx(s)
    BY <2>1, <2>3, SentKeepsGapInv, WrongNonceKeepsGapInv, ResyncKeepsGapInv,
       KnownTransactionKeepsGapInv, Zenon DEF SendTx
  <2> QED
    BY <1>2, <2>2, <2>3, EstimateGasKeepsGapInv, SerializeKeepsGapInv, SendTimesOutKeepsGapInv,
       ResyncFailsKeepsGapInv, VMExceptionKeepsGapInv, Zenon
<1>3. ASSUME NEW n \in Nonce, Evict(n) PROVE GapInv'
  BY <1>3 DEF Evict, GapInv
<1> QED
  BY <1>1, <1>2, <1>3, MineKeepsGapInv, SendElsewhereKeepsGapInv, RestartKeepsGapInv, Zenon
     DEF Next

\* Between calls the cache is not ahead of the node, so that the next transaction
\* can be mined, unless the node has forgotten a transaction or a branch of SendTx
\* has advanced the cache without one; for any number of goroutines, nonces and
\* faults.
THEOREM CacheNotAhead == Spec => []NoGap
<1>1. GapInv => NoGap
  BY DEF GapInv, NoGap
<1> QED
  BY <1>1, GapInvInit, GapInvStep, NonceInvariant, PTL DEF Spec

-----------------------------------------------------------------------------
\* The types of what NonceInv does not speak of.
RetryTypes == resyncUsed \in [Sender -> BOOLEAN] /\ faults \in Nat

\* Every step keeps those types.
LEMMA RetryTypesStep == RetryTypes /\ [Next]_vars => RetryTypes'
<1> SUFFICES ASSUME RetryTypes, [Next]_vars PROVE RetryTypes'
  OBVIOUS
<1>1. faults' = faults \/ Fault
  BY DEF Next, vars, Mine, SendElsewhere, Restart, Evict, EstimateGas, Serialize, SendTx,
         Sent, WrongNonce, Resync, KnownTransaction, OtherError, SendTimesOut, ResyncFails,
         InvalidSender, VMException
<1>2. \/ resyncUsed' = resyncUsed
      \/ resyncUsed' = [s \in Sender |-> FALSE]
      \/ \E s \in Sender, b \in BOOLEAN : resyncUsed' = [resyncUsed EXCEPT ![s] = b]
  BY DEF Next, vars, callVars, Mine, SendElsewhere, Restart, Evict, EstimateGas, Serialize,
         SendTx, Sent, WrongNonce, Resync, KnownTransaction, OtherError, SendTimesOut,
         ResyncFails, InvalidSender, VMException, Return, Retry
<1>3. faults' \in Nat
  BY <1>1 DEF RetryTypes, Fault
<1>4. resyncUsed' \in [Sender -> BOOLEAN]
  BY <1>2, Zenon DEF RetryTypes
<1> QED
  BY <1>3, <1>4 DEF RetryTypes

\* The types of the node, of the cache and of the calls (TypeOK): in particular
\* the cache never falls below 0, whatever a resync or a restart sets it to.
THEOREM CommitterTypeCorrect == Spec => []TypeOK
<1>1. NonceInv /\ RetryTypes => TypeOK
  BY DEF NonceInv, CommitterTypes, Cached, RetryTypes, TypeOK
<1>2. Init => RetryTypes
  BY DEF Init, RetryTypes
<1> QED
  BY <1>1, <1>2, RetryTypesStep, NonceInvariant, PTL DEF Spec

=============================================================================
