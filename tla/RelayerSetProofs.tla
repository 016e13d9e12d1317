-------------------------- MODULE RelayerSetProofs --------------------------
(***************************************************************************)
(* The validator set the relayer works with, for every number of           *)
(* validators, sets and batches, every size of the search window, any      *)
(* number of failures and every other relayer: it is the set that was      *)
(* installed at the header the search began with, the warning of a         *)
(* hijacking is raised only when the set was updated in between, and what  *)
(* the relayer submits makes the composed system a behaviour of the        *)
(* contract of module Peggy, so that everything proved of the contract     *)
(* holds here. The contract accepts what enough members of the installed   *)
(* set confirmed, a transaction of the relayer reverts only when another   *)
(* one came first or its time ran out, and only what a quorum confirmed to *)
(* Injective is executed: the composed system implements IdealBridge.      *)
(***************************************************************************)
EXTENDS RelayerProofs, PeggyQuorumProofs

-----------------------------------------------------------------------------
(* The in-place sort of checkIfValsetsDiffer.                              *)

\* A sequence is the function of its elements.
LEMMA SequenceIsFunction ==
  ASSUME NEW S, NEW s \in Seq(S)
  PROVE  s = [i \in 1..Len(s) |-> s[i]]
OBVIOUS

\* An order of 1..n that never goes down leaves every number at its place.
LEMMA IncreasingOrder ==
  ASSUME NEW n \in Nat, NEW p \in Bijection(1..n, 1..n),
         \A i, j \in 1..n : i < j => p[i] < p[j]
  PROVE  \A i \in 1..n : p[i] = i
<1> DEFINE Moved == {i \in 1..n : p[i] # i}
<1> SUFFICES ASSUME Moved # {} PROVE FALSE
  OBVIOUS
<1>1. /\ p \in [1..n -> 1..n]
      /\ \A t \in 1..n : \E s \in 1..n : p[s] = t
  BY Zenon DEF Bijection, Injection, Surjection
<1>2. PICK k \in Moved : \A m \in Moved : k <= m
  <2>1. Moved \in SUBSET Nat
    OBVIOUS
  <2> QED
    BY <2>1, LeastNat, Zenon
<1>3. k \in 1..n /\ p[k] # k /\ \A i \in 1..n : i < k => p[i] = i
  BY <1>2
<1>4. PICK v \in 1..n : p[v] = k
  BY <1>1, <1>3
<1>5. v > k
  BY <1>3, <1>4
<1>6. p[k] \in 1..n /\ p[k] < k
  BY <1>1, <1>3, <1>4, <1>5
<1>7. p[p[k]] = p[k]
  BY <1>3, <1>6
<1>8. p[p[k]] < p[k]
  BY <1>3, <1>6
<1> QED
  BY <1>6, <1>7, <1>8

\* The sort leaves a set that Injective created as it is: Injective has sorted it
\* in the same way.
LEMMA SortedStays ==
  ASSUME NEW n \in DOMAIN IV, Len(IV[n].members) = Len(IV[n].powers)
  PROVE  Sort(IV[n]) = IV[n]
<1> DEFINE vs == IV[n]
           N == Len(vs.members)
           places == DOMAIN vs.members
           less(i, j) == \/ vs.powers[i] > vs.powers[j]
                         \/ vs.powers[i] = vs.powers[j] /\ vs.members[i] < vs.members[j]
           Ordered(p) == \A i, j \in places : i < j => ~less(p[j], p[i])
           order == CHOOSE p \in Bijection(places, places) : Ordered(p)
           id == [i \in places |-> i]
<1>1. vs \in Valset
  BY ValsetFacts
<1>2. /\ N \in Nat /\ places = 1..N /\ DOMAIN vs.powers = 1..N
      /\ \A i \in places : vs.powers[i] \in Nat /\ vs.members[i] \in Nat
  <2>1. /\ N \in Nat /\ places = 1..N /\ DOMAIN vs.powers = 1..N
        /\ vs.powers \in Seq(Nat) /\ vs.members \in Seq(Validator)
    BY <1>1, ValsetType
  <2>2. \A i \in places : vs.powers[i] \in Nat /\ vs.members[i] \in Validator
    BY <2>1
  <2> QED
    BY <2>1, <2>2, InjectiveAssumption, Zenon
<1>3. \A i, j \in places : i < j => less(i, j)
  BY InjectiveAssumption DEF IV
<1>4. \A i, j \in places : less(i, j) => ~less(j, i)
  BY <1>2
<1>5. id \in Bijection(places, places) /\ Ordered(id)
  <2>1. id \in Bijection(places, places)
    BY DEF Bijection, Injection, Surjection, IsInjective
  <2>2. ASSUME NEW i \in places, NEW j \in places, i < j PROVE ~less(id[j], id[i])
    <3>1. ~less(j, i)
      BY <1>3, <1>4, <2>2
    <3> HIDE DEF less
    <3> QED
      BY <3>1
  <2> QED
    BY <2>1, <2>2, Zenon
<1> HIDE DEF id
<1>6. order \in Bijection(places, places) /\ Ordered(order)
  <2> HIDE DEF Ordered
  <2> QED
    BY <1>5
<1> HIDE DEF order
<1>7. order \in [places -> places] /\ \A i, j \in places : i # j => order[i] # order[j]
  BY <1>6 DEF Bijection, Injection, IsInjective
<1>8. ASSUME NEW i \in places, NEW j \in places, i < j PROVE order[i] < order[j]
  <2>1. order[i] \in places /\ order[j] \in places /\ order[i] # order[j]
    BY <1>2, <1>7, <1>8
  <2>2. ~(order[j] < order[i])
    BY <1>3, <1>6, <1>8, <2>1
  <2> QED
    BY <1>2, <2>1, <2>2
<1>9. \A i \in places : order[i] = i
  <2> HIDE DEF vs, places, N
  <2> QED
    BY <1>2, <1>6, <1>8, IncreasingOrder
<1>10. /\ [i \in places |-> vs.members[order[i]]] = vs.members
       /\ [i \in places |-> vs.powers[order[i]]] = vs.powers
  <2>1. /\ vs.members = [i \in places |-> vs.members[i]]
        /\ vs.powers = [i \in places |-> vs.powers[i]]
    <3>1. vs.members \in Seq(Validator) /\ vs.powers \in Seq(Nat) /\ Len(vs.powers) = N
      BY <1>1, ValsetType
    <3>2. /\ vs.members = [i \in 1..N |-> vs.members[i]]
          /\ vs.powers = [i \in 1..Len(vs.powers) |-> vs.powers[i]]
      <4> HIDE DEF vs
      <4> QED
        BY <3>1, SequenceIsFunction, Zenon
    <3> QED
      BY <1>2, <3>1, <3>2
  <2> HIDE DEF vs, places
  <2> QED
    BY <1>9, <2>1
<1>11. Sort(vs) = [vs EXCEPT !.members = [i \in places |-> vs.members[order[i]]],
                             !.powers  = [i \in places |-> vs.powers[order[i]]]]
  BY DEF Sort, order
<1>12. [vs EXCEPT !.members = vs.members, !.powers = vs.powers] = vs
  BY <1>1, ValsetType, Zenon
<1> QED
  BY <1>10, <1>11, <1>12, Zenon

-----------------------------------------------------------------------------
(* The search of findLatestValsetOnEth.                                    *)

WindowStart(c) == IF c <= findValsetBlocksToSearch THEN 0 ELSE c - findValsetBlocksToSearch

\* What the search returns at block c, when f tells what it returns below.
SearchAt(f, c) ==
  IF c = 0 THEN NoValset
  ELSE IF GetValsetUpdatedEvents(WindowStart(c), c) = {} THEN f[WindowStart(c)]
       ELSE First(GetValsetUpdatedEvents(WindowStart(c), c))

Searches(f, n) == f = [c \in 0..n |-> SearchAt(f, c)]

\* A window begins below the block it ends with.
LEMMA WindowGoesBack ==
  ASSUME NEW c \in Nat, c # 0
  PROVE  WindowStart(c) \in 0..(c - 1)
BY RelayerAssumption DEF WindowStart

\* The search is defined: what it returns up to block n - 1 determines what it
\* returns at block n.
LEMMA SearchExists ==
  ASSUME NEW n \in Nat
  PROVE  \E f : Searches(f, n)
<1> DEFINE Missing == {k \in Nat : ~\E f : Searches(f, k)}
<1> SUFFICES ASSUME Missing # {} PROVE FALSE
  OBVIOUS
<1>1. PICK k \in Missing : \A m \in Missing : k <= m
  BY LeastNat, Zenon
<1>2. Searches([c \in 0..0 |-> NoValset], 0)
  BY DEF Searches, SearchAt
<1>3. k \in Nat \ {0} /\ k - 1 \in Nat /\ k - 1 \notin Missing
  BY <1>1, <1>2
<1>4. PICK f : Searches(f, k - 1)
  BY <1>3
<1> DEFINE last == SearchAt(f, k)
           g == [c \in 0..k |-> IF c = k THEN last ELSE f[c]]
<1>5. ASSUME NEW c \in 0..k PROVE g[c] = SearchAt(g, c)
  <2>1. g[c] = SearchAt(f, c)
    <3>1. CASE c = k
      BY <3>1
    <3>2. CASE c # k
      <4>1. c \in 0..(k - 1)
        BY <1>3, <3>2
      <4>2. f[c] = SearchAt(f, c)
        BY <1>4, <4>1 DEF Searches
      <4> QED
        BY <3>2, <4>2
    <3> QED
      BY <3>1, <3>2
  <2>2. c # 0 => g[WindowStart(c)] = f[WindowStart(c)]
    <3> SUFFICES ASSUME c # 0 PROVE g[WindowStart(c)] = f[WindowStart(c)]
      OBVIOUS
    <3>1. WindowStart(c) \in 0..(c - 1)
      BY <1>3, WindowGoesBack
    <3>2. WindowStart(c) \in 0..k /\ WindowStart(c) # k
      BY <1>3, <3>1
    <3> QED
      BY <3>2
  <2> HIDE DEF g
  <2> QED
    BY <2>1, <2>2 DEF SearchAt
<1>6. g = [c \in 0..k |-> g[c]]
  OBVIOUS
<1> HIDE DEF g
<1>7. Searches(g, k)
  BY <1>5, <1>6 DEF Searches
<1> QED
  BY <1>1, <1>7

\* findLatestValset is the value of such a search at the block it begins with.
LEMMA SearchIsSearched ==
  ASSUME NEW n \in Nat
  PROVE  \E f : Searches(f, n) /\ findLatestValset(n) = f[n]
<1> DEFINE f == CHOOSE f : Searches(f, n)
<1>1. Searches(f, n)
  BY SearchExists
<1>2. findLatestValset(n) = f[n]
  BY DEF findLatestValset, Searches, SearchAt, WindowStart
<1> QED
  BY <1>1, <1>2, Zenon

\* The i-th event is that of the set which was installed at the end of block c.
Newest(i, c) ==
  /\ IsValsetEvent(i)
  /\ events[i].height <= c
  /\ \A j \in 1..Len(events) : IsValsetEvent(j) /\ j > i => events[j].height > c

\* A set of positions of the log that is not empty has a last one.
LEMMA LastPosition ==
  ASSUME NEW n \in Nat, NEW T \in SUBSET (1..n), T # {}
  PROVE  \E i \in T : \A j \in T : j <= i
<1> DEFINE U == {k \in Nat : \E i \in T : k = n - i}
<1>1. U # {} /\ U \in SUBSET Nat
  <2>1. PICK i \in T : TRUE
    BY Zenon
  <2>2. n - i \in U
    BY <2>1
  <2> QED
    BY <2>2, Zenon
<1>2. PICK k \in U : \A m \in U : k <= m
  <2> HIDE DEF U
  <2> QED
    BY <1>1, LeastNat
<1>3. PICK i \in T : k = n - i
  BY <1>2
<1>4. ASSUME NEW j \in T PROVE j <= i
  <2>1. n - j \in U
    OBVIOUS
  <2>2. k <= n - j
    BY <1>2, <2>1, Zenon
  <2> QED
    BY <1>3, <2>2
<1> QED
  BY <1>4

\* Of the events of a window the one with the highest valset nonce is the last.
LEMMA FirstIsLast ==
  ASSUME ContractInv, LogInv, NEW start \in Nat, NEW c \in Nat,
         GetValsetUpdatedEvents(start, c) # {}
  PROVE  \E i \in 1..Len(events) :
           Newest(i, c) /\ events[i].data = First(GetValsetUpdatedEvents(start, c))
<1> DEFINE found == GetValsetUpdatedEvents(start, c)
           T == {j \in 1..Len(events) : IsValsetEvent(j) /\ events[j].height \in start..c}
<1>1. Len(events) \in Nat /\ DOMAIN events = 1..Len(events)
  BY DEF ContractInv, TypeOK
<1>2. found = {events[j].data : j \in T}
  BY <1>1 DEF GetValsetUpdatedEvents, IsValsetEvent
<1>3. \A j \in 1..Len(events) :
        /\ events[j].height \in Nat
        /\ IsValsetEvent(j) => events[j].data.nonce \in Nat
  BY EventType, ValsetType DEF ContractInv, IsValsetEvent
<1>4. T # {} /\ T \in SUBSET (1..Len(events))
  BY <1>2
<1>5. PICK i \in T : \A j \in T : j <= i
  <2> HIDE DEF T
  <2> QED
    BY <1>1, <1>4, LastPosition, Zenon
<1>6. ASSUME NEW j \in T, j # i PROVE events[j].data.nonce < events[i].data.nonce
  BY <1>1, <1>5, <1>6 DEF LogInv
<1>7. events[i].data \in found /\ \A w \in found : events[i].data.nonce >= w.nonce
  <2>1. \A j \in T : events[i].data.nonce >= events[j].data.nonce
    BY <1>3, <1>6
  <2> HIDE DEF T, found
  <2> QED
    BY <1>2, <2>1
<1>8. First(found) \in found /\ \A w \in found : First(found).nonce >= w.nonce
  <2> HIDE DEF found
  <2> QED
    BY <1>7 DEF First
<1>9. PICK j \in T : First(found) = events[j].data
  <2> HIDE DEF T, found
  <2> QED
    BY <1>2, <1>8, Zenon
<1>10. j = i
  <2>1. events[j].data.nonce >= events[i].data.nonce
    <3> HIDE DEF T, found
    <3> QED
      BY <1>7, <1>8, <1>9
  <2> QED
    <3>1. events[i].data.nonce \in Nat /\ events[j].data.nonce \in Nat
      BY <1>3
    <3>2. j # i => events[j].data.nonce < events[i].data.nonce
      BY <1>6
    <3> HIDE DEF T, found
    <3> QED
      BY <2>1, <3>1, <3>2
<1>11. Newest(i, c)
  <2>1. IsValsetEvent(i) /\ events[i].height \in start..c
    OBVIOUS
  <2>2. ASSUME NEW k \in 1..Len(events), IsValsetEvent(k), k > i PROVE events[k].height > c
    <3>1. k \notin T
      BY <1>5, <2>2
    <3>2. events[i].height <= events[k].height
      BY <2>2 DEF ContractInv, EventLogContiguous
    <3>3. events[k].height \notin start..c
      BY <2>2, <3>1
    <3> HIDE DEF T, found
    <3> QED
      BY <1>3, <2>1, <3>2, <3>3
  <2> QED
    BY <2>1, <2>2 DEF Newest
<1> QED
  BY <1>9, <1>10, <1>11

\* The windows miss no event: what the search finds is the set that was installed
\* at the end of the block it begins with, whatever the size of the windows
\* (findLatestValsetOnEth).
LEMMA SearchFindsInstalled ==
  ASSUME ContractInv, LogInv, NEW n \in Nat, findLatestValset(n) # NoValset
  PROVE  \E i \in 1..Len(events) : Newest(i, n) /\ events[i].data = findLatestValset(n)
<1>1. PICK f : Searches(f, n) /\ findLatestValset(n) = f[n]
  BY SearchIsSearched
<1> DEFINE Holds(c) == f[c] = NoValset \/ \E i \in 1..Len(events) : Newest(i, c) /\ events[i].data = f[c]
           W == {c \in 0..n : ~Holds(c)}
<1>2. W = {}
  <2> SUFFICES ASSUME W # {} PROVE FALSE
    OBVIOUS
  <2>1. PICK c \in W : \A m \in W : c <= m
    <3>1. W \in SUBSET Nat
      OBVIOUS
    <3> HIDE DEF W
    <3> QED
      BY <3>1, LeastNat
  <2> DEFINE start == WindowStart(c)
  <2>2. c \in 0..n /\ f[c] = SearchAt(f, c) /\ ~Holds(c)
    BY <1>1, <2>1 DEF Searches
  <2>3. c # 0
    BY <2>2 DEF SearchAt
  <2>4. start \in 0..(c - 1) /\ start \in 0..n /\ start \in Nat /\ c \in Nat
    BY <2>2, <2>3, WindowGoesBack
  <2> HIDE DEF start
  <2>5. Holds(start)
    <3> HIDE DEF Holds
    <3> QED
      BY <2>1, <2>4
  <2>6. CASE GetValsetUpdatedEvents(start, c) # {}
    <3>1. f[c] = First(GetValsetUpdatedEvents(start, c))
      BY <2>2, <2>3, <2>6 DEF SearchAt, start
    <3>2. Holds(c)
      <4>1. \E i \in 1..Len(events) :
              Newest(i, c) /\ events[i].data = First(GetValsetUpdatedEvents(start, c))
        BY <2>4, <2>6, FirstIsLast, Zenon
      <4> QED
        BY <3>1, <4>1, Zenon
    <3> QED
      BY <2>2, <3>2
  <2>7. CASE GetValsetUpdatedEvents(start, c) = {}
    <3>1. f[c] = f[start]
      BY <2>2, <2>3, <2>7 DEF SearchAt, start
    <3>2. ASSUME NEW i \in 1..Len(events), Newest(i, start) PROVE Newest(i, c)
      <4>1. \A j \in 1..Len(events) : events[j].height \in Nat
        BY EventType DEF ContractInv
      <4>2. \A j \in 1..Len(events) : IsValsetEvent(j) => events[j].height \notin start..c
        <5> SUFFICES ASSUME NEW j \in 1..Len(events), IsValsetEvent(j),
                            events[j].height \in start..c
                     PROVE  FALSE
          OBVIOUS
        <5>1. j \in DOMAIN events /\ events[j].type = "ValsetUpdated"
          BY DEF IsValsetEvent, ContractInv, TypeOK
        <5>2. events[j].data \in GetValsetUpdatedEvents(start, c)
          BY <5>1 DEF GetValsetUpdatedEvents
        <5> QED
          BY <2>7, <5>2
      <4>3. IsValsetEvent(i) /\ events[i].height <= c
        BY <2>4, <3>2, <4>1 DEF Newest
      <4>4. ASSUME NEW j \in 1..Len(events), IsValsetEvent(j), j > i PROVE events[j].height > c
        <5>1. events[j].height > start /\ events[j].height \in Nat /\ events[j].height \notin start..c
          BY <3>2, <4>1, <4>2, <4>4 DEF Newest
        <5> QED
          BY <2>4, <5>1
      <4> QED
        BY <4>3, <4>4 DEF Newest
    <3> QED
      BY <2>2, <2>5, <3>1, <3>2
  <2> QED
    BY <2>6, <2>7
<1>3. Holds(n)
  <2> HIDE DEF Holds
  <2> QED
    BY <1>2
<1> QED
  BY <1>1, <1>3

-----------------------------------------------------------------------------
(* The set the relayer takes from the search.                              *)

\* What the comparison with Injective's set leaves of the set that was found, and
\* when it warns.
LEMMA ComparisonKeepsSet ==
  ASSUME RelayInv, pc = "nonce", NEW i \in 1..Len(events), Newest(i, header)
  PROVE  /\ checkIfValsetsDiffer(cosmosValset, events[i].data) = events[i].data
         /\ Warns(cosmosValset, events[i].data) \in BOOLEAN
         /\ Warns(cosmosValset, events[i].data) => state_lastValsetNonce > events[i].data.nonce
<1> DEFINE found == events[i].data
           m == found.nonce
<1>1. ContractInv /\ TasksInv /\ LogInv /\ SearchInv /\ NonceRead
  BY DEF RelayInv, SearchInv
<1>2. Seen(i) /\ IsValsetEvent(i)
  BY DEF Newest, Seen
<1>3. found \in Valset
  BY <1>1, <1>2, EventType DEF ContractInv, IsValsetEvent
<1>4. m \in Nat
  BY <1>3, ValsetType
<1>5. /\ Len(found.members) = Len(found.powers)
      /\ m # 0 => m \in 1..valsets /\ found = IV[m]
  BY <1>1, <1>2 DEF LogInv
<1>6. \A n \in 1..valsets : n \in DOMAIN IV /\ IV[n].nonce = n /\ IV[n] # NoValset
  BY <1>1, Created, Zenon
<1>7. CASE cosmosValset = NoValset /\ m = 0
  <2>1. Warns(cosmosValset, found) = FALSE
    BY <1>7 DEF Warns
  <2>2. checkIfValsetsDiffer(cosmosValset, found) = found
    BY <1>7 DEF checkIfValsetsDiffer
  <2> QED
    BY <2>1, <2>2, Zenon
<1>8. CASE \E k \in 1..valsets : cosmosValset = IV[k] /\ k <= state_lastValsetNonce /\ m <= k
  <2>1. PICK k \in 1..valsets : cosmosValset = IV[k] /\ k <= state_lastValsetNonce /\ m <= k
    BY <1>8
  <2>2. k \in DOMAIN IV /\ cosmosValset.nonce = k /\ cosmosValset # NoValset
    BY <1>6, <2>1
  <2>3. CASE m = k
    <3>1. found = IV[k]
      BY <1>5, <2>1, <2>3
    <3>2. Warns(cosmosValset, found) = FALSE
      BY <2>1, <2>2, <3>1 DEF Warns
    <3>3. Sort(found) = found
      BY <1>5, <2>2, <3>1, SortedStays
    <3>4. checkIfValsetsDiffer(cosmosValset, found) = found
      BY <2>2, <3>2, <3>3 DEF checkIfValsetsDiffer
    <3> QED
      BY <3>2, <3>4, Zenon
  <2>4. CASE m < k
    <3>1. Warns(cosmosValset, found) = TRUE
      BY <1>4, <2>2, <2>4 DEF Warns
    <3>2. state_lastValsetNonce > m
      BY <1>1, <1>4, <2>1, <2>4 DEF ContractInv, TypeOK
    <3>3. checkIfValsetsDiffer(cosmosValset, found) = found
      BY <3>1 DEF checkIfValsetsDiffer
    <3> QED
      BY <3>1, <3>2, <3>3, Zenon
  <2> QED
    BY <1>4, <2>1, <2>3, <2>4
<1> QED
  BY <1>1, <1>2, <1>7, <1>8 DEF NonceRead

\* The tasks start with the set that was installed at the header.
LEMMA findLatestValsetOnEthKeeps ==
  ASSUME RelayInv, findLatestValsetOnEth
  PROVE  RelayInv'
<1>1. UNCHANGED <<vars, injectiveVars>>
  BY DEF findLatestValsetOnEth
<1>2. /\ pc = "nonce" /\ pc' = "relay"
      /\ findLatestValset(header) # NoValset
      /\ ethValset' = checkIfValsetsDiffer(cosmosValset, findLatestValset(header))
      /\ alarm' = Warns(cosmosValset, findLatestValset(header))
      /\ valsetTask' \in {Started, Ended} /\ batchTask' \in {Started, Ended}
      /\ UNCHANGED <<header, cosmosValset, mempool, faults>>
  BY DEF findLatestValsetOnEth
<1>3. /\ ContractInv' /\ LogInv'
      /\ UNCHANGED <<events, height, state_lastValsetNonce>>
      /\ UNCHANGED <<valsets, batches, outgoing, valsetConfirms, batchConfirms>>
      /\ \A call : Submitted(call)' <=> Submitted(call)
  BY <1>1, RelayerAlone
<1>4. ContractInv /\ TasksInv /\ LogInv /\ SearchInv
  BY DEF RelayInv
<1>5. PICK i \in 1..Len(events) : Newest(i, header) /\ events[i].data = findLatestValset(header)
  <2>1. header \in Nat
    BY <1>4, Created, Zenon
  <2> QED
    BY <1>2, <1>4, <2>1, SearchFindsInstalled
<1>6. /\ ethValset' = events[i].data /\ alarm' \in BOOLEAN
      /\ alarm' => state_lastValsetNonce > events[i].data.nonce
  BY <1>2, <1>5, ComparisonKeepsSet
<1>7. ethValset' \in Valset
  BY <1>4, <1>5, <1>6, EventType DEF ContractInv, Newest, IsValsetEvent
<1>8. TasksInv'
  <2>1. valsetTask' \in Task /\ batchTask' \in Task /\ valsetTask'.pc # "send" /\ batchTask'.pc # "send"
    BY <1>2, TaskTypes, Zenon
  <2> QED
    BY <1>2, <1>3, <1>4, <1>6, <1>7, <2>1, Zenon DEF TasksInv, RelayerTypeOK, SendsConfirmed
<1>9. RelayerHoldsInstalledSet'
  <2>1. DOMAIN events = 1..Len(events)
    BY <1>4 DEF ContractInv, TypeOK
  <2>2. /\ IsValsetEvent(i) /\ events[i].height <= header
        /\ \A j \in DOMAIN events : IsValsetEvent(j) /\ j > i => events[j].height > header
    BY <1>5, <2>1 DEF Newest
  <2>3. \A j : IsValsetEvent(j)' <=> IsValsetEvent(j)
    BY <1>3 DEF IsValsetEvent
  <2> QED
    BY <1>2, <1>3, <1>6, <2>1, <2>2, <2>3 DEF RelayerHoldsInstalledSet
<1>10. SearchInv'
  BY <1>2, <1>3, <1>4, <1>6, <1>9 DEF SearchInv, AlarmOnlyInRace
<1> QED
  BY <1>3, <1>8, <1>10 DEF RelayInv

-----------------------------------------------------------------------------
(* The theorems.                                                           *)

\* Every step of the composed system is a step of the contract, or leaves the
\* contract alone, and keeps the invariant.
LEMMA RelayInvStep ==
  ASSUME RelayInv, BatchInv, BatchInv', [RelayerNext]_bridge
  PROVE  RelayInv' /\ [Next]_vars
<1>1. CASE findLatestValsetOnEth
  <2>1. UNCHANGED vars
    BY <1>1 DEF findLatestValsetOnEth
  <2> QED
    BY <1>1, <2>1, findLatestValsetOnEthKeeps
<1>2. CASE ~findLatestValsetOnEth
  BY <1>2, OtherStepsKeepRelayInv
<1> QED
  BY <1>1, <1>2

\* The invariant holds in every behaviour of the composed system.
LEMMA RelayInvInductive == RelayerSpec => [](RelayInv /\ BatchInv)
<1>1. RelayerInit => RelayInv
  BY RelayInvInit
<1>2. RelayInv /\ BatchInv /\ BatchInv' /\ [RelayerNext]_bridge => RelayInv'
  BY RelayInvStep
<1> QED
  BY <1>1, <1>2, BatchInvInductive, PTL DEF RelayerSpec

\* The state of Injective, the mempool and the relayer have their types
\* (relayer.go, signer.go, batch_creator.go).
THEOREM RelayerTypeCorrect == RelayerSpec => []RelayerTypeOK
<1>1. RelayInv => RelayerTypeOK
  BY DEF RelayInv, TasksInv
<1> QED
  BY <1>1, RelayInvInductive, PTL

\* The set both tasks pass as the current one is the set that was installed at
\* the header the search began with, whatever the size of the windows of
\* findLatestValsetOnEth, whoever else submits in the meantime and although
\* checkIfValsetsDiffer sorts it in place.
THEOREM HoldsInstalledSet == RelayerSpec => []RelayerHoldsInstalledSet
<1>1. RelayInv => RelayerHoldsInstalledSet
  BY DEF RelayInv, SearchInv
<1> QED
  BY <1>1, RelayInvInductive, PTL

\* checkIfValsetsDiffer warns only when the contract's set was updated between
\* the header and the nonce that one search reads.
THEOREM AlarmOnlyOnUpdate == RelayerSpec => []AlarmOnlyInRace
<1>1. RelayInv => AlarmOnlyInRace
  BY DEF RelayInv, SearchInv
<1> QED
  BY <1>1, RelayInvInductive, PTL

\* The composed system implements the contract: with relayers as the callers of
\* updateValset and submitBatch every behaviour is one of module Peggy.
THEOREM BridgeImplementsPeggy == RelayerSpec => Spec
<1>1. RelayerInit => Init
  BY DEF RelayerInit
<1>2. RelayInv /\ BatchInv /\ BatchInv' /\ [RelayerNext]_bridge => [Next]_vars
  BY RelayInvStep
<1> QED
  BY <1>1, <1>2, RelayInvInductive, PTL DEF RelayerSpec, Spec

-----------------------------------------------------------------------------
(* What the contract checks of the calls the relayer makes.                *)

\* The contract's checks of who calls with what: the arrays have one length, the
\* current set is the installed one, and its members signed this hash.
Authorized(call, hash) ==
  /\ wellFormed(call.current, call.sigs)
  /\ makeCheckpoint(call.current) = state_lastValsetCheckpoint
  /\ checkValidatorSignatures(call.current, call.sigs, hash)

\* While the set the relayer holds is installed, a call that members above the
\* threshold have confirmed is authorized, and a newer set has a higher nonce
\* than the current one.
ConfirmedCallIsAuthorized ==
  /\ valsetTask.pc = "send" /\ Installed(ethValset)
       /\ AbovePowerThreshold(ethValset, valsetTask.confirms)
     => LET new  == InjectiveValsets[valsetTask.item]
            call == valsetUpdate(ethValset, new, valsetTask.confirms)
        IN  /\ Authorized(call, makeCheckpoint(new))
            /\ valsetTask.item > state_lastValsetNonce => new.nonce > ethValset.nonce
  /\ batchTask.pc = "send" /\ Installed(ethValset)
       /\ AbovePowerThreshold(ethValset, batchTask.confirms)
     => LET b    == InjectiveBatches[batchTask.item]
            call == transactionBatch(ethValset, b, batchTask.confirms)
        IN  Authorized(call, batchHash(b))

\* The contract finds every call authorized that enough members of the installed
\* set have confirmed: checkValsetSigsAndRepack and checkBatchSigsAndRepack pad
\* and order the signatures as it expects them, and what was signed
\* (EncodeValsetConfirm, EncodeTxBatchConfirm) is the hash it computes.
LEMMA ConfirmedCallAuthorized == RelayerSpec => []ConfirmedCallIsAuthorized
<1>1. RelayInv /\ BatchInv /\ InstalledValsetIsValid => ConfirmedCallIsAuthorized
  <2> SUFFICES ASSUME RelayInv, InstalledValsetIsValid
               PROVE  ConfirmedCallIsAuthorized
    OBVIOUS
  <2>1. valsetTask.pc = "send" \/ batchTask.pc = "send" => ethValset \in Valset
    BY TaskRuns
  <2>2. ASSUME NEW confirms, NEW hash, ethValset \in Valset, Installed(ethValset),
               AbovePowerThreshold(ethValset, confirms)
        PROVE  /\ wellFormed(ethValset, Repack(ethValset, confirms, hash))
               /\ makeCheckpoint(ethValset) = state_lastValsetCheckpoint
               /\ checkValidatorSignatures(ethValset, Repack(ethValset, confirms, hash), hash)
    <3>1. validateValidatorSet(ethValset)
      BY <2>2 DEF Installed, InstalledValsetIsValid
    <3> QED
      BY <2>2, <3>1, RepackedIsAccepted DEF Installed
  <2>3. ASSUME valsetTask.pc = "send", Installed(ethValset),
               AbovePowerThreshold(ethValset, valsetTask.confirms)
        PROVE  LET new  == InjectiveValsets[valsetTask.item]
                   call == valsetUpdate(ethValset, new, valsetTask.confirms)
               IN  /\ Authorized(call, makeCheckpoint(new))
                   /\ valsetTask.item > state_lastValsetNonce => new.nonce > ethValset.nonce
    <3> DEFINE new  == InjectiveValsets[valsetTask.item]
               call == valsetUpdate(ethValset, new, valsetTask.confirms)
    <3>1. /\ call.current = ethValset
          /\ call.sigs = Repack(ethValset, valsetTask.confirms, makeCheckpoint(new))
      BY DEF valsetUpdate, EncodeValsetConfirm, makeCheckpoint
    <3>2. Authorized(call, makeCheckpoint(new))
      <4> HIDE DEF call, new
      <4> QED
        BY <2>1, <2>2, <2>3, <3>1 DEF Authorized
    <3>3. ethValset.nonce = state_lastValsetNonce
      BY <2>1, <2>3, InstalledNonce DEF RelayInv, Installed
    <3>4. new.nonce = valsetTask.item
      <4>1. valsetTask.item \in 1..valsets
        BY <2>3, Zenon DEF RelayInv, TasksInv, SendsConfirmed
      <4> QED
        BY <4>1, Created, Zenon DEF RelayInv, IV
    <3> QED
      BY <3>2, <3>3, <3>4
  <2>4. ASSUME batchTask.pc = "send", Installed(ethValset),
               AbovePowerThreshold(ethValset, batchTask.confirms)
        PROVE  LET b    == InjectiveBatches[batchTask.item]
                   call == transactionBatch(ethValset, b, batchTask.confirms)
               IN  Authorized(call, batchHash(b))
    <3> DEFINE b    == InjectiveBatches[batchTask.item]
               call == transactionBatch(ethValset, b, batchTask.confirms)
    <3>1. /\ call.current = ethValset
          /\ call.sigs = Repack(ethValset, batchTask.confirms, batchHash(b))
      BY DEF transactionBatch, EncodeTxBatchConfirm, batchHash
    <3> HIDE DEF call, b
    <3>2. Authorized(call, batchHash(b))
      BY <2>1, <2>2, <2>4, <3>1 DEF Authorized
    <3> QED
      BY <3>2 DEF call, b
  <2> QED
    BY <2>3, <2>4, Zenon DEF ConfirmedCallIsAuthorized
<1> QED
  BY <1>1, RelayInvInductive, BridgeImplementsPeggy, InstalledValid, PTL

\* The bridge is not paused in the composed system.
LEMMA NeverPaused == RelayerSpec => [](paused = FALSE)
<1>1. RelayerInit => paused = FALSE
  BY DEF RelayerInit, Init
<1>2. paused = FALSE /\ RelayInv /\ BatchInv /\ [RelayerNext]_bridge => (paused = FALSE)'
  BY ContractMoves
<1> QED
  BY <1>1, <1>2, RelayInvInductive, PTL DEF RelayerSpec

\* The contract accepts every call the relayer is about to make that enough
\* members of the installed set have confirmed, when nothing but the signatures
\* could be wrong with it: its nonce is ahead, it can be paid, a set can vote, a
\* batch has not timed out.
THEOREM ConfirmedCallAccepted == RelayerSpec => []ConfirmedCallIsAccepted
<1>1. RelayInv /\ ConfirmedCallIsAuthorized /\ paused = FALSE => ConfirmedCallIsAccepted
  <2> SUFFICES ASSUME RelayInv, ConfirmedCallIsAuthorized, paused = FALSE
               PROVE  ConfirmedCallIsAccepted
    OBVIOUS
  <2>1. whenNotPaused = TRUE
    BY DEF whenNotPaused
  <2>2. ASSUME valsetTask.pc = "send", Installed(ethValset),
               AbovePowerThreshold(ethValset, valsetTask.confirms),
               NEW new, new = InjectiveValsets[valsetTask.item],
               nonceAdvances(new.nonce, state_lastValsetNonce),
               validateValidatorSet(new), RewardIsCovered(new)
        PROVE  Succeeds(valsetUpdate(ethValset, new, valsetTask.confirms))
    <3> DEFINE call == valsetUpdate(ethValset, new, valsetTask.confirms)
    <3>1. /\ call.type = "updateValset" /\ call.item = new /\ call.current = ethValset
          /\ Authorized(call, makeCheckpoint(new))
      BY <2>2, Zenon DEF ConfirmedCallIsAuthorized, valsetUpdate
    <3> HIDE DEF call
    <3>2. ethValset \in Valset
      BY <2>2, TaskRuns
    <3>3. ethValset.nonce = state_lastValsetNonce
      BY <2>2, <3>2, InstalledNonce DEF RelayInv, Installed
    <3>4. updateValsetRequires(call.item, call.current, call.sigs)
      BY <2>1, <2>2, <3>1, <3>3, Zenon DEF updateValsetRequires, Authorized
    <3>5. Succeeds(call)
      BY <3>1, <3>4, Zenon DEF Succeeds
    <3> QED
      BY <3>5 DEF call
  <2>3. ASSUME batchTask.pc = "send", Installed(ethValset),
               AbovePowerThreshold(ethValset, batchTask.confirms),
               NEW b, b = InjectiveBatches[batchTask.item],
               nonceAdvances(b.nonce, state_lastBatchNonces[b.token]),
               height < b.timeout, BatchIsCovered(b)
        PROVE  Succeeds(transactionBatch(ethValset, b, batchTask.confirms))
    <3> DEFINE call == transactionBatch(ethValset, b, batchTask.confirms)
    <3>1. /\ call.type = "submitBatch" /\ call.item = b /\ call.current = ethValset
          /\ Authorized(call, batchHash(b))
      BY <2>3, Zenon DEF ConfirmedCallIsAuthorized, transactionBatch
    <3> HIDE DEF call
    <3>2. submitBatchRequires(call.current, call.sigs, call.item)
      BY <2>1, <2>3, <3>1, Zenon DEF submitBatchRequires, Authorized
    <3>3. Succeeds(call)
      BY <3>1, <3>2, Zenon DEF Succeeds
    <3> QED
      BY <3>3 DEF call
  <2> QED
    BY <2>2, <2>3, Zenon DEF ConfirmedCallIsAccepted
<1> QED
  BY <1>1, RelayInvInductive, ConfirmedCallAuthorized, NeverPaused, PTL

-----------------------------------------------------------------------------
(* What can happen to a call while it waits in the mempool.                *)

\* Every call in the mempool was estimated when it was sent.
LEMMA MempoolInvInductive == RelayerSpec => []MempoolInv
<1>1. RelayerInit => MempoolInv
  BY DEF RelayerInit, MempoolInv
<1>2. /\ RelayInv /\ BatchInv /\ RelayInv' /\ [RelayerNext]_bridge /\ MempoolInv
      => MempoolInv'
  <2> SUFFICES ASSUME RelayInv, BatchInv, RelayInv', [RelayerNext]_bridge, MempoolInv,
                      NEW call \in mempool'
               PROVE  WasEstimated(call)'
    BY DEF MempoolInv
  <2>1. CASE call \in mempool
    <3>1. Submitted(call) /\ WasEstimated(call)
      BY <2>1 DEF MempoolInv, RelayInv, TasksInv
    <3> QED
      BY <3>1, EstimationStays
  <2>2. CASE call \notin mempool
    <3>1. UNCHANGED <<vars, injectiveVars>> /\ Succeeds(call)
      BY <2>2, SentSucceeds
    <3>2. Submitted(call)
      <4>1. Submitted(call)'
        BY DEF RelayInv, TasksInv
      <4> QED
        BY <3>1, <4>1, RelayerAlone
    <3>3. WasEstimated(call)
      BY <3>1, <3>2, SucceedsIsEstimated DEF RelayInv
    <3> QED
      BY <3>2, <3>3, EstimationStays
  <2> QED
    BY <2>1, <2>2
<1> QED
  BY <1>1, <1>2, RelayInvInductive, PTL DEF RelayerSpec

\* A submitted call reverts only when it was overtaken while it waited, by a newer
\* validator set, by its batch or a later one, by the timeout, or because it can no
\* longer be paid: nothing else that Injective, signers, relayers or the contract
\* do makes a call fail that EstimateGas let through.
THEOREM RevertsOnlyOvertaken == RelayerSpec => []RevertsOnlyWhenOvertaken
<1>1. RelayInv /\ MempoolInv /\ paused = FALSE => RevertsOnlyWhenOvertaken
  <2>0. SUFFICES ASSUME RelayInv, MempoolInv, paused = FALSE, NEW call \in mempool,
                        ~(state_lastValsetNonce > call.current.nonce),
                        ~(call.type = "updateValset" /\ ~RewardIsCovered(call.item)),
                        ~(/\ call.type = "submitBatch"
                          /\ \/ call.item.nonce <= state_lastBatchNonces[call.item.token]
                             \/ call.item.timeout <= height
                             \/ ~BatchIsCovered(call.item))
                 PROVE  Succeeds(call)
    BY Zenon DEF RevertsOnlyWhenOvertaken
  <2>1. Submitted(call) /\ WasEstimated(call)
    BY <2>0 DEF MempoolInv, RelayInv, TasksInv
  <2>2. /\ call.current.nonce \in Nat
        /\ state_lastValsetNonce \in Nat /\ height \in Nat
        /\ call.type \in {"updateValset", "submitBatch"}
        /\ call.type = "submitBatch" =>
             /\ call.item.nonce \in Nat /\ call.item.timeout \in Nat
             /\ state_lastBatchNonces[call.item.token] \in Nat
    BY <2>0, <2>1, SubmittedCall DEF RelayInv
  <2>3. call.current.nonce = state_lastValsetNonce
    <3>1. call.current.nonce <= state_lastValsetNonce
      BY <2>1, Zenon DEF WasEstimated
    <3>2. ~(state_lastValsetNonce > call.current.nonce)
      BY <2>0, Zenon
    <3> QED
      BY <2>2, <3>1, <3>2
  <2>4. /\ whenNotPaused = TRUE
        /\ makeCheckpoint(call.current) = state_lastValsetCheckpoint
        /\ wellFormed(call.current, call.sigs)
    BY <2>0, <2>1, <2>3, Zenon DEF whenNotPaused, WasEstimated, Installed
  <2>5. CASE call.type = "updateValset"
    <3>1. updateValsetRequires(call.item, call.current, call.sigs)
      BY <2>0, <2>1, <2>4, <2>5, Zenon DEF WasEstimated, updateValsetRequires
    <3> QED
      BY <2>5, <3>1 DEF Succeeds
  <2>6. CASE call.type = "submitBatch"
    <3>1. /\ height < call.item.timeout
          /\ nonceAdvances(call.item.nonce, state_lastBatchNonces[call.item.token])
          /\ BatchIsCovered(call.item)
      <4>1. call.item.nonce < state_lastBatchNonces[call.item.token] + MAX_NONCE_JUMP_LIMIT
        BY <2>1, <2>6 DEF WasEstimated
      <4>2. /\ ~(call.item.nonce <= state_lastBatchNonces[call.item.token])
            /\ ~(call.item.timeout <= height)
            /\ BatchIsCovered(call.item)
        BY <2>0, <2>6, Zenon
      <4> QED
        BY <2>2, <2>6, <4>1, <4>2, SMTT(20) DEF nonceAdvances
    <3>2. checkValidatorSignatures(call.current, call.sigs, batchHash(call.item))
      BY <2>1, <2>6 DEF WasEstimated
    <3>3. submitBatchRequires(call.current, call.sigs, call.item)
      BY <2>4, <3>1, <3>2, Zenon DEF submitBatchRequires
    <3> QED
      BY <2>6, <3>3 DEF Succeeds
  <2> QED
    BY <2>2, <2>5, <2>6
<1> QED
  BY <1>1, RelayInvInductive, MempoolInvInductive, NeverPaused, PTL

-----------------------------------------------------------------------------
(* From a confirmation on Injective to the execution on Ethereum.          *)

\* A quorum of the installed set is among those who confirmed.
ConfirmedBy(confirms) ==
  \E current \in Valset : Installed(current) /\ PowerOf(current, confirms) > PowerThreshold

\* What an event says was executed is Injective's and was confirmed.
EventConfirmed(e) ==
  /\ e.type = "ValsetUpdated" =>
       \E n \in 1..valsets : e.data = IV[n] /\ ConfirmedBy(valsetConfirms[n])
  /\ e.type = "BatchExecuted" =>
       \E n \in 1..batches : e.data = IB[n] /\ ConfirmedBy(batchConfirms[n])

\* The event of a call that succeeds is confirmed.
LEMMA ExecuteIsConfirmed ==
  ASSUME ContractInv, TasksInv, NEW call, Submitted(call), Execute(call)
  PROVE  \E type, data :
           /\ Emit(type, data)
           /\ \A e : e.type = type /\ e.data = data => EventConfirmed(e)
<1>1. PICK current \in Valset, confirms \in SUBSET Validator :
        \/ \E n \in 1..valsets : /\ confirms \subseteq valsetConfirms[n]
                                 /\ call = valsetUpdate(current, IV[n], confirms)
        \/ \E n \in 1..batches : /\ confirms \subseteq batchConfirms[n]
                                 /\ call = transactionBatch(current, IB[n], confirms)
  BY DEF Submitted
<1>2. ASSUME NEW hash, NEW all, confirms \subseteq all,
             Installed(current),
             wellFormed(current, Repack(current, confirms, hash)),
             checkValidatorSignatures(current, Repack(current, confirms, hash), hash)
      PROVE  ConfirmedBy(all)
  <2>1. Signers(Repack(current, confirms, hash)) \subseteq all
    BY <1>2, RepackedSigners
  <2>2. PowerOf(current, all) > PowerThreshold
    BY <1>2, <2>1, RepackType, AcceptedIsSignedByQuorum
  <2> QED
    BY <1>2, <2>2 DEF ConfirmedBy
<1>3. CASE \E n \in 1..valsets : /\ confirms \subseteq valsetConfirms[n]
                                 /\ call = valsetUpdate(current, IV[n], confirms)
  <2>1. PICK n \in 1..valsets : /\ confirms \subseteq valsetConfirms[n]
                                /\ call = valsetUpdate(current, IV[n], confirms)
    BY <1>3, SMTT(20)
  <2>2. updateValset(IV[n], current, Repack(current, confirms, makeCheckpoint(IV[n])))
    BY <2>1 DEF Execute, valsetUpdate, EncodeValsetConfirm, makeCheckpoint
  <2>3. ConfirmedBy(valsetConfirms[n])
    BY <1>2, <2>1, <2>2, Zenon DEF updateValset, updateValsetRequires, Installed
  <2>4. Emit("ValsetUpdated", IV[n])
    BY <2>2 DEF updateValset
  <2>5. \A e : e.type = "ValsetUpdated" /\ e.data = IV[n] => EventConfirmed(e)
    BY <2>3, Zenon DEF EventConfirmed
  <2> QED
    BY <2>4, <2>5
<1>4. CASE \E n \in 1..batches : /\ confirms \subseteq batchConfirms[n]
                                 /\ call = transactionBatch(current, IB[n], confirms)
  <2>1. PICK n \in 1..batches : /\ confirms \subseteq batchConfirms[n]
                                /\ call = transactionBatch(current, IB[n], confirms)
    BY <1>4
  <2>2. submitBatch(current, Repack(current, confirms, batchHash(IB[n])), IB[n])
    BY <2>1 DEF Execute, transactionBatch, EncodeTxBatchConfirm, batchHash
  <2>3. ConfirmedBy(batchConfirms[n])
    BY <1>2, <2>1, <2>2, Zenon DEF submitBatch, submitBatchRequires, Installed
  <2>4. Emit("BatchExecuted", IB[n])
    BY <2>2, Zenon DEF submitBatch
  <2>5. \A e : e.type = "BatchExecuted" /\ e.data = IB[n] => EventConfirmed(e)
    BY <2>3, Zenon DEF EventConfirmed
  <2> QED
    BY <2>4, <2>5, Zenon
<1> QED
  BY <1>1, <1>3, <1>4, Zenon

\* Every step adds at most one event to the log, and that one is confirmed.
LEMMA AddedEventIsConfirmed ==
  ASSUME RelayInv, BatchInv, [RelayerNext]_bridge
  PROVE  \A i \in DOMAIN events' \ DOMAIN events : EventConfirmed(events'[i])
<1>1. ContractInv /\ TasksInv
  BY DEF RelayInv
<1>2. ASSUME NEW type, NEW data, Emit(type, data),
             \A e : e.type = type /\ e.data = data => EventConfirmed(e)
      PROVE  \A i \in DOMAIN events' \ DOMAIN events : EventConfirmed(events'[i])
  <2>1. DOMAIN events = 1..Len(events) /\ DOMAIN events' = 1..Len(events')
    BY <1>1, <1>2, SMTT(20) DEF ContractInv, TypeOK, Emit
  <2>2. /\ \A i \in 1..Len(events') : i \in 1..Len(events) \/ i = Len(events')
        /\ events'[Len(events')].type = type /\ events'[Len(events')].data = data
    BY <1>1, <1>2, GrownLog, SMTT(20)
  <2> QED
    BY <1>2, <2>1, <2>2, Zenon
<1>3. ASSUME NEW call, Submitted(call), Execute(call)
      PROVE  \A i \in DOMAIN events' \ DOMAIN events : EventConfirmed(events'[i])
  BY <1>1, <1>2, <1>3, ExecuteIsConfirmed
<1>4. CASE \E token : Emit("ERC20Deployed", token)
  <2>1. PICK token : Emit("ERC20Deployed", token)
    BY <1>4
  <2> QED
    BY <1>2, <2>1, Zenon DEF EventConfirmed
<1> QED
  BY <1>1, <1>3, <1>4, LogGrowsByCall

\* The contract executes only what Injective created and a quorum of the set that
\* was installed at that moment confirmed to Injective, whatever relayers submit
\* and however long a call waits in the mempool.
THEOREM ExecutedConfirmed == RelayerSpec => ExecutedWasConfirmed
<1> DEFINE Added ==
             \A i \in DOMAIN events' \ DOMAIN events :
               LET e == events'[i]
                   confirmedBy(confirms) ==
                     \E current \in Valset :
                       Installed(current) /\ PowerOf(current, confirms) > PowerThreshold
               IN  /\ e.type = "ValsetUpdated" =>
                        \E n \in 1..valsets :
                          e.data = InjectiveValsets[n] /\ confirmedBy(valsetConfirms[n])
                   /\ e.type = "BatchExecuted" =>
                        \E n \in 1..batches :
                          e.data = InjectiveBatches[n] /\ confirmedBy(batchConfirms[n])
<1>1. RelayInv /\ BatchInv /\ [RelayerNext]_bridge => Added
  <2> SUFFICES ASSUME RelayInv, BatchInv, [RelayerNext]_bridge PROVE Added
    OBVIOUS
  <2>1. \A i \in DOMAIN events' \ DOMAIN events : EventConfirmed(events'[i])
    BY AddedEventIsConfirmed
  <2> QED
    BY <2>1 DEF EventConfirmed, ConfirmedBy, IV, IB
<1>2. RelayerSpec => [][Added]_bridge
  <2> HIDE DEF Added
  <2> QED
    BY <1>1, RelayInvInductive, PTL DEF RelayerSpec
<1> QED
  BY <1>2 DEF ExecutedWasConfirmed

-----------------------------------------------------------------------------
(* The composed system implements the ideal bridge.                        *)

\* The ideal bridge sums as the contract's properties do.
LEMMA SameSum ==
  ASSUME NEW f, NEW S
  PROVE  Ideal!SumFunctionOnSet(f, S) = SumFunctionOnSet(f, S)
BY DEF Ideal!SumFunctionOnSet, Ideal!FoldFunctionOnSet, Ideal!MapThenFoldSet,
       SumFunctionOnSet, FoldFunctionOnSet, MapThenFoldSet

\* What the ideal bridge calls the installed set is the one whose checkpoint the
\* contract stores, and its quorums are the contract's.
LEMMA InstalledIsQuorum ==
  ASSUME NEW current, Installed(current), NEW confirms
  PROVE  /\ state_lastValsetCheckpoint[3] = current
         /\ PowerOf(current, confirms) > PowerThreshold => Ideal!IsQuorum(confirms)
<1>1. state_lastValsetCheckpoint = <<"checkpoint", peggyId, current>>
  BY DEF Installed, makeCheckpoint
<1>2. state_lastValsetCheckpoint[3] = current
  BY <1>1
<1> QED
  BY <1>2, SameSum DEF Ideal!IsQuorum, PowerOf

\* What the ideal bridge sees of the contract.
LEMMA SeenUnchanged ==
  ASSUME UNCHANGED <<valsetVars, state_lastBatchNonces, released, height>>
  PROVE  UNCHANGED Ideal!bridge
BY DEF valsetVars, Ideal!bridge

\* A batch that Injective no longer lists can never be executed again.
GivenUpIsClosed ==
  \A n \in (1..batches) \ outgoing :
    n <= state_lastBatchNonces[IB[n].token] \/ height > IB[n].timeout

\* A batch leaves the list when its nonce or its timeout has passed, and neither
\* comes back.
LEMMA GivenUpStaysClosed ==
  ASSUME RelayInv, BatchInv, BatchInv', GivenUpIsClosed, [RelayerNext]_bridge
  PROVE  GivenUpIsClosed'
<1>1. /\ TasksInv /\ batches \in Nat /\ height \in Nat
      /\ state_lastBatchNonces \in [Token -> Nat]
      /\ outgoing \subseteq 1..batches
  BY Created, Zenon DEF RelayInv, ContractInv, TypeOK, BatchInv, BatchTypes
<1>2. /\ height' \in Nat /\ height' >= height
      /\ state_lastBatchNonces' \in [Token -> Nat]
      /\ \A t \in Token : state_lastBatchNonces'[t] >= state_lastBatchNonces[t]
  <2>1. RelayInv'
    BY RelayInvStep
  <2>2. height' \in Nat /\ state_lastBatchNonces' \in [Token -> Nat]
    BY <2>1 DEF RelayInv, ContractInv, TypeOK
  <2> QED
    BY <2>2, ContractMoves
<1>3. \A n \in 1..batches : IB[n].token \in Token /\ IB[n].timeout \in Nat
  BY <1>1, Created, BatchAssumption
<1>4. ASSUME NEW n \in 1..batches,
             n <= state_lastBatchNonces[IB[n].token] \/ height > IB[n].timeout
      PROVE  n <= state_lastBatchNonces'[IB[n].token] \/ height' > IB[n].timeout
  BY <1>1, <1>2, <1>3, <1>4
<1>5. CASE UNCHANGED <<batches, outgoing>>
  BY <1>4, <1>5 DEF GivenUpIsClosed
<1>6. CASE requestTokenBatch
  <2>1. batches' = batches + 1 /\ outgoing' = outgoing \cup {batches + 1}
    BY <1>6 DEF requestTokenBatch
  <2>2. \A n \in (1..batches') \ outgoing' : n \in (1..batches) \ outgoing
    BY <1>1, <2>1, SMTT(20)
  <2> QED
    BY <1>4, <2>2 DEF GivenUpIsClosed
<1>7. CASE Attest
  <2>1. /\ UNCHANGED batches
        /\ \A n \in outgoing \ outgoing' :
             ~(n > state_lastBatchNonces[IB[n].token] /\ height <= IB[n].timeout)
    BY <1>7 DEF Attest, IB
  <2>2. \A n \in (1..batches) \ outgoing' :
          n <= state_lastBatchNonces[IB[n].token] \/ height > IB[n].timeout
    BY <1>1, <1>3, <2>1 DEF GivenUpIsClosed
  <2> QED
    BY <1>4, <2>1, <2>2, SMTT(20) DEF GivenUpIsClosed
<1>8. CreateValset \/ (\E v \in Validator : signValidatorSets(v) \/ signNewBatch(v))
      => UNCHANGED <<batches, outgoing>>
  BY DEF CreateValset, signValidatorSets, signNewBatch
<1>9. UNCHANGED injectiveVars => UNCHANGED <<batches, outgoing>>
  BY DEF injectiveVars
<1> QED
  BY <1>1, <1>5, <1>6, <1>7, <1>8, <1>9, StepKinds, Zenon DEF InjectiveStep

\* What Injective has given up is closed in every behaviour.
LEMMA GivenUpInductive == RelayerSpec => []GivenUpIsClosed
<1>1. RelayerInit => GivenUpIsClosed
  BY DEF RelayerInit, GivenUpIsClosed
<1>2. RelayInv /\ BatchInv /\ BatchInv' /\ GivenUpIsClosed /\ [RelayerNext]_bridge
      => GivenUpIsClosed'
  BY GivenUpStaysClosed
<1> QED
  BY <1>1, <1>2, RelayInvInductive, PTL DEF RelayerSpec

\* The step of Injective is one of the ideal bridge.
LEMMA InjectiveIsIdeal ==
  ASSUME ContractInv, TasksInv, BatchInv, InjectiveStep
  PROVE  [Ideal!Next]_Ideal!vars
<1>1. UNCHANGED Ideal!bridge
  <2>1. UNCHANGED vars
    BY InjectiveSteps
  <2> QED
    BY <2>1, SeenUnchanged DEF vars, fundVars
<1> HIDE DEF Ideal!bridge
<1>2. CASE CreateValset
  BY <1>1, <1>2 DEF CreateValset, Ideal!CreateValset, Ideal!Next
<1>3. CASE requestTokenBatch
  BY <1>1, <1>3 DEF requestTokenBatch, Ideal!CreateBatch, Ideal!Next
<1>4. CASE Attest
  <2>1. /\ outgoing' \subseteq outgoing
        /\ \A n \in outgoing \ outgoing' :
             ~(n > state_lastBatchNonces[IB[n].token] /\ height <= IB[n].timeout)
        /\ UNCHANGED <<valsets, batches, valsetConfirms, batchConfirms>>
    BY <1>4 DEF Attest, IB
  <2>2. ASSUME NEW n \in outgoing \ outgoing'
        PROVE  n <= state_lastBatchNonces[IB[n].token] \/ height > IB[n].timeout
    <3>1. n \in 1..batches /\ height \in Nat
      BY DEF BatchInv, BatchTypes
    <3>2. n \in Nat /\ IB[n].token \in Token /\ IB[n].timeout \in Nat
      BY <3>1, Created, BatchAssumption
    <3>3. state_lastBatchNonces[IB[n].token] \in Nat
      BY <3>2 DEF ContractInv, TypeOK
    <3> QED
      BY <2>1, <3>1, <3>2, <3>3
  <2>3. Ideal!Settle
    BY <1>1, <2>1, <2>2 DEF Ideal!Settle, IB
  <2> QED
    BY <2>3, Zenon DEF Ideal!Next
<1>5. ASSUME NEW v \in Validator, signValidatorSets(v) PROVE Ideal!Next
  <2>1. PICK n \in 1..valsets :
          /\ valsetConfirms' = [valsetConfirms EXCEPT ![n] = @ \cup {v}]
          /\ UNCHANGED <<valsets, batches, outgoing, batchConfirms>>
    BY <1>5, Zenon DEF signValidatorSets, OldestUnsigned
  <2>2. Ideal!ConfirmValset(v, n)
    BY <1>1, <2>1 DEF Ideal!ConfirmValset
  <2> QED
    BY <2>2, Zenon DEF Ideal!Next
<1>6. ASSUME NEW v \in Validator, signNewBatch(v) PROVE Ideal!Next
  <2>1. PICK n \in outgoing :
          /\ batchConfirms' = [batchConfirms EXCEPT ![n] = @ \cup {v}]
          /\ UNCHANGED <<valsets, batches, outgoing, valsetConfirms>>
    BY <1>6, Zenon DEF signNewBatch, OldestUnsigned
  <2>2. Ideal!ConfirmBatch(v, n)
    BY <1>1, <2>1 DEF Ideal!ConfirmBatch
  <2> QED
    BY <2>2, Zenon DEF Ideal!Next
<1> QED
  BY <1>2, <1>3, <1>4, <1>5, <1>6 DEF InjectiveStep

\* A set that is installed pays its reward as the ideal bridge does.
LEMMA RewardIsPaid ==
  ASSUME TypeOK, NEW new \in Valset, RewardIsCovered(new), PayReward(new)
  PROVE  IF new.rewardToken \in ERC20
         THEN Ideal!Pay(new.rewardToken, new.rewardAmount)
         ELSE UNCHANGED released
<1> DEFINE t == new.rewardToken
           n == new.rewardAmount
<1>1. t \in Token \cup {NoAddress} /\ n \in Nat
  BY ValsetType
<1>2. released \in [Token -> Nat]
  BY Zenon DEF TypeOK
<1>3. IF t # NoAddress /\ n # 0
      THEN /\ TokenExists(t)
           /\ released' = IF t \in isInjectiveNativeToken
                          THEN released ELSE [released EXCEPT ![t] = released[t] + n]
      ELSE UNCHANGED released
  BY SMTT(20) DEF PayReward, RewardIsCovered, fundVars, Add
<1>4. t # NoAddress =>
        /\ t \in Token
        /\ t \in isInjectiveNativeToken => t \notin ERC20
        /\ TokenExists(t) /\ t \notin isInjectiveNativeToken => t \in ERC20
  BY <1>1, TokenType
<1>5. NoAddress \notin ERC20
  BY TokenAssumption DEF Token
<1> HIDE DEF t, n
<1>6. n = 0 /\ t \in Token => [released EXCEPT ![t] = released[t] + n] = released
  BY <1>2
<1>7. CASE t \in ERC20
  <2>1. released' = [released EXCEPT ![t] = released[t] + n]
    BY <1>3, <1>4, <1>5, <1>6, <1>7
  <2> QED
    BY <1>7, <2>1 DEF Ideal!Pay, t, n
<1>8. CASE t \notin ERC20
  BY <1>3, <1>4, <1>8 DEF t
<1> QED
  BY <1>7, <1>8

\* A batch that is executed is paid as the ideal bridge does.
LEMMA BatchIsPaid ==
  ASSUME TypeOK, NEW b \in Batch, BatchIsCovered(b), PayBatch(b)
  PROVE  Ideal!Pay(b.token, IF b.token \in ERC20 THEN b.total + b.fee ELSE b.total)
<1> DEFINE t == b.token
<1>1. t \in Token
  BY BatchAssumption
<1>2. released' = IF t \in isInjectiveNativeToken
                  THEN [released EXCEPT ![t] = released[t] + b.total]
                  ELSE [released EXCEPT ![t] = released[t] + (b.total + b.fee)]
  BY DEF PayBatch, Add
<1>3. /\ t \in isInjectiveNativeToken => t \notin ERC20
      /\ t \notin isInjectiveNativeToken => t \in ERC20
  BY <1>1, TokenType, SMTT(20) DEF BatchIsCovered
<1> HIDE DEF t
<1> QED
  BY <1>2, <1>3 DEF Ideal!Pay, t

\* A call that succeeds installs or executes what the confirmations on Injective
\* alone would have let the ideal bridge install or execute; a batch among it is
\* still listed.
LEMMA ExecuteIsIdeal ==
  ASSUME ContractInv, TasksInv, BatchInv, GivenUpIsClosed, NEW call, Submitted(call), Execute(call),
         UNCHANGED injectiveVars
  PROVE  Ideal!Next
<1>1. PICK current \in Valset, confirms \in SUBSET Validator :
        \/ \E n \in 1..valsets : /\ confirms \subseteq valsetConfirms[n]
                                 /\ call = valsetUpdate(current, IV[n], confirms)
        \/ \E n \in 1..batches : /\ confirms \subseteq batchConfirms[n]
                                 /\ call = transactionBatch(current, IB[n], confirms)
  BY Zenon DEF Submitted
<1>2. TypeOK /\ UNCHANGED Ideal!injective
  BY DEF ContractInv, injectiveVars, Ideal!injective
<1>3. ASSUME NEW hash, NEW all, confirms \subseteq all, Installed(current),
             wellFormed(current, Repack(current, confirms, hash)),
             checkValidatorSignatures(current, Repack(current, confirms, hash), hash)
      PROVE  Ideal!IsQuorum(all) /\ state_lastValsetCheckpoint[3] = current
  <2>1. Signers(Repack(current, confirms, hash)) \subseteq all
    BY <1>3, RepackedSigners
  <2>2. PowerOf(current, all) > PowerThreshold
    BY <1>3, <2>1, RepackType, AcceptedIsSignedByQuorum
  <2> QED
    BY <1>3, <2>2, InstalledIsQuorum
<1>4. ASSUME NEW n \in 1..valsets, confirms \subseteq valsetConfirms[n],
             call = valsetUpdate(current, IV[n], confirms)
      PROVE  Ideal!Next
  <2> DEFINE new == IV[n]
             sigs == Repack(current, confirms, makeCheckpoint(new))
  <2>1. new \in Valset /\ new.nonce = n
    BY Created, Zenon
  <2>2. updateValset(new, current, sigs)
    BY <1>4, Zenon DEF Execute, valsetUpdate, EncodeValsetConfirm, makeCheckpoint
  <2>3. Ideal!IsQuorum(valsetConfirms[n]) /\ state_lastValsetCheckpoint[3] = current
    BY <1>3, <1>4, <2>2, Zenon DEF updateValset, updateValsetRequires, Installed
  <2> HIDE DEF new, sigs
  <2>4. /\ new.nonce > current.nonce
        /\ state_lastValsetCheckpoint' = <<"checkpoint", peggyId, new>>
        /\ UNCHANGED <<state_lastBatchNonces, height>>
    BY <2>2, SMTT(20) DEF updateValset, updateValsetRequires, nonceAdvances, makeCheckpoint
  <2>5. state_lastValsetCheckpoint'[3] = new
    BY <2>4
  <2>6. IF new.rewardToken \in ERC20
        THEN Ideal!Pay(new.rewardToken, new.rewardAmount)
        ELSE UNCHANGED released
    BY <1>2, <2>1, <2>2, RewardIsPaid DEF updateValset, updateValsetRequires
  <2>7. Ideal!Install(n)
    BY <1>2, <2>1, <2>3, <2>4, <2>5, <2>6, Zenon DEF Ideal!Install, new, IV
  <2> QED
    BY <2>7, Zenon DEF Ideal!Next
<1>5. ASSUME NEW n \in 1..batches, confirms \subseteq batchConfirms[n],
             call = transactionBatch(current, IB[n], confirms)
      PROVE  Ideal!Next
  <2> DEFINE b == IB[n]
             sigs == Repack(current, confirms, batchHash(b))
  <2>1. b \in Batch /\ b.nonce = n
    BY Created, BatchFacts, Zenon
  <2>2. submitBatch(current, sigs, b)
    BY <1>5, Zenon DEF Execute, transactionBatch, EncodeTxBatchConfirm, batchHash
  <2>3. Ideal!IsQuorum(batchConfirms[n])
    BY <1>3, <1>5, <2>2, Zenon DEF submitBatch, submitBatchRequires, Installed
  <2> HIDE DEF b, sigs
  <2>4. /\ b.nonce > state_lastBatchNonces[b.token] /\ height < b.timeout
        /\ state_lastBatchNonces' = [state_lastBatchNonces EXCEPT ![b.token] = b.nonce]
        /\ UNCHANGED <<valsetVars, height>>
    BY <2>2 DEF submitBatch, submitBatchRequires, nonceAdvances
  <2>5. state_lastValsetCheckpoint'[3] = state_lastValsetCheckpoint[3]
    BY <2>4 DEF valsetVars
  <2>6. Ideal!Pay(b.token, IF b.token \in ERC20 THEN b.total + b.fee ELSE b.total)
    BY <1>2, <2>1, <2>2, BatchIsPaid DEF submitBatch, submitBatchRequires
  <2>7. Ideal!Execute(n)
    BY <1>2, <2>1, <2>3, <2>4, <2>5, <2>6, Zenon DEF Ideal!Execute, b, IB
  <2>8. n \in outgoing
    <3>1. n \notin outgoing => n <= state_lastBatchNonces[b.token] \/ height > b.timeout
      BY Zenon DEF GivenUpIsClosed, b
    <3>2. /\ height \in Nat /\ b.timeout \in Nat
          /\ state_lastBatchNonces[b.token] \in Nat
      BY <1>2, <2>1, BatchAssumption DEF TypeOK
    <3> QED
      BY <2>1, <2>4, <3>1, <3>2
  <2> QED
    BY <2>7, <2>8, Zenon DEF Ideal!Next
<1> QED
  BY <1>1, <1>4, <1>5, Zenon

\* Every step of the composed system is one of the ideal bridge, or is not seen
\* there: the search, the tasks, the mempool and the deployment of a token.
LEMMA StepIsIdeal ==
  ASSUME RelayInv, BatchInv, GivenUpIsClosed, [RelayerNext]_bridge
  PROVE  [Ideal!Next]_Ideal!vars
<1>1. ContractInv /\ TasksInv
  BY DEF RelayInv
<1>2. UNCHANGED injectiveVars => UNCHANGED Ideal!injective
  BY DEF injectiveVars, Ideal!injective
<1>3. CASE InjectiveStep
  BY <1>1, <1>3, InjectiveIsIdeal
<1>4. CASE UNCHANGED <<vars, injectiveVars>>
  <2>1. UNCHANGED Ideal!bridge
    BY <1>4, SeenUnchanged DEF vars, fundVars
  <2> QED
    BY <1>2, <1>4, <2>1 DEF Ideal!vars
<1>5. CASE UNCHANGED injectiveVars /\ NextBlock
  <2>1. /\ height' = height + 1
        /\ UNCHANGED <<valsetVars, state_lastBatchNonces, released>>
    BY <1>5 DEF NextBlock, fundVars
  <2>2. Ideal!NextBlock
    BY <1>2, <1>5, <2>1 DEF valsetVars, Ideal!NextBlock
  <2> QED
    BY <2>2, Zenon DEF Ideal!Next
<1>6. CASE UNCHANGED injectiveVars /\ \E token \in CosmosERC20 : deployERC20(token)
  <2>1. UNCHANGED Ideal!bridge
    BY <1>6, SeenUnchanged DEF deployERC20, fundVars
  <2> QED
    BY <1>2, <1>6, <2>1 DEF Ideal!vars
<1>7. CASE UNCHANGED injectiveVars /\ \E call : Submitted(call) /\ Execute(call)
  BY <1>1, <1>7, ExecuteIsIdeal
<1> QED
  BY <1>1, <1>3, <1>4, <1>5, <1>6, <1>7, StepKinds, Zenon

\* The composed system implements the ideal bridge: with signature arrays,
\* relayers that hold outdated sets, calls that wait and calls that revert, sets
\* are installed, batches executed and tokens paid out or minted only as if the
\* contract read the confirmations on Injective itself, and no batch is executed
\* that Injective has taken off its list.
THEOREM BridgeImplementsIdeal == RelayerSpec => ImplementsIdealBridge
<1>1. RelayerInit => Ideal!Init
  <2>1. RelayerInit => state_lastValsetCheckpoint[3] = InitialValset
    BY DEF RelayerInit, Init, makeCheckpoint
  <2> QED
    BY <2>1, Zenon DEF RelayerInit, Init, Ideal!Init
<1>2. RelayInv /\ BatchInv /\ GivenUpIsClosed /\ [RelayerNext]_bridge
      => [Ideal!Next]_Ideal!vars
  BY StepIsIdeal
<1> QED
  BY <1>1, <1>2, RelayInvInductive, GivenUpInductive, PTL DEF RelayerSpec, ImplementsIdealBridge, Ideal!Spec

=============================================================================
