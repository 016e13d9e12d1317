---------------------------- MODULE IdealBridge -----------------------------
(***************************************************************************)
(* What the bridge promises to those who withdraw from Injective, with     *)
(* nothing between the confirmations and the contract: no hashes and no    *)
(* signature arrays, no relayers, no mempool and no log.  A validator set  *)
(* is installed, and a batch executed, when Injective has created it, it   *)
(* is newer than the last one, and a quorum of the installed set has       *)
(* confirmed it; and nothing else pays out or mints a token.  A batch that *)
(* Injective has taken off its list, as executed, passed over or timed     *)
(* out, is not executed any more: no withdrawal is both paid on Ethereum   *)
(* and given back on Injective.                                            *)
(***************************************************************************)
EXTENDS Naturals, Sequences, Functions

CONSTANTS
  Validator,
  Token,
  ERC20,             \* the tokens that exist outside the bridge
  InitialValset,
  InjectiveValsets,  \* what Injective creates, in order of the nonces 1, 2, ...
  InjectiveBatches,
  PowerThreshold

VARIABLES
  valsets,         \* the number of sets created
  batches,         \* the number of batches created
  outgoing,        \* the nonces of the batches Injective has not given up or seen executed
  valsetConfirms,  \* nonce -> validators that confirmed the set
  batchConfirms,   \* nonce -> validators that confirmed the batch
  installed,       \* the validator set in power
  executed,        \* token -> nonce of the last batch executed
  paid,            \* token -> sum of what it has paid out or minted
  height           \* of Ethereum

injective == <<valsets, batches, outgoing, valsetConfirms, batchConfirms>>
bridge == <<installed, executed, paid, height>>
vars == <<injective, bridge>>

Init ==
  /\ valsets = 0
  /\ batches = 0
  /\ outgoing = {}
  /\ valsetConfirms = [n \in DOMAIN InjectiveValsets |-> {}]
  /\ batchConfirms = [n \in DOMAIN InjectiveBatches |-> {}]
  /\ installed = InitialValset
  /\ executed = [t \in Token |-> 0]
  /\ paid = [t \in Token |-> 0]
  /\ height = 0

CreateValset ==
  /\ valsets < Len(InjectiveValsets)
  /\ valsets' = valsets + 1
  /\ UNCHANGED <<batches, outgoing, valsetConfirms, batchConfirms, bridge>>

CreateBatch ==
  /\ batches < Len(InjectiveBatches)
  /\ batches' = batches + 1
  /\ outgoing' = outgoing \cup {batches + 1}
  /\ UNCHANGED <<valsets, valsetConfirms, batchConfirms, bridge>>

\* What leaves the list was executed, or passed over, or has timed out.
Settle ==
  /\ outgoing' \subseteq outgoing
  /\ \A n \in outgoing \ outgoing' :
       LET b == InjectiveBatches[n]
       IN  n <= executed[b.token] \/ height > b.timeout
  /\ UNCHANGED <<valsets, batches, valsetConfirms, batchConfirms, bridge>>

ConfirmValset(v, n) ==
  /\ valsetConfirms' = [valsetConfirms EXCEPT ![n] = @ \cup {v}]
  /\ UNCHANGED <<valsets, batches, outgoing, batchConfirms, bridge>>

ConfirmBatch(v, n) ==
  /\ batchConfirms' = [batchConfirms EXCEPT ![n] = @ \cup {v}]
  /\ UNCHANGED <<valsets, batches, outgoing, valsetConfirms, bridge>>

\* Every place of the installed set whose member has confirmed counts once.
IsQuorum(confirms) ==
  SumFunctionOnSet(installed.powers,
                   {i \in DOMAIN installed.members : installed.members[i] \in confirms})
    > PowerThreshold

Pay(t, amount) == paid' = [paid EXCEPT ![t] = paid[t] + amount]

\* A set may come with a reward for the one who submits it.
Install(n) ==
  LET new == InjectiveValsets[n]
  IN  /\ n > installed.nonce
      /\ IsQuorum(valsetConfirms[n])
      /\ installed' = new
      /\ IF new.rewardToken \in ERC20
         THEN Pay(new.rewardToken, new.rewardAmount)
         ELSE UNCHANGED paid
      /\ UNCHANGED <<injective, executed, height>>

\* Of a token the bridge created it mints the amounts of a batch; of any other it
\* pays the amounts and the fees.
Execute(n) ==
  LET b == InjectiveBatches[n]
  IN  /\ n > executed[b.token]
      /\ height < b.timeout
      /\ IsQuorum(batchConfirms[n])
      /\ executed' = [executed EXCEPT ![b.token] = n]
      /\ Pay(b.token, IF b.token \in ERC20 THEN b.total + b.fee ELSE b.total)
      /\ UNCHANGED <<injective, installed, height>>

NextBlock ==
  /\ height' = height + 1
  /\ UNCHANGED <<injective, installed, executed, paid>>

Next ==
  \/ CreateValset
  \/ CreateBatch
  \/ Settle
  \/ \E v \in Validator, n \in 1..valsets : ConfirmValset(v, n)
  \/ \E v \in Validator, n \in outgoing : ConfirmBatch(v, n)
  \/ \E n \in 1..valsets : Install(n)
  \/ \E n \in outgoing : Execute(n)
  \/ NextBlock

Spec == Init /\ [][Next]_vars

=============================================================================
