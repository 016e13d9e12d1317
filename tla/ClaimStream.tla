----------------------------- MODULE ClaimStream ----------------------------
(***************************************************************************)
(* What an orchestrator promises the Peggy module of Injective about the   *)
(* claims of its validator: they are the final events of the bridge        *)
(* contract, one by one in the order of their nonces.  Any two validators  *)
(* therefore agree on every nonce that both have claimed.                  *)
(***************************************************************************)
EXTENDS Naturals, Sequences

VARIABLES
  finalized,   \* the events of the contract that can not be replaced any more
  claimed      \* the claims of the validator that Injective has executed

Init ==
  /\ finalized = {}
  /\ claimed = <<>>

\* Events become final for ever, and after all the events with lower nonces.
Finalize ==
  /\ finalized \subseteq finalized'
  /\ \A e \in finalized' \ finalized : \A f \in finalized : f.nonce < e.nonce
  /\ UNCHANGED claimed

Claim ==
  /\ \E e \in finalized :
       /\ e.nonce = Len(claimed) + 1
       /\ claimed' = Append(claimed, e)
  /\ UNCHANGED finalized

Next == Finalize \/ Claim

Spec == Init /\ [][Next]_<<finalized, claimed>>

=============================================================================
