----------------------------- MODULE MCRelayer ------------------------------
(***************************************************************************)
(* Small instances of Relayer.  The members of the first set are not in    *)
(* the order BridgeValidators.Sort gives, as a set chosen at deployment    *)
(* need not be.                                                            *)
(***************************************************************************)
EXTENDS Relayer

CONSTANT inj

MCVS(nonce, members, powers) ==
  [nonce |-> nonce, members |-> members, powers |-> powers,
   rewardAmount |-> 0, rewardToken |-> NoAddress]

\* Three validators, a total power of 3 and a threshold of 2: two of the three
\* validators of the first and the last set are enough for the 66 percent the
\* relayer asks for and not for the contract.
MCInitialValset == MCVS(0, <<3, 1, 2>>, <<1, 1, 1>>)

MCInjectiveValsets == <<MCVS(1, <<2, 1>>, <<2, 1>>), MCVS(2, <<1, 2, 3>>, <<1, 1, 1>>)>>

MCValset == {MCInitialValset, MCInjectiveValsets[1], MCInjectiveValsets[2]}

\* Two validators and a threshold of 2: one of the two can approve alone for the
\* contract, at the second place of the first set; the second set needs both, at
\* other places.  Of a totalPeggyPower of 5 (powers are rounded down when they
\* are normalised) the relayer asks for both, other relayers do not.
MCInitialPair == MCVS(0, <<2, 1>>, <<1, 3>>)

MCInjectivePairs == <<MCVS(1, <<1, 2>>, <<2, 2>>)>>

MCPair == {MCInitialPair, MCInjectivePairs[1]}

\* The first batch times out, the second does not within the bounds.
MCB(nonce, timeout) ==
  [token |-> inj, nonce |-> nonce, timeout |-> timeout, total |-> 1, fee |-> 0]

MCInjectiveBatches == <<MCB(1, 3), MCB(2, 20)>>

MCNoBatches == <<>>

MCBatch == {MCB(1, 3), MCB(2, 20)}

=============================================================================
