------------------------------ MODULE MCPeggy -------------------------------
(***************************************************************************)
(* A small instance of Peggy.                                              *)
(***************************************************************************)
EXTENDS Peggy

CONSTANTS v1, v2, v3, usdt, inj

\* Validator sets: members and powers are in the order the contract hashes.
\* With a threshold of 2, v1 and one other validator approve under the first
\* set, any two under the second; no three of the last set can.
MCVS(nonce, members, powers, amount, token) ==
  [nonce |-> nonce, members |-> members, powers |-> powers,
   rewardAmount |-> amount, rewardToken |-> token]

MCInitialValset == MCVS(0, <<v1, v2, v3>>, <<2, 1, 1>>, 0, NoAddress)

MCValset ==
  {MCInitialValset,
   MCVS(1, <<v1, v2, v3>>, <<2, 2, 2>>, 1, usdt),
   MCVS(2, <<v2, v3>>, <<2, 1>>, 0, NoAddress),
   MCVS(3, <<v1, v2>>, <<1, 1>>, 0, NoAddress),
   MCVS(5, <<v1, v2>>, <<2, 2>>, 0, NoAddress)}

MCB(t, nonce, timeout, total, fee) ==
  [token |-> t, nonce |-> nonce, timeout |-> timeout, total |-> total, fee |-> fee]

MCBatch ==
  {MCB(usdt, 1, 1, 1, 0), MCB(usdt, 2, 2, 1, 1),
   MCB(inj, 1, 2, 1, 0), MCB(inj, 2, 2, 1, 1)}

=============================================================================
