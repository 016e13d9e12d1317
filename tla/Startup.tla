------------------------------ MODULE Startup -------------------------------
(***************************************************************************)
(* What happens before the loops of module Orchestrator run: the commands  *)
(* "peggo orchestrator" (cmd/peggo/orchestrator.go) and "peggo tx          *)
(* register-eth-key" (cmd/peggo/tx.go), which read the flags, load the     *)
(* keys (cmd/peggo/keys.go, orchestrator/cosmos/keyring.go,                *)
(* orchestrator/ethereum/keystore), connect to both networks and find out  *)
(* whether the Ethereum address is registered for a validator.             *)
(*                                                                         *)
(* One step is one call the command makes that may end it.  An operator    *)
(* starts the commands one after the other, each time with any flags.  A   *)
(* key stands for the address it controls.                                 *)
(***************************************************************************)

CONSTANTS
  Key,
  Keystore,      \* the keys in the directory given by --eth-keystore-dir
  CosmosKeyring, \* the keys in the directory given by --cosmos-keyring-dir
  CosmosLedger,  \* the ones of them that are references to a Ledger
  None,          \* an empty flag, a missing key, the zero address, nil
  Garbage        \* a flag that is no address

VARIABLES
  command,
  flags,
  pc,
  cosmosKey,         \* the key of the Injective account
  ethKeyFromAddress,
  signerFn,          \* the key it signs with
  relayerMode,
  delegateKeys       \* the Ethereum addresses registered on Injective

keys == <<cosmosKey, ethKeyFromAddress, signerFn>>
vars == <<command, flags, pc, keys, relayerMode, delegateKeys>>

Flags ==
  [cosmosFrom: Key \cup {None, Garbage}, cosmosPrivKey: Key \cup {None},
   cosmosUseLedger: BOOLEAN,
   ethFrom: Key \cup {None, Garbage}, ethPrivKey: Key \cup {None, Garbage},
   ethKeystoreDir: BOOLEAN, ethUseLedger: BOOLEAN]

Init ==
  /\ command = None /\ flags = None
  /\ pc = "down"
  /\ cosmosKey = None /\ ethKeyFromAddress = None /\ signerFn = None
  /\ relayerMode = FALSE
  /\ delegateKeys \in SUBSET Key

Exit ==
  /\ command' = None /\ flags' = None
  /\ pc' = "down"
  /\ cosmosKey' = None /\ ethKeyFromAddress' = None /\ signerFn' = None
  /\ relayerMode' = FALSE

\* A call that succeeds, or ends the process (orShutdown, log.Fatalln).
OrShutdown(step, next) ==
  /\ pc = step
  /\ \/ pc' = next /\ UNCHANGED <<command, flags, keys, relayerMode>>
     \/ Exit
  /\ UNCHANGED delegateKeys

-----------------------------------------------------------------------------
(* Keys.                                                                   *)

nil == "nil"
failure == "failure"

\* errors.Wrap of github.com/pkg/errors: nil stays nil.
Wrap(err) == err

\* A from flag that is no address names a key.
newInMemoryKeyring(f) ==
  IF f.cosmosUseLedger \/ f.cosmosFrom \in Key \ {f.cosmosPrivKey}
  THEN None ELSE f.cosmosPrivKey

\* Here it is the name of the key that it finds.
newKeyringFromDir(f, named) ==
  LET key == IF f.cosmosFrom = Garbage THEN named ELSE f.cosmosFrom
  IN  IF key \in CosmosKeyring /\ (key \in CosmosLedger => f.cosmosUseLedger)
      THEN key ELSE None

NewKeyring(f, named) ==
  IF f.cosmosPrivKey # None THEN newInMemoryKeyring(f) ELSE newKeyringFromDir(f, named)

HexToAddress(from) == IF from = Garbage THEN None ELSE from

Keys(address) == [address |-> address, signer |-> address, err |-> nil]
NoKeys(err) == [address |-> None, signer |-> None, err |-> err]

\* No call has failed when the from address turns out to be another one, so there
\* is no error to wrap.
fromPrivKey(f) ==
  CASE f.ethPrivKey = Garbage -> NoKeys(Wrap(failure))
    [] f.ethPrivKey # Garbage /\ f.ethFrom \notin {None, f.ethPrivKey} -> NoKeys(Wrap(nil))
    [] OTHER -> Keys(f.ethPrivKey)

\* Nor when the from address is missing.  The passphrase may be wrong, too.
fromKeystore(f, opens) ==
  CASE HexToAddress(f.ethFrom) = None -> NoKeys(Wrap(nil))
    [] HexToAddress(f.ethFrom) # None /\ ~(f.ethFrom \in Keystore /\ opens) -> NoKeys(failure)
    [] OTHER -> Keys(f.ethFrom)

\* Whether the Ledger has the account shows when it is to sign.
fromLedger(f, connects) ==
  CASE HexToAddress(f.ethFrom) = None -> NoKeys(Wrap(nil))
    [] HexToAddress(f.ethFrom) # None /\ ~connects -> NoKeys(failure)
    [] OTHER -> Keys(f.ethFrom)

initEthereumAccountsManager(f, works) ==
  CASE f.ethUseLedger -> fromLedger(f, works)
    [] ~f.ethUseLedger /\ f.ethPrivKey # None -> fromPrivKey(f)
    [] ~f.ethUseLedger /\ f.ethPrivKey = None /\ f.ethKeystoreDir -> fromKeystore(f, works)
    [] OTHER -> NoKeys(failure)

-----------------------------------------------------------------------------
(* Both commands.                                                          *)

Start(c, f) ==
  /\ pc = "down"
  /\ command' = c
  /\ flags' = f
  /\ pc' = "ledger"
  /\ UNCHANGED <<keys, relayerMode, delegateKeys>>

\* Only the orchestrator insists on signing without a Ledger.
checkLedger ==
  /\ pc = "ledger"
  /\ IF command = "orchestrator" /\ (flags.cosmosUseLedger \/ flags.ethUseLedger)
     THEN Exit
     ELSE pc' = "keyring" /\ UNCHANGED <<command, flags, keys, relayerMode>>
  /\ UNCHANGED delegateKeys

initKeyring ==
  /\ pc = "keyring"
  /\ \E named \in CosmosKeyring \cup {None} :
       IF NewKeyring(flags, named) = None
       THEN Exit
       ELSE /\ cosmosKey' = NewKeyring(flags, named)
            /\ pc' = "ethKeys"
            /\ UNCHANGED <<command, flags, ethKeyFromAddress, signerFn, relayerMode>>
  /\ UNCHANGED delegateKeys

initEthKeys ==
  /\ pc = "ethKeys"
  /\ \E works \in BOOLEAN :
       LET got == initEthereumAccountsManager(flags, works)
       IN  IF got.err # nil
           THEN Exit
           ELSE /\ ethKeyFromAddress' = got.address
                /\ signerFn' = got.signer
                /\ pc' = IF command = "orchestrator" THEN "network" ELSE "confirm"
                /\ UNCHANGED <<command, flags, cosmosKey, relayerMode>>
  /\ UNCHANGED delegateKeys

awaitConnection ==
  OrShutdown("network", IF command = "orchestrator" THEN "params" ELSE "register")

-----------------------------------------------------------------------------
(* register-eth-key.                                                       *)

stdinConfirm == OrShutdown("confirm", "network")

\* Injective takes the message or refuses it; the command ends either way.
UpdatePeggyOrchestratorAddresses ==
  /\ pc = "register"
  /\ \/ delegateKeys' = delegateKeys \cup {ethKeyFromAddress}
     \/ UNCHANGED delegateKeys
  /\ Exit

-----------------------------------------------------------------------------
(* orchestrator.                                                           *)

PeggyParams == OrShutdown("params", "ethNetwork")

NewEthNetwork == OrShutdown("ethNetwork", "mode")

\* An address that is not registered and a query that fails look the same.
HasRegisteredOrchestrator ==
  /\ pc = "mode"
  /\ pc' = "durations"
  /\ relayerMode' \in IF ethKeyFromAddress \in delegateKeys THEN BOOLEAN ELSE {TRUE}
  /\ UNCHANGED <<command, flags, keys, delegateKeys>>

ParseDurations == OrShutdown("durations", "running")

\* The process is stopped, or one of its loops fails.
Stop ==
  /\ pc = "running"
  /\ Exit
  /\ UNCHANGED delegateKeys

Next ==
  \/ \E c \in {"orchestrator", "register-eth-key"}, f \in Flags : Start(c, f)
  \/ checkLedger
  \/ initKeyring
  \/ initEthKeys
  \/ awaitConnection
  \/ stdinConfirm
  \/ UpdatePeggyOrchestratorAddresses
  \/ PeggyParams
  \/ NewEthNetwork
  \/ HasRegisteredOrchestrator
  \/ ParseDurations
  \/ Stop

Spec == Init /\ [][Next]_vars

-----------------------------------------------------------------------------
(* Properties.                                                             *)

\* A process that got as far as running its loops has the Ethereum account that
\* --eth-from asks for, and signs with its key (initEthereumAccountsManager, whose
\* errors end orchestratorCmd).
RunsWithEthFrom ==
  pc = "running" /\ flags.ethFrom # None =>
    ethKeyFromAddress = flags.ethFrom /\ signerFn = flags.ethFrom

=============================================================================
