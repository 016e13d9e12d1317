---------------------------- MODULE Orchestrator ----------------------------
(***************************************************************************)
(* The loops of an orchestrator process and how it ends                    *)
(* (orchestrator/orchestrator.go, loops/const_time_loop.go, relay of       *)
(* relayer.go, cmd/peggo/orchestrator.go).                                 *)
(*                                                                         *)
(* The loops of the process are one ParanoidGroup, the two tasks of an     *)
(* iteration of the relayer loop another one.  What an iteration does is   *)
(* left open here: it succeeds, or it returns an error, a recovered panic  *)
(* included.                                                               *)
(*                                                                         *)
(* An operator that stands right before another with the same parameters   *)
(* and is used nowhere is a faulty variant of it: PROJECT.json names the   *)
(* property each one breaks.                                               *)
(***************************************************************************)
EXTENDS Naturals

CONSTANTS
  ValidatorLoop,   \* the loops that only a validator runs, the oracle and the signer
  errChCap,
  maxAttempts

ASSUME OrchestratorAssumption == errChCap \in Nat /\ maxAttempts \in Nat \ {0}

VARIABLES
  RelayerMode, RelayValsets, RelayBatches,   \* the configuration
  loops,       \* the group of the loops
  relay,       \* the group of the relayer's current or last iteration
  relaying,    \* the relayer loop is in an iteration
  attempts,    \* relay task -> failed attempts of retry
  cancelled,   \* ctx.Done()
  process      \* "up", or "failed" after os.Exit(1)

Loop == ValidatorLoop \cup {"batchCreator", "relayer"}
RelayTask == {"relayValset", "relayTokenBatch"}

L == INSTANCE ParanoidGroup WITH Task <- Loop, group <- loops
R == INSTANCE ParanoidGroup WITH Task <- RelayTask, group <- relay

config == <<RelayerMode, RelayValsets, RelayBatches>>
vars == <<config, loops, relay, relaying, attempts, cancelled, process>>

Init ==
  /\ RelayerMode \in BOOLEAN /\ RelayValsets \in BOOLEAN /\ RelayBatches \in BOOLEAN
  /\ L!Init
  /\ R!Init
  /\ relaying = FALSE
  /\ attempts = [t \in RelayTask |-> 0]
  /\ cancelled = FALSE
  /\ process = "up"

-----------------------------------------------------------------------------
(* Run.                                                                    *)

startValidatorMode == Loop

startRelayerMode == {"batchCreator", "relayer"}

LoopsOfMode == IF RelayerMode THEN startRelayerMode ELSE startValidatorMode

Run ==
  /\ L!GoAndWait(LoopsOfMode) \/ L!Wait
  /\ UNCHANGED <<config, relay, relaying, attempts, cancelled, process>>

\* Only an error ends the process; when Run returns nil it goes on to wait for
\* a signal.
ExitOnError ==
  /\ loops.wait = "errs"
  /\ process' = "failed"
  /\ UNCHANGED <<config, loops, relay, relaying, attempts, cancelled>>

-----------------------------------------------------------------------------
(* The loops.                                                              *)

Running(l) == loops.task[l] = "running"
Idle == Running("relayer") /\ ~relaying
Relaying == Running("relayer") /\ relaying

noRelay == ~RelayValsets /\ ~RelayBatches

runRelayerNoRelay ==
  /\ Idle
  /\ noRelay
  /\ L!Finish("relayer")
  /\ UNCHANGED <<config, relay, relaying, attempts, cancelled, process>>

\* The timer of the relayer loop fires.  Once the context is cancelled the loop
\* may still see the timer first.
StartIteration ==
  /\ Idle
  /\ ~noRelay
  /\ relaying' = TRUE
  /\ relay' = R!NewGroup
  /\ attempts' = [t \in RelayTask |-> 0]
  /\ UNCHANGED <<config, loops, cancelled, process>>

LoopCancelled(l) ==
  /\ Running(l)
  /\ l = "relayer" => ~relaying
  /\ cancelled
  /\ L!Finish(l)
  /\ UNCHANGED <<config, relay, relaying, attempts, cancelled, process>>

\* An iteration returns an error or panics, and RunLoop returns the error.  The
\* relayer's can do so before it has started its tasks (getLatestEthValset).
\* An iteration of another loop that succeeds changes nothing here.
IterationFails(l) ==
  /\ Running(l)
  /\ l = "relayer" => relaying /\ R!Added = {}
  /\ L!Fail(l)
  /\ UNCHANGED <<config, relay, relaying, attempts, cancelled, process>>

-----------------------------------------------------------------------------
(* An iteration of the relayer loop.                                       *)

RelayTasks ==
  {t \in RelayTask : IF t = "relayValset" THEN RelayValsets ELSE RelayBatches}

relayTasksAndWait ==
  /\ Relaying
  /\ R!GoAndWait(RelayTasks) \/ R!Wait
  /\ UNCHANGED <<config, loops, relaying, attempts, cancelled, process>>

AttemptSucceeds(t) ==
  /\ R!Finish(t)
  /\ UNCHANGED <<config, loops, relaying, attempts, cancelled, process>>

AttemptFailsOnceMore(t) ==
  /\ relay.task[t] = "running"
  /\ \/ /\ attempts[t] < maxAttempts
        /\ attempts' = [attempts EXCEPT ![t] = @ + 1]
        /\ UNCHANGED relay
     \/ /\ attempts[t] = maxAttempts \/ cancelled
        /\ R!Fail(t)
        /\ UNCHANGED attempts
  /\ UNCHANGED <<config, loops, relaying, cancelled, process>>

\* retry gives up after the last attempt, or when the context is cancelled.
AttemptFails(t) ==
  /\ relay.task[t] = "running"
  /\ \/ /\ attempts[t] + 1 < maxAttempts
        /\ attempts' = [attempts EXCEPT ![t] = @ + 1]
        /\ UNCHANGED relay
     \/ /\ attempts[t] + 1 = maxAttempts \/ cancelled
        /\ R!Fail(t)
        /\ UNCHANGED attempts
  /\ UNCHANGED <<config, loops, relaying, cancelled, process>>

relayReturnsEarly ==
  /\ Relaying
  /\ R!Waiting
  /\ \E t \in RelayTasks : relay.task[t] = "done"
  /\ relaying' = FALSE
  /\ UNCHANGED <<config, loops, relay, attempts, cancelled, process>>

relayReturns ==
  /\ Relaying
  /\ \/ /\ relay.wait = "nil"
        /\ relaying' = FALSE
        /\ UNCHANGED loops
     \/ /\ relay.wait = "errs"
        /\ L!Fail("relayer")
        /\ UNCHANGED relaying
  /\ UNCHANGED <<config, relay, attempts, cancelled, process>>

\* What the goroutines of the groups do after their function has returned.
LeaveLoops ==
  /\ L!Leave
  /\ UNCHANGED <<config, relay, relaying, attempts, cancelled, process>>

LeaveRelay ==
  /\ R!Leave
  /\ UNCHANGED <<config, loops, relaying, attempts, cancelled, process>>

-----------------------------------------------------------------------------
(* A signal cancels the context.  The process then ends in due course:     *)
(* that it does is left out, which only leaves its loops more time.        *)

Cancel ==
  /\ ~cancelled
  /\ cancelled' = TRUE
  /\ UNCHANGED <<config, loops, relay, relaying, attempts, process>>

Up(A) == process = "up" /\ A

Next ==
  Up(\/ Run \/ ExitOnError
     \/ runRelayerNoRelay \/ StartIteration
     \/ \E l \in Loop : LoopCancelled(l) \/ IterationFails(l)
     \/ relayTasksAndWait \/ relayReturns
     \/ \E t \in RelayTask : AttemptSucceeds(t) \/ AttemptFails(t)
     \/ LeaveLoops \/ LeaveRelay
     \/ Cancel)

Spec == Init /\ [][Next]_vars

\* The runtime schedules every goroutine that can go on.  Nothing is assumed of
\* the iterations: one may hang for ever.
FairSpec ==
  /\ Spec
  /\ WF_vars(Up(Run \/ ExitOnError))
  /\ WF_vars(Up(relayTasksAndWait \/ relayReturns))
  /\ WF_vars(Up(LeaveLoops))
  /\ WF_vars(Up(LeaveRelay))

-----------------------------------------------------------------------------
(* Properties.                                                             *)

\* The types of the configuration, the groups and the relayer's iteration; retry
\* fails for good before maxAttempts attempts are counted.
TypeOK ==
  /\ RelayerMode \in BOOLEAN /\ RelayValsets \in BOOLEAN /\ RelayBatches \in BOOLEAN
  /\ L!TypeOK /\ R!TypeOK
  /\ relaying \in BOOLEAN
  /\ attempts \in [RelayTask -> 0..(maxAttempts - 1)]
  /\ cancelled \in BOOLEAN
  /\ process \in {"up", "failed"}

\* For both groups, Wait returns nil only when all tasks have ended, and errors
\* only of tasks that failed (wg.Wait before close in Wait).
WaitIsSound == L!NilMeansAllEnded /\ R!NilMeansAllEnded

\* An iteration of the relayer never runs next to a task of an earlier one, with
\* the older validator set that one has read: between iterations no relay task
\* is alive (pg.Wait in relay).
NoStrayRelayTask ==
  Idle => R!AllDone

\* A loop that ends with an error takes the process down, whatever the other
\* loops are doing and even if they hang, so that it can be restarted; unless
\* all of them have ended (Wait in startValidatorMode and startRelayerMode,
\* os.Exit(1) in orchestratorCmd).
FailureEndsProcess ==
  loops.failed # {} ~> (process # "up" \/ L!AllDone)

\* A relay task that fails for good ends its goroutine, and the relayer loop
\* unless both tasks have ended: no goroutine blocks on the error channel after
\* Wait has stopped to receive from it (the buffer of errCh).
FailedTaskEnds ==
  \A t \in RelayTask :
    t \in relay.failed ~> \/ process # "up"
                          \/ /\ relay.task[t] = "done"
                             /\ "relayer" \in loops.failed \/ R!AllDone

\* paranoid_group.go:48 says of Wait: "Wait returns an error if one or more
\* tasks failed, otherwise all tasks exited with no errors."
WaitReportsFailures ==
  /\ loops.wait = "nil" => loops.failed = {}
  /\ relay.wait = "nil" => relay.failed = {}

=============================================================================
