------------------------- MODULE OrchestratorProofs -------------------------
(***************************************************************************)
(* For any set of loops, any number of attempts and any size of the error  *)
(* channel: what Wait returns can be relied upon in both groups, and no    *)
(* task of the relayer outlives its iteration, unless the loop ends.       *)
(***************************************************************************)
EXTENDS Orchestrator, TLAPS

LP == INSTANCE ParanoidGroupProofs WITH Task <- Loop, group <- loops
RP == INSTANCE ParanoidGroupProofs WITH Task <- RelayTask, group <- relay

\* Both groups are sound, and between iterations the relayer's has ended.
GroupsInv ==
  /\ LP!GroupInv
  /\ RP!GroupInv
  /\ ~relaying => RP!AllDone

\* The start satisfies the invariant of both groups.
LEMMA GroupsInvInit == Init => GroupsInv
<1> SUFFICES ASSUME Init PROVE GroupsInv
  OBVIOUS
<1>1. LP!Init /\ RP!Init
  BY DEF Init, L!Init, L!NewGroup, R!Init, R!NewGroup, LP!Init, LP!NewGroup, RP!Init, RP!NewGroup
<1>2. LP!GroupInv /\ RP!GroupInv
  BY <1>1, LP!GroupInvInit, RP!GroupInvInit
<1>3. RP!AllDone
  BY <1>1 DEF RP!Init, RP!NewGroup, RP!AllDone, RP!Added
<1> QED
  BY <1>2, <1>3 DEF GroupsInv

\* What a group does by itself keeps it sound.
LEMMA LoopGroupSteps ==
  ASSUME LP!GroupInv
  PROVE  /\ L!GoAndWait(LoopsOfMode) => LP!GroupInv'
         /\ L!Wait => LP!GroupInv'
         /\ L!Leave => LP!GroupInv'
         /\ \A l \in Loop : L!Finish(l) \/ L!Fail(l) => LP!GroupInv'
<1>1. ASSUME L!GoAndWait(LoopsOfMode) PROVE LP!GroupInv'
  <2>1. LoopsOfMode \in SUBSET Loop
    BY DEF LoopsOfMode, startRelayerMode, startValidatorMode, Loop
  <2>2. LP!GoAndWait(LoopsOfMode)
    BY <1>1 DEF L!GoAndWait, LP!GoAndWait
  <2> QED
    BY <2>1, <2>2, LP!GoAndWaitKeeps
<1>2. ASSUME L!Wait PROVE LP!GroupInv'
  <2>1. LP!Wait
    BY <1>2 DEF L!Wait, L!ReceiveErr, L!ReceiveClosed, L!PollEmpty, L!Waiting,
                LP!Wait, LP!ReceiveErr, LP!ReceiveClosed, LP!PollEmpty, LP!Waiting
  <2> QED
    BY <2>1, LP!WaitKeeps
<1>3. ASSUME L!Leave PROVE LP!GroupInv'
  <2>1. CASE L!CloseErrCh
    <3>1. LP!CloseErrCh
      BY <2>1 DEF L!CloseErrCh, LP!CloseErrCh, L!AllDone, L!Added, LP!AllDone, LP!Added
    <3> QED
      BY <3>1, LP!CloseErrChKeeps
  <2>2. ASSUME NEW t \in Loop, L!SendErr(t) PROVE LP!GroupInv'
    BY <2>2, LP!SendErrKeeps DEF L!SendErr, LP!ErrSent
  <2>3. ASSUME NEW t \in Loop, L!Done(t) PROVE LP!GroupInv'
    <3>1. LP!Done(t)
      BY <2>3 DEF L!Done, LP!Done
    <3> QED
      BY <3>1, LP!DoneKeeps
  <2> QED
    BY <1>3, <2>1, <2>2, <2>3, Zenon DEF L!Leave
<1>4. ASSUME NEW l \in Loop, L!Finish(l) PROVE LP!GroupInv'
  <2>1. LP!Finish(l)
    BY <1>4 DEF L!Finish, LP!Finish
  <2> QED
    BY <2>1, LP!FinishKeeps
<1>5. ASSUME NEW l \in Loop, L!Fail(l) PROVE LP!GroupInv'
  <2>1. LP!Fail(l)
    BY <1>5 DEF L!Fail, LP!Fail
  <2> QED
    BY <2>1, LP!FailKeeps
<1> QED
  BY <1>1, <1>2, <1>3, <1>4, <1>5, Zenon

\* What the steps of the relay iteration do to its group.
LEMMA RelayGroupSteps ==
  ASSUME RP!GroupInv
  PROVE  /\ R!GoAndWait(RelayTasks) => RP!GroupInv'
         /\ R!Wait => RP!GroupInv'
         /\ R!Leave => RP!GroupInv'
         /\ \A t \in RelayTask : R!Finish(t) \/ R!Fail(t) => RP!GroupInv'
<1>1. ASSUME R!GoAndWait(RelayTasks) PROVE RP!GroupInv'
  <2>1. RelayTasks \in SUBSET RelayTask
    BY DEF RelayTasks
  <2>2. RP!GoAndWait(RelayTasks)
    BY <1>1 DEF R!GoAndWait, RP!GoAndWait
  <2> QED
    BY <2>1, <2>2, RP!GoAndWaitKeeps
<1>2. ASSUME R!Wait PROVE RP!GroupInv'
  <2>1. RP!Wait
    BY <1>2 DEF R!Wait, R!ReceiveErr, R!ReceiveClosed, R!PollEmpty, R!Waiting,
                RP!Wait, RP!ReceiveErr, RP!ReceiveClosed, RP!PollEmpty, RP!Waiting
  <2> QED
    BY <2>1, RP!WaitKeeps
<1>3. ASSUME R!Leave PROVE RP!GroupInv'
  <2>1. CASE R!CloseErrCh
    <3>1. RP!CloseErrCh
      BY <2>1 DEF R!CloseErrCh, RP!CloseErrCh, R!AllDone, R!Added, RP!AllDone, RP!Added
    <3> QED
      BY <3>1, RP!CloseErrChKeeps
  <2>2. ASSUME NEW t \in RelayTask, R!SendErr(t) PROVE RP!GroupInv'
    BY <2>2, RP!SendErrKeeps DEF R!SendErr, RP!ErrSent
  <2>3. ASSUME NEW t \in RelayTask, R!Done(t) PROVE RP!GroupInv'
    <3>1. RP!Done(t)
      BY <2>3 DEF R!Done, RP!Done
    <3> QED
      BY <3>1, RP!DoneKeeps
  <2> QED
    BY <1>3, <2>1, <2>2, <2>3, Zenon DEF R!Leave
<1>4. ASSUME NEW t \in RelayTask, R!Finish(t) PROVE RP!GroupInv'
  <2>1. RP!Finish(t)
    BY <1>4 DEF R!Finish, RP!Finish
  <2> QED
    BY <2>1, RP!FinishKeeps
<1>5. ASSUME NEW t \in RelayTask, R!Fail(t) PROVE RP!GroupInv'
  <2>1. RP!Fail(t)
    BY <1>5 DEF R!Fail, RP!Fail
  <2> QED
    BY <2>1, RP!FailKeeps
<1> QED
  BY <1>1, <1>2, <1>3, <1>4, <1>5, Zenon


\* Once all its tasks have ended, the relayer's group does nothing that revives one.
LEMMA AllDoneStays ==
  ASSUME RP!GroupInv, RP!AllDone, R!Leave
  PROVE  RP!AllDone'
<1>1. \A t \in RelayTask : relay.task[t] \in {"new", "done"}
  BY DEF RP!AllDone, RP!Added
<1>2. R!CloseErrCh
  BY <1>1 DEF R!Leave, R!SendErr, R!Done
<1>3. relay'.task = relay.task
  BY <1>2 DEF R!CloseErrCh, RP!GroupInv, RP!TypeOK
<1> QED
  BY <1>3 DEF RP!AllDone, RP!Added

\* Every step keeps the invariant of both groups.
LEMMA GroupsInvStep == GroupsInv /\ [Next]_vars => GroupsInv'
<1> SUFFICES ASSUME GroupsInv, [Next]_vars PROVE GroupsInv'
  OBVIOUS
<1>0. LP!GroupInv /\ RP!GroupInv /\ (~relaying => RP!AllDone)
  BY DEF GroupsInv
<1>a. ASSUME UNCHANGED loops PROVE LP!GroupInv'
  BY <1>0, <1>a DEF LP!GroupInv, LP!TypeOK, LP!NilMeansAllEnded, LP!AllDone, LP!Added
<1>b. ASSUME UNCHANGED relay PROVE RP!GroupInv' /\ RP!AllDone' = RP!AllDone
  BY <1>0, <1>b DEF RP!GroupInv, RP!TypeOK, RP!NilMeansAllEnded, RP!AllDone, RP!Added
\* A step of the loops' group alone.
<1>c. ASSUME LP!GroupInv', UNCHANGED <<relay, relaying>> PROVE GroupsInv'
  BY <1>0, <1>b, <1>c DEF GroupsInv
\* A step of the relayer's tasks alone.
<1>d. ASSUME UNCHANGED <<loops, relaying>>, RP!GroupInv', RP!AllDone => RP!AllDone'
      PROVE  GroupsInv'
  BY <1>0, <1>a, <1>d DEF GroupsInv
<1>1. CASE UNCHANGED vars
  BY <1>1, <1>a, <1>c DEF vars
<1>2. ASSUME Run PROVE GroupsInv'
  BY <1>0, <1>2, <1>c, LoopGroupSteps DEF Run
<1>3. ASSUME ExitOnError \/ Cancel PROVE GroupsInv'
  BY <1>3, <1>a, <1>c DEF ExitOnError, Cancel
<1>4. ASSUME runRelayerNoRelay PROVE GroupsInv'
  <2>1. "relayer" \in Loop
    BY DEF Loop
  <2> QED
    BY <1>0, <1>4, <1>c, <2>1, LoopGroupSteps DEF runRelayerNoRelay
<1>5. ASSUME StartIteration PROVE GroupsInv'
  <2>1. relay' = R!NewGroup /\ relaying' /\ UNCHANGED loops
    BY <1>5 DEF StartIteration
  <2>2. RP!Init'
    BY <2>1 DEF RP!Init, RP!NewGroup, R!NewGroup
  <2>3. RP!GroupInv'
    BY <2>2, RP!GroupInvInit, PTL
  <2> QED
    BY <2>1, <2>3, <1>a DEF GroupsInv
<1>6. ASSUME NEW l \in Loop, LoopCancelled(l) \/ IterationFails(l) PROVE GroupsInv'
  BY <1>0, <1>6, <1>c, LoopGroupSteps DEF LoopCancelled, IterationFails
<1>7. ASSUME relayTasksAndWait PROVE GroupsInv'
  <2>1. relaying' = relaying /\ relaying /\ UNCHANGED loops
    BY <1>7 DEF relayTasksAndWait, Relaying
  <2>2. RP!GroupInv'
    BY <1>0, <1>7, RelayGroupSteps DEF relayTasksAndWait
  <2> QED
    BY <2>1, <2>2, <1>a DEF GroupsInv
<1>8. ASSUME relayReturns PROVE GroupsInv'
  <2>1. CASE relay.wait = "nil"
    <3>1. UNCHANGED <<loops, relay>>
      BY <1>8, <2>1 DEF relayReturns
    <3>2. RP!AllDone
      BY <1>0, <2>1 DEF RP!GroupInv, RP!NilMeansAllEnded
    <3> QED
      BY <1>a, <1>b, <3>1, <3>2 DEF GroupsInv
  <2>2. CASE relay.wait # "nil"
    <3>1. L!Fail("relayer") /\ UNCHANGED <<relay, relaying>> /\ "relayer" \in Loop
      BY <1>8, <2>2 DEF relayReturns, Loop
    <3> QED
      BY <3>1, <1>0, <1>c, LoopGroupSteps
  <2> QED
    BY <2>1, <2>2
<1>9. ASSUME NEW t \in RelayTask, AttemptSucceeds(t) \/ AttemptFails(t) PROVE GroupsInv'
  <2>1. relay.task[t] = "running" /\ UNCHANGED <<loops, relaying>>
    BY <1>9 DEF AttemptSucceeds, AttemptFails, R!Finish
  <2>2. ~RP!AllDone
    BY <2>1 DEF RP!AllDone, RP!Added
  <2>3. RP!GroupInv'
    BY <1>0, <1>9, <1>b, RelayGroupSteps DEF AttemptSucceeds, AttemptFails
  <2> QED
    BY <2>1, <2>2, <2>3, <1>d
<1>10. ASSUME LeaveLoops PROVE GroupsInv'
  BY <1>0, <1>10, <1>c, LoopGroupSteps DEF LeaveLoops
<1>11. ASSUME LeaveRelay PROVE GroupsInv'
  <2>1. RP!GroupInv' /\ (RP!AllDone => RP!AllDone')
    BY <1>0, <1>11, RelayGroupSteps, AllDoneStays DEF LeaveRelay
  <2> QED
    BY <2>1, <1>11, <1>d DEF LeaveRelay
<1> QED
  BY <1>1, <1>2, <1>3, <1>4, <1>5, <1>6, <1>7, <1>8, <1>9, <1>10, <1>11, Zenon DEF Next, Up

\* Both groups are sound at all times, and between iterations the relayer's tasks
\* have ended (Wait in startValidatorMode, startRelayerMode and relay).
THEOREM GroupsInvariant == Spec => []GroupsInv
BY GroupsInvInit, GroupsInvStep, PTL DEF Spec

\* For both groups, Wait returns nil only when all tasks have ended, and errors
\* only of tasks that failed.
THEOREM WaitSoundInBothGroups == Spec => []WaitIsSound
<1>1. GroupsInv => WaitIsSound
  BY DEF GroupsInv, WaitIsSound, LP!GroupInv, RP!GroupInv, LP!NilMeansAllEnded, RP!NilMeansAllEnded,
         L!NilMeansAllEnded, R!NilMeansAllEnded, LP!AllDone, RP!AllDone, L!AllDone, R!AllDone,
         LP!Added, RP!Added, L!Added, R!Added
<1> QED
  BY <1>1, GroupsInvariant, PTL

\* Between two iterations of the relayer loop no relay task is alive.
THEOREM NoRelayTaskStrays == Spec => []NoStrayRelayTask
<1>1. GroupsInv => NoStrayRelayTask
  BY DEF GroupsInv, NoStrayRelayTask, Idle, RP!AllDone, R!AllDone, RP!Added, R!Added
<1> QED
  BY <1>1, GroupsInvariant, PTL

\* The types of what the groups do not hold.
IterationTypes ==
  /\ RelayerMode \in BOOLEAN /\ RelayValsets \in BOOLEAN /\ RelayBatches \in BOOLEAN
  /\ relaying \in BOOLEAN
  /\ attempts \in [RelayTask -> 0..(maxAttempts - 1)]
  /\ cancelled \in BOOLEAN
  /\ process \in {"up", "failed"}

\* Every step keeps those types.
LEMMA IterationTypesStep == IterationTypes /\ [Next]_vars => IterationTypes'
<1> SUFFICES ASSUME IterationTypes, [Next]_vars PROVE IterationTypes'
  OBVIOUS
<1>1. UNCHANGED config
  BY DEF Next, Up, vars, Run, ExitOnError, runRelayerNoRelay, StartIteration, LoopCancelled,
         IterationFails, relayTasksAndWait, relayReturns, AttemptSucceeds, AttemptFails,
         LeaveLoops, LeaveRelay, Cancel
<1>2. relaying' \in BOOLEAN
  BY DEF IterationTypes, Next, Up, vars, Run, ExitOnError, runRelayerNoRelay, StartIteration,
         LoopCancelled, IterationFails, relayTasksAndWait, relayReturns, AttemptSucceeds,
         AttemptFails, LeaveLoops, LeaveRelay, Cancel
<1>3. cancelled' \in BOOLEAN /\ process' \in {"up", "failed"}
  BY DEF IterationTypes, Next, Up, vars, Run, ExitOnError, runRelayerNoRelay, StartIteration,
         LoopCancelled, IterationFails, relayTasksAndWait, relayReturns, AttemptSucceeds,
         AttemptFails, LeaveLoops, LeaveRelay, Cancel
<1>4. \/ attempts' = attempts
      \/ attempts' = [t \in RelayTask |-> 0]
      \/ \E t \in RelayTask : /\ attempts[t] + 1 < maxAttempts
                              /\ attempts' = [attempts EXCEPT ![t] = @ + 1]
  BY DEF Next, Up, vars, Run, ExitOnError, runRelayerNoRelay, StartIteration, LoopCancelled,
         IterationFails, relayTasksAndWait, relayReturns, AttemptSucceeds, AttemptFails,
         LeaveLoops, LeaveRelay, Cancel
<1>5. attempts' \in [RelayTask -> 0..(maxAttempts - 1)]
  BY <1>4, OrchestratorAssumption DEF IterationTypes
<1> QED
  BY <1>1, <1>2, <1>3, <1>5 DEF IterationTypes, config

\* The types of the configuration, of both groups and of the relayer's iteration;
\* retry gives up before maxAttempts failures are counted (TypeOK).
THEOREM OrchestratorTypeCorrect == Spec => []TypeOK
<1>1. GroupsInv /\ IterationTypes => TypeOK
  BY DEF GroupsInv, LP!GroupInv, RP!GroupInv, LP!TypeOK, RP!TypeOK, LP!TaskState,
         RP!TaskState, L!TypeOK, R!TypeOK, L!TaskState, R!TaskState, IterationTypes, TypeOK
<1>2. Init => IterationTypes
  <2>1. 0 \in 0..(maxAttempts - 1)
    BY OrchestratorAssumption
  <2> QED
    BY <2>1 DEF Init, IterationTypes
<1> QED
  BY <1>1, <1>2, IterationTypesStep, GroupsInvariant, PTL DEF Spec

=============================================================================
