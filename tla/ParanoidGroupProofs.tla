------------------------ MODULE ParanoidGroupProofs -------------------------
(***************************************************************************)
(* For any number of tasks: Wait returns nil only when all tasks have      *)
(* ended, and errors only of tasks that failed.                            *)
(***************************************************************************)
EXTENDS ParanoidGroup, TLAPS

\* NilMeansAllEnded, with what makes it inductive: the channel is closed only
\* after the tasks, and holds errors of failed tasks only; no task is added once
\* Wait has been called.
GroupInv ==
  /\ TypeOK
  /\ NilMeansAllEnded
  /\ group.closed => AllDone
  /\ group.errCh \cup group.errs \subseteq group.failed
  /\ \A t \in Task : group.task[t] = "failing" => t \in group.failed
  /\ group.wait = "no" => Added = {} /\ ~group.closed

\* A new group satisfies the invariant.
LEMMA GroupInvInit == Init => GroupInv
<1> SUFFICES ASSUME Init PROVE GroupInv
  OBVIOUS
<1>1. TypeOK
  BY DEF Init, NewGroup, TypeOK, TaskState
<1>2. Added = {}
  BY DEF Init, NewGroup, Added
<1> QED
  BY <1>1, <1>2 DEF Init, NewGroup, GroupInv, NilMeansAllEnded, AllDone

\* The tasks that have ended stay so, and none is added after Wait was called.
LEMMA TaskStepKeeps ==
  ASSUME GroupInv, NEW t \in Task, NEW st \in TaskState \ {"new"},
         group.task[t] \notin {"new", "done"},
         NEW failed \in SUBSET Task, group.failed \subseteq failed,
         st = "failing" => t \in failed,
         NEW errCh \in SUBSET Task, errCh \subseteq failed,
         group' = [group EXCEPT !.task[t] = st, !.failed = failed, !.errCh = errCh]
  PROVE  GroupInv'
<1>1. TypeOK'
  BY DEF GroupInv, TypeOK
<1>2. ~AllDone /\ group.wait # "no"
  BY DEF GroupInv, AllDone, Added
<1>3. /\ group'.wait = group.wait /\ group'.closed = group.closed /\ group'.errs = group.errs
      /\ group'.failed = failed /\ group'.errCh = errCh
  BY DEF GroupInv, TypeOK
<1>4. group.wait # "nil" /\ ~group.closed
  BY <1>2 DEF GroupInv, NilMeansAllEnded
<1>5. NilMeansAllEnded'
  BY <1>3, <1>4 DEF GroupInv, NilMeansAllEnded
<1>6. group'.errCh \cup group'.errs \subseteq group'.failed
  BY <1>3 DEF GroupInv
<1>7. \A u \in Task : group'.task[u] = "failing" => u \in group'.failed
  BY <1>3 DEF GroupInv, TypeOK
<1> QED
  BY <1>1, <1>2, <1>3, <1>4, <1>5, <1>6, <1>7 DEF GroupInv

\* A task that ends without an error reports nothing.
LEMMA FinishKeeps ==
  ASSUME GroupInv, NEW t \in Task, Finish(t)
  PROVE  GroupInv'
<1>1. group.failed \in SUBSET Task /\ group.errCh \in SUBSET Task
      /\ group.errCh \subseteq group.failed
  BY DEF GroupInv, TypeOK
<1>2. group' = [group EXCEPT !.task[t] = "leaving", !.failed = group.failed, !.errCh = group.errCh]
  BY DEF Finish, GroupInv, TypeOK
<1>3. group.task[t] \notin {"new", "done"} /\ "leaving" \in TaskState \ {"new"}
  BY DEF Finish, TaskState
<1> QED
  BY <1>1, <1>2, <1>3, TaskStepKeeps

\* A failing task has yet to report.
LEMMA FailKeeps ==
  ASSUME GroupInv, NEW t \in Task, Fail(t)
  PROVE  GroupInv'
<1>1. group.failed \cup {t} \in SUBSET Task /\ group.errCh \in SUBSET Task
      /\ group.errCh \subseteq group.failed \cup {t}
  BY DEF GroupInv, TypeOK
<1>2. group' = [group EXCEPT !.task[t] = "failing", !.failed = group.failed \cup {t},
                            !.errCh = group.errCh]
  BY DEF Fail, GroupInv, TypeOK
<1>3. group.task[t] \notin {"new", "done"} /\ "failing" \in TaskState \ {"new"}
  BY DEF Fail, TaskState
<1>4. group.failed \subseteq group.failed \cup {t}
  OBVIOUS
<1> QED
  BY <1>1, <1>2, <1>3, <1>4, TaskStepKeeps

\* Go starts a task that has not ended.
LEMMA GoAndWaitKeeps ==
  ASSUME GroupInv, NEW tasks \in SUBSET Task, GoAndWait(tasks)
  PROVE  GroupInv'
<1> DEFINE task == [t \in Task |-> IF t \in tasks THEN "running" ELSE group.task[t]]
<1>1. group' = [group EXCEPT !.wait = "polling", !.task = task]
  BY DEF GoAndWait
<1>2. task \in [Task -> TaskState]
  BY DEF GroupInv, TypeOK, TaskState
<1> HIDE DEF task
<1>3. TypeOK'
  BY <1>1, <1>2 DEF GroupInv, TypeOK
<1>4. group'.wait = "polling" /\ group'.closed = group.closed /\ group'.errCh = group.errCh
      /\ group'.errs = group.errs /\ group'.failed = group.failed
  BY <1>1 DEF GroupInv, TypeOK
<1>5. ~group.closed
  <2>1. group.wait = "no"
    BY DEF GoAndWait
  <2> QED
    BY <2>1 DEF GroupInv
<1>6. \A t \in Task : group'.task[t] = "failing" => t \in group'.failed
  <2>1. group'.task = task
    BY <1>1 DEF GroupInv, TypeOK
  <2> QED
    BY <1>4, <2>1 DEF task, GroupInv
<1> QED
  BY <1>3, <1>4, <1>5, <1>6 DEF GroupInv, NilMeansAllEnded

\* SendErr, whatever the size of the channel.
ErrSent(t) ==
  /\ group.task[t] = "failing"
  /\ group' = [group EXCEPT !.task[t] = "leaving", !.errCh = @ \cup {t}]

\* A report is in the channel until Wait takes it.
LEMMA SendErrKeeps ==
  ASSUME GroupInv, NEW t \in Task, ErrSent(t)
  PROVE  GroupInv'
<1>1. group.failed \in SUBSET Task /\ group.errCh \cup {t} \in SUBSET Task
      /\ group.errCh \cup {t} \subseteq group.failed
  BY DEF ErrSent, GroupInv, TypeOK
<1>2. group' = [group EXCEPT !.task[t] = "leaving", !.failed = group.failed,
                            !.errCh = group.errCh \cup {t}]
  BY DEF ErrSent, GroupInv, TypeOK
<1>3. group.task[t] \notin {"new", "done"} /\ "leaving" \in TaskState \ {"new"}
  BY DEF ErrSent, TaskState
<1> QED
  BY <1>1, <1>2, <1>3, TaskStepKeeps

\* A task is done after its report.
LEMMA DoneKeeps ==
  ASSUME GroupInv, NEW t \in Task, Done(t)
  PROVE  GroupInv'
<1>1. group.failed \in SUBSET Task /\ group.errCh \in SUBSET Task
      /\ group.errCh \subseteq group.failed
  BY DEF GroupInv, TypeOK
<1>2. group' = [group EXCEPT !.task[t] = "done", !.failed = group.failed, !.errCh = group.errCh]
  BY DEF Done, GroupInv, TypeOK
<1>3. group.task[t] \notin {"new", "done"} /\ "done" \in TaskState \ {"new"}
  BY DEF Done, TaskState
<1> QED
  BY <1>1, <1>2, <1>3, TaskStepKeeps

\* Steps of Wait and of the goroutine it starts leave the tasks as they are.
LEMMA WaitStepKeeps ==
  ASSUME GroupInv, TypeOK', group'.task = group.task, group'.failed = group.failed,
         group'.closed => AllDone,
         group'.errCh \cup group'.errs \subseteq group.errCh \cup group.errs,
         group'.wait # "no",
         group'.wait = "nil" => AllDone,
         group'.wait = "errs" => group'.errs # {}
  PROVE  GroupInv'
<1>1. AllDone' = AllDone
  BY DEF AllDone, Added
<1>2. group'.errCh \cup group'.errs \subseteq group'.failed
  BY DEF GroupInv
<1> QED
  BY <1>1, <1>2 DEF GroupInv, NilMeansAllEnded

\* The channel is closed when all tasks are done.
LEMMA CloseErrChKeeps ==
  ASSUME GroupInv, CloseErrCh
  PROVE  GroupInv'
<1>1. TypeOK' /\ group'.task = group.task /\ group'.failed = group.failed
      /\ group'.errCh = group.errCh /\ group'.errs = group.errs /\ group'.wait = group.wait
  BY DEF CloseErrCh, GroupInv, TypeOK
<1> QED
  BY <1>1, WaitStepKeeps DEF CloseErrCh, GroupInv, NilMeansAllEnded

\* Wait returns nil from a closed channel only.
LEMMA WaitKeeps ==
  ASSUME GroupInv, Wait
  PROVE  GroupInv'
<1>1. ASSUME ReceiveErr PROVE GroupInv'
  <2>1. PICK t \in group.errCh :
          group' = [group EXCEPT !.errCh = @ \ {t}, !.errs = @ \cup {t}]
    BY <1>1 DEF ReceiveErr
  <2>2. TypeOK' /\ group'.task = group.task /\ group'.failed = group.failed
        /\ group'.closed = group.closed /\ group'.wait = group.wait
        /\ group'.errCh = group.errCh \ {t} /\ group'.errs = group.errs \cup {t}
    BY <2>1 DEF GroupInv, TypeOK
  <2>3. group.wait = "polling" /\ group'.errCh \cup group'.errs \subseteq group.errCh \cup group.errs
    BY <1>1, <2>2 DEF ReceiveErr, Waiting
  <2> QED
    BY <2>2, <2>3, WaitStepKeeps DEF GroupInv
<1>2. ASSUME ReceiveClosed PROVE GroupInv'
  <2>1. TypeOK' /\ group'.task = group.task /\ group'.failed = group.failed
        /\ group'.errCh = group.errCh /\ group'.errs = group.errs
        /\ group'.closed = group.closed /\ group.closed /\ group'.wait = "nil"
    BY <1>2 DEF ReceiveClosed, GroupInv, TypeOK
  <2> QED
    BY <2>1, WaitStepKeeps DEF GroupInv
<1>3. ASSUME PollEmpty PROVE GroupInv'
  <2>1. TypeOK' /\ group'.task = group.task /\ group'.failed = group.failed
        /\ group'.errCh = group.errCh /\ group'.errs = group.errs /\ group.errs # {}
        /\ group'.closed = group.closed /\ group'.wait = "errs"
    BY <1>3 DEF PollEmpty, GroupInv, TypeOK
  <2> QED
    BY <2>1, WaitStepKeeps DEF GroupInv
<1> QED
  BY <1>1, <1>2, <1>3 DEF Wait

\* For any number of tasks, Wait returns nil only when every task has ended, and
\* otherwise the errors of tasks that failed.
THEOREM WaitSound == Spec => []NilMeansAllEnded
<1>1. GroupInv /\ [Next]_group => GroupInv'
  <2> SUFFICES ASSUME GroupInv, [Next]_group PROVE GroupInv'
    OBVIOUS
  <2>1. CASE UNCHANGED group
    BY <2>1 DEF GroupInv, TypeOK, NilMeansAllEnded, AllDone, Added
  <2>2. CASE Leave
    <3>1. ASSUME NEW t \in Task, SendErr(t) PROVE GroupInv'
      BY <3>1, SendErrKeeps DEF SendErr, ErrSent
    <3> QED
      BY <2>2, <3>1, CloseErrChKeeps, DoneKeeps, Zenon DEF Leave
  <2> QED
    BY <2>1, <2>2, GoAndWaitKeeps, FinishKeeps, FailKeeps, WaitKeeps, Zenon DEF Next
<1>2. GroupInv => NilMeansAllEnded
  BY DEF GroupInv
<1> QED
  BY <1>1, <1>2, GroupInvInit, PTL DEF Spec

=============================================================================
