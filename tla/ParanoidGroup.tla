--------------------------- MODULE ParanoidGroup ----------------------------
(***************************************************************************)
(* A group of goroutines and the goroutine that waits for it               *)
(* (orchestrator/loops/paranoid_group.go).                                 *)
(*                                                                         *)
(* A task sends its error to a buffered channel and then leaves the wait   *)
(* group; a further goroutine closes the channel once all tasks have left; *)
(* Wait polls the channel.  A step is one operation on the channel or on   *)
(* the wait group.  A task sends at most one error, and Wait only collects *)
(* the errors, so the channel is a set.                                    *)
(*                                                                         *)
(* An operator that stands right before another with the same parameters   *)
(* and is used nowhere is a faulty variant of it: PROJECT.json names the   *)
(* property each one breaks.                                               *)
(***************************************************************************)
EXTENDS Naturals, FiniteSets

CONSTANTS
  Task,       \* the goroutines that can be added
  errChCap    \* buffer of the error channel

VARIABLE group

\* A task is new, running fn, failing (fn has returned an error that is not
\* sent yet), leaving (about to call wg.Done) or done.
TaskState == {"new", "running", "failing", "leaving", "done"}

NewGroup ==
  [task     |-> [t \in Task |-> "new"],
   errCh    |-> {},     \* the tasks whose errors are in the channel
   closed   |-> FALSE,
   wait     |-> "no",   \* "no", "polling", or what Wait has returned: "nil", "errs"
   errs     |-> {},     \* the tasks whose errors Wait has received
   failed   |-> {}]     \* history: the tasks whose fn returned an error

Added == {t \in Task : group.task[t] # "new"}
AllDone == \A t \in Added : group.task[t] = "done"
Waiting == group.wait = "polling"

-----------------------------------------------------------------------------

\* One goroutine adds the tasks one after the other and then waits; nothing a
\* task does before the last one is added differs from what it does afterwards.
GoAndWait(tasks) ==
  /\ group.wait = "no"
  /\ tasks # {}
  /\ group' = [group EXCEPT !.wait = "polling",
                           !.task = [t \in Task |-> IF t \in tasks THEN "running" ELSE @[t]]]

\* fn returns nil.
Finish(t) ==
  /\ group.task[t] = "running"
  /\ group' = [group EXCEPT !.task[t] = "leaving"]

\* fn returns an error.
Fail(t) ==
  /\ group.task[t] = "running"
  /\ group' = [group EXCEPT !.task[t] = "failing", !.failed = @ \cup {t}]

SendErrUnbuffered(t) ==
  /\ group.task[t] = "failing"
  /\ Waiting
  /\ group' = [group EXCEPT !.task[t] = "leaving", !.errCh = @ \cup {t}]

SendErr(t) ==
  /\ group.task[t] = "failing"
  /\ Cardinality(group.errCh) < errChCap
  /\ group' = [group EXCEPT !.task[t] = "leaving", !.errCh = @ \cup {t}]

Done(t) ==
  /\ group.task[t] = "leaving"
  /\ group' = [group EXCEPT !.task[t] = "done"]

\* The goroutine that Wait starts, which outlives Wait.
CloseErrChAnyTime ==
  /\ group.wait # "no"
  /\ ~group.closed
  /\ group' = [group EXCEPT !.closed = TRUE]

CloseErrCh ==
  /\ group.wait # "no"
  /\ ~group.closed
  /\ AllDone
  /\ group' = [group EXCEPT !.closed = TRUE]

ReceiveErr ==
  /\ Waiting
  /\ \E t \in group.errCh :
       group' = [group EXCEPT !.errCh = @ \ {t}, !.errs = @ \cup {t}]

\* The channel is drained and closed, whether errors have been received or not.
ReceiveClosed ==
  /\ Waiting
  /\ group.errCh = {}
  /\ group.closed
  /\ group' = [group EXCEPT !.wait = "nil"]

PollEmptyNeverReturns ==
  /\ Waiting
  /\ group.errCh = {}
  /\ ~group.closed
  /\ group.errs # {}
  /\ UNCHANGED group

\* The default branch with an error in hand; without one it only sleeps.
PollEmpty ==
  /\ Waiting
  /\ group.errCh = {}
  /\ ~group.closed
  /\ group.errs # {}
  /\ group' = [group EXCEPT !.wait = "errs"]

Wait == ReceiveErr \/ ReceiveClosed \/ PollEmpty

\* What the group does by itself once fn has returned.
Leave == CloseErrCh \/ \E t \in Task : SendErr(t) \/ Done(t)

Init == group = NewGroup

Next ==
  \/ \E tasks \in SUBSET Task : GoAndWait(tasks)
  \/ \E t \in Task : Finish(t) \/ Fail(t)
  \/ Wait
  \/ Leave

Spec == Init /\ [][Next]_group

-----------------------------------------------------------------------------
(* Properties.                                                             *)

\* The types of the group.
TypeOK ==
  group \in [task   : [Task -> TaskState],
             errCh  : SUBSET Task,
             closed : BOOLEAN,
             wait   : {"no", "polling", "nil", "errs"},
             errs   : SUBSET Task,
             failed : SUBSET Task]

\* Wait returns nil only when every task has ended and every error it received
\* is the error of a task; so whoever goes on after a nil result never does so
\* next to a task of the group (wg.Wait before close in Wait).
NilMeansAllEnded ==
  /\ group.wait = "nil" => AllDone
  /\ group.wait = "errs" => group.errs # {} /\ group.errs \subseteq group.failed

=============================================================================
