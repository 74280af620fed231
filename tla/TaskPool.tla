------------------------------ MODULE TaskPool ------------------------------
(***************************************************************************)
(* The delayed tasks of task_pool.h as operators on a sequence.  Under     *)
(* _task_mutex every call is one step.  The time a task is due is kept     *)
(* relative to now: .in is how long it still has to wait.  The last task   *)
(* of the sequence is due first ("smaller time goes to the back").         *)
(*                                                                         *)
(* A task's id is the address of the task: it is the id of another task    *)
(* once the first one is gone and its memory is used again.                *)
(***************************************************************************)
EXTENDS Integers, Sequences, SequencesExt

(* Where a task with this time goes: in front of the first earlier one.    *)
Earlier(timers, in) == {i \in DOMAIN timers : timers[i].in < in}
Position(timers, in) ==
  IF Earlier(timers, in) = {} THEN Len(timers) + 1 ELSE Min(Earlier(timers, in))

(* Mutant: a new task always goes to the back.                             *)
PushDelayedLastBug(timers, task) == Append(timers, task)

PushDelayed(timers, task) == InsertAt(timers, Position(timers, task.in), task)

(* The first task with this id goes.                                       *)
Find(timers, id) == {i \in DOMAIN timers : timers[i].id = id}
Cancel(timers, id) ==
  IF Find(timers, id) = {} THEN timers ELSE RemoveAt(timers, Min(Find(timers, id)))

Due(timers) == timers # <<>> /\ timers[Len(timers)].in <= 0

Passed(timers) ==
  [i \in DOMAIN timers |-> [timers[i] EXCEPT !.in = IF @ = 0 THEN 0 ELSE @ - 1]]

(* pop() takes the last task, so the last one must be the first due.       *)
InOrder(timers) == \A i, j \in DOMAIN timers : i < j => timers[i].in >= timers[j].in

(* An id is that of one task.                                              *)
OneEach(timers) == \A i, j \in DOMAIN timers : timers[i].id = timers[j].id => i = j
=============================================================================
