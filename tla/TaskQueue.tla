------------------------------ MODULE TaskQueue ------------------------------
(***************************************************************************)
(* What queueInLoop promises its callers, with no threads, batches, mutex  *)
(* or wakeups in sight: tasks are executed one at a time, in the order in  *)
(* which they were accepted, and each of them at most once.                *)
(*                                                                         *)
(* EventLoop.tla is shown to implement this specification.                 *)
(***************************************************************************)
EXTENDS Naturals, Sequences

CONSTANT Task      \* the functors handed to queueInLoop

VARIABLES
  submitted,       \* tasks in the order in which the queue accepted them
  ran              \* tasks in the order in which their execution began

Init ==
  /\ submitted = <<>>
  /\ ran = <<>>

(* A caller hands over task t.                                             *)
Submit(t) ==
  /\ submitted' = Append(submitted, t)
  /\ UNCHANGED ran

(* The oldest task not yet executed is executed.                           *)
Execute ==
  /\ Len(ran) < Len(submitted)
  /\ ran' = Append(ran, submitted[Len(ran) + 1])
  /\ UNCHANGED submitted

Next ==
  \/ \E t \in Task : Submit(t)
  \/ Execute

Spec == Init /\ [][Next]_<<submitted, ran>>

=============================================================================
