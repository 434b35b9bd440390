--------------------------- MODULE EventLoopProofs ---------------------------
(***************************************************************************)
(* Proofs about EventLoop for every set of threads, tasks and channels.    *)
(***************************************************************************)
EXTENDS EventLoop, SequenceTheorems, TLAPS

(* The strengthening that makes the properties of EventLoop inductive.     *)

(* Somebody has seen to it that epoll_wait returns.                        *)
WakeupOnItsWay == wakeupChannel \in ready \/ waking # {}

(* The owner's local data agree with the place it has reached.             *)
OwnerLocals ==
  /\ callpending <=> pc \in {"run", "task"}
  /\ pc \notin {"run", "task"} => tasks = <<>>
  /\ pc \notin {"dispatch", "handler"} => activeChannels = {}

(* Outside the dispatch of channels - where doPendingTask is still to come *)
(* in this iteration - pending work has a wakeup on its way.               *)
PendingHasWakeup ==
  /\ pc \notin {"dispatch", "handler"}
  /\ penddingTask # <<>>
  /\ ~QueuesOutside
  => WakeupOnItsWay

QuitHasWakeup == pc = "poll" /\ quited => WakeupOnItsWay

IInv ==
  /\ TypeOK
  /\ OwnerLocals
  /\ InOrderExactlyOnce
  /\ EfdReadSucceeds
  /\ PendingHasWakeup
  /\ QuitHasWakeup

-----------------------------------------------------------------------------
(* Sequences.                                                              *)

(* Starting the head of a batch leaves the concatenation unchanged.        *)
LEMMA MoveHead ==
  ASSUME NEW S, NEW r \in Seq(S), NEW t \in Seq(S), t # <<>>
  PROVE  Append(r, Head(t)) \o Tail(t) = r \o t
<1>1. Head(t) \in S /\ Tail(t) \in Seq(S) /\ Len(t) \in Nat \ {0}
  BY HeadTailProperties, EmptySeq
<1> DEFINE u == Append(r, Head(t)) \o Tail(t)
           v == r \o t
<1>2. u \in Seq(S) /\ v \in Seq(S)
  BY <1>1
<1>3. Len(u) = Len(v)
  BY <1>1
<1>4. ASSUME NEW i \in 1 .. Len(u) PROVE u[i] = v[i]
  BY <1>1
<1>5. QED
  BY <1>2, <1>3, <1>4, SeqEqual

(* The head of a batch is the first submitted task not yet started.        *)
LEMMA HeadIsNext ==
  ASSUME NEW S, NEW r \in Seq(S), NEW t \in Seq(S), NEW p \in Seq(S), t # <<>>
  PROVE  /\ Len(r) < Len(r \o t \o p)
         /\ (r \o t \o p)[Len(r) + 1] = Head(t)
<1>1. Len(t) \in Nat \ {0}
  BY EmptySeq
<1>2. QED
  BY <1>1

(* A task appended to the pending vector ends the concatenation.           *)
LEMMA AppendAssociates ==
  ASSUME NEW S, NEW q \in Seq(S), NEW p \in Seq(S), NEW e \in S
  PROVE  q \o Append(p, e) = Append(q \o p, e)
<1> DEFINE u == q \o Append(p, e)
           v == Append(q \o p, e)
<1>1. u \in Seq(S) /\ v \in Seq(S) /\ Len(u) = Len(v)
  OBVIOUS
<1>2. ASSUME NEW i \in 1 .. Len(u) PROVE u[i] = v[i]
  OBVIOUS
<1>3. QED
  BY <1>1, <1>2, SeqEqual

-----------------------------------------------------------------------------
(* Type correctness.                                                       *)

LEMMA InitTyped == Init => TypeOK
<1> SUFFICES ASSUME Init PROVE TypeOK
  OBVIOUS
<1>1. /\ penddingTask \in Seq(Task) /\ tasks \in Seq(Task)
      /\ submitted \in Seq(Task) /\ ran \in Seq(Task)
  BY EmptySeq DEF Init
<1>2. QED
  BY <1>1 DEF Init, TypeOK, Location

(* The members of an EventLoop keep their types whatever its owner, other  *)
(* threads and descriptors do: the owner is always at a known place of     *)
(* loop(), and the queues hold tasks.                                      *)
THEOREM TypeInvariant == Safety => []TypeOK
<1>1. Init => TypeOK
  BY InitTyped
<1>2. TypeOK /\ [Next]_loopVars => TypeOK'
  <2> SUFFICES ASSUME TypeOK, [Next]_loopVars PROVE TypeOK'
    OBVIOUS
  <2> USE DEF TypeOK, Location, Channel
  <2>1. CASE StartLoop
    BY <2>1 DEF StartLoop
  <2>2. CASE CheckQuit
    BY <2>2 DEF CheckQuit
  <2>3. CASE Poll
    BY <2>3 DEF Poll
  <2>4. CASE HandleEfdRead
    BY <2>4 DEF HandleEfdRead
  <2>5. CASE EndHandler
    BY <2>5 DEF EndHandler
  <2>6. CASE SwapTasks
    BY <2>6 DEF SwapTasks
  <2>7. CASE RunTask
    BY <2>7, HeadTailProperties DEF RunTask
  <2>8. CASE EndTask
    BY <2>8 DEF EndTask
  <2>9. CASE EndPendingTask
    BY <2>9 DEF EndPendingTask
  <2>10. CASE OwnerQuit
    BY <2>10 DEF OwnerQuit
  <2>11. ASSUME NEW c \in IO, HandleIO(c) PROVE TypeOK'
    BY <2>11 DEF HandleIO
  <2>12. ASSUME NEW t \in Task, OwnerQueueInLoop(t) PROVE TypeOK'
    BY <2>12 DEF OwnerQueueInLoop
  <2>13. ASSUME NEW t \in Task, OwnerRunInLoop(t) PROVE TypeOK'
    BY <2>13 DEF OwnerRunInLoop
  <2>14. ASSUME NEW th \in Thread, NEW t \in Task, QueueInLoop(th, t) PROVE TypeOK'
    BY <2>14 DEF QueueInLoop
  <2>15. ASSUME NEW th \in Thread, Quit(th) PROVE TypeOK'
    BY <2>15 DEF Quit
  <2>16. ASSUME NEW th \in Thread, Wakeup(th) PROVE TypeOK'
    BY <2>16 DEF Wakeup
  <2>17. ASSUME NEW c \in IO, InputArrives(c) PROVE TypeOK'
    BY <2>17 DEF InputArrives
  <2>18. CASE UNCHANGED loopVars
    BY <2>18 DEF loopVars
  <2>19. QED
    BY <2>1, <2>2, <2>3, <2>4, <2>5, <2>6, <2>7, <2>8, <2>9, <2>10, <2>11, <2>12, <2>13, <2>14, <2>15, <2>16, <2>17, <2>18
       DEF Next, OwnerStep, LoopStep, ThreadStep
<1>3. QED
  BY <1>1, <1>2, PTL DEF Safety

-----------------------------------------------------------------------------
(* The inductive invariant.  The history conjunct is kept apart: only the  *)
(* actions that move tasks touch it, and it needs facts about sequences.   *)

LEMMA HistoryPreserved ==
  ASSUME TypeOK, InOrderExactlyOnce, OwnerLocals, [Next]_loopVars
  PROVE  InOrderExactlyOnce'
<1> USE DEF InOrderExactlyOnce
<1>1. CASE UNCHANGED <<ran, tasks, penddingTask, submitted>>
  BY <1>1
<1>2. CASE SwapTasks
  <2>1. tasks = <<>> /\ tasks' = penddingTask /\ penddingTask' = <<>>
    BY <1>2 DEF SwapTasks, OwnerLocals
  <2>2. ran \o <<>> \o penddingTask = ran \o penddingTask \o <<>>
    BY ConcatEmptySeq, ConcatProperties DEF TypeOK
  <2>3. QED
    BY <1>2, <2>1, <2>2 DEF SwapTasks
<1>3. CASE RunTask
  <2>1. ran' \o tasks' = ran \o tasks
    BY <1>3, MoveHead DEF RunTask, TypeOK
  <2>2. QED
    BY <1>3, <2>1 DEF RunTask
<1>4. ASSUME NEW t \in Task,
             penddingTask' = Append(penddingTask, t),
             submitted' = Append(submitted, t),
             UNCHANGED <<ran, tasks>>
      PROVE  InOrderExactlyOnce'
  <2>1. ran \o tasks \in Seq(Task) /\ penddingTask \in Seq(Task)
    BY DEF TypeOK
  <2>2. (ran \o tasks) \o Append(penddingTask, t)
          = Append((ran \o tasks) \o penddingTask, t)
    BY <2>1, AppendAssociates
  <2>3. QED
    BY <1>4, <2>2
<1>5. QED
  BY <1>1, <1>2, <1>3, <1>4
     DEF Next, OwnerStep, LoopStep, ThreadStep, loopVars, StartLoop, CheckQuit,
         Poll, HandleEfdRead, HandleIO, EndHandler, EndTask, EndPendingTask,
         OwnerQueueInLoop, OwnerRunInLoop, OwnerQuit, QueueInLoop, Quit, Wakeup,
         InputArrives

Control ==
  OwnerLocals /\ EfdReadSucceeds /\ PendingHasWakeup /\ QuitHasWakeup

LEMMA ControlPreserved ==
  ASSUME TypeOK, Control, [Next]_loopVars
  PROVE  Control'
<1> USE EventLoopAssumption
    DEF Control, OwnerLocals, EfdReadSucceeds, PendingHasWakeup, QuitHasWakeup,
        WakeupOnItsWay, TypeOK, Location
<1>1. CASE StartLoop
  BY <1>1 DEF StartLoop
<1>2. CASE CheckQuit
  BY <1>2 DEF CheckQuit
<1>3. CASE Poll
  BY <1>3 DEF Poll
<1>4. CASE HandleEfdRead
  BY <1>4 DEF HandleEfdRead
<1>5. CASE EndHandler
  BY <1>5 DEF EndHandler
<1>6. CASE SwapTasks
  BY <1>6 DEF SwapTasks
<1>7. CASE RunTask
  BY <1>7 DEF RunTask
<1>8. CASE EndTask
  BY <1>8 DEF EndTask
<1>9. CASE EndPendingTask
  BY <1>9 DEF EndPendingTask
<1>10. CASE OwnerQuit
  BY <1>10 DEF OwnerQuit, UserCode
<1>11. ASSUME NEW c \in IO, HandleIO(c) PROVE Control'
  BY <1>11 DEF HandleIO
<1>12. ASSUME NEW t \in Task, OwnerQueueInLoop(t) PROVE Control'
  BY <1>12 DEF OwnerQueueInLoop, UserCode
<1>13. ASSUME NEW t \in Task, OwnerRunInLoop(t) PROVE Control'
  BY <1>13 DEF OwnerRunInLoop
<1>14. ASSUME NEW th \in Thread, NEW t \in Task, QueueInLoop(th, t) PROVE Control'
  BY <1>14 DEF QueueInLoop
<1>15. ASSUME NEW th \in Thread, Quit(th) PROVE Control'
  BY <1>15 DEF Quit
<1>16. ASSUME NEW th \in Thread, Wakeup(th) PROVE Control'
  BY <1>16 DEF Wakeup
<1>17. ASSUME NEW c \in IO, InputArrives(c) PROVE Control'
  BY <1>17 DEF InputArrives
<1>18. CASE UNCHANGED loopVars
  BY <1>18 DEF loopVars
<1>19. QED
  BY <1>1, <1>2, <1>3, <1>4, <1>5, <1>6, <1>7, <1>8, <1>9,
     <1>10, <1>11, <1>12, <1>13, <1>14, <1>15, <1>16, <1>17, <1>18
     DEF Next, OwnerStep, LoopStep, ThreadStep

LEMMA Invariance == Safety => []IInv
<1>1. Init => IInv
  <2> SUFFICES ASSUME Init PROVE IInv
    OBVIOUS
  <2>1. TypeOK
    BY InitTyped
  <2>2. InOrderExactlyOnce
    BY <2>1, ConcatEmptySeq DEF Init, InOrderExactlyOnce, TypeOK
  <2>3. QED
    BY <2>1, <2>2
       DEF Init, IInv, OwnerLocals, EfdReadSucceeds, PendingHasWakeup,
           QuitHasWakeup
<1>2. TypeOK /\ TypeOK' /\ IInv /\ [Next]_loopVars => IInv'
  BY HistoryPreserved, ControlPreserved DEF IInv, Control
<1>3. QED
  BY <1>1, <1>2, TypeInvariant, PTL DEF Safety

-----------------------------------------------------------------------------
(* The theorems.                                                           *)

(* Tasks are executed in the order of their emplace_back, each one exactly *)
(* once: the swap of doPendingTask neither loses nor repeats any.          *)
THEOREM TasksInOrderExactlyOnce == Safety => []InOrderExactlyOnce
BY Invariance, PTL DEF IInv

(* queueInLoop and quit never leave the owner asleep in epoll_wait with    *)
(* nobody about to write the eventfd.                                      *)
THEOREM NoLostWakeup == Safety => []NoSleepOnWork
<1>1. IInv => NoSleepOnWork
  BY DEF IInv, PendingHasWakeup, QuitHasWakeup, WakeupOnItsWay, NoSleepOnWork
<1>2. QED
  BY <1>1, Invariance, PTL

(* handleEfdRead always finds the eventfd readable, so its abort is dead   *)
(* code.                                                                   *)
THEOREM HandleEfdReadNeverAborts == Safety => []EfdReadSucceeds
BY Invariance, PTL DEF IInv

(* Whatever the threads do, what callers observe is the queue of TaskQueue:*)
(* a task enters it at its emplace_back and leaves it when it is started.  *)
THEOREM Refinement == Safety => ImplementsTaskQueue
<1>1. Init => TQ!Init
  BY DEF Init, TQ!Init
<1>2. IInv /\ [Next]_loopVars => [TQ!Next]_<<submitted, ran>>
  <2> SUFFICES ASSUME IInv, Next PROVE TQ!Next \/ UNCHANGED <<submitted, ran>>
    BY DEF loopVars
  <2>1. CASE RunTask
    <3>1. /\ Len(ran) < Len(submitted)
          /\ submitted[Len(ran) + 1] = Head(tasks)
      BY <2>1, HeadIsNext DEF RunTask, IInv, TypeOK, InOrderExactlyOnce
    <3>2. TQ!Execute
      BY <2>1, <3>1 DEF RunTask, TQ!Execute
    <3>3. QED
      BY <3>2 DEF TQ!Next
  <2>2. ASSUME NEW t \in Task, submitted' = Append(submitted, t), UNCHANGED ran
        PROVE  TQ!Next
    BY <2>2 DEF TQ!Next, TQ!Submit
  <2>3. QED
    BY <2>1, <2>2
       DEF Next, OwnerStep, LoopStep, ThreadStep, StartLoop, CheckQuit, Poll,
           HandleEfdRead, HandleIO, EndHandler, SwapTasks, EndTask,
           EndPendingTask, OwnerQueueInLoop, OwnerRunInLoop, OwnerQuit,
           QueueInLoop, Quit, Wakeup, InputArrives
<1>3. QED
  BY <1>1, <1>2, Invariance, PTL DEF Safety, ImplementsTaskQueue, TQ!Spec

=============================================================================
