------------------------------ MODULE EventLoop ------------------------------
(***************************************************************************)
(* gmuduo::EventLoop: one thread, the owner, runs loop(); the others hand  *)
(* it work with queueInLoop and runInLoop and stop it with quit().         *)
(*                                                                         *)
(* Every critical section of mutex_ and every access to an atomic that     *)
(* another thread can see is one action.  callpending_ is read and written *)
(* by the owner alone (queueInLoop short-circuits it for other threads),   *)
(* so its accesses are folded into the neighbouring step of the owner.     *)
(*                                                                         *)
(* User code runs on the owner in three windows (see UserCode): outside    *)
(* loop(), inside the handler of a user's channel, inside a queued task.   *)
(***************************************************************************)
EXTENDS Naturals, Sequences, FiniteSets, Functions

CONSTANTS
  Thread,          \* the threads other than the owner
  Task,            \* functors; each one is submitted at most once
  IO,              \* channels of user file descriptors
  PollTimesOut,    \* FALSE stands for setPollTime(-1): poll has no timeout
  QueuesOutside    \* may the owner call queueInLoop while outside loop()?

wakeupChannel == "wakeup"              \* the channel of the eventfd efd
Channel == IO \cup {wakeupChannel}

ASSUME EventLoopAssumption ==
  /\ wakeupChannel \notin IO
  /\ PollTimesOut \in BOOLEAN
  /\ QueuesOutside \in BOOLEAN

VARIABLES
  quited,          \* quited_
  callpending,     \* callpending_
  penddingTask,    \* penddingTask_, guarded by mutex_
  tasks,           \* doPendingTask's local vector: what is left of the batch
  ready,           \* channels whose descriptor is readable right now
  activeChannels,  \* activeChannels_ not yet handled in this iteration
  pc,              \* where the owner is
  waking,          \* threads between their store and their write to efd
  submitted,       \* history: tasks in the order of their emplace_back
  ran,             \* history: queued tasks in the order they were started
  inlined          \* history: tasks runInLoop called directly

loopVars == <<quited, callpending, penddingTask, tasks, ready, activeChannels,
              pc, waking, submitted, ran, inlined>>

(* "outside": not in loop(); "check": at the while condition; "poll": in   *)
(* epoll_wait; "dispatch": iterating activeChannels_; "handler": in user   *)
(* code of a channel; "run": iterating tasks; "task": in a task.           *)
Location == {"outside", "check", "poll", "dispatch", "handler", "run", "task"}

TypeOK ==
  /\ quited \in BOOLEAN
  /\ callpending \in BOOLEAN
  /\ penddingTask \in Seq(Task)
  /\ tasks \in Seq(Task)
  /\ ready \subseteq Channel
  /\ activeChannels \subseteq Channel
  /\ pc \in Location
  /\ waking \subseteq Thread
  /\ submitted \in Seq(Task)
  /\ ran \in Seq(Task)
  /\ inlined \subseteq Task

Init ==
  /\ quited = FALSE
  /\ callpending = FALSE
  /\ penddingTask = <<>>
  /\ tasks = <<>>
  /\ ready = {}
  /\ activeChannels = {}
  /\ pc = "outside"
  /\ waking = {}
  /\ submitted = <<>>
  /\ ran = <<>>
  /\ inlined = {}

-----------------------------------------------------------------------------
(* The owner inside loop().                                                *)

(* loop() is entered: quited_ is reset, whatever was stored in it before.  *)
StartLoop ==
  /\ pc = "outside"
  /\ quited' = FALSE
  /\ pc' = "check"
  /\ UNCHANGED <<callpending, penddingTask, tasks, ready, activeChannels,
                 waking, submitted, ran, inlined>>

(* while (!quited_)                                                        *)
CheckQuit ==
  /\ pc = "check"
  /\ pc' = IF quited THEN "outside" ELSE "poll"
  /\ UNCHANGED <<quited, callpending, penddingTask, tasks, ready,
                 activeChannels, waking, submitted, ran, inlined>>

(* epoll_wait returns with the readable descriptors, or empty-handed when  *)
(* the timeout expires.  Readiness is a snapshot: activeChannels_ is not   *)
(* told of what becomes readable afterwards.                               *)
Poll ==
  /\ pc = "poll"
  /\ ready # {} \/ PollTimesOut
  /\ activeChannels' = ready
  /\ pc' = "dispatch"
  /\ UNCHANGED <<quited, callpending, penddingTask, tasks, ready, waking,
                 submitted, ran, inlined>>

(* Mutant: the wakeup channel is handled once more.                        *)
HandleEfdReadTwice ==
  /\ pc = "dispatch"
  /\ wakeupChannel \in activeChannels
  /\ ready' = ready \ {wakeupChannel}
  /\ UNCHANGED <<quited, callpending, penddingTask, tasks, activeChannels, pc,
                 waking, submitted, ran, inlined>>

(* The wakeup channel's turn: read() clears the eventfd's counter.         *)
HandleEfdRead ==
  /\ pc = "dispatch"
  /\ wakeupChannel \in activeChannels
  /\ activeChannels' = activeChannels \ {wakeupChannel}
  /\ ready' = ready \ {wakeupChannel}
  /\ UNCHANGED <<quited, callpending, penddingTask, tasks, pc, waking,
                 submitted, ran, inlined>>

(* A user's channel's turn: its callback consumes the input.               *)
HandleIO(c) ==
  /\ pc = "dispatch"
  /\ c \in activeChannels
  /\ activeChannels' = activeChannels \ {c}
  /\ ready' = ready \ {c}
  /\ pc' = "handler"
  /\ UNCHANGED <<quited, callpending, penddingTask, tasks, waking, submitted,
                 ran, inlined>>

EndHandler ==
  /\ pc = "handler"
  /\ pc' = "dispatch"
  /\ UNCHANGED <<quited, callpending, penddingTask, tasks, ready,
                 activeChannels, waking, submitted, ran, inlined>>

(* doPendingTask sets callpending_ and swaps the whole vector out under    *)
(* the mutex.                                                              *)
SwapTasks ==
  /\ pc = "dispatch"
  /\ activeChannels = {}
  /\ callpending' = TRUE
  /\ tasks' = penddingTask
  /\ penddingTask' = <<>>
  /\ pc' = "run"
  /\ UNCHANGED <<quited, ready, activeChannels, waking, submitted, ran, inlined>>

RunTask ==
  /\ pc = "run"
  /\ tasks # <<>>
  /\ tasks' = Tail(tasks)
  /\ ran' = Append(ran, Head(tasks))
  /\ pc' = "task"
  /\ UNCHANGED <<quited, callpending, penddingTask, ready, activeChannels,
                 waking, submitted, inlined>>

EndTask ==
  /\ pc = "task"
  /\ pc' = "run"
  /\ UNCHANGED <<quited, callpending, penddingTask, tasks, ready,
                 activeChannels, waking, submitted, ran, inlined>>

(* Mutant: penddingTask_ is cleared after the batch, with what has come    *)
(* meanwhile.                                                              *)
EndPendingTaskClears ==
  /\ pc = "run"
  /\ tasks = <<>>
  /\ callpending' = FALSE
  /\ penddingTask' = <<>>
  /\ pc' = "check"
  /\ UNCHANGED <<quited, tasks, ready, activeChannels, waking, submitted, ran,
                 inlined>>

EndPendingTask ==
  /\ pc = "run"
  /\ tasks = <<>>
  /\ callpending' = FALSE
  /\ pc' = "check"
  /\ UNCHANGED <<quited, penddingTask, tasks, ready, activeChannels, waking,
                 submitted, ran, inlined>>

-----------------------------------------------------------------------------
(* User code on the owner.                                                 *)

UserCode == pc \in {"outside", "handler", "task"}

Fresh(t) == t \notin inlined /\ t \notin Range(submitted)

(* queueInLoop on the owner: the eventfd is written only while             *)
(* doPendingTask is active.                                                *)
OwnerQueueInLoop(t) ==
  /\ UserCode
  /\ pc = "outside" => QueuesOutside
  /\ Fresh(t)
  /\ penddingTask' = Append(penddingTask, t)
  /\ submitted' = Append(submitted, t)
  /\ ready' = IF callpending THEN ready \cup {wakeupChannel} ELSE ready
  /\ UNCHANGED <<quited, callpending, tasks, activeChannels, pc, waking, ran,
                 inlined>>

(* runInLoop on the owner is a plain call: it overtakes what is queued.    *)
OwnerRunInLoop(t) ==
  /\ UserCode
  /\ Fresh(t)
  /\ inlined' = inlined \cup {t}
  /\ UNCHANGED <<quited, callpending, penddingTask, tasks, ready,
                 activeChannels, pc, waking, submitted, ran>>

(* quit on the owner: no wakeup is needed, the owner is not in poll.       *)
OwnerQuit ==
  /\ UserCode
  /\ quited' = TRUE
  /\ UNCHANGED <<callpending, penddingTask, tasks, ready, activeChannels, pc,
                 waking, submitted, ran, inlined>>

-----------------------------------------------------------------------------
(* The other threads and the environment.                                  *)

(* Mutant: queueInLoop of another thread does not wake the loop.           *)
QueueInLoopSilent(th, t) ==
  /\ th \notin waking
  /\ Fresh(t)
  /\ penddingTask' = Append(penddingTask, t)
  /\ submitted' = Append(submitted, t)
  /\ UNCHANGED <<quited, callpending, tasks, ready, activeChannels, pc, waking,
                 ran, inlined>>

(* queueInLoop, and runInLoop which forwards to it: emplace_back under the *)
(* mutex.  The write to efd is a separate step, Wakeup.                    *)
QueueInLoop(th, t) ==
  /\ th \notin waking
  /\ Fresh(t)
  /\ penddingTask' = Append(penddingTask, t)
  /\ submitted' = Append(submitted, t)
  /\ waking' = waking \cup {th}
  /\ UNCHANGED <<quited, callpending, tasks, ready, activeChannels, pc, ran,
                 inlined>>

(* Mutant: quit of another thread does not wake the loop.                  *)
QuitSilent(th) ==
  /\ th \notin waking
  /\ quited' = TRUE
  /\ UNCHANGED <<callpending, penddingTask, tasks, ready, activeChannels, pc,
                 waking, submitted, ran, inlined>>

Quit(th) ==
  /\ th \notin waking
  /\ quited' = TRUE
  /\ waking' = waking \cup {th}
  /\ UNCHANGED <<callpending, penddingTask, tasks, ready, activeChannels, pc,
                 submitted, ran, inlined>>

(* write() makes the eventfd readable.                                     *)
Wakeup(th) ==
  /\ th \in waking
  /\ waking' = waking \ {th}
  /\ ready' = ready \cup {wakeupChannel}
  /\ UNCHANGED <<quited, callpending, penddingTask, tasks, activeChannels, pc,
                 submitted, ran, inlined>>

(* Input arrives on a user's descriptor.                                   *)
InputArrives(c) ==
  /\ c \notin ready
  /\ ready' = ready \cup {c}
  /\ UNCHANGED <<quited, callpending, penddingTask, tasks, activeChannels, pc,
                 waking, submitted, ran, inlined>>

-----------------------------------------------------------------------------

(* One step of loop() once it has been entered.                            *)
LoopStep ==
  \/ CheckQuit \/ Poll \/ HandleEfdRead \/ EndHandler
  \/ \E c \in IO : HandleIO(c)
  \/ SwapTasks \/ RunTask \/ EndTask \/ EndPendingTask

OwnerStep ==
  \/ LoopStep
  \/ OwnerQuit
  \/ \E t \in Task : OwnerQueueInLoop(t) \/ OwnerRunInLoop(t)

ThreadStep(th) ==
  \/ \E t \in Task : QueueInLoop(th, t)
  \/ Quit(th)
  \/ Wakeup(th)

Next ==
  \/ StartLoop
  \/ OwnerStep
  \/ \E th \in Thread : ThreadStep(th)
  \/ \E c \in IO : InputArrives(c)

(* The owner keeps executing loop(), user code returns, and a thread that  *)
(* is inside queueInLoop or quit finishes the call.  Nobody is obliged to  *)
(* call anything: not loop(), not quit(), not queueInLoop.                 *)
Fairness ==
  /\ WF_loopVars(LoopStep)
  /\ \A th \in Thread : WF_loopVars(Wakeup(th))

Safety == Init /\ [][Next]_loopVars

Spec == Safety /\ Fairness

-----------------------------------------------------------------------------
(* Properties.                                                             *)

(* Every task queueInLoop accepted is in exactly one place and in order:   *)
(* started, in the batch being run, or pending.  Nothing is lost between   *)
(* the emplace_back of another thread and the swap, nothing runs twice.    *)
InOrderExactlyOnce == ran \o tasks \o penddingTask = submitted

(* No lost wakeup: the owner is never blocked in epoll_wait while a task   *)
(* or a quit request waits for it, unless the eventfd is readable or a     *)
(* thread is about to write it.  Tasks the owner queued before loop() get  *)
(* no wakeup and are excluded: they rely on the poll timeout.              *)
NoSleepOnWork ==
  /\ pc = "poll"
  /\ quited \/ (penddingTask # <<>> /\ ~QueuesOutside)
  => wakeupChannel \in ready \/ waking # {}

(* handleEfdRead aborts the process (LOG_ERROR) when read() fails, and the *)
(* eventfd is non-blocking: the eventfd must still be readable when its    *)
(* turn in activeChannels_ comes.                                          *)
EfdReadSucceeds == wakeupChannel \in activeChannels => wakeupChannel \in ready

(* A quit() that finds the owner inside loop() ends loop().                *)
QuitEndsRunningLoop == quited /\ pc # "outside" ~> pc = "outside"

(* A queued task is started unless loop() returns first.                   *)
QueuedTaskRuns ==
  \A t \in Task : t \in Range(submitted) ~> t \in Range(ran) \/ pc = "outside"

TQ == INSTANCE TaskQueue

(* EventLoop implements the promise of TaskQueue.                          *)
ImplementsTaskQueue == TQ!Spec

=============================================================================
