----------------------------- MODULE TimerQueue -----------------------------
(***************************************************************************)
(* gmuduo::TimerQueue inside the iterations of its EventLoop: timers in a  *)
(* set ordered by expiry, one timerfd armed for the first of them.         *)
(*                                                                         *)
(* Time is relative: when[t] is the time left until timer t expires, and   *)
(* Tick lowers it.  One tick stands for 100us, the least delay timeFromNow *)
(* gives the timerfd.                                                      *)
(*                                                                         *)
(* The functors that runInLoop and queueInLoop hand over from other        *)
(* threads form a FIFO queue, as EventLoop is shown to provide.            *)
(***************************************************************************)
EXTENDS Integers, Sequences, FiniteSets, Functions

CONSTANTS
  Timer,           \* each one is added at most once
  Repeating,       \* timers of runEvery; the others are of runAt, runAfter
  Delay,           \* delays given to runAt and runAfter
  Interval,        \* interval given to runEvery
  Slow,            \* may time pass while the loop is not blocked in poll?
  MaxLate,         \* bound: a timer overdue by more looks overdue by MaxLate
  MaxQueue         \* bound: functors of other threads pending at once

ASSUME TimerQueueAssumption ==
  /\ Repeating \subseteq Timer
  /\ Delay \subseteq Nat
  /\ Interval \in Nat \ {0}
  /\ Slow \in BOOLEAN
  /\ MaxLate \in Nat \ {0}
  /\ MaxQueue \in Nat

VARIABLES
  when,              \* time left until the expiry of each timer
  created,           \* timers whose TimerID has been returned
  timerSet,          \* timerSet_
  cancellingTimers,  \* cancellingTimers_
  expired,           \* handleRead's local vector, in its entirety
  due,               \* the timers of expired not run yet
  armed,             \* is the timerfd set, and has it not been read since it fired?
  deadline,          \* time left until it fires, or Never; it is readable at 0
  pc,                \* where the loop is
  pollAge,           \* time since the poll whose time handleRead is given
  timerActive,       \* is timerChannel_ in activeChannels_, not yet handled?
  functors,          \* penddingTask_: adds and cancels of other threads
  tasks,             \* what is left of the batch in doPendingTask
  asked,             \* bound: other threads cancel each timer once
  cancelled          \* history: where the last cancelTimer found the timer

timerVars == <<when, created, timerSet, cancellingTimers, expired, due, armed,
               deadline, pc, pollAge, timerActive, functors, tasks, asked,
               cancelled>>

Functor == [op : {"add", "cancel"}, timer : Timer]
Add(t) == [op |-> "add", timer |-> t]
Cancel(t) == [op |-> "cancel", timer |-> t]

(* A deadline the program does not live to see: no count of ticks.         *)
Never == -100

TypeOK ==
  /\ when \in [Timer -> Int]
  /\ created \subseteq Timer
  /\ timerSet \subseteq Timer
  /\ cancellingTimers \subseteq Timer
  /\ expired \subseteq Timer
  /\ due \subseteq Timer
  /\ armed \in BOOLEAN
  /\ deadline \in Nat \cup {Never}
  /\ pc \in {"poll", "dispatch", "batch", "callback", "tasks"}
  /\ pollAge \in Nat
  /\ timerActive \in BOOLEAN
  /\ functors \in Seq(Functor)
  /\ tasks \in Seq(Functor)
  /\ asked \subseteq Timer
  /\ cancelled \in [Timer -> {"no", "set", "batch", "queued"}]

Init ==
  /\ when = [t \in Timer |-> 0]
  /\ created = {}
  /\ timerSet = {}
  /\ cancellingTimers = {}
  /\ expired = {}
  /\ due = {}
  /\ armed = FALSE
  /\ deadline = 0
  /\ pc = "tasks"                  \* user code before loop()
  /\ pollAge = 0
  /\ timerActive = FALSE
  /\ functors = <<>>
  /\ tasks = <<>>
  /\ asked = {}
  /\ cancelled = [t \in Timer |-> "no"]

-----------------------------------------------------------------------------
(* The timerfd.                                                            *)

Readable == armed /\ deadline = 0

(* timeFromNow raises a delay below 100us to 100us.  The difference when - *)
(* now is one of uint64_t: for a time already past it wraps to some half a *)
(* million years, which it does not raise: the timerfd is set, for Never.  *)
Resettable(left) == left >= 0
(* Mutant: the delay is rounded down.                                      *)
timeFromNowShort(left) == left - 1

timeFromNow(left) == IF left < 1 THEN 1 ELSE left

resetTimerfd(left) ==
  /\ armed' = TRUE
  /\ deadline' = IF Resettable(left) THEN timeFromNow(left) ELSE Never

(* begin() of a set of timers whose expiries are given by w.               *)
IsFirst(t, S, w) == t \in S /\ \A u \in S : w[t] <= w[u]

-----------------------------------------------------------------------------
(* The functors, all of them run by the loop's thread.                     *)

(* Mutant: the timerfd is armed for the first timer only when there was    *)
(* none.                                                                   *)
InsertTimerUnarmed(t, w) ==
  /\ timerSet' = timerSet \cup {t}
  /\ IF timerSet = {} THEN resetTimerfd(w[t]) ELSE UNCHANGED <<armed, deadline>>

(* Mutant: inserting a timer does not arm the timerfd.                     *)
InsertTimerOnly(t, w) ==
  /\ timerSet' = timerSet \cup {t}
  /\ UNCHANGED <<armed, deadline>>

(* The functor of addTimer.                                                *)
InsertTimer(t, w) ==
  /\ timerSet' = timerSet \cup {t}
  /\ IF \A u \in timerSet : w[u] > w[t]
     THEN resetTimerfd(w[t])
     ELSE UNCHANGED <<armed, deadline>>

AddQueued(t) == Add(t) \in Range(functors) \cup Range(tasks)

(* Can the weak_ptr of a TimerID still be locked?                          *)
Alive(t) == t \in timerSet \cup expired \cup cancellingTimers \/ AddQueued(t)

(* cancelTimer                                                             *)
EraseTimer(t) ==
  /\ t \in timerSet
  /\ timerSet' = timerSet \ {t}
  /\ cancelled' = [cancelled EXCEPT ![t] = "set"]
  /\ UNCHANGED cancellingTimers

MarkCancelling(t) ==
  /\ t \notin timerSet
  /\ Alive(t)
  /\ cancellingTimers' = cancellingTimers \cup {t}
  /\ cancelled' = [cancelled EXCEPT ![t] = CASE t \in expired -> "batch"
                                             [] AddQueued(t) -> "queued"
                                             [] OTHER -> @]
  /\ UNCHANGED timerSet

IgnoreCancel(t) ==
  /\ ~Alive(t)
  /\ UNCHANGED <<timerSet, cancellingTimers, cancelled>>

CancelTimer(t) == EraseTimer(t) \/ MarkCancelling(t) \/ IgnoreCancel(t)

-----------------------------------------------------------------------------
(* One iteration of the loop.                                              *)

(* epoll_wait returns for the timerfd or the eventfd, or - PollOther - for *)
(* another channel or for the timeout.                                     *)
PollReturns ==
  /\ pc = "poll"
  /\ pc' = "dispatch"
  /\ pollAge' = 0
  /\ timerActive' = Readable
  /\ UNCHANGED <<asked, when, created, timerSet, cancellingTimers, expired,
                 due, armed, deadline, functors, tasks, cancelled>>

Poll == (Readable \/ functors # <<>>) /\ PollReturns
PollOther == PollReturns

(* Mutant: the timerfd being readable, the first timer is taken to be due. *)
HandleReadFirst ==
  /\ pc = "dispatch"
  /\ timerActive
  /\ timerActive' = FALSE
  /\ armed' = (armed /\ deadline # 0)
  /\ expired' = { t \in timerSet : when[t] < -pollAge \/ IsFirst(t, timerSet, when) }
  /\ due' = expired'
  /\ timerSet' = timerSet \ expired'
  /\ pollAge' = 0
  /\ pc' = "batch"
  /\ UNCHANGED <<asked, when, created, cancellingTimers, deadline, functors,
                 tasks, cancelled>>

(* Mutant: getExpired does not erase what it returns.                      *)
HandleReadKeeps ==
  /\ pc = "dispatch"
  /\ timerActive
  /\ timerActive' = FALSE
  /\ armed' = (armed /\ deadline # 0)
  /\ expired' = { t \in timerSet : when[t] < -pollAge }
  /\ due' = expired'
  /\ pollAge' = 0
  /\ pc' = "batch"
  /\ UNCHANGED <<asked, when, created, timerSet, cancellingTimers, deadline,
                 functors, tasks, cancelled>>

(* handleRead reads the timerfd, which may have been reset since the poll, *)
(* and takes the timers that expired before the time of the poll.          *)
HandleRead ==
  /\ pc = "dispatch"
  /\ timerActive
  /\ timerActive' = FALSE
  /\ armed' = (armed /\ deadline # 0)
  /\ expired' = { t \in timerSet : when[t] < -pollAge }
  /\ due' = expired'
  /\ timerSet' = timerSet \ expired'
  /\ pollAge' = 0
  /\ pc' = "batch"
  /\ UNCHANGED <<asked, when, created, cancellingTimers, deadline, functors,
                 tasks, cancelled>>

RunTimer(t) ==
  /\ pc = "batch"
  /\ IsFirst(t, due, when)
  /\ due' = due \ {t}
  /\ pc' = "callback"
  /\ UNCHANGED <<asked, when, created, timerSet, cancellingTimers, expired,
                 armed, deadline, pollAge, timerActive, functors, tasks,
                 cancelled>>

EndCallback ==
  /\ pc = "callback"
  /\ pc' = "batch"
  /\ UNCHANGED <<asked, when, created, timerSet, cancellingTimers, expired,
                 due, armed, deadline, pollAge, timerActive, functors, tasks,
                 cancelled>>

(* Mutant: cancellingTimers_ is not consulted.                             *)
ResetIgnoresCancel ==
  LET back == expired \cap Repeating IN
  /\ pc = "batch"
  /\ due = {}
  /\ when' = [t \in Timer |-> IF t \in back THEN when[t] + Interval
                              ELSE IF t \in expired THEN 0 ELSE when[t]]
  /\ timerSet' = timerSet \cup back
  /\ cancellingTimers' = {}
  /\ \/ timerSet' = {} /\ UNCHANGED <<armed, deadline>>
     \/ \E t \in timerSet' :
          IsFirst(t, timerSet', when') /\ resetTimerfd(when'[t])
  /\ expired' = {}
  /\ pc' = "dispatch"
  /\ UNCHANGED <<asked, created, due, pollAge, timerActive, functors, tasks,
                 cancelled>>

(* Mutant: the timerfd is not armed again after a batch.                   *)
ResetUnarmed ==
  LET back == (expired \cap Repeating) \ cancellingTimers IN
  /\ pc = "batch"
  /\ due = {}
  /\ when' = [t \in Timer |-> IF t \in back THEN when[t] + Interval
                              ELSE IF t \in expired THEN 0 ELSE when[t]]
  /\ timerSet' = timerSet \cup back
  /\ cancellingTimers' = {}
  /\ expired' = {}
  /\ pc' = "dispatch"
  /\ UNCHANGED <<asked, created, due, armed, deadline, pollAge, timerActive,
                 functors, tasks, cancelled>>

(* reset puts the repeating timers back and arms the timerfd for the first *)
(* timer, if there is one.                                                 *)
Reset ==
  LET back == (expired \cap Repeating) \ cancellingTimers IN
  /\ pc = "batch"
  /\ due = {}
  /\ when' = [t \in Timer |-> IF t \in back THEN when[t] + Interval
                              ELSE IF t \in expired THEN 0 ELSE when[t]]
  /\ timerSet' = timerSet \cup back
  /\ cancellingTimers' = {}
  /\ \/ timerSet' = {} /\ UNCHANGED <<armed, deadline>>
     \/ \E t \in timerSet' :
          IsFirst(t, timerSet', when') /\ resetTimerfd(when'[t])
  /\ expired' = {}
  /\ pc' = "dispatch"
  /\ UNCHANGED <<asked, created, due, pollAge, timerActive, functors, tasks,
                 cancelled>>

SwapTasks ==
  /\ pc = "dispatch"
  /\ ~timerActive
  /\ tasks' = functors
  /\ functors' = <<>>
  /\ pollAge' = 0
  /\ pc' = "tasks"
  /\ UNCHANGED <<asked, when, created, timerSet, cancellingTimers, expired,
                 due, armed, deadline, timerActive, cancelled>>

RunTask ==
  /\ pc = "tasks"
  /\ tasks # <<>>
  /\ tasks' = Tail(tasks)
  /\ \E t \in Timer :
       \/ /\ Head(tasks) = Add(t)
          /\ InsertTimer(t, when)
          /\ UNCHANGED <<cancellingTimers, cancelled>>
       \/ /\ Head(tasks) = Cancel(t)
          /\ CancelTimer(t)
          /\ UNCHANGED <<armed, deadline>>
  /\ UNCHANGED <<asked, when, created, expired, due, pc, pollAge, timerActive,
                 functors>>

EndTasks ==
  /\ pc = "tasks"
  /\ tasks = <<>>
  /\ pc' = "poll"
  /\ UNCHANGED <<asked, when, created, timerSet, cancellingTimers, expired,
                 due, armed, deadline, pollAge, timerActive, functors, tasks,
                 cancelled>>

-----------------------------------------------------------------------------
(* Users.                                                                  *)

(* The loop's thread is in user code: a handler of another channel, the    *)
(* callback of a timer, a task.                                            *)
UserCode == pc \in {"dispatch", "callback", "tasks"}

LeftOf(t) == IF t \in Repeating THEN {Interval} ELSE Delay

(* runAt, runAfter and runEvery: addTimer's functor runs at once on the    *)
(* loop's thread and is queued from another one.                           *)
AddTimer(t) ==
  /\ UserCode
  /\ t \notin created
  /\ created' = created \cup {t}
  /\ \E left \in LeftOf(t) : when' = [when EXCEPT ![t] = left]
  /\ InsertTimer(t, when')
  /\ UNCHANGED <<asked, cancellingTimers, expired, due, pc, pollAge,
                 timerActive, functors, tasks, cancelled>>

(* Mutant: the functor is put in front of those that wait.                 *)
QueueFunctorFirst(f) ==
  /\ Len(functors) < MaxQueue
  /\ functors' = <<f>> \o functors
  /\ UNCHANGED <<timerSet, cancellingTimers, expired, due, armed, deadline, pc,
                 pollAge, timerActive, tasks, cancelled>>

QueueFunctor(f) ==
  /\ Len(functors) < MaxQueue
  /\ functors' = Append(functors, f)
  /\ UNCHANGED <<timerSet, cancellingTimers, expired, due, armed, deadline, pc,
                 pollAge, timerActive, tasks, cancelled>>

AddTimerFromAfar(t) ==
  /\ t \notin created
  /\ created' = created \cup {t}
  /\ \E left \in LeftOf(t) : when' = [when EXCEPT ![t] = left]
  /\ QueueFunctor(Add(t))
  /\ UNCHANGED asked

(* EventLoop::cancelTimer, whose caller holds the TimerID.                 *)
CancelInLoop(t) ==
  /\ UserCode
  /\ t \in created
  /\ CancelTimer(t)
  /\ UNCHANGED <<asked, when, created, expired, due, armed, deadline, pc,
                 pollAge, timerActive, functors, tasks>>

CancelFromAfar(t) ==
  /\ t \in created \ asked
  /\ asked' = asked \cup {t}
  /\ QueueFunctor(Cancel(t))
  /\ UNCHANGED <<when, created>>

-----------------------------------------------------------------------------

Ticking(t) == t \in timerSet \cup expired \/ AddQueued(t)

(* Time passes.  Unless Slow, it does so only while the loop is blocked in *)
(* poll with nothing to do.                                                *)
Tick ==
  /\ Slow \/ (pc = "poll" /\ functors = <<>> /\ ~Readable)
  /\ pollAge + 1 < MaxLate
  /\ when' = [t \in Timer |->
       IF Ticking(t) /\ when[t] > -MaxLate THEN when[t] - 1 ELSE when[t]]
  /\ deadline' = IF deadline > 0 THEN deadline - 1 ELSE deadline
  /\ pollAge' = IF timerActive THEN pollAge + 1 ELSE pollAge
  /\ UNCHANGED <<asked, created, timerSet, cancellingTimers, expired, due,
                 armed, pc, timerActive, functors, tasks, cancelled>>

LoopStep ==
  \/ Poll \/ HandleRead \/ EndCallback \/ Reset
  \/ SwapTasks \/ RunTask \/ EndTasks
  \/ \E t \in Timer : RunTimer(t)

UserStep ==
  \E t \in Timer :
    AddTimer(t) \/ AddTimerFromAfar(t) \/ CancelInLoop(t) \/ CancelFromAfar(t)

Next == LoopStep \/ PollOther \/ UserStep \/ Tick

(* The loop keeps running.  Time keeps passing, however often the loop is  *)
(* busy: weak fairness of Tick would let other channels stop the clock.    *)
Fairness == WF_timerVars(LoopStep) /\ SF_timerVars(Tick)

Safety == Init /\ [][Next]_timerVars

Spec == Safety /\ Fairness

-----------------------------------------------------------------------------
(* Properties.                                                             *)

(* A timer is never run before its time: not even when the timerfd that    *)
(* poll reported was re-armed, or its timer cancelled, by a handler that   *)
(* came before handleRead in the same iteration.                           *)
NeverEarly == \A t \in due : when[t] <= 0

(* A timer is in one place: waiting in timerSet_, in the batch of          *)
(* handleRead, or in one functor not run yet.                              *)
InOnePlace ==
  /\ due \subseteq expired
  /\ timerSet \cap expired = {}
  /\ \A t \in Timer : AddQueued(t) => t \notin timerSet \cup expired

(* Cancelled means cancelled: a timer that cancelTimer found in timerSet_  *)
(* is not run any more, and one it found in the batch being run is not put *)
(* back by reset.                                                          *)
CancelSticks ==
  \A t \in Timer :
    /\ cancelled[t] = "set" => t \notin timerSet \cup due
    /\ cancelled[t] = "batch" => t \notin timerSet
    /\ cancelled[t] = "batch" /\ t \in expired => t \in cancellingTimers

(* Threads that hand over a timer and then its cancel have them run in     *)
(* that order: a cancel never waits in front of the add it follows, as it  *)
(* would then only mark a timer that reset may forget to be marked.        *)
CancelFollowsAdd ==
  LET waiting == tasks \o functors IN
  \A t \in Timer : \A i, j \in DOMAIN waiting :
    waiting[i] = Cancel(t) /\ waiting[j] = Add(t) => j < i

(* While timers wait, the timerfd is set: for the first of them or earlier *)
(* even when the loop is late and the timers are overdue, or for the time  *)
(* that timeFromNow's wrap produced, which run TimerStall is about.        *)
ArmedForFirst ==
  timerSet # {} /\ pc \notin {"batch", "callback"}
  => armed /\ (deadline = Never \/ \A t \in timerSet : deadline <= timeFromNow(when[t]))

(* Every timer that waits is run, unless it is cancelled.                  *)
TimerExpires ==
  \A t \in Timer :
    t \in timerSet \/ AddQueued(t) ~> t \in expired \/ cancelled[t] # "no"

(* A repeating timer is run again and again until it is cancelled.         *)
RepeatingTimerRepeats ==
  \A t \in Repeating : t \in created ~> t \in expired \/ cancelled[t] # "no"

(* EventLoop.h:63 says of cancelTimer that it cancels the timer.  It does  *)
(* not when the timer is further on in the batch handleRead is running...  *)
NotRunOnceCancelledInBatch ==
  [][\A t \in due \ due' : cancelled[t] # "batch"]_timerVars

(* ...nor when its add, handed over by another thread, is still queued.    *)
NotRunOnceCancelledInQueue ==
  [][\A t \in due \ due' : cancelled[t] # "queued"]_timerVars

=============================================================================
