-------------------------- MODULE TimerQueueProofs --------------------------
(***************************************************************************)
(* Proofs about TimerQueue for every set of timers, every delay and every  *)
(* bound.                                                                  *)
(***************************************************************************)
EXTENDS TimerQueue, SequenceTheorems, TLAPS

-----------------------------------------------------------------------------
(* The queue of functors as a set.                                         *)

Once(q, f) == \A i, j \in 1 .. Len(q) : q[i] = f /\ q[j] = f => i = j

LEMMA RangeAppend ==
  ASSUME NEW S, NEW q \in Seq(S), NEW e \in S
  PROVE  Range(Append(q, e)) = Range(q) \cup {e}
<1> DEFINE a == Append(q, e)
<1>1. /\ Len(a) = Len(q) + 1 /\ Len(q) \in Nat
      /\ \A i \in 1 .. Len(q) : a[i] = q[i]
      /\ a[Len(q) + 1] = e
      /\ DOMAIN a = 1 .. Len(q) + 1 /\ DOMAIN q = 1 .. Len(q)
  OBVIOUS
<1> HIDE DEF a
<1>2. QED
  BY <1>1 DEF Range, a

LEMMA RangeTail ==
  ASSUME NEW S, NEW q \in Seq(S), q # <<>>
  PROVE  /\ Head(q) \in S /\ Tail(q) \in Seq(S)
         /\ Range(q) = {Head(q)} \cup Range(Tail(q))
<1> DEFINE r == Tail(q)
<1>1. /\ Len(q) \in Nat \ {0} /\ Head(q) = q[1] /\ Head(q) \in S
      /\ r \in Seq(S) /\ Len(r) = Len(q) - 1
      /\ \A i \in 1 .. Len(r) : r[i] = q[i + 1]
      /\ DOMAIN q = 1 .. Len(q) /\ DOMAIN r = 1 .. Len(q) - 1
  BY HeadTailProperties, EmptySeq
<1> HIDE DEF r
<1>2. \A x \in 1 .. Len(q) : x = 1 \/ (x - 1 \in 1 .. Len(r) /\ q[x] = r[x - 1])
  BY <1>1
<1>3. \A x \in 1 .. Len(r) : x + 1 \in 1 .. Len(q) /\ q[x + 1] = r[x]
  BY <1>1
<1>4. 1 \in 1 .. Len(q)
  BY <1>1
<1>5. Range(q) \subseteq {Head(q)} \cup Range(r)
  BY <1>1, <1>2 DEF Range
<1>6. {Head(q)} \cup Range(r) \subseteq Range(q)
  BY <1>1, <1>3, <1>4 DEF Range
<1>7. QED
  BY <1>1, <1>5, <1>6 DEF r

LEMMA RangeEmpty == Range(<<>>) = {}
BY DEF Range

LEMMA OnceAppend ==
  ASSUME NEW S, NEW q \in Seq(S), NEW e \in S, NEW f,
         Once(q, f), e = f => f \notin Range(q)
  PROVE  Once(Append(q, e), f)
<1> DEFINE a == Append(q, e)
<1>1. /\ Len(a) = Len(q) + 1 /\ Len(q) \in Nat
      /\ \A i \in 1 .. Len(q) : a[i] = q[i]
      /\ a[Len(q) + 1] = e
      /\ DOMAIN q = 1 .. Len(q)
  OBVIOUS
<1>2. \A i \in 1 .. Len(q) : q[i] \in Range(q)
  BY <1>1 DEF Range
<1> HIDE DEF a
<1>3. \A i \in 1 .. Len(a) : i \in 1 .. Len(q) \/ i = Len(q) + 1
  BY <1>1
<1>4. QED
  BY <1>1, <1>2, <1>3 DEF Once, a

LEMMA OnceTail ==
  ASSUME NEW S, NEW q \in Seq(S), q # <<>>, NEW f, Once(q, f)
  PROVE  /\ Once(Tail(q), f)
         /\ Head(q) = f => f \notin Range(Tail(q))
<1> DEFINE r == Tail(q)
<1>1. /\ Len(q) \in Nat \ {0} /\ Head(q) = q[1]
      /\ r \in Seq(S) /\ Len(r) = Len(q) - 1
      /\ \A i \in 1 .. Len(r) : r[i] = q[i + 1]
      /\ DOMAIN r = 1 .. Len(r)
  BY HeadTailProperties, EmptySeq
<1> HIDE DEF r
<1>2. \A i \in 1 .. Len(r) : i + 1 \in 1 .. Len(q) /\ 1 \in 1 .. Len(q) /\ i + 1 # 1
  BY <1>1
<1>3. \A i, j \in 1 .. Len(r) : i + 1 = j + 1 => i = j
  BY <1>1
<1>4. Once(r, f)
  BY <1>1, <1>2, <1>3 DEF Once
<1>5. Head(q) = f => f \notin Range(r)
  BY <1>1, <1>2 DEF Once, Range
<1>6. QED
  BY <1>4, <1>5 DEF r

-----------------------------------------------------------------------------
(* Type correctness.                                                       *)

LEMMA FunctorsTyped ==
  ASSUME NEW t \in Timer
  PROVE  Add(t) \in Functor /\ Cancel(t) \in Functor /\ Add(t) # Cancel(t)
BY DEF Add, Cancel, Functor

LEMMA InitTyped == Init => TypeOK
<1> SUFFICES ASSUME Init PROVE TypeOK
  OBVIOUS
<1>1. functors \in Seq(Functor) /\ tasks \in Seq(Functor)
  BY EmptySeq DEF Init
<1>2. when \in [Timer -> Int]
  BY DEF Init
<1>3. cancelled \in [Timer -> {"no", "set", "batch", "queued"}]
  BY DEF Init
<1>4. armed \in BOOLEAN /\ timerActive \in BOOLEAN
  BY DEF Init
<1>5. pc \in {"poll", "dispatch", "batch", "callback", "tasks"}
  BY DEF Init
<1>6. deadline \in Nat \cup {Never} /\ pollAge \in Nat
  BY DEF Init
<1>7. /\ created \subseteq Timer /\ timerSet \subseteq Timer
      /\ cancellingTimers \subseteq Timer /\ expired \subseteq Timer
      /\ due \subseteq Timer /\ asked \subseteq Timer
  BY DEF Init
<1>8. QED
  BY <1>1, <1>2, <1>3, <1>4, <1>5, <1>6, <1>7 DEF TypeOK

(* What the two functors do to the state they share.                       *)
LEMMA ResetTyped ==
  ASSUME NEW left \in Int, resetTimerfd(left)
  PROVE  armed' \in BOOLEAN /\ deadline' \in Nat \cup {Never}
BY DEF resetTimerfd, Resettable, timeFromNow

LEMMA InsertTyped ==
  ASSUME TypeOK, NEW t \in Timer, NEW w \in [Timer -> Int], InsertTimer(t, w)
  PROVE  timerSet' \subseteq Timer /\ armed' \in BOOLEAN /\ deadline' \in Nat \cup {Never}
<1>1. timerSet' \subseteq Timer
  BY DEF TypeOK, InsertTimer
<1>2. CASE resetTimerfd(w[t])
  BY <1>1, <1>2, ResetTyped
<1>3. CASE UNCHANGED <<armed, deadline>>
  BY <1>1, <1>3 DEF TypeOK
<1>4. QED
  BY <1>2, <1>3 DEF InsertTimer

LEMMA CancelTyped ==
  ASSUME TypeOK, NEW t \in Timer, CancelTimer(t)
  PROVE  /\ timerSet' \subseteq Timer
         /\ cancellingTimers' \subseteq Timer
         /\ cancelled' \in [Timer -> {"no", "set", "batch", "queued"}]
BY DEF TypeOK, CancelTimer, EraseTimer, MarkCancelling, IgnoreCancel

(* The members of a TimerQueue keep their types through every interleaving *)
(* of handleRead, users and functors: deadline never falls below 0, and    *)
(* functors and tasks hold only adds and cancels.                          *)
THEOREM TypeInvariant == Safety => []TypeOK
<1>1. TypeOK /\ [Next]_timerVars => TypeOK'
  <2> SUFFICES ASSUME TypeOK, [Next]_timerVars PROVE TypeOK'
    OBVIOUS
  <2> USE TimerQueueAssumption
  <2>1. CASE PollReturns
    BY <2>1 DEF TypeOK, PollReturns, Readable
  <2>2. CASE HandleRead
    BY <2>2 DEF TypeOK, HandleRead
  <2>3. ASSUME NEW t \in Timer, RunTimer(t) PROVE TypeOK'
    BY <2>3 DEF TypeOK, RunTimer
  <2>4. CASE EndCallback
    BY <2>4 DEF TypeOK, EndCallback
  <2>5. CASE Reset
    <3>1. timerSet' \subseteq Timer /\ cancellingTimers' \subseteq Timer
      BY <2>5 DEF TypeOK, Reset
    <3>2. when' \in [Timer -> Int]
      BY <2>5 DEF TypeOK, Reset
    <3>3. armed' \in BOOLEAN /\ deadline' \in Nat \cup {Never}
      <4>1. CASE UNCHANGED <<armed, deadline>>
        BY <4>1 DEF TypeOK
      <4>2. ASSUME NEW t \in timerSet', resetTimerfd(when'[t])
            PROVE  armed' \in BOOLEAN /\ deadline' \in Nat \cup {Never}
        BY <4>2, <3>1, <3>2 DEF resetTimerfd, Resettable, timeFromNow
      <4>3. QED
        BY <2>5, <4>1, <4>2 DEF Reset
    <3>4. QED
      BY <2>5, <3>1, <3>2, <3>3 DEF TypeOK, Reset
  <2>6. CASE SwapTasks
    BY <2>6, EmptySeq DEF TypeOK, SwapTasks
  <2>7. CASE RunTask
    <3>1. tasks' \in Seq(Functor)
      BY <2>7, RangeTail DEF TypeOK, RunTask
    <3>2. ASSUME NEW t \in Timer, InsertTimer(t, when),
                 UNCHANGED <<cancellingTimers, cancelled>>
          PROVE  TypeOK'
      BY <2>7, <3>1, <3>2, InsertTyped DEF TypeOK, RunTask
    <3>3. ASSUME NEW t \in Timer, CancelTimer(t), UNCHANGED <<armed, deadline>>
          PROVE  TypeOK'
      BY <2>7, <3>1, <3>3, CancelTyped DEF TypeOK, RunTask
    <3>4. QED
      BY <2>7, <3>2, <3>3 DEF RunTask
  <2>8. CASE EndTasks
    BY <2>8 DEF TypeOK, EndTasks
  <2>9. ASSUME NEW t \in Timer, AddTimer(t) PROVE TypeOK'
    <3>1. when' \in [Timer -> Int]
      BY <2>9 DEF TypeOK, AddTimer, LeftOf
    <3>2. timerSet' \subseteq Timer /\ armed' \in BOOLEAN /\ deadline' \in Nat \cup {Never}
      <4>1. timerSet' \subseteq Timer
        BY <2>9 DEF TypeOK, AddTimer, InsertTimer
      <4>2. CASE resetTimerfd(when'[t])
        BY <4>1, <4>2, <3>1, ResetTyped
      <4>3. CASE UNCHANGED <<armed, deadline>>
        BY <4>1, <4>3 DEF TypeOK
      <4>4. QED
        BY <2>9, <4>2, <4>3 DEF AddTimer, InsertTimer
    <3>3. QED
      BY <2>9, <3>1, <3>2 DEF TypeOK, AddTimer
  <2>10. ASSUME NEW t \in Timer, AddTimerFromAfar(t) PROVE TypeOK'
    BY <2>10, FunctorsTyped DEF TypeOK, AddTimerFromAfar, QueueFunctor, LeftOf
  <2>11. ASSUME NEW t \in Timer, CancelInLoop(t) PROVE TypeOK'
    BY <2>11, CancelTyped DEF TypeOK, CancelInLoop
  <2>12. ASSUME NEW t \in Timer, CancelFromAfar(t) PROVE TypeOK'
    BY <2>12, FunctorsTyped DEF TypeOK, CancelFromAfar, QueueFunctor
  <2>13. CASE Tick
    <3>1. pollAge' \in Nat /\ deadline' \in Nat \cup {Never}
      BY <2>13 DEF TypeOK, Tick, Never
    <3>2. when' \in [Timer -> Int]
      BY <2>13 DEF TypeOK, Tick
    <3>3. QED
      BY <2>13, <3>1, <3>2 DEF TypeOK, Tick
  <2>14. CASE UNCHANGED timerVars
    BY <2>14 DEF TypeOK, timerVars
  <2>15. QED
    BY <2>1, <2>2, <2>3, <2>4, <2>5, <2>6, <2>7, <2>8, <2>9, <2>10, <2>11,
       <2>12, <2>13, <2>14
       DEF Next, LoopStep, UserStep, Poll, PollOther
<1>2. QED
  BY <1>1, InitTyped, PTL DEF Safety

-----------------------------------------------------------------------------
(* Where timers are, and what has become of the cancelled ones.            *)

(* No add is queued twice.                                                 *)
AddedOnce(t) ==
  /\ Once(functors, Add(t))
  /\ Once(tasks, Add(t))
  /\ ~(Add(t) \in Range(functors) /\ Add(t) \in Range(tasks))

(* Only timers that exist are anywhere.                                    *)
KnownIfUsed(t) ==
  AddQueued(t) \/ t \in timerSet \cup expired \/ cancelled[t] # "no" => t \in created

(* A timer found by its cancel is out of every place it could return from. *)
Gone(t) ==
  /\ cancelled[t] \in {"set", "batch"} => ~AddQueued(t) /\ t \notin timerSet
  /\ cancelled[t] = "set" => t \notin expired
  /\ cancelled[t] = "batch" /\ t \in expired => t \in cancellingTimers

Phases ==
  /\ expired # {} => pc \in {"batch", "callback"}
  /\ timerActive => pc = "dispatch"
  /\ pc # "tasks" => tasks = <<>>

Placement ==
  /\ InOnePlace
  /\ Phases
  /\ \A t \in Timer : AddedOnce(t) /\ KnownIfUsed(t) /\ Gone(t)

(* Adds, known timers and their fate in a step that moves no functor.      *)
LEMMA QueuesUnchanged ==
  ASSUME UNCHANGED <<functors, tasks>>, NEW t \in Timer
  PROVE  /\ AddQueued(t)' <=> AddQueued(t)
         /\ AddedOnce(t)' <=> AddedOnce(t)
BY DEF AddQueued, AddedOnce

LEMMA CancelKeepsPlacement ==
  ASSUME TypeOK, Placement, NEW c \in Timer, CancelTimer(c), c \in created,
         UNCHANGED <<created, expired, due>>,
         \A t \in Timer : AddQueued(t)' => AddQueued(t)
  PROVE  InOnePlace' /\ \A t \in Timer : KnownIfUsed(t)' /\ Gone(t)'
<1> USE DEF Placement, InOnePlace, KnownIfUsed, Gone, TypeOK
<1>1. CASE EraseTimer(c)
  BY <1>1 DEF EraseTimer
<1>2. CASE MarkCancelling(c)
  BY <1>2 DEF MarkCancelling
<1>3. CASE IgnoreCancel(c)
  BY <1>3 DEF IgnoreCancel
<1>4. QED
  BY <1>1, <1>2, <1>3 DEF CancelTimer

LEMMA InsertKeepsPlacement ==
  ASSUME TypeOK, Placement, NEW c \in Timer, timerSet' = timerSet \cup {c},
         c \in created', created \subseteq created',
         c \notin expired, cancelled[c] \notin {"set", "batch"},
         UNCHANGED <<expired, due, cancellingTimers, cancelled>>,
         ~AddQueued(c)',
         \A t \in Timer : AddQueued(t)' => AddQueued(t)
  PROVE  InOnePlace' /\ \A t \in Timer : KnownIfUsed(t)' /\ Gone(t)'
BY DEF Placement, InOnePlace, KnownIfUsed, Gone, TypeOK

LEMMA QueueKeepsPlacement ==
  ASSUME TypeOK, Placement, NEW f \in Functor, QueueFunctor(f),
         created \subseteq created',
         \A t \in Timer : f = Add(t) => t \in created' /\ t \notin created
  PROVE  Placement'
<1>1. Range(functors') = Range(functors) \cup {f} /\ UNCHANGED tasks
  BY RangeAppend DEF QueueFunctor, TypeOK
<1>2. \A t \in Timer : AddQueued(t)' => AddQueued(t) \/ f = Add(t)
  BY <1>1 DEF AddQueued
<1>3. ASSUME NEW t \in Timer PROVE AddedOnce(t)'
  <2>1. f = Add(t) => ~AddQueued(t)
    BY DEF Placement, KnownIfUsed
  <2>2. Once(functors', Add(t))
    BY <2>1, OnceAppend DEF QueueFunctor, TypeOK, Placement, AddedOnce, AddQueued
  <2>3. QED
    BY <1>1, <2>1, <2>2 DEF AddedOnce, AddQueued, Placement
<1>4. ASSUME NEW t \in Timer PROVE KnownIfUsed(t)' /\ Gone(t)'
  BY <1>2 DEF QueueFunctor, Placement, KnownIfUsed, Gone
<1>5. InOnePlace'
  BY <1>2 DEF QueueFunctor, Placement, InOnePlace, KnownIfUsed, TypeOK
<1>6. Phases'
  BY <1>1 DEF QueueFunctor, Placement, Phases
<1>7. QED
  BY <1>3, <1>4, <1>5, <1>6 DEF Placement

(* The head of the batch leaves it; nothing else is queued or unqueued.    *)
LEMMA HeadLeaves ==
  ASSUME TypeOK, Placement, tasks # <<>>, tasks' = Tail(tasks), UNCHANGED functors
  PROVE  /\ Head(tasks) \in Range(tasks)
         /\ \A t \in Timer : AddedOnce(t)'
         /\ \A t \in Timer : AddQueued(t)' => AddQueued(t)
         /\ \A t \in Timer : Head(tasks) = Add(t) => ~AddQueued(t)'
<1>1. Range(tasks) = {Head(tasks)} \cup Range(tasks')
  BY RangeTail DEF TypeOK
<1>2. ASSUME NEW t \in Timer
      PROVE  /\ Once(tasks', Add(t))
             /\ Head(tasks) = Add(t) => Add(t) \notin Range(tasks')
  BY OnceTail DEF TypeOK, Placement, AddedOnce
<1>3. QED
  BY <1>1, <1>2 DEF Placement, AddedOnce, AddQueued

LEMMA PlacementInvariant == Safety => []Placement
<1>1. Init => Placement
  <2> SUFFICES ASSUME Init PROVE Placement
    OBVIOUS
  <2>1. Range(functors) = {} /\ Range(tasks) = {}
    BY RangeEmpty DEF Init
  <2>2. Len(functors) = 0 /\ Len(tasks) = 0
    BY DEF Init
  <2>3. \A t \in Timer : AddedOnce(t)
    BY <2>1, <2>2 DEF AddedOnce, Once
  <2>4. QED
    BY <2>1, <2>3
       DEF Init, Placement, Phases, InOnePlace, KnownIfUsed, Gone, AddQueued
<1>2. TypeOK /\ Placement /\ [Next]_timerVars => Placement'
  <2> SUFFICES ASSUME TypeOK, Placement, [Next]_timerVars PROVE Placement'
    OBVIOUS
  <2>1. CASE PollReturns
    BY <2>1, QueuesUnchanged
       DEF PollReturns, Placement, Phases, InOnePlace, KnownIfUsed, Gone
  <2>2. CASE HandleRead
    BY <2>2, QueuesUnchanged
       DEF HandleRead, Placement, Phases, InOnePlace, KnownIfUsed, Gone
  <2>3. ASSUME NEW t \in Timer, RunTimer(t) PROVE Placement'
    BY <2>3, QueuesUnchanged
       DEF RunTimer, Placement, Phases, InOnePlace, KnownIfUsed, Gone
  <2>4. CASE EndCallback
    BY <2>4, QueuesUnchanged
       DEF EndCallback, Placement, Phases, InOnePlace, KnownIfUsed, Gone
  <2>5. CASE Reset
    <3>1. /\ timerSet' = timerSet \cup ((expired \cap Repeating) \ cancellingTimers)
          /\ expired' = {} /\ due = {} /\ pc' = "dispatch" /\ pc = "batch"
          /\ UNCHANGED <<created, due, timerActive, functors, tasks, cancelled>>
      BY <2>5 DEF Reset
    <3>2. QED
      BY <3>1, QueuesUnchanged
         DEF Placement, Phases, InOnePlace, KnownIfUsed, Gone
  <2>6. CASE SwapTasks
    <3>1. tasks = <<>> /\ Range(tasks) = {}
      BY <2>6, RangeEmpty DEF SwapTasks, Placement, Phases
    <3>2. Range(tasks') = Range(functors) /\ Range(functors') = {} /\ Len(functors') = 0
      BY <2>6, RangeEmpty DEF SwapTasks
    <3>3. \A t \in Timer : AddQueued(t)' <=> AddQueued(t)
      BY <3>1, <3>2 DEF AddQueued
    <3>4. \A t \in Timer : AddedOnce(t)'
      BY <2>6, <3>2 DEF SwapTasks, Placement, AddedOnce, Once
    <3>5. QED
      BY <2>6, <3>3, <3>4
         DEF SwapTasks, Placement, Phases, InOnePlace, KnownIfUsed, Gone
  <2>7. CASE RunTask
    <3>1. /\ Head(tasks) \in Range(tasks)
          /\ \A t \in Timer : AddedOnce(t)'
          /\ \A t \in Timer : AddQueued(t)' => AddQueued(t)
          /\ \A t \in Timer : Head(tasks) = Add(t) => ~AddQueued(t)'
      BY <2>7, HeadLeaves DEF RunTask
    <3>2. Phases'
      BY <2>7 DEF RunTask, Placement, Phases
    <3>3. ASSUME NEW t \in Timer, Head(tasks) = Add(t), InsertTimer(t, when),
                 UNCHANGED <<cancellingTimers, cancelled>>
          PROVE  Placement'
      <4>1. AddQueued(t)
        BY <3>1, <3>3 DEF AddQueued
      <4>2. t \in created /\ t \notin expired /\ cancelled[t] \notin {"set", "batch"}
        BY <4>1 DEF Placement, KnownIfUsed, Gone, InOnePlace
      <4>3. /\ timerSet' = timerSet \cup {t} /\ ~AddQueued(t)'
            /\ UNCHANGED <<created, expired, due>>
        BY <2>7, <3>1, <3>3 DEF RunTask, InsertTimer
      <4>4. InOnePlace' /\ \A u \in Timer : KnownIfUsed(u)' /\ Gone(u)'
        BY <3>1, <3>3, <4>2, <4>3, InsertKeepsPlacement
      <4>5. QED
        BY <3>1, <3>2, <4>4 DEF Placement
    <3>4. ASSUME NEW t \in Timer, CancelTimer(t), Head(tasks) = Cancel(t)
          PROVE  Placement'
      <4>1. CASE t \in created
        <5>1. InOnePlace' /\ \A u \in Timer : KnownIfUsed(u)' /\ Gone(u)'
          BY <2>7, <3>1, <3>4, <4>1, CancelKeepsPlacement DEF RunTask
        <5>2. QED
          BY <3>1, <3>2, <5>1 DEF Placement
      <4>2. CASE t \notin created
        <5>1. ~AddQueued(t) /\ t \notin timerSet \cup expired /\ cancelled[t] = "no"
          BY <4>2 DEF Placement, KnownIfUsed
        <5>2. /\ UNCHANGED <<timerSet, created, expired, due, cancelled>>
              /\ cancellingTimers \subseteq cancellingTimers'
          BY <2>7, <3>4, <5>1
             DEF RunTask, CancelTimer, EraseTimer, MarkCancelling, IgnoreCancel,
                 TypeOK
        <5>3. QED
          BY <3>1, <3>2, <5>2 DEF Placement, InOnePlace, KnownIfUsed, Gone
      <4>3. QED
        BY <4>1, <4>2
    <3>5. QED
      BY <2>7, <3>3, <3>4 DEF RunTask
  <2>8. CASE EndTasks
    BY <2>8, QueuesUnchanged
       DEF EndTasks, Placement, Phases, InOnePlace, KnownIfUsed, Gone
  <2>9. ASSUME NEW t \in Timer, AddTimer(t) PROVE Placement'
    <3>1. /\ timerSet' = timerSet \cup {t} /\ t \notin created
          /\ created' = created \cup {t}
          /\ UNCHANGED <<cancellingTimers, expired, due, pc, timerActive,
                         functors, tasks, cancelled>>
      BY <2>9 DEF AddTimer, InsertTimer
    <3>2. ~AddQueued(t) /\ t \notin expired /\ cancelled[t] = "no"
      BY <3>1 DEF Placement, KnownIfUsed
    <3>3. InOnePlace' /\ \A u \in Timer : KnownIfUsed(u)' /\ Gone(u)'
      BY <3>1, <3>2, InsertKeepsPlacement, QueuesUnchanged
    <3>4. QED
      BY <3>1, <3>3, QueuesUnchanged DEF Placement, Phases
  <2>10. ASSUME NEW t \in Timer, AddTimerFromAfar(t) PROVE Placement'
    <3>1. \A u \in Timer : Add(t) = Add(u) => u = t
      BY DEF Add
    <3>2. QED
      BY <2>10, <3>1, FunctorsTyped, QueueKeepsPlacement DEF AddTimerFromAfar
  <2>11. ASSUME NEW t \in Timer, CancelInLoop(t) PROVE Placement'
    <3>1. InOnePlace' /\ \A u \in Timer : KnownIfUsed(u)' /\ Gone(u)'
      BY <2>11, CancelKeepsPlacement, QueuesUnchanged DEF CancelInLoop
    <3>2. QED
      BY <2>11, <3>1, QueuesUnchanged DEF CancelInLoop, Placement, Phases
  <2>12. ASSUME NEW t \in Timer, CancelFromAfar(t) PROVE Placement'
    <3>1. \A u \in Timer : Cancel(t) # Add(u)
      BY DEF Add, Cancel
    <3>2. QED
      BY <2>12, <3>1, FunctorsTyped, QueueKeepsPlacement DEF CancelFromAfar
  <2>13. CASE Tick
    BY <2>13, QueuesUnchanged
       DEF Tick, Placement, Phases, InOnePlace, KnownIfUsed, Gone
  <2>14. CASE UNCHANGED timerVars
    BY <2>14, QueuesUnchanged
       DEF timerVars, Placement, Phases, InOnePlace, KnownIfUsed, Gone
  <2>15. QED
    BY <2>1, <2>2, <2>3, <2>4, <2>5, <2>6, <2>7, <2>8, <2>9, <2>10, <2>11,
       <2>12, <2>13, <2>14
       DEF Next, LoopStep, UserStep, Poll, PollOther
<1>3. QED
  BY <1>1, <1>2, TypeInvariant, PTL DEF Safety

-----------------------------------------------------------------------------
(* Time.                                                                   *)

LEMMA NeverEarlyInvariant == Safety => []NeverEarly
<1> USE DEF NeverEarly
<1>1. Init => NeverEarly
  BY DEF Init
<1>2. TypeOK /\ Placement /\ NeverEarly /\ [Next]_timerVars => NeverEarly'
  <2> SUFFICES ASSUME TypeOK, Placement, NeverEarly, [Next]_timerVars
               PROVE  NeverEarly'
    OBVIOUS
  <2>1. CASE HandleRead
    BY <2>1 DEF HandleRead, TypeOK
  <2>2. ASSUME NEW t \in Timer, RunTimer(t) PROVE NeverEarly'
    BY <2>2 DEF RunTimer, TypeOK
  <2>3. CASE Reset
    BY <2>3 DEF Reset, TypeOK
  <2>4. ASSUME NEW t \in Timer, AddTimer(t) \/ AddTimerFromAfar(t)
        PROVE  NeverEarly'
    <3>1. t \notin due
      BY <2>4 DEF AddTimer, AddTimerFromAfar, Placement, InOnePlace, KnownIfUsed
    <3>2. due' = due /\ \A u \in Timer \ {t} : when'[u] = when[u]
      BY <2>4 DEF AddTimer, AddTimerFromAfar, QueueFunctor, TypeOK
    <3>3. QED
      BY <3>1, <3>2 DEF TypeOK
  <2>5. CASE Tick
    <3>1. \A t \in Timer : when'[t] <= when[t]
      BY <2>5 DEF Tick, TypeOK
    <3>2. QED
      BY <2>5, <3>1 DEF Tick, TypeOK
  <2>6. CASE UNCHANGED <<when, due>>
    BY <2>6
  <2>7. QED
    BY <2>1, <2>2, <2>3, <2>4, <2>5, <2>6
       DEF Next, LoopStep, UserStep, Poll, PollOther, timerVars, PollReturns,
           EndCallback, SwapTasks, RunTask, EndTasks, CancelInLoop, CancelFromAfar,
           QueueFunctor
<1>3. QED
  BY <1>1, <1>2, TypeInvariant, PlacementInvariant, PTL DEF Safety

(* The timerfd, while timers wait outside a batch.                         *)
ArmedFor(S, w, a, d) ==
  a /\ (d = Never \/ \A t \in S : d <= timeFromNow(w[t]))

LEMMA NeverIsNoTime == Never \in Int /\ Never < 0
BY DEF Never

(* One lemma for resetTimerfd: it arms for the first of a set of timers.   *)
LEMMA ResetArms ==
  ASSUME NEW S \in SUBSET Timer, NEW w \in [Timer -> Int], NEW c \in S, IsFirst(c, S, w),
         resetTimerfd(w[c])
  PROVE  ArmedFor(S, w, armed', deadline')
<1>1. \A t \in S : w[c] \in Int /\ w[t] \in Int /\ w[c] <= w[t]
  BY DEF IsFirst
<1>2. QED
  BY <1>1 DEF resetTimerfd, Resettable, timeFromNow, ArmedFor

LEMMA InsertKeepsArmed ==
  ASSUME TypeOK, ArmedForFirst, pc \notin {"batch", "callback"},
         NEW c \in Timer, NEW w \in [Timer -> Int], InsertTimer(c, w),
         \A t \in timerSet : w[t] = when[t]
  PROVE  ArmedFor(timerSet', w, armed', deadline')
<1>1. timerSet' = timerSet \cup {c} /\ timerSet' \in SUBSET Timer /\ timerSet \subseteq Timer
  BY DEF InsertTimer, TypeOK
<1>2. CASE \A u \in timerSet : w[u] > w[c]
  <2>1. resetTimerfd(w[c])
    BY <1>2 DEF InsertTimer
  <2>2. w[c] \in Int /\ \A u \in timerSet : w[u] \in Int
    BY <1>1
  <2>3. IsFirst(c, timerSet', w)
    BY <1>1, <1>2, <2>2 DEF IsFirst
  <2>4. QED
    BY <1>1, <2>1, <2>3, ResetArms
<1>3. CASE ~ \A u \in timerSet : w[u] > w[c]
  <2>1. PICK u \in timerSet : ~(w[u] > w[c])
    BY <1>3
  <2>2. w[u] \in Int /\ w[c] \in Int /\ w[u] <= w[c] /\ w[u] = when[u]
    BY <1>1, <2>1
  <2>3. UNCHANGED <<armed, deadline>>
    BY <1>3 DEF InsertTimer
  <2>4. /\ armed /\ deadline \in Nat \cup {Never}
        /\ deadline = Never \/ \A t \in timerSet : deadline <= timeFromNow(w[t])
    BY <2>1 DEF ArmedForFirst, TypeOK
  <2>5. deadline = Never \/ deadline <= timeFromNow(w[c])
    BY <2>1, <2>2, <2>4, NeverIsNoTime DEF timeFromNow
  <2>6. QED
    BY <1>1, <2>3, <2>4, <2>5 DEF ArmedFor
<1>4. QED
  BY <1>2, <1>3

LEMMA TickKeepsArmed ==
  ASSUME TypeOK, ArmedForFirst, Tick
  PROVE  ArmedForFirst'
<1> USE TimerQueueAssumption DEF TypeOK
<1>1. UNCHANGED <<timerSet, pc, armed>> /\ timerSet \subseteq Timer
  BY DEF Tick
<1>2. SUFFICES ASSUME timerSet # {}, pc \notin {"batch", "callback"}, deadline' # Never
               PROVE  armed /\ \A t \in timerSet : deadline' <= timeFromNow(when'[t])
  BY <1>1 DEF ArmedForFirst
<1>3. /\ deadline \in Nat \cup {Never}
      /\ deadline' = IF deadline > 0 THEN deadline - 1 ELSE deadline
  BY DEF Tick
<1>4. deadline \in Nat /\ deadline' \in Nat /\ (deadline' = 0 \/ deadline' = deadline - 1)
  BY <1>2, <1>3, NeverIsNoTime
<1>5. armed /\ \A t \in timerSet : deadline <= timeFromNow(when[t])
  BY <1>2, <1>4, NeverIsNoTime DEF ArmedForFirst
<1>6. ASSUME NEW t \in timerSet PROVE deadline' <= timeFromNow(when'[t])
  <2>1. when[t] \in Int /\ when'[t] \in Int /\ (when'[t] = when[t] \/ when'[t] = when[t] - 1)
    BY <1>1 DEF Tick
  <2>2. deadline <= timeFromNow(when[t])
    BY <1>5
  <2>3. QED
    BY <1>4, <2>1, <2>2 DEF timeFromNow
<1>7. QED
  BY <1>5, <1>6

LEMMA ResetKeepsArmed ==
  ASSUME TypeOK, Placement, Reset
  PROVE  ArmedForFirst'
<1> USE TimerQueueAssumption
<1>1. timerSet' \in SUBSET Timer /\ when' \in [Timer -> Int]
  BY DEF Reset, TypeOK
<1>2. SUFFICES ASSUME timerSet' # {} PROVE ArmedFor(timerSet', when', armed', deadline')
  BY DEF ArmedFor, ArmedForFirst
<1>3. PICK t \in timerSet' : IsFirst(t, timerSet', when') /\ resetTimerfd(when'[t])
  BY <1>2 DEF Reset
<1>4. QED
  BY <1>1, <1>3, ResetArms

LEMMA StepKeepsArmed ==
  ASSUME TypeOK, Placement, ArmedForFirst, [Next]_timerVars
  PROVE  ArmedForFirst'
<1>1. CASE PollReturns
  BY <1>1 DEF PollReturns, ArmedForFirst
<1>2. CASE HandleRead
  BY <1>2 DEF HandleRead, ArmedForFirst
<1>3. ASSUME NEW t \in Timer, RunTimer(t) PROVE ArmedForFirst'
  BY <1>3 DEF RunTimer, ArmedForFirst
<1>4. CASE EndCallback
  BY <1>4 DEF EndCallback, ArmedForFirst
<1>5. CASE Reset
  BY <1>5, ResetKeepsArmed
<1>6. CASE SwapTasks
  BY <1>6 DEF SwapTasks, ArmedForFirst
<1>7. CASE RunTask
  <2>1. pc = "tasks" /\ UNCHANGED <<pc, when>>
    BY <1>7 DEF RunTask
  <2>2. ASSUME NEW t \in Timer, InsertTimer(t, when) PROVE ArmedForFirst'
    <3>1. ArmedFor(timerSet', when, armed', deadline')
      BY <2>1, <2>2, InsertKeepsArmed DEF TypeOK
    <3>2. QED
      BY <2>1, <3>1 DEF ArmedFor, ArmedForFirst
  <2>3. ASSUME NEW t \in Timer, CancelTimer(t), UNCHANGED <<armed, deadline>>
        PROVE  ArmedForFirst'
    <3>1. timerSet' \subseteq timerSet
      BY <2>3 DEF CancelTimer, EraseTimer, MarkCancelling, IgnoreCancel
    <3>2. QED
      BY <2>1, <2>3, <3>1 DEF ArmedForFirst
  <2>4. QED
    BY <1>7, <2>2, <2>3 DEF RunTask
<1>8. CASE EndTasks
  BY <1>8 DEF EndTasks, ArmedForFirst
<1>9. ASSUME NEW t \in Timer, AddTimer(t) PROVE ArmedForFirst'
  <2>1. t \notin timerSet
    BY <1>9 DEF AddTimer, Placement, KnownIfUsed
  <2>2. /\ when' \in [Timer -> Int] /\ InsertTimer(t, when') /\ UNCHANGED pc
        /\ \A u \in timerSet : when'[u] = when[u]
    BY <1>9, <2>1, TimerQueueAssumption DEF AddTimer, LeftOf, TypeOK
  <2>3. pc \notin {"batch", "callback"} => ArmedFor(timerSet', when', armed', deadline')
    BY <2>2, InsertKeepsArmed
  <2>4. QED
    BY <2>2, <2>3 DEF ArmedFor, ArmedForFirst
<1>10. ASSUME NEW t \in Timer, AddTimerFromAfar(t) PROVE ArmedForFirst'
  <2>1. t \notin timerSet
    BY <1>10 DEF AddTimerFromAfar, Placement, KnownIfUsed
  <2>2. \A u \in timerSet : when'[u] = when[u]
    BY <1>10, <2>1 DEF AddTimerFromAfar, TypeOK
  <2>3. QED
    BY <1>10, <2>2 DEF AddTimerFromAfar, QueueFunctor, ArmedForFirst
<1>11. ASSUME NEW t \in Timer, CancelInLoop(t) PROVE ArmedForFirst'
  <2>1. timerSet' \subseteq timerSet
    BY <1>11 DEF CancelInLoop, CancelTimer, EraseTimer, MarkCancelling, IgnoreCancel
  <2>2. QED
    BY <1>11, <2>1 DEF CancelInLoop, ArmedForFirst
<1>12. ASSUME NEW t \in Timer, CancelFromAfar(t) PROVE ArmedForFirst'
  BY <1>12 DEF CancelFromAfar, QueueFunctor, ArmedForFirst
<1>13. CASE Tick
  BY <1>13, TickKeepsArmed
<1>14. CASE UNCHANGED timerVars
  BY <1>14 DEF timerVars, ArmedForFirst
<1>15. QED
  BY <1>1, <1>2, <1>3, <1>4, <1>5, <1>6, <1>7, <1>8, <1>9, <1>10, <1>11,
     <1>12, <1>13, <1>14
     DEF Next, LoopStep, UserStep, Poll, PollOther

-----------------------------------------------------------------------------
(* The theorems.                                                           *)

(* No timer is lost or duplicated between the functors of other threads,   *)
(* timerSet_ and the batch of handleRead.                                  *)
THEOREM TimersInOnePlace == Safety => []InOnePlace
BY PlacementInvariant, PTL DEF Placement

(* cancelTimer is final for every timer it finds in timerSet_ or in the    *)
(* batch: reset does not bring it back.                                    *)
THEOREM CancelIsFinal == Safety => []CancelSticks
<1>1. Placement => CancelSticks
  BY DEF Placement, Gone, InOnePlace, CancelSticks
<1>2. QED
  BY <1>1, PlacementInvariant, PTL

(* A timer never runs early, however stale the readiness of the timerfd.   *)
THEOREM NoEarlyTimer == Safety => []NeverEarly
BY NeverEarlyInvariant

(* However late the loop is, and whatever callbacks and functors add and   *)
(* cancel, no timer waits outside a batch without the timerfd being set:   *)
(* for the first timer or earlier, or by timeFromNow for a time that had   *)
(* passed.                                                                 *)
THEOREM AlwaysArmed == Safety => []ArmedForFirst
<1>1. Init => ArmedForFirst
  BY DEF Init, ArmedForFirst
<1>2. TypeOK /\ Placement /\ ArmedForFirst /\ [Next]_timerVars => ArmedForFirst'
  BY StepKeepsArmed
<1>3. QED
  BY <1>1, <1>2, TypeInvariant, PlacementInvariant, PTL DEF Safety

-----------------------------------------------------------------------------
(* The order of an add and its cancel.                                     *)

Waiting == tasks \o functors

InOrder(q) ==
  \A t \in Timer : \A i, j \in 1 .. Len(q) : q[i] = Cancel(t) /\ q[j] = Add(t) => j < i

(* Only a timer that exists is cancelled.                                  *)
CancelsKnown(q, known) ==
  \A t \in Timer : \A i \in 1 .. Len(q) : q[i] = Cancel(t) => t \in known

LEMMA OneMoreInOrder ==
  ASSUME NEW q \in Seq(Functor), NEW f \in Functor, NEW known, InOrder(q),
         CancelsKnown(q, known), \A t \in Timer : f = Add(t) => t \notin known
  PROVE  InOrder(Append(q, f))
<1> DEFINE a == Append(q, f)
<1>1. /\ Len(q) \in Nat /\ Len(a) = Len(q) + 1 /\ a[Len(q) + 1] = f
      /\ \A i \in 1 .. Len(q) : a[i] = q[i]
  BY AppendProperties
<1> HIDE DEF a
<1>2. SUFFICES ASSUME NEW t \in Timer, NEW i \in 1 .. Len(a), NEW j \in 1 .. Len(a),
                      a[i] = Cancel(t), a[j] = Add(t)
               PROVE  j < i
  BY DEF InOrder, a
<1>3. Add(t) # Cancel(t)
  BY FunctorsTyped
<1>4. i \in 1 .. Len(q) \/ i = Len(q) + 1
  BY <1>1
<1>5. j \in 1 .. Len(q) \/ j = Len(q) + 1
  BY <1>1
<1>6. CASE i \in 1 .. Len(q)
  <2>1. q[i] = Cancel(t) /\ t \in known
    BY <1>1, <1>2, <1>6 DEF CancelsKnown
  <2>2. j \in 1 .. Len(q)
    BY <1>1, <1>2, <1>5, <2>1
  <2>3. QED
    BY <1>1, <1>2, <1>6, <2>1, <2>2 DEF InOrder
<1>7. CASE i = Len(q) + 1
  <2>1. j # Len(q) + 1
    BY <1>2, <1>3, <1>7
  <2>2. QED
    BY <1>1, <1>5, <1>7, <2>1
<1>8. QED
  BY <1>4, <1>6, <1>7

LEMMA OneLessInOrder ==
  ASSUME NEW q \in Seq(Functor), q # <<>>, InOrder(q)
  PROVE  InOrder(Tail(q))
<1> DEFINE r == Tail(q)
<1>1. /\ Len(q) \in Nat /\ Len(r) = Len(q) - 1
      /\ \A i \in 1 .. Len(r) : i + 1 \in 1 .. Len(q) /\ r[i] = q[i + 1]
  BY HeadTailProperties, EmptySeq
<1> HIDE DEF r
<1>2. SUFFICES ASSUME NEW t \in Timer, NEW i \in 1 .. Len(r), NEW j \in 1 .. Len(r),
                      r[i] = Cancel(t), r[j] = Add(t)
               PROVE  j < i
  BY DEF InOrder, r
<1>3. j + 1 < i + 1
  BY <1>1, <1>2 DEF InOrder
<1>4. QED
  BY <1>1, <1>3

LEMMA KnownCancels ==
  ASSUME NEW q \in Seq(Functor), NEW known, NEW more, known \subseteq more,
         CancelsKnown(q, known)
  PROVE  /\ CancelsKnown(q, more)
         /\ q # <<>> => CancelsKnown(Tail(q), more)
         /\ \A f \in Functor :
              (\A t \in Timer : f = Cancel(t) => t \in more) => CancelsKnown(Append(q, f), more)
<1>1. CancelsKnown(q, more)
  BY DEF CancelsKnown
<1>2. q # <<>> => \A i \in 1 .. Len(Tail(q)) : i + 1 \in 1 .. Len(q) /\ Tail(q)[i] = q[i + 1]
  BY HeadTailProperties, EmptySeq
<1>3. q # <<>> => CancelsKnown(Tail(q), more)
  BY <1>2 DEF CancelsKnown
<1>4. ASSUME NEW f \in Functor, \A t \in Timer : f = Cancel(t) => t \in more
      PROVE  CancelsKnown(Append(q, f), more)
  <2>1. \A i \in 1 .. Len(Append(q, f)) :
          (i \in 1 .. Len(q) /\ Append(q, f)[i] = q[i]) \/ Append(q, f)[i] = f
    BY AppendProperties
  <2>2. QED
    BY <1>4, <2>1 DEF CancelsKnown
<1>5. QED
  BY <1>1, <1>3, <1>4

(* tasks and functors are one queue: a functor joins it at the end and     *)
(* leaves it at the front.                                                 *)
LEMMA OneQueue ==
  ASSUME TypeOK, Placement, [Next]_timerVars
  PROVE  /\ Waiting \in Seq(Functor) /\ created \subseteq created'
         /\ \/ Waiting' = Waiting
            \/ Waiting # <<>> /\ Waiting' = Tail(Waiting)
            \/ \E f \in Functor :
                 /\ Waiting' = Append(Waiting, f)
                 /\ \A t \in Timer : f = Add(t) => t \notin created
                 /\ \A t \in Timer : f = Cancel(t) => t \in created
<1>1. tasks \in Seq(Functor) /\ functors \in Seq(Functor)
  BY DEF TypeOK
<1>2. Waiting \in Seq(Functor)
  BY <1>1, ConcatProperties DEF Waiting
<1>3. created \subseteq created'
  BY DEF Next, LoopStep, UserStep, Poll, PollOther, PollReturns, HandleRead, RunTimer,
     EndCallback, Reset, SwapTasks, RunTask, EndTasks, AddTimer, AddTimerFromAfar,
     CancelInLoop, CancelFromAfar, Tick, timerVars
<1>4. ASSUME UNCHANGED <<functors, tasks>> PROVE Waiting' = Waiting
  BY <1>4 DEF Waiting
<1>5. ASSUME NEW f \in Functor, QueueFunctor(f) PROVE Waiting' = Append(Waiting, f)
  <2>1. functors' = functors \o <<f>> /\ tasks' = tasks
    BY <1>1, <1>5, AppendIsConcat DEF QueueFunctor
  <2>2. <<f>> \in Seq(Functor)
    OBVIOUS
  <2>3. tasks \o (functors \o <<f>>) = (tasks \o functors) \o <<f>>
    BY ONLY <1>1, <2>2, ConcatAssociative
  <2>4. Append(Waiting, f) = Waiting \o <<f>>
    BY <1>2, AppendIsConcat
  <2>5. QED
    BY <2>1, <2>3, <2>4 DEF Waiting
<1>6. CASE SwapTasks
  <2>1. tasks = <<>> /\ tasks' = functors /\ functors' = <<>>
    BY <1>6 DEF SwapTasks, Placement, Phases
  <2>2. <<>> \o functors = functors /\ functors \o <<>> = functors
    BY <1>1, ConcatEmptySeq
  <2>3. Waiting' = Waiting
    BY <2>1, <2>2 DEF Waiting
  <2>4. QED
    BY <1>2, <1>3, <2>3
<1>7. CASE RunTask
  <2>1. tasks # <<>> /\ tasks' = Tail(tasks) /\ functors' = functors
    BY <1>7 DEF RunTask
  <2>2. Waiting # <<>>
    BY <1>1, <2>1, ConcatEqualIffEmpty DEF Waiting
  <2>3. Waiting' = Tail(Waiting)
    <3>1. Tail(tasks \o functors) = Tail(tasks) \o functors
      BY <1>1, <2>1
    <3>2. QED
      BY <2>1, <3>1 DEF Waiting
  <2>4. QED
    BY <1>2, <1>3, <2>2, <2>3
<1>8. ASSUME NEW t \in Timer, AddTimerFromAfar(t)
      PROVE  \E f \in Functor :
               /\ Waiting' = Append(Waiting, f)
               /\ \A u \in Timer : f = Add(u) => u \notin created
               /\ \A u \in Timer : f = Cancel(u) => u \in created
  <2>1. Waiting' = Append(Waiting, Add(t)) /\ t \notin created
    BY <1>5, <1>8, FunctorsTyped DEF AddTimerFromAfar
  <2>2. \A u \in Timer : (Add(t) = Add(u) => t = u) /\ Add(t) # Cancel(u)
    BY DEF Add, Cancel
  <2>3. QED
    BY <2>1, <2>2, FunctorsTyped
<1>9. ASSUME NEW t \in Timer, CancelFromAfar(t)
      PROVE  \E f \in Functor :
               /\ Waiting' = Append(Waiting, f)
               /\ \A u \in Timer : f = Add(u) => u \notin created
               /\ \A u \in Timer : f = Cancel(u) => u \in created
  <2>1. Waiting' = Append(Waiting, Cancel(t)) /\ t \in created
    BY <1>5, <1>9, FunctorsTyped DEF CancelFromAfar
  <2>2. \A u \in Timer : (Cancel(t) = Cancel(u) => t = u) /\ Cancel(t) # Add(u)
    BY DEF Add, Cancel
  <2>3. QED
    BY <2>1, <2>2, FunctorsTyped
<1>10. CASE \/ PollReturns \/ HandleRead \/ EndCallback \/ Reset \/ EndTasks \/ Tick
            \/ \E t \in Timer : RunTimer(t) \/ AddTimer(t) \/ CancelInLoop(t)
            \/ UNCHANGED timerVars
  <2>1. UNCHANGED <<functors, tasks>>
    BY <1>10 DEF PollReturns, HandleRead, EndCallback, Reset, EndTasks, Tick, RunTimer,
       AddTimer, CancelInLoop, timerVars
  <2>2. QED
    BY <1>2, <1>3, <1>4, <2>1
<1>11. QED
  BY <1>2, <1>3, <1>6, <1>7, <1>8, <1>9, <1>10
     DEF Next, LoopStep, UserStep, Poll, PollOther

OrderedQueue == InOrder(Waiting) /\ CancelsKnown(Waiting, created)

LEMMA OrderedQueueKeeps ==
  ASSUME TypeOK, Placement, OrderedQueue, [Next]_timerVars PROVE OrderedQueue'
<1>1. Waiting \in Seq(Functor) /\ created \subseteq created'
      /\ InOrder(Waiting) /\ CancelsKnown(Waiting, created)
  BY OneQueue DEF OrderedQueue
<1>2. InOrder(Waiting') /\ CancelsKnown(Waiting', created')
  <2>1. CASE Waiting' = Waiting
    BY <1>1, <2>1, KnownCancels
  <2>2. CASE Waiting # <<>> /\ Waiting' = Tail(Waiting)
    BY <1>1, <2>2, KnownCancels, OneLessInOrder
  <2>3. ASSUME NEW f \in Functor, Waiting' = Append(Waiting, f),
               \A t \in Timer : f = Add(t) => t \notin created,
               \A t \in Timer : f = Cancel(t) => t \in created
        PROVE  InOrder(Waiting') /\ CancelsKnown(Waiting', created')
    BY <1>1, <2>3, KnownCancels, OneMoreInOrder
  <2>4. QED
    BY <2>1, <2>2, <2>3, OneQueue
<1>3. QED
  BY <1>2 DEF OrderedQueue, InOrder, CancelsKnown

(* runAt and cancelTimer called from another thread, one after the other,  *)
(* are run by the loop in that order: the batch of doPendingTask and the   *)
(* functors that came after its swap are one queue.                        *)
THEOREM CancelAfterAdd == Safety => []CancelFollowsAdd
<1>1. Init => OrderedQueue
  <2>1. Init => Waiting = <<>>
    BY DEF Init, Waiting
  <2>2. QED
    BY <2>1 DEF OrderedQueue, InOrder, CancelsKnown
<1>2. TypeOK /\ Placement /\ OrderedQueue /\ [Next]_timerVars => OrderedQueue'
  BY OrderedQueueKeeps
<1>3. TypeOK /\ OrderedQueue => CancelFollowsAdd
  <2> SUFFICES ASSUME TypeOK, OrderedQueue PROVE CancelFollowsAdd
    OBVIOUS
  <2>1. Waiting \in Seq(Functor)
    BY ConcatProperties DEF Waiting, TypeOK
  <2>2. DOMAIN Waiting = 1 .. Len(Waiting)
    BY <2>1
  <2>3. QED
    BY <2>2 DEF OrderedQueue, InOrder, Waiting, CancelFollowsAdd
<1>4. QED
  BY <1>1, <1>2, <1>3, TypeInvariant, PlacementInvariant, PTL DEF Safety

=============================================================================
