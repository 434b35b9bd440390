--------------------------- MODULE EventLoopThread ---------------------------
(***************************************************************************)
(* gmuduo::EventLoopThread: an object of the thread Main that starts a     *)
(* second thread, the child, which builds an EventLoop, publishes it in    *)
(* loop_ and runs it.  Main waits for loop_ in getLoop, uses the loop,     *)
(* ends it with stop() and joins the child in the destructor.              *)
(*                                                                         *)
(* The loop is that of module EventLoop with the child as its owner.       *)
(*                                                                         *)
(* Two things the code leaves open are choices here.  The constructor      *)
(* starts the child before loop_, declared after thread_, is initialised.  *)
(* threadFunc does not lock mutex_, so it is not excluded from getLoop.    *)
(***************************************************************************)
EXTENDS EventLoop

CONSTANT Main        \* the thread that owns the EventLoopThread object

ASSUME EventLoopThreadAssumption == Main \in Thread

VARIABLES
  mainPC,          \* where Main is
  childPC,         \* where the child is in threadFunc
  loop_,           \* the shared_ptr: "raw" memory, "null", or "set"
  stopped,         \* has stop() been called?
  crashed,         \* has the process crashed on an invalid shared_ptr?
  current,         \* is t_eventLoop of Main still set to the loop Main built?
  mainLoops        \* number of live EventLoop objects Main has built

objectVars == <<mainPC, childPC, loop_, stopped, crashed, current, mainLoops>>
threadVars == <<loopVars, objectVars>>

(* "ctor": before std::thread is constructed; "init": before loop_ is;     *)
(* "test": evaluating the predicate of cond_.wait; "block": it was false;  *)
(* "wait": on the condition variable; "use": getLoop has returned;         *)
(* "join": in the destructor; "gone": the object is destroyed.             *)
MainLocation == {"ctor", "init", "test", "block", "wait", "use", "join", "gone"}
ChildLocation == {"absent", "build", "notify", "enter", "loop", "finished"}

ThreadTypeOK ==
  /\ TypeOK
  /\ mainPC \in MainLocation
  /\ childPC \in ChildLocation
  /\ loop_ \in {"raw", "null", "set"}
  /\ stopped \in BOOLEAN
  /\ crashed \in BOOLEAN
  /\ current \in BOOLEAN
  /\ mainLoops \in Nat

(* Main has built its own loop, the base loop of a TCPServer.              *)
ThreadInit ==
  /\ Init
  /\ mainPC = "ctor"
  /\ childPC = "absent"
  /\ loop_ = "raw"
  /\ stopped = FALSE
  /\ crashed = FALSE
  /\ current = TRUE
  /\ mainLoops = 1

-----------------------------------------------------------------------------
(* Main.                                                                   *)

(* The initialiser of thread_ starts the child.                            *)
StartThread ==
  /\ mainPC = "ctor"
  /\ mainPC' = "init"
  /\ childPC' = "build"
  /\ UNCHANGED <<loopVars, loop_, stopped, crashed, current, mainLoops>>

(* loop_ is default-initialised; the constructor ends, getLoop is called.  *)
InitLoopPtr ==
  /\ mainPC = "init"
  /\ loop_' = "null"
  /\ mainPC' = "test"
  /\ UNCHANGED <<loopVars, childPC, stopped, crashed, current, mainLoops>>

(* Mutant: getLoop does not wait for loop_.                                *)
TestLoopPtrUnchecked ==
  /\ mainPC = "test"
  /\ mainPC' = "use"
  /\ UNCHANGED <<loopVars, childPC, loop_, stopped, crashed, current, mainLoops>>

(* while (!bool(loop_)) cond_.wait(lock)                                   *)
TestLoopPtr ==
  /\ mainPC = "test"
  /\ mainPC' = IF loop_ = "set" THEN "use" ELSE "block"
  /\ UNCHANGED <<loopVars, childPC, loop_, stopped, crashed, current, mainLoops>>

Block ==
  /\ mainPC = "block"
  /\ mainPC' = "wait"
  /\ UNCHANGED <<loopVars, childPC, loop_, stopped, crashed, current, mainLoops>>

SpuriousWakeup ==
  /\ mainPC = "wait"
  /\ mainPC' = "test"
  /\ UNCHANGED <<loopVars, childPC, loop_, stopped, crashed, current, mainLoops>>

(* Main hands a task to the loop.                                          *)
UseLoop ==
  /\ mainPC = "use"
  /\ ~stopped
  /\ \E t \in Task : QueueInLoop(Main, t)
  /\ UNCHANGED objectVars

(* A call of Main's in the loop finishes its write to the eventfd.         *)
FinishCall ==
  /\ Wakeup(Main)
  /\ UNCHANGED objectVars

(* Mutant: stop() does not wake the loop.                                  *)
StopSilent ==
  /\ mainPC = "use"
  /\ ~stopped
  /\ stopped' = TRUE
  /\ quited' = TRUE
  /\ UNCHANGED <<callpending, penddingTask, tasks, ready, activeChannels, pc,
                 waking, submitted, ran, inlined>>
  /\ UNCHANGED <<mainPC, childPC, loop_, crashed, current, mainLoops>>

(* stop() is loop_->quit().                                                *)
Stop ==
  /\ mainPC = "use"
  /\ ~stopped
  /\ stopped' = TRUE
  /\ Quit(Main)
  /\ UNCHANGED <<mainPC, childPC, loop_, crashed, current, mainLoops>>

(* ~EventLoopThread begins.                                                *)
Destroy ==
  /\ mainPC = "use"
  /\ Main \notin waking
  /\ mainPC' = "join"
  /\ UNCHANGED <<loopVars, childPC, loop_, stopped, crashed, current, mainLoops>>

(* Mutant: the destructor detaches the thread.                             *)
JoinDetached ==
  /\ mainPC = "join"
  /\ mainPC' = "gone"
  /\ loop_' = "null"
  /\ current' = FALSE
  /\ UNCHANGED <<loopVars, childPC, stopped, crashed, mainLoops>>

(* join returns; the last reference to the loop goes with the member       *)
(* loop_, so ~EventLoop runs here and clears t_eventLoop of this thread.   *)
Join ==
  /\ mainPC = "join"
  /\ childPC = "finished"
  /\ mainPC' = "gone"
  /\ loop_' = "null"
  /\ current' = FALSE
  /\ UNCHANGED <<loopVars, childPC, stopped, crashed, mainLoops>>

(* Main constructs another EventLoop; the constructor aborts, by LOG_ERROR,*)
(* when t_eventLoop is set.                                                *)
BuildLoop ==
  /\ mainPC \in {"use", "gone"}
  /\ mainLoops < 2
  /\ ~current
  /\ current' = TRUE
  /\ mainLoops' = mainLoops + 1
  /\ UNCHANGED <<loopVars, mainPC, childPC, loop_, stopped, crashed>>

-----------------------------------------------------------------------------
(* The child.                                                              *)

(* loop_ = std::make_shared<EventLoop>().  Assigning to raw memory         *)
(* releases whatever reference the memory seems to hold.                   *)
StoreLoop ==
  /\ childPC = "build"
  /\ \/ crashed' = FALSE
     \/ loop_ = "raw" /\ crashed' = TRUE
  /\ loop_' = "set"
  /\ childPC' = "notify"
  /\ UNCHANGED <<loopVars, mainPC, stopped, current, mainLoops>>

(* notify_one: lost when nobody waits.                                     *)
Notify ==
  /\ childPC = "notify"
  /\ mainPC' = IF mainPC = "wait" THEN "test" ELSE mainPC
  /\ childPC' = "enter"
  /\ UNCHANGED <<loopVars, loop_, stopped, crashed, current, mainLoops>>

(* loop_->loop()                                                           *)
EnterLoop ==
  /\ childPC = "enter"
  /\ loop_ = "set"
  /\ StartLoop
  /\ childPC' = "loop"
  /\ UNCHANGED <<mainPC, loop_, stopped, crashed, current, mainLoops>>

EnterNull ==
  /\ childPC = "enter"
  /\ loop_ # "set"
  /\ crashed' = TRUE
  /\ UNCHANGED <<loopVars, mainPC, childPC, loop_, stopped, current, mainLoops>>

RunLoop ==
  /\ childPC = "loop"
  /\ pc # "outside"
  /\ OwnerStep
  /\ UNCHANGED objectVars

(* loop() has returned, and so does threadFunc.                            *)
FinishThread ==
  /\ childPC = "loop"
  /\ pc = "outside"
  /\ childPC' = "finished"
  /\ UNCHANGED <<loopVars, mainPC, loop_, stopped, crashed, current, mainLoops>>

-----------------------------------------------------------------------------

(* Steps Main takes by itself once it has called the constructor, getLoop, *)
(* stop or the destructor.                                                 *)
MainProceeds ==
  StartThread \/ InitLoopPtr \/ TestLoopPtr \/ Block \/ FinishCall \/ Join

(* Calls and choices nobody is obliged to make.                            *)
MainCalls == SpuriousWakeup \/ UseLoop \/ Stop \/ Destroy \/ BuildLoop

ChildProceeds ==
  \/ StoreLoop \/ Notify \/ EnterLoop \/ EnterNull \/ FinishThread
  \/ childPC = "loop" /\ LoopStep /\ UNCHANGED objectVars

ThreadNext ==
  /\ ~crashed
  /\ \/ MainProceeds
     \/ MainCalls
     \/ ChildProceeds
     \/ RunLoop
     \/ (\E c \in IO : InputArrives(c)) /\ UNCHANGED objectVars

(* Both threads are scheduled; the calls of Main are up to Main.           *)
ThreadFairness ==
  /\ WF_threadVars(~crashed /\ MainProceeds)
  /\ WF_threadVars(~crashed /\ ChildProceeds)

ThreadSafety == ThreadInit /\ [][ThreadNext]_threadVars

ThreadSpec == ThreadSafety /\ ThreadFairness

-----------------------------------------------------------------------------
(* Properties.                                                             *)

(* What getLoop returned stays a constructed loop, until the destructor.   *)
GetLoopGivesLoop ==
  mainPC \in {"use", "join"} => loop_ = "set" /\ childPC \notin {"absent", "build"}

(* ~EventLoop runs only when nobody can touch the loop any more: the child *)
(* has left loop(), and Main is not between its store and its wakeup.      *)
LoopOutlivesUsers ==
  mainPC = "gone" => childPC = "finished" /\ pc = "outside" /\ Main \notin waking

(* A task Main hands over runs, even when the child has yet to enter       *)
(* loop(), unless somebody ends the loop.                                  *)
HandedOverTaskRuns ==
  \A t \in Task :
    t \in Range(submitted) ~> t \in Range(ran) \/ quited \/ childPC = "finished"

(* A stop() that finds the child inside loop() lets the destructor join.   *)
StopOfRunningLoopJoins ==
  mainPC = "join" /\ childPC = "loop" /\ quited ~> mainPC = "gone"

(* EventLoop.h:51 says that quit() ends the loop, so after stop() the      *)
(* destructor should join.  It does not when stop() comes before loop().   *)
StopEndsThread == mainPC = "join" /\ stopped ~> mainPC = "gone" \/ crashed

(* TCPServer.h:41 says that start(), which calls getLoop() for each thread *)
(* of the pool, starts the server.  A getLoop() that has found loop_ null  *)
(* may miss the notification, sent without the mutex before it waits.      *)
WaiterIsNotified ==
  mainPC \in {"block", "wait"} /\ loop_ = "set" ~> mainPC = "use"

(* TCPServer.cc:27 says that the threads of the pool are started.  A child *)
(* faster than the constructor finds that loop_ is not initialised yet, or *)
(* has its loop_ cleared after it has stored it.                           *)
NeverCrashes == ~crashed

(* EventLoop.h:18 says that a thread can create only one EventLoop.        *)
OneLoopPerThread == mainLoops <= 1

=============================================================================
