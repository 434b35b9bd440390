------------------------ MODULE EventLoopThreadProofs ------------------------
(***************************************************************************)
(* Proofs about EventLoopThread for every set of tasks and channels.       *)
(***************************************************************************)
EXTENDS EventLoopThread, EventLoopProofs

(* The loop in the child's hands takes the steps of EventLoop and no       *)
(* others, so every theorem of EventLoopProofs holds of it as well.        *)
LEMMA ChildRunsEventLoop == ThreadSafety => Safety
<1>1. ThreadInit => Init
  BY DEF ThreadInit
<1>2. [ThreadNext]_threadVars => [Next]_loopVars
  <2> SUFFICES ASSUME ThreadNext PROVE Next \/ UNCHANGED loopVars
    BY DEF threadVars
  <2>1. CASE MainProceeds
    BY <2>1, EventLoopThreadAssumption
       DEF MainProceeds, StartThread, InitLoopPtr, TestLoopPtr, Block,
           FinishCall, Join, Next, ThreadStep
  <2>2. CASE MainCalls
    BY <2>2, EventLoopThreadAssumption
       DEF MainCalls, SpuriousWakeup, UseLoop, Stop, Destroy, BuildLoop, Next,
           ThreadStep
  <2>3. CASE ChildProceeds
    BY <2>3
       DEF ChildProceeds, StoreLoop, Notify, EnterLoop, EnterNull, FinishThread,
           Next, OwnerStep
  <2>4. CASE RunLoop
    BY <2>4 DEF RunLoop, Next
  <2>5. ASSUME NEW c \in IO, InputArrives(c) PROVE Next
    BY <2>5 DEF Next
  <2>6. QED
    BY <2>1, <2>2, <2>3, <2>4, <2>5 DEF ThreadNext
<1>3. QED
  BY <1>1, <1>2, PTL DEF ThreadSafety, Safety

(* From construction to destruction of an EventLoopThread, the tasks given *)
(* to the loop that getLoop returned run once and in order, no wakeup for  *)
(* them is lost while the child enters its first poll, and reading the     *)
(* eventfd never aborts the process.                                       *)
THEOREM ChildServesInOrder ==
  ThreadSafety => [](InOrderExactlyOnce /\ NoSleepOnWork /\ EfdReadSucceeds)
BY ChildRunsEventLoop, TasksInOrderExactlyOnce, NoLostWakeup, HandleEfdReadNeverAborts, PTL

-----------------------------------------------------------------------------
(* The handshake between Main and the child.  The loop is published before *)
(* the child can be seen past "build", and Main leaves "use" only with no  *)
(* call of its own in flight.                                              *)
Handshake ==
  /\ mainPC = "ctor" <=> childPC = "absent"
  /\ loop_ = "set" => childPC \notin {"absent", "build"}
  /\ GetLoopGivesLoop
  /\ childPC # "loop" => pc = "outside"
  /\ Main \in waking => mainPC = "use"
  /\ LoopOutlivesUsers

LEMMA HandshakeInvariant == ThreadSafety => []Handshake
<1> USE DEF Handshake, GetLoopGivesLoop, LoopOutlivesUsers
<1>1. ThreadInit => Handshake
  BY DEF ThreadInit, Init
<1>2. Handshake /\ [ThreadNext]_threadVars => Handshake'
  <2> SUFFICES ASSUME Handshake, [ThreadNext]_threadVars PROVE Handshake'
    OBVIOUS
  <2>1. CASE StartThread
    BY <2>1 DEF StartThread, loopVars
  <2>2. CASE InitLoopPtr
    BY <2>2 DEF InitLoopPtr, loopVars
  <2>3. CASE TestLoopPtr
    BY <2>3 DEF TestLoopPtr, loopVars
  <2>4. CASE Block
    BY <2>4 DEF Block, loopVars
  <2>5. CASE SpuriousWakeup
    BY <2>5 DEF SpuriousWakeup, loopVars
  <2>6. CASE UseLoop
    BY <2>6 DEF UseLoop, QueueInLoop, objectVars
  <2>7. CASE FinishCall
    BY <2>7 DEF FinishCall, Wakeup, objectVars
  <2>8. CASE Stop
    BY <2>8 DEF Stop, Quit
  <2>9. CASE Destroy
    BY <2>9 DEF Destroy, loopVars
  <2>10. CASE Join
    BY <2>10 DEF Join, loopVars
  <2>11. CASE BuildLoop
    BY <2>11 DEF BuildLoop, loopVars
  <2>12. CASE StoreLoop
    BY <2>12 DEF StoreLoop, loopVars
  <2>13. CASE Notify
    BY <2>13 DEF Notify, loopVars
  <2>14. CASE EnterLoop
    BY <2>14 DEF EnterLoop, StartLoop
  <2>15. CASE EnterNull
    BY <2>15 DEF EnterNull, loopVars
  <2>16. CASE FinishThread
    BY <2>16 DEF FinishThread, loopVars
  <2>17. ASSUME childPC = "loop", OwnerStep, UNCHANGED objectVars
         PROVE  Handshake'
    <3>1. UNCHANGED waking
      BY <2>17
         DEF OwnerStep, LoopStep, CheckQuit, Poll, HandleEfdRead, HandleIO,
             EndHandler, SwapTasks, RunTask, EndTask, EndPendingTask,
             OwnerQueueInLoop, OwnerRunInLoop, OwnerQuit
    <3>2. QED
      BY <2>17, <3>1 DEF objectVars
  <2>18. ASSUME NEW c \in IO, InputArrives(c), UNCHANGED objectVars
         PROVE  Handshake'
    BY <2>18 DEF InputArrives, objectVars
  <2>19. CASE UNCHANGED threadVars
    BY <2>19 DEF threadVars, loopVars, objectVars
  <2>20. QED
    BY <2>1, <2>2, <2>3, <2>4, <2>5, <2>6, <2>7, <2>8, <2>9, <2>10, <2>11,
       <2>12, <2>13, <2>14, <2>15, <2>16, <2>17, <2>18, <2>19
       DEF ThreadNext, MainProceeds, MainCalls, ChildProceeds, RunLoop, OwnerStep
<1>3. QED
  BY <1>1, <1>2, PTL DEF ThreadSafety

(* getLoop never returns a pointer that is null or not yet constructed,    *)
(* although threadFunc publishes loop_ without the mutex.                  *)
THEOREM GetLoopIsSound == ThreadSafety => []GetLoopGivesLoop
BY HandshakeInvariant, PTL DEF Handshake

(* The destructor never destroys the loop under the child or under a call  *)
(* of Main.                                                                *)
THEOREM NoUseAfterDestruction == ThreadSafety => []LoopOutlivesUsers
BY HandshakeInvariant, PTL DEF Handshake

-----------------------------------------------------------------------------
(* Types.                                                                  *)

ObjectTypes ==
  /\ mainPC \in MainLocation
  /\ childPC \in ChildLocation
  /\ loop_ \in {"raw", "null", "set"}
  /\ stopped \in BOOLEAN
  /\ crashed \in BOOLEAN
  /\ current \in BOOLEAN
  /\ mainLoops \in Nat

(* The members of an EventLoopThread and of its loop keep their types, for *)
(* any tasks and channels.                                                 *)
THEOREM ThreadTypeInvariant == ThreadSafety => []ThreadTypeOK
<1>1. ThreadInit => ObjectTypes
  <2> SUFFICES ASSUME ThreadInit PROVE ObjectTypes
    OBVIOUS
  <2>1. mainPC \in MainLocation /\ childPC \in ChildLocation
    BY DEF ThreadInit, MainLocation, ChildLocation
  <2>2. loop_ \in {"raw", "null", "set"} /\ mainLoops \in Nat
    BY DEF ThreadInit
  <2>3. stopped \in BOOLEAN /\ crashed \in BOOLEAN /\ current \in BOOLEAN
    BY DEF ThreadInit
  <2>4. QED
    BY <2>1, <2>2, <2>3 DEF ObjectTypes
<1>2. ObjectTypes /\ [ThreadNext]_threadVars => ObjectTypes'
  <2> SUFFICES ASSUME ObjectTypes, [ThreadNext]_threadVars PROVE ObjectTypes'
    OBVIOUS
  <2> USE DEF ObjectTypes, MainLocation, ChildLocation
  <2>1. CASE StartThread \/ InitLoopPtr \/ TestLoopPtr \/ Block
    BY <2>1 DEF StartThread, InitLoopPtr, TestLoopPtr, Block
  <2>2. CASE FinishCall \/ UseLoop
    <3>1. UNCHANGED objectVars
      BY <2>2 DEF FinishCall, UseLoop
    <3>2. QED
      BY <3>1 DEF objectVars
  <2>3. CASE Join \/ BuildLoop
    <3>1. mainLoops' \in Nat
      BY <2>3 DEF Join, BuildLoop
    <3>2. /\ mainPC' \in MainLocation /\ childPC' \in ChildLocation
          /\ loop_' \in {"raw", "null", "set"}
      BY <2>3 DEF Join, BuildLoop
    <3>3. stopped' \in BOOLEAN /\ crashed' \in BOOLEAN /\ current' \in BOOLEAN
      BY <2>3 DEF Join, BuildLoop
    <3>4. QED
      BY <3>1, <3>2, <3>3
  <2>4. CASE SpuriousWakeup \/ Stop \/ Destroy
    BY <2>4 DEF SpuriousWakeup, Stop, Destroy
  <2>5. CASE StoreLoop \/ Notify \/ EnterLoop
    <3>1. /\ mainPC' \in MainLocation /\ childPC' \in ChildLocation
          /\ loop_' \in {"raw", "null", "set"}
      BY <2>5 DEF StoreLoop, Notify, EnterLoop
    <3>2. UNCHANGED <<stopped, current, mainLoops>> /\ crashed' \in BOOLEAN
      BY <2>5 DEF StoreLoop, Notify, EnterLoop
    <3>3. QED
      BY <3>1, <3>2
  <2>6. CASE EnterNull \/ FinishThread
    BY <2>6 DEF EnterNull, FinishThread
  <2>7. CASE UNCHANGED objectVars
    BY <2>7 DEF objectVars
  <2>8. QED
    BY <2>1, <2>2, <2>3, <2>4, <2>5, <2>6, <2>7
       DEF ThreadNext, MainProceeds, MainCalls, ChildProceeds, RunLoop, threadVars
<1>3. ObjectTypes /\ TypeOK => ThreadTypeOK
  BY DEF ObjectTypes, ThreadTypeOK
<1>4. QED
  BY <1>1, <1>2, <1>3, ChildRunsEventLoop, TypeInvariant, PTL DEF ThreadSafety

=============================================================================
