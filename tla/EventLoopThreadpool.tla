------------------------- MODULE EventLoopThreadpool -------------------------
(***************************************************************************)
(* gmuduo::EventLoopThreadpool: the loops among which a TCPServer deals    *)
(* its connections.  Loop 0 is the base loop; the others are numbered as   *)
(* they are made, each with an EventLoopThread of its own, whose life is   *)
(* the subject of EventLoopThread.                                         *)
(*                                                                         *)
(* start, setThreadNum and getOneLoop run in the base loop's thread, by    *)
(* assertion, so each of them is one action.                               *)
(***************************************************************************)
EXTENDS Integers, Sequences

CONSTANTS
  MaxThreads,      \* bound on the argument of setThreadNum
  MaxPicks         \* bound on the calls of getOneLoop, per loop

ASSUME EventLoopThreadpoolAssumption == MaxThreads \in Nat /\ MaxPicks \in Nat

VARIABLES
  numThreads,      \* numThreads_
  started,         \* started_
  loops,           \* loops_
  loopIndex,       \* loopIndex_, counted from 0
  stopped,         \* loops of the pool that have been told to quit
  picks            \* history: picks of each loop since the first start()

poolVars == <<numThreads, started, loops, loopIndex, stopped, picks>>

LoopId == 0 .. MaxThreads

PoolTypeOK ==
  /\ numThreads \in 0 .. MaxThreads
  /\ started \in BOOLEAN
  /\ loops \in Seq(LoopId) /\ loops # <<>>
  /\ loopIndex \in 0 .. Len(loops)
  /\ stopped \subseteq LoopId
  /\ picks \in [LoopId -> Nat]

PoolInit ==
  /\ numThreads = 0
  /\ started = FALSE
  /\ loops = <<0>>
  /\ loopIndex = 0
  /\ stopped = {}
  /\ picks = [l \in LoopId |-> 0]

SetThreadNum(n) ==
  /\ numThreads' = n
  /\ UNCHANGED <<started, loops, loopIndex, stopped, picks>>

(* start() makes a new thread and loop for each i; the picks that EvenShare *)
(* counts begin with the first start().                                    *)
NewLoops == [i \in 1 .. numThreads |-> Len(loops) - 1 + i]

(* Mutant: a second start() makes threads again.                           *)
StartPoolAgain ==
  /\ Len(loops) + numThreads <= MaxThreads + 1
  /\ started' = TRUE
  /\ loops' = loops \o NewLoops
  /\ picks' = IF started THEN picks ELSE [l \in LoopId |-> 0]
  /\ UNCHANGED <<numThreads, loopIndex, stopped>>

(* A second start() returns at once.                                       *)
StartPool ==
  /\ ~started
  /\ started' = TRUE
  /\ loops' = loops \o NewLoops
  /\ picks' = [l \in LoopId |-> 0]
  /\ UNCHANGED <<numThreads, loopIndex, stopped>>

(* Mutant: the index wraps around to the first loop of threads_.           *)
GetOneLoopSkipsBase ==
  LET i == IF loopIndex = Len(loops) THEN 1 % Len(loops) ELSE loopIndex IN
  /\ picks' = [picks EXCEPT ![loops[i + 1]] = @ + 1]
  /\ loopIndex' = i + 1
  /\ UNCHANGED <<numThreads, started, loops, stopped>>

GetOneLoop ==
  LET i == IF loopIndex = Len(loops) THEN 0 ELSE loopIndex IN
  /\ picks' = [picks EXCEPT ![loops[i + 1]] = @ + 1]
  /\ loopIndex' = i + 1
  /\ UNCHANGED <<numThreads, started, loops, stopped>>

(* stop() quits the loops of threads_; the base loop is not one of them.   *)
StopPool ==
  /\ stopped' = { loops[i] : i \in 2 .. Len(loops) }
  /\ UNCHANGED <<numThreads, started, loops, loopIndex, picks>>

PicksLeft == \A l \in LoopId : picks[l] < MaxPicks

PoolNext ==
  \/ \E n \in 0 .. MaxThreads : SetThreadNum(n)
  \/ StartPool
  \/ PicksLeft /\ GetOneLoop
  \/ StopPool

PoolSpec == PoolInit /\ [][PoolNext]_poolVars

(* Connections are dealt evenly: since start(), no loop of the pool was    *)
(* picked twice more often than another, wherever the picks made before    *)
(* start() had left the index, and whatever a second setThreadNum and      *)
(* start() ask for.                                                        *)
EvenShare ==
  started => \A i, j \in 1 .. Len(loops) : picks[loops[i]] <= picks[loops[j]] + 1

=============================================================================
