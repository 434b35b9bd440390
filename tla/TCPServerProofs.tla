--------------------------- MODULE TCPServerProofs ---------------------------
(***************************************************************************)
(* Proofs about TCPServer for any clients, descriptors and threads, and    *)
(* about the EventLoopThreadpool among whose loops it deals connections.   *)
(***************************************************************************)
EXTENDS TCPServer, SequenceTheorems, FiniteSetTheorems, WellFoundedInduction, TLAPS

(* The pool, on its own.                                                   *)

(* loops_ is the base loop followed by the loops of the threads in order.  *)
LoopsInOrder ==
  /\ \A i \in 1 .. Len(loops) : loops[i] = i - 1
  /\ Len(loops) \in 1 .. MaxThreads + 1
  /\ ~started => Len(loops) = 1

(* A round of picks ends with the base loop or begins with it, according   *)
(* to whether getOneLoop was called before start(); either way the loops   *)
(* below the index are one pick ahead of those above it.                   *)
RoundOf(k) ==
  /\ picks[0] \in {k, k + 1}
  /\ loopIndex = 0 => picks[0] = k
  /\ \A l \in 1 .. Len(loops) - 1 :
       picks[l] = IF l < loopIndex THEN k + 1 ELSE k

Rotation == started => \E k \in Nat : RoundOf(k)

PoolInv == PoolTypeOK /\ LoopsInOrder /\ Rotation

LEMMA InitPool == PoolInit => PoolInv
<1> SUFFICES ASSUME PoolInit PROVE PoolInv
  OBVIOUS
<1>1. /\ loops = <<0>> /\ Len(loops) = 1 /\ loops[1] = 0
      /\ loops # <<>> /\ 0 \in LoopId
  BY EventLoopThreadpoolAssumption DEF PoolInit, LoopId
<1>2. loops \in Seq(LoopId)
  BY <1>1
<1>3. PoolTypeOK
  <2>1. picks \in [LoopId -> Nat] /\ stopped \subseteq LoopId
    BY DEF PoolInit
  <2>2. numThreads \in 0 .. MaxThreads
    BY EventLoopThreadpoolAssumption DEF PoolInit
  <2>5. started \in BOOLEAN
    BY DEF PoolInit
  <2>3. loopIndex \in 0 .. Len(loops)
    BY <1>1 DEF PoolInit
  <2>4. QED
    BY <1>1, <1>2, <2>1, <2>2, <2>3, <2>5 DEF PoolTypeOK
<1>4. QED
  BY <1>1, <1>3, EventLoopThreadpoolAssumption
     DEF PoolInit, PoolInv, LoopsInOrder, Rotation

LEMMA StartKeepsPool == ASSUME PoolInv, StartPool PROVE PoolInv'
<1> DEFINE new == [i \in 1 .. numThreads |-> i]
<1>1. /\ Len(loops) = 1 /\ loops[1] = 0 /\ loops \in Seq(LoopId)
      /\ numThreads \in 0 .. MaxThreads /\ loopIndex \in 0 .. 1
  <2>1. ~started /\ Len(loops) = 1 /\ loops[1] = 1 - 1
    BY DEF PoolInv, LoopsInOrder, StartPool
  <2>2. QED
    BY <2>1 DEF PoolInv, PoolTypeOK
<1>2. /\ started' = TRUE /\ picks' = [l \in LoopId |-> 0]
      /\ UNCHANGED <<numThreads, loopIndex, stopped>>
  BY DEF StartPool
<1>3. NewLoops = new /\ numThreads \in Nat
  BY <1>1, EventLoopThreadpoolAssumption DEF NewLoops
<1>4. new \in Seq(LoopId) /\ Len(new) = numThreads
  <2>1. new \in [1 .. numThreads -> LoopId]
    BY <1>1, EventLoopThreadpoolAssumption DEF LoopId
  <2>2. QED
    BY <1>3, <2>1
<1>5. loops' = loops \o new
  BY <1>3 DEF StartPool
<1>6. \A i \in 1 .. numThreads : new[i] = i
  OBVIOUS
<1> HIDE DEF new
<1>7. /\ loops' \in Seq(LoopId) /\ Len(loops') = numThreads + 1
      /\ \A i \in 1 .. numThreads + 1 : loops'[i] = IF i <= 1 THEN loops[i] ELSE new[i - 1]
  <2>1. /\ loops \o new \in Seq(LoopId) /\ Len(loops \o new) = Len(loops) + Len(new)
        /\ \A i \in 1 .. Len(loops) + Len(new) :
             (loops \o new)[i] = IF i <= Len(loops) THEN loops[i] ELSE new[i - Len(loops)]
    BY ONLY <1>1, <1>4, ConcatProperties
  <2>2. Len(loops) + Len(new) = numThreads + 1
    BY <1>1, <1>3, <1>4
  <2>3. QED
    BY <1>1, <1>5, <2>1, <2>2
<1>8. ASSUME NEW i \in 1 .. Len(loops') PROVE loops'[i] = i - 1
  <2>1. i \in 1 .. numThreads + 1
    BY <1>3, <1>7
  <2>2. CASE i <= 1
    BY <1>1, <1>3, <1>7, <2>1, <2>2
  <2>3. CASE i > 1
    <3>1. i - 1 \in 1 .. numThreads /\ ~ (i <= 1)
      BY <1>3, <2>1, <2>3
    <3>2. QED
      BY <1>6, <1>7, <2>1, <3>1
  <2>4. QED
    BY <1>3, <2>1, <2>2, <2>3
<1>9. loops' # <<>>
  BY <1>3, <1>7
<1>10. PoolTypeOK'
  BY <1>1, <1>2, <1>3, <1>7, <1>9 DEF PoolInv, PoolTypeOK
<1>11. LoopsInOrder'
  BY <1>1, <1>2, <1>7, <1>8, EventLoopThreadpoolAssumption DEF LoopsInOrder
<1>12. RoundOf(0)'
  <2>1. \A l \in 1 .. Len(loops') - 1 : l \in LoopId
    BY <1>1, <1>7, EventLoopThreadpoolAssumption DEF LoopId
  <2>2. 0 \in LoopId
    BY EventLoopThreadpoolAssumption DEF LoopId
  <2>3. \A l \in 1 .. Len(loops') - 1 : ~ (l < loopIndex')
    BY <1>1, <1>2, <1>3, <1>7
  <2>4. QED
    BY <1>2, <2>1, <2>2, <2>3 DEF RoundOf
<1>13. QED
  BY <1>10, <1>11, <1>12 DEF PoolInv, Rotation

LEMMA PickKeepsPool == ASSUME PoolInv, GetOneLoop PROVE PoolInv'
<1> DEFINE i == IF loopIndex = Len(loops) THEN 0 ELSE loopIndex
<1>1. /\ Len(loops) \in 1 .. MaxThreads + 1
      /\ loopIndex \in 0 .. Len(loops)
      /\ picks \in [0 .. MaxThreads -> Nat]
  BY DEF PoolInv, PoolTypeOK, LoopsInOrder, LoopId
<1>2. i \in 0 .. Len(loops) - 1 /\ i \in 0 .. MaxThreads /\ loops[i + 1] = i
  BY <1>1, EventLoopThreadpoolAssumption DEF PoolInv, LoopsInOrder
<1>3. /\ picks' = [picks EXCEPT ![i] = picks[i] + 1]
      /\ loopIndex' = i + 1
      /\ UNCHANGED <<numThreads, started, loops, stopped>>
  BY <1>2 DEF GetOneLoop
<1>4. picks' \in [0 .. MaxThreads -> Nat]
  BY <1>1, <1>2, <1>3
<1>5. loopIndex' \in 0 .. Len(loops)
  BY <1>1, <1>2, <1>3
<1>6. PoolTypeOK' /\ LoopsInOrder'
  BY <1>3, <1>4, <1>5 DEF PoolInv, PoolTypeOK, LoopsInOrder, LoopId
<1>7. ASSUME started PROVE \E k \in Nat : RoundOf(k)'
  <2> DEFINE n == Len(loops)
  <2>1. PICK k \in Nat : RoundOf(k)
    BY <1>7 DEF PoolInv, Rotation
  <2>2. n \in Nat /\ n >= 1 /\ loopIndex \in 0 .. n /\ n <= MaxThreads + 1
    BY <1>1, EventLoopThreadpoolAssumption
  <2>3. /\ picks[0] \in {k, k + 1}
        /\ loopIndex = 0 => picks[0] = k
        /\ \A l \in 1 .. n - 1 :
             picks[l] = IF l < loopIndex THEN k + 1 ELSE k
    BY <2>1 DEF RoundOf
  <2>4. \A l \in 0 .. n - 1 :
          l \in 0 .. MaxThreads
          /\ picks'[l] = IF l = i THEN picks[l] + 1 ELSE picks[l]
    BY <1>1, <1>2, <1>3, <2>2, EventLoopThreadpoolAssumption
  <2>5. n' = n
    BY <1>3
  <2> HIDE DEF n
  <2>6. CASE loopIndex = n
    <3>1. i = 0 /\ loopIndex' = 1
      BY <1>3, <2>6 DEF n
    <3>2. \A l \in 1 .. n - 1 : picks'[l] = k + 1
      BY <2>2, <2>3, <2>4, <2>6, <3>1
    <3>3. picks'[0] \in {k + 1, k + 2}
      BY <2>2, <2>3, <2>4, <3>1
    <3>4. RoundOf(k + 1)'
      BY <2>2, <2>5, <3>1, <3>2, <3>3 DEF RoundOf, n
    <3>5. QED
      BY <3>4
  <2>7. CASE loopIndex # n
    <3>1. i = loopIndex /\ loopIndex' = loopIndex + 1
      BY <1>3, <2>7 DEF n
    <3>2. \A l \in 1 .. n - 1 :
            picks'[l] = IF l < loopIndex + 1 THEN k + 1 ELSE k
      BY <2>2, <2>3, <2>4, <2>7, <3>1
    <3>3. picks'[0] \in {k, k + 1}
      BY <2>2, <2>3, <2>4, <3>1
    <3>4. RoundOf(k)'
      BY <2>2, <2>5, <3>1, <3>2, <3>3 DEF RoundOf, n
    <3>5. QED
      BY <3>4
  <2>8. QED
    BY <2>6, <2>7
<1>8. QED
  BY <1>3, <1>6, <1>7 DEF PoolInv, Rotation

LEMMA PoolInvariance == PoolSpec => []PoolInv
<1>1. PoolInv /\ [PoolNext]_poolVars => PoolInv'
  <2> SUFFICES ASSUME PoolInv, [PoolNext]_poolVars PROVE PoolInv'
    OBVIOUS
  <2> USE EventLoopThreadpoolAssumption
  <2>1. ASSUME NEW n \in 0 .. MaxThreads, SetThreadNum(n) PROVE PoolInv'
    BY <2>1
       DEF SetThreadNum, PoolInv, PoolTypeOK, LoopsInOrder, Rotation, RoundOf, LoopId
  <2>2. CASE StartPool
    BY <2>2, StartKeepsPool
  <2>3. CASE GetOneLoop
    BY <2>3, PickKeepsPool
  <2>4. CASE StopPool
    <3>1. { loops[i] : i \in 2 .. Len(loops) } \subseteq LoopId
      <4>1. Len(loops) \in 1 .. MaxThreads + 1
        BY DEF PoolInv, LoopsInOrder
      <4>2. ASSUME NEW i \in 2 .. Len(loops) PROVE loops[i] \in LoopId
        <5>1. loops[i] = i - 1
          BY <4>1 DEF PoolInv, LoopsInOrder
        <5>2. QED
          BY <4>1, <5>1 DEF LoopId
      <4>3. QED
        BY <4>2
    <3>2. QED
      BY <2>4, <3>1
         DEF StopPool, PoolInv, PoolTypeOK, LoopsInOrder, Rotation, RoundOf, LoopId
  <2>5. CASE UNCHANGED poolVars
    BY <2>5
       DEF poolVars, PoolInv, PoolTypeOK, LoopsInOrder, Rotation, RoundOf, LoopId
  <2>6. QED
    BY <2>1, <2>2, <2>3, <2>4, <2>5 DEF PoolNext
<1>2. QED
  BY <1>1, InitPool, PTL DEF PoolSpec

LEMMA RotationIsEven == ASSUME PoolInv PROVE EvenShare
<1> SUFFICES ASSUME started,
                    NEW i \in 1 .. Len(loops), NEW j \in 1 .. Len(loops)
             PROVE  picks[loops[i]] <= picks[loops[j]] + 1
  BY DEF EvenShare
<1>1. PICK k \in Nat : RoundOf(k)
  BY DEF PoolInv, Rotation
<1>2. \A l \in 0 .. Len(loops) - 1 : picks[l] \in {k, k + 1}
  <2>1. picks[0] \in {k, k + 1}
    BY <1>1 DEF RoundOf
  <2>2. ASSUME NEW l \in 1 .. Len(loops) - 1 PROVE picks[l] \in {k, k + 1}
    BY <1>1 DEF RoundOf
  <2>3. Len(loops) \in Nat
    BY DEF PoolInv, PoolTypeOK
  <2>4. \A l \in 0 .. Len(loops) - 1 : l = 0 \/ l \in 1 .. Len(loops) - 1
    BY <2>3
  <2>5. QED
    BY <2>1, <2>2, <2>4
<1>3. loops[i] = i - 1 /\ loops[j] = j - 1 /\ Len(loops) \in Nat
  BY DEF PoolInv, LoopsInOrder, PoolTypeOK
<1>4. QED
  BY <1>2, <1>3

(* getOneLoop deals connections evenly, for every number of threads and    *)
(* whenever it is first called.                                            *)
THEOREM PoolIsFair == PoolSpec => []EvenShare
<1>1. PoolInv => EvenShare
  BY RotationIsEven
<1>2. QED
  BY <1>1, PoolInvariance, PTL

(* The members of an EventLoopThreadpool keep their types.                 *)
THEOREM PoolTypeInvariant == PoolSpec => []PoolTypeOK
<1>1. PoolInv => PoolTypeOK
  BY DEF PoolInv
<1>2. QED
  BY <1>1, PoolInvariance, PTL

-----------------------------------------------------------------------------
(* Descriptors.                                                            *)

(* open and accept give a descriptor that is free.                         *)
LEMMA LowestIsFree == ASSUME Free # {} PROVE LowestFree \in Free
<1> DEFINE R == OpToRel(<, Nat)
<1>1. Free \subseteq Nat
  BY TCPServerAssumption DEF Free, Fd
<1>2. IsWellFoundedOn(R, Nat)
  BY NatLessThanWellFounded
<1>3. \A x, y \in Nat : x < y => <<x, y>> \in R
  BY DEF OpToRel
<1> HIDE DEF R
<1>4. \E x \in Free : \A y \in Free : ~ (<<y, x>> \in R)
  BY <1>1, <1>2, WFMin
<1>5. \E x \in Free : \A y \in Free : x <= y
  <2>1. PICK x \in Free : \A y \in Free : ~ (<<y, x>> \in R)
    BY <1>4
  <2>2. \A y \in Free : x <= y
    <3> TAKE y \in Free
    <3>1. x \in Nat /\ y \in Nat
      BY <1>1
    <3>2. ~ (y < x)
      BY <1>3, <2>1, <3>1
    <3>3. QED
      BY <3>1, <3>2
  <2>3. QED
    BY <2>2
<1>6. QED
  BY <1>5 DEF LowestFree, Min

-----------------------------------------------------------------------------
(* The spare descriptor.                                                   *)

Place == {"idle", "accept", "callback", "release", "take", "drop", "reopen"}

(* Between close(nullfd_) and the next call that gives a descriptor the    *)
(* acceptor has none, and handleRead is over before the server's end.      *)
SpareInv ==
  /\ SpareIsOwn
  /\ pc \in Place
  /\ holder \in [Fd -> {"free", "acceptor", "connection", "other"}]
  /\ pc \in {"take", "reopen"} => \A fd \in Fd : holder[fd] # "acceptor"
  /\ phase \in {"joining", "gone"} => pc = "idle"

LEMMA InitSpare == ServerInit => SpareInv
BY TCPServerAssumption DEF ServerInit, SpareInv, SpareIsOwn, Place, Fd

LEMMA NoneIsNoDescriptor == None \notin Fd
BY TCPServerAssumption DEF None, Fd

LEMMA AcceptKeepsSpare == ASSUME SpareInv, AcceptStep PROVE SpareInv'
<1> USE NoneIsNoDescriptor DEF SpareInv, SpareIsOwn, Place
<1>1. Free # {} => LowestFree \in Fd /\ holder[LowestFree] = "free"
  BY LowestIsFree DEF Free
<1>2. CASE Accept
  BY <1>1, <1>2 DEF Accept, Accepts, newConnection
<1>3. CASE EndCallback \/ NobodyWaits \/ NoDescriptor
  BY <1>3 DEF EndCallback, NobodyWaits, NoDescriptor
<1>4. CASE Release \/ Drop
  BY <1>4 DEF Release, Drop, Close
<1>5. CASE Take
  BY <1>1, <1>5 DEF Take, Accepts
<1>6. CASE Reopen
  BY <1>1, <1>6 DEF Reopen
<1>7. QED
  BY <1>2, <1>3, <1>4, <1>5, <1>6 DEF AcceptStep

LEMMA SpareInvariance == ServerSafety => []SpareInv
<1>1. SpareInv /\ [ServerNext]_serverVars => SpareInv'
  <2> SUFFICES ASSUME SpareInv, [ServerNext]_serverVars PROVE SpareInv'
    OBVIOUS
  <2> USE DEF SpareInv, SpareIsOwn, Place, acceptorVars
  <2>1. ASSUME NEW n \in 0 .. MaxThreads, SetThreads(n) PROVE SpareInv'
    BY <2>1 DEF SetThreads
  <2>2. CASE Start \/ Destroy
    BY <2>2 DEF Start, Destroy, BaseLoopFree
  <2>3. CASE Destroyed
    BY <2>3 DEF Destroyed
  <2>4. CASE HandleRead
    BY <2>4 DEF HandleRead
  <2>5. CASE AcceptStep
    BY <2>5, AcceptKeepsSpare
  <2>6. ASSUME NEW l \in LoopId, RunFunctor(l) PROVE SpareInv'
    BY <2>6 DEF RunFunctor
  <2>7. ASSUME NEW c \in Client, CloseConnection(c) \/ Connect(c) PROVE SpareInv'
    BY <2>7 DEF CloseConnection, Connect
  <2>8. CASE OtherOpens
    <3>1. LowestFree \in Fd /\ holder[LowestFree] = "free"
      BY <2>8, LowestIsFree DEF OtherOpens, Free
    <3>2. QED
      BY <2>8, <3>1 DEF OtherOpens
  <2>9. CASE OtherCloses
    BY <2>9 DEF OtherCloses, Close
  <2>10. CASE UNCHANGED serverVars
    BY <2>10 DEF serverVars
  <2>11. QED
    BY <2>1, <2>2, <2>3, <2>4, <2>5, <2>6, <2>7, <2>8, <2>9, <2>10 DEF ServerNext
<1>2. QED
  BY <1>1, InitSpare, PTL DEF ServerSafety

(* nullfd_ is the acceptor's own descriptor or none, for any number of     *)
(* descriptors and whatever the rest of the process opens and closes.      *)
THEOREM SpareDescriptorIsOwn == ServerSafety => []SpareIsOwn
<1>1. SpareInv => SpareIsOwn
  BY DEF SpareInv
<1>2. QED
  BY <1>1, SpareInvariance, PTL

-----------------------------------------------------------------------------
(* Queues of which each element is in them once.                           *)

NoRepeats(s) == \A i, j \in 1 .. Len(s) : s[i] = s[j] => i = j

LEMMA AppendOnce ==
  ASSUME NEW S, NEW s \in Seq(S), NEW e \in S
  PROVE  /\ Append(s, e) \in Seq(S)
         /\ Range(Append(s, e)) = Range(s) \cup {e}
         /\ NoRepeats(s) /\ e \notin Range(s) => NoRepeats(Append(s, e))
<1> DEFINE t == Append(s, e)
<1>1. /\ t \in Seq(S) /\ Len(t) = Len(s) + 1 /\ Len(s) \in Nat
      /\ t[Len(s) + 1] = e
      /\ \A i \in 1 .. Len(s) : t[i] = s[i]
      /\ DOMAIN t = 1 .. Len(t) /\ DOMAIN s = 1 .. Len(s)
  OBVIOUS
<1> HIDE DEF t
<1>2. Range(t) = Range(s) \cup {e}
  <2>1. \A i \in 1 .. Len(t) : i \in 1 .. Len(s) \/ i = Len(s) + 1
    BY <1>1
  <2>2. \A i \in 1 .. Len(s) : i \in 1 .. Len(t)
    BY <1>1
  <2>3. Len(s) + 1 \in 1 .. Len(t)
    BY <1>1
  <2>4. Range(t) \subseteq Range(s) \cup {e}
    BY <1>1, <2>1 DEF Range
  <2>5. Range(s) \subseteq Range(t) /\ e \in Range(t)
    BY <1>1, <2>2, <2>3 DEF Range
  <2>6. QED
    BY <2>4, <2>5
<1>3. ASSUME NoRepeats(s), e \notin Range(s) PROVE NoRepeats(t)
  <2>1. \A i \in 1 .. Len(s) : s[i] # e
    BY <1>1, <1>3 DEF Range
  <2>2. \A i \in 1 .. Len(t) : i \in 1 .. Len(s) \/ i = Len(s) + 1
    BY <1>1
  <2>3. QED
    BY <1>1, <1>3, <2>1, <2>2 DEF NoRepeats
<1>4. QED
  BY <1>1, <1>2, <1>3 DEF t

LEMMA TailOnce ==
  ASSUME NEW S, NEW s \in Seq(S), s # <<>>, NoRepeats(s)
  PROVE  /\ Head(s) \in S /\ Head(s) \in Range(s)
         /\ Tail(s) \in Seq(S) /\ NoRepeats(Tail(s))
         /\ Range(Tail(s)) = Range(s) \ {Head(s)}
<1> DEFINE t == Tail(s)
<1>1. /\ t \in Seq(S) /\ Len(t) = Len(s) - 1 /\ Len(s) \in Nat \ {0}
      /\ Head(s) = s[1] /\ Head(s) \in S
      /\ \A i \in 1 .. Len(t) : t[i] = s[i + 1]
      /\ DOMAIN t = 1 .. Len(t) /\ DOMAIN s = 1 .. Len(s)
  OBVIOUS
<1> HIDE DEF t
<1>2. Head(s) \in Range(s)
  BY <1>1 DEF Range
<1>3. \A i \in 1 .. Len(t) : i + 1 \in 1 .. Len(s) /\ i + 1 # 1 /\ i \in Int
  BY <1>1
<1>4. NoRepeats(t)
  <2>1. SUFFICES ASSUME NEW i \in 1 .. Len(t), NEW j \in 1 .. Len(t), t[i] = t[j]
                 PROVE  i = j
    BY DEF NoRepeats
  <2>2. i + 1 = j + 1
    BY <1>1, <1>3, <2>1 DEF NoRepeats
  <2>3. QED
    BY <1>3, <2>2
<1>5. Range(t) \subseteq Range(s) \ {Head(s)}
  <2>1. \A i \in 1 .. Len(t) : t[i] # s[1]
    <3>1. 1 \in 1 .. Len(s)
      BY <1>1
    <3>2. QED
      BY <1>1, <1>3, <3>1 DEF NoRepeats
  <2>2. QED
    BY <1>1, <1>3, <2>1 DEF Range
<1>6. Range(s) \ {Head(s)} \subseteq Range(t)
  <2>1. SUFFICES ASSUME NEW i \in 1 .. Len(s), s[i] # s[1] PROVE s[i] \in Range(t)
    BY <1>1 DEF Range
  <2>2. i - 1 \in 1 .. Len(t) /\ t[i - 1] = s[i]
    BY <1>1, <2>1
  <2>3. QED
    BY <1>1, <2>2 DEF Range
<1>7. QED
  BY <1>1, <1>2, <1>4, <1>5, <1>6 DEF t

-----------------------------------------------------------------------------
(* The pool of a server is a pool: its invariant holds here as well.       *)

LEMMA ServerPool == ServerSafety => []PoolInv
<1> USE EventLoopThreadpoolAssumption
<1>1. ServerInit => PoolInv
  BY InitPool DEF ServerInit
<1>2. PoolInv /\ [ServerNext]_serverVars => PoolInv'
  <2> SUFFICES ASSUME PoolInv, [ServerNext]_serverVars PROVE PoolInv'
    OBVIOUS
  <2>1. CASE UNCHANGED poolVars
    BY <2>1
       DEF poolVars, PoolInv, PoolTypeOK, LoopsInOrder, Rotation, RoundOf, LoopId
  <2>2. ASSUME NEW n \in 0 .. MaxThreads, SetThreads(n) PROVE PoolInv'
    BY <2>2 DEF SetThreads, SetThreadNum, PoolInv, PoolTypeOK, LoopsInOrder,
                Rotation, RoundOf, LoopId
  <2>3. CASE Start
    BY <2>1, <2>3, StartKeepsPool DEF Start
  <2>4. CASE Accept
    BY <2>4, PickKeepsPool DEF Accept, newConnection
  <2>5. CASE AcceptStep /\ ~Accept
    BY <2>1, <2>5 DEF AcceptStep, EndCallback, NobodyWaits, NoDescriptor, Release,
                      Take, Drop, Reopen
  <2>6. CASE Destroy \/ Destroyed \/ HandleRead
    BY <2>1, <2>6 DEF Destroy, Destroyed, HandleRead
  <2>7. CASE \/ \E l \in LoopId : RunFunctor(l)
             \/ \E c \in Client : CloseConnection(c) \/ Connect(c)
             \/ OtherOpens \/ OtherCloses
    BY <2>1, <2>7 DEF RunFunctor, CloseConnection, Connect, OtherOpens, OtherCloses
  <2>8. CASE UNCHANGED serverVars
    BY <2>1, <2>8 DEF serverVars
  <2>9. QED
    BY <2>2, <2>3, <2>4, <2>5, <2>6, <2>7, <2>8 DEF ServerNext
<1>3. QED
  BY <1>1, <1>2, PTL DEF ServerSafety

(* newConnection deals the connections of a server evenly to the loops of  *)
(* its pool, however clients come and go.                                  *)
THEOREM ServerDealsEvenly == ServerSafety => []EvenShare
<1>1. PoolInv => EvenShare
  BY RotationIsEven
<1>2. QED
  BY <1>1, ServerPool, PTL

(* getOneLoop gives a loop of the pool, so a connection has one.           *)
LEMMA PickIsLoop == ASSUME PoolInv, GetOneLoop PROVE loops[loopIndex'] \in LoopId
<1>1. PoolInv' /\ loops' = loops
  BY PickKeepsPool DEF GetOneLoop
<1>2. loopIndex' \in 1 .. Len(loops)
  BY <1>1 DEF PoolInv, PoolTypeOK, LoopsInOrder, GetOneLoop
<1>3. QED
  BY <1>2 DEF PoolInv, PoolTypeOK

-----------------------------------------------------------------------------
(* The connections.                                                        *)

ConnectionTypes ==
  /\ client \in [Client -> {"away", "waiting", "connecting", "up", "down", "dropped"}]
  /\ loopOf \in [Client -> LoopId]
  /\ functors \in [LoopId -> Seq(Functor)]
  /\ backlog \in Seq(Client)
  /\ conectionID_ \in Nat

(* The kernel has a client in its queue once, and while it waits.          *)
BacklogWaits ==
  NoRepeats(backlog) /\ \A c \in Range(backlog) : client[c] = "waiting"

FunctorsOnce == OnItsLoop /\ \A l \in LoopId : NoRepeats(functors[l])

(* Names are numbered below conectionID_ and name one connection each.     *)
NamesOnce ==
  /\ \A id \in DOMAIN TCPPtrMap_ : id \in Nat /\ id < conectionID_
  /\ \A i, j \in DOMAIN TCPPtrMap_ : TCPPtrMap_[i] = TCPPtrMap_[j] => i = j

Entered(c) == \E id \in DOMAIN TCPPtrMap_ : TCPPtrMap_[id] = c

Tracked(c) ==
  \/ client[c] \in {"connecting", "up"}
  \/ client[c] = "down" /\ <<"remove", c>> \in Range(functors[0])

EntersTracked == phase # "gone" => \A c \in Client : Entered(c) <=> Tracked(c)

ConnectionInv ==
  ConnectionTypes /\ BacklogWaits /\ FunctorsOnce /\ NamesOnce /\ EntersTracked

LEMMA LoopZero == 0 \in LoopId
BY EventLoopThreadpoolAssumption DEF LoopId

LEMMA InitConnections == ServerInit => ConnectionInv
<1> SUFFICES ASSUME ServerInit PROVE ConnectionInv
  OBVIOUS
<1>1. Range(<<>>) = {} /\ DOMAIN <<>> = {} /\ NoRepeats(<<>>)
  BY DEF Range, NoRepeats
<1>2. ConnectionTypes
  BY LoopZero DEF ServerInit, ConnectionTypes
<1>3. BacklogWaits /\ FunctorsOnce /\ NamesOnce
  BY <1>1 DEF ServerInit, BacklogWaits, FunctorsOnce, OnItsLoop, NamesOnce
<1>4. EntersTracked
  BY <1>1, LoopZero DEF ServerInit, EntersTracked, Entered, Tracked
<1>5. QED
  BY <1>2, <1>3, <1>4 DEF ConnectionInv

(* Functors, as elements of the queues.                                    *)
LEMMA FunctorIsPair ==
  ASSUME NEW c \in Client
  PROVE  /\ <<"establish", c>> \in Functor /\ <<"remove", c>> \in Functor
         /\ <<"establish", c>>[1] = "establish" /\ <<"establish", c>>[2] = c
         /\ <<"remove", c>>[1] = "remove" /\ <<"remove", c>>[2] = c
         /\ \A f \in Functor : /\ f[1] \in {"establish", "remove"} /\ f[2] \in Client
                               /\ f = <<f[1], f[2]>>
BY DEF Functor

LEMMA QueuedIsFunctor ==
  ASSUME ConnectionTypes, NEW l \in LoopId
  PROVE  functors[l] \in Seq(Functor) /\ Range(functors[l]) \subseteq Functor
<1>1. functors[l] \in Seq(Functor)
  BY DEF ConnectionTypes
<1>2. QED
  BY <1>1 DEF Range

(* Erase takes one connection out of the map and leaves the others.        *)
LEMMA EraseOne ==
  ASSUME NamesOnce, NEW c, Erase(c), UNCHANGED conectionID_
  PROVE  NamesOnce' /\ \A d : Entered(d)' <=> Entered(d) /\ d # c
BY DEF NamesOnce, Erase, Entered

(* Only connections in "connecting" and "down" have functors.              *)
LEMMA QueuedClient ==
  ASSUME ConnectionInv, NEW l \in LoopId, NEW f \in Range(functors[l])
  PROVE  /\ f[1] \in {"establish", "remove"} /\ f[2] \in Client
         /\ f = <<f[1], f[2]>>
         /\ client[f[2]] = IF f[1] = "establish" THEN "connecting" ELSE "down"
<1>1. f \in Functor
  BY QueuedIsFunctor DEF ConnectionInv
<1>2. f[1] \in {"establish", "remove"} /\ f[2] \in Client /\ f = <<f[1], f[2]>>
  BY <1>1 DEF Functor
<1>3. QED
  BY <1>2 DEF ConnectionInv, FunctorsOnce, OnItsLoop

LEMMA OthersKeepConnections ==
  ASSUME ConnectionInv, UNCHANGED <<connectionVars, backlog>>,
         phase' # "gone" => phase # "gone"
  PROVE  ConnectionInv'
BY DEF ConnectionInv, ConnectionTypes, BacklogWaits, FunctorsOnce, OnItsLoop,
       NamesOnce, EntersTracked, Entered, Tracked, connectionVars

LEMMA ConnectKeeps ==
  ASSUME ConnectionInv, NEW c \in Client, Connect(c) PROVE ConnectionInv'
<1> USE DEF ConnectionInv, Connect
<1>1. client[c] = "away" /\ client' = [client EXCEPT ![c] = "waiting"]
      /\ backlog' = Append(backlog, c)
      /\ UNCHANGED <<phase, conectionID_, TCPPtrMap_, functors, loopOf>>
  OBVIOUS
<1>2. /\ backlog' \in Seq(Client)
      /\ Range(backlog') = Range(backlog) \cup {c}
      /\ NoRepeats(backlog')
  <2>1. backlog \in Seq(Client) /\ NoRepeats(backlog) /\ c \notin Range(backlog)
    BY <1>1 DEF ConnectionTypes, BacklogWaits
  <2>2. QED
    BY <1>1, <2>1, AppendOnce
<1>3. ConnectionTypes'
  BY <1>1, <1>2 DEF ConnectionTypes
<1>4. client'[c] = "waiting" /\ \A d \in Client : d # c => client'[d] = client[d]
  BY <1>1 DEF ConnectionTypes
<1>5. Range(backlog) \subseteq Client
  BY DEF ConnectionTypes, Range
<1>6. BacklogWaits'
  BY <1>2, <1>4, <1>5 DEF BacklogWaits
<1>7. FunctorsOnce'
  <2>1. \A l \in LoopId : \A f \in Range(functors[l]) : f[2] \in Client /\ f[2] # c
    BY <1>1, QueuedClient
  <2>2. QED
    BY <1>1, <1>4, <2>1 DEF FunctorsOnce, OnItsLoop
<1>8. NamesOnce'
  BY <1>1 DEF NamesOnce
<1>9. EntersTracked'
  <2>1. \A d \in Client : Entered(d)' <=> Entered(d)
    BY <1>1 DEF Entered
  <2>2. \A d \in Client : Tracked(d)' <=> Tracked(d)
    BY <1>1, <1>4 DEF Tracked
  <2>3. QED
    BY <1>1, <2>1, <2>2 DEF EntersTracked
<1>10. QED
  BY <1>3, <1>6, <1>7, <1>8, <1>9

LEMMA DestroyedKeeps == ASSUME ConnectionInv, Destroyed PROVE ConnectionInv'
<1> USE DEF ConnectionInv, Destroyed
<1>1. \A d \in Client : client[d] # "waiting" => client'[d] = client[d]
  OBVIOUS
<1>2. ConnectionTypes'
  BY DEF ConnectionTypes
<1>3. BacklogWaits'
  BY DEF BacklogWaits, NoRepeats, Range
<1>4. FunctorsOnce'
  <2>1. \A l \in LoopId : \A f \in Range(functors[l]) :
          f[2] \in Client /\ client[f[2]] # "waiting"
    BY QueuedClient
  <2>2. QED
    BY <1>1, <2>1 DEF FunctorsOnce, OnItsLoop
<1>5. NamesOnce' /\ EntersTracked'
  BY DEF NamesOnce, EntersTracked
<1>6. QED
  BY <1>2, <1>3, <1>4, <1>5

(* The head of the kernel's queue, who is accepted.                        *)
LEMMA HeadOfBacklog ==
  ASSUME ConnectionInv, Accepts, backlog' = Tail(backlog)
  PROVE  /\ Head(backlog) \in Client /\ client[Head(backlog)] = "waiting"
         /\ backlog' \in Seq(Client) /\ NoRepeats(backlog')
         /\ \A c \in Range(backlog') :
              c \in Client /\ client[c] = "waiting" /\ c # Head(backlog)
<1>1. backlog \in Seq(Client) /\ NoRepeats(backlog) /\ backlog # <<>>
  BY DEF ConnectionInv, ConnectionTypes, BacklogWaits, Accepts
<1>2. /\ Head(backlog) \in Client /\ Head(backlog) \in Range(backlog)
      /\ Tail(backlog) \in Seq(Client) /\ NoRepeats(Tail(backlog))
      /\ Range(Tail(backlog)) = Range(backlog) \ {Head(backlog)}
  BY <1>1, TailOnce
<1>3. Range(backlog) \subseteq Client
  BY <1>1 DEF Range
<1>4. QED
  BY <1>2, <1>3 DEF ConnectionInv, BacklogWaits

LEMMA TakeKeeps == ASSUME ConnectionInv, Take PROVE ConnectionInv'
<1>1. CASE ~ Accepts
  BY <1>1, OthersKeepConnections DEF Take, connectionVars
<1>2. CASE Accepts
  <2> DEFINE c == Head(backlog)
  <2>1. /\ client' = [client EXCEPT ![c] = "dropped"] /\ backlog' = Tail(backlog)
        /\ UNCHANGED <<phase, conectionID_, TCPPtrMap_, functors, loopOf>>
    BY <1>2 DEF Take
  <2>2. /\ c \in Client /\ client[c] = "waiting"
        /\ backlog' \in Seq(Client) /\ NoRepeats(backlog')
        /\ \A d \in Range(backlog') : d \in Client /\ client[d] = "waiting" /\ d # c
    BY <1>2, <2>1, HeadOfBacklog
  <2> HIDE DEF c
  <2> USE DEF ConnectionInv
  <2>3. ConnectionTypes'
    BY <2>1, <2>2 DEF ConnectionTypes
  <2>4. client'[c] = "dropped" /\ \A d \in Client : d # c => client'[d] = client[d]
    BY <2>1, <2>2 DEF ConnectionTypes
  <2>5. BacklogWaits'
    BY <2>2, <2>4 DEF BacklogWaits
  <2>6. FunctorsOnce'
    <3>1. \A l \in LoopId : \A f \in Range(functors[l]) : f[2] \in Client /\ f[2] # c
      BY <2>2, QueuedClient
    <3>2. QED
      BY <2>1, <2>4, <3>1 DEF FunctorsOnce, OnItsLoop
  <2>7. NamesOnce'
    BY <2>1 DEF NamesOnce
  <2>8. EntersTracked'
    BY <2>1, <2>2, <2>4 DEF EntersTracked, Entered, Tracked
  <2>9. QED
    BY <2>3, <2>5, <2>6, <2>7, <2>8
<1>3. QED
  BY <1>1, <1>2

LEMMA AcceptKeeps ==
  ASSUME ConnectionInv, PoolInv, phase # "gone", Accept PROVE ConnectionInv'
<1> DEFINE c == Head(backlog)
           l == loops[loopIndex']
           e == <<"establish", c>>
<1>1. /\ Accepts /\ backlog' = Tail(backlog) /\ conectionID_' = conectionID_ + 1
      /\ Enter(conectionID_, c) /\ loopOf' = [loopOf EXCEPT ![c] = l]
      /\ phase' = phase /\ GetOneLoop
  BY DEF Accept, newConnection
<1>2. l \in LoopId
  BY <1>1, PickIsLoop
<1>3. /\ c \in Client /\ client[c] = "waiting"
      /\ backlog' \in Seq(Client) /\ NoRepeats(backlog')
      /\ \A d \in Range(backlog') : d \in Client /\ client[d] = "waiting" /\ d # c
  BY <1>1, HeadOfBacklog
<1>4. loopOf'[c] = l /\ \A d \in Client : d # c => loopOf'[d] = loopOf[d]
  BY <1>1, <1>3 DEF ConnectionInv, ConnectionTypes
<1>5. \/ client' = [client EXCEPT ![c] = "up"] /\ functors' = functors
      \/ /\ client' = [client EXCEPT ![c] = "connecting"]
         /\ functors' = [functors EXCEPT ![l] = Append(@, e)]
  BY <1>4 DEF Accept, newConnection, onEstablished
<1>6. e \in Functor /\ e[1] = "establish" /\ e[2] = c
  BY <1>3, FunctorIsPair
<1>7. \A k \in LoopId : \A f \in Range(functors[k]) : f[2] \in Client /\ f[2] # c
  BY <1>3, QueuedClient
<1> HIDE DEF c, l, e
<1> USE DEF ConnectionInv
<1>8. /\ client'[c] \in {"connecting", "up"}
      /\ \A d \in Client : d # c => client'[d] = client[d]
      /\ client' \in [Client -> {"away", "waiting", "connecting", "up", "down", "dropped"}]
  BY <1>3, <1>5 DEF ConnectionTypes
<1>9. /\ functors' \in [LoopId -> Seq(Functor)]
      /\ \A k \in LoopId : NoRepeats(functors'[k])
      /\ \A k \in LoopId : \A f \in Range(functors'[k]) :
           \/ f \in Range(functors[k])
           \/ k = l /\ f = e /\ client'[c] = "connecting"
      /\ \A k \in LoopId : Range(functors[k]) \subseteq Range(functors'[k])
  <2>1. CASE functors' = functors
    BY <2>1 DEF ConnectionTypes, FunctorsOnce
  <2>2. CASE /\ client' = [client EXCEPT ![c] = "connecting"]
             /\ functors' = [functors EXCEPT ![l] = Append(@, e)]
    <3>1. functors[l] \in Seq(Functor) /\ NoRepeats(functors[l]) /\ e \notin Range(functors[l])
      BY <1>2, <1>6, <1>7 DEF ConnectionTypes, FunctorsOnce
    <3>2. /\ Append(functors[l], e) \in Seq(Functor)
          /\ Range(Append(functors[l], e)) = Range(functors[l]) \cup {e}
          /\ NoRepeats(Append(functors[l], e))
      BY <1>6, <3>1, AppendOnce
    <3>3. functors'[l] = Append(functors[l], e)
          /\ \A k \in LoopId : k # l => functors'[k] = functors[k]
      BY <1>2, <2>2 DEF ConnectionTypes
    <3>4. functors' \in [LoopId -> Seq(Functor)]
      BY <1>2, <2>2, <3>2 DEF ConnectionTypes
    <3>5. client'[c] = "connecting"
      BY <1>3, <2>2 DEF ConnectionTypes
    <3>6. QED
      BY <3>2, <3>3, <3>4, <3>5 DEF FunctorsOnce
  <2>3. QED
    BY <1>5, <2>1, <2>2
<1>10. ConnectionTypes'
  <2>1. loopOf' \in [Client -> LoopId]
    BY <1>1, <1>2, <1>3 DEF ConnectionTypes
  <2>2. conectionID_' \in Nat
    BY <1>1 DEF ConnectionTypes
  <2>3. QED
    BY <1>3, <1>8, <1>9, <2>1, <2>2 DEF ConnectionTypes
<1>11. BacklogWaits'
  BY <1>3, <1>8 DEF BacklogWaits
<1>12. FunctorsOnce'
  <2>1. OnItsLoop'
    <3> SUFFICES ASSUME NEW k \in LoopId, NEW f \in Range(functors'[k])
                 PROVE  /\ f[1] = "establish" => k = loopOf'[f[2]] /\ client'[f[2]] = "connecting"
                        /\ f[1] = "remove" => k = 0 /\ client'[f[2]] = "down"
      BY DEF OnItsLoop
    <3>1. CASE f \in Range(functors[k])
      <4>1. f[2] \in Client /\ client'[f[2]] = client[f[2]] /\ loopOf'[f[2]] = loopOf[f[2]]
        BY <1>4, <1>7, <1>8, <3>1
      <4>2. QED
        BY <3>1, <4>1 DEF FunctorsOnce, OnItsLoop
    <3>2. CASE k = l /\ f = e /\ client'[c] = "connecting"
      BY <1>4, <1>6, <3>2
    <3>3. QED
      BY <1>9, <3>1, <3>2
  <2>2. QED
    BY <1>9, <2>1 DEF FunctorsOnce
<1>13. ~ Entered(c)
  BY <1>1, <1>3 DEF EntersTracked, Tracked, Accept
<1>14. NamesOnce' /\ \A d : Entered(d)' <=> Entered(d) \/ d = c
  <2>1. /\ DOMAIN TCPPtrMap_' = DOMAIN TCPPtrMap_ \cup {conectionID_}
        /\ TCPPtrMap_'[conectionID_] = c
        /\ \A i \in DOMAIN TCPPtrMap_ : i # conectionID_ /\ TCPPtrMap_'[i] = TCPPtrMap_[i]
    BY <1>1 DEF Enter, NamesOnce, ConnectionTypes
  <2>2. \A i \in DOMAIN TCPPtrMap_' : i \in Nat /\ i < conectionID_'
    BY <1>1, <2>1 DEF NamesOnce, ConnectionTypes
  <2>3. \A i \in DOMAIN TCPPtrMap_ : TCPPtrMap_[i] # c
    BY <1>13 DEF Entered
  <2>4. \A i, j \in DOMAIN TCPPtrMap_' : TCPPtrMap_'[i] = TCPPtrMap_'[j] => i = j
    BY <2>1, <2>3 DEF NamesOnce
  <2>5. \A d : Entered(d)' <=> Entered(d) \/ d = c
    BY <2>1 DEF Entered
  <2>6. QED
    BY <2>2, <2>4, <2>5 DEF NamesOnce
<1>15. EntersTracked'
  <2>1. \A d \in Client : d # c =>
          (<<"remove", d>> \in Range(functors'[0]) <=> <<"remove", d>> \in Range(functors[0]))
    <3>1. ASSUME NEW d \in Client, <<"remove", d>> \in Range(functors'[0])
          PROVE  <<"remove", d>> \in Range(functors[0])
      BY <1>6, <1>9, <3>1, LoopZero
    <3>2. QED
      BY <1>9, <3>1, LoopZero
  <2>2. \A d \in Client : Tracked(d)' <=> Tracked(d) \/ d = c
    BY <1>8, <2>1 DEF Tracked
  <2>3. QED
    BY <1>1, <1>14, <2>2 DEF EntersTracked
<1>16. QED
  BY <1>10, <1>11, <1>12, <1>14, <1>15

(* A loop that runs a functor leaves it, and no other one, out of its queue. *)
LEMMA HeadOfFunctors ==
  ASSUME ConnectionInv, NEW l \in LoopId, functors[l] # <<>>,
         functors' = [functors EXCEPT ![l] = Tail(@)]
  PROVE  /\ Head(functors[l]) \in Range(functors[l])
         /\ functors' \in [LoopId -> Seq(Functor)]
         /\ \A k \in LoopId : NoRepeats(functors'[k])
         /\ Range(functors'[l]) = Range(functors[l]) \ {Head(functors[l])}
         /\ \A k \in LoopId : k # l => functors'[k] = functors[k]
<1>1. functors[l] \in Seq(Functor) /\ NoRepeats(functors[l])
  BY DEF ConnectionInv, ConnectionTypes, FunctorsOnce
<1>2. /\ Head(functors[l]) \in Range(functors[l])
      /\ Tail(functors[l]) \in Seq(Functor) /\ NoRepeats(Tail(functors[l]))
      /\ Range(Tail(functors[l])) = Range(functors[l]) \ {Head(functors[l])}
  BY <1>1, TailOnce
<1>3. functors'[l] = Tail(functors[l]) /\ \A k \in LoopId : k # l => functors'[k] = functors[k]
  BY DEF ConnectionInv, ConnectionTypes
<1>4. functors' \in [LoopId -> Seq(Functor)]
  BY <1>2 DEF ConnectionInv, ConnectionTypes
<1>5. QED
  BY <1>2, <1>3, <1>4 DEF ConnectionInv, FunctorsOnce

LEMMA RunKeeps ==
  ASSUME ConnectionInv, NEW l \in LoopId, RunFunctor(l) PROVE ConnectionInv'
<1> DEFINE h == Head(functors[l])
           c == h[2]
<1>1. /\ functors[l] # <<>> /\ functors' = [functors EXCEPT ![l] = Tail(@)]
      /\ \/ h[1] = "establish" /\ onEstablished(c) /\ UNCHANGED TCPPtrMap_
         \/ h[1] = "remove" /\ removeConnectionInLoop(c) /\ UNCHANGED client
      /\ UNCHANGED <<phase, backlog, conectionID_, loopOf>>
  BY DEF RunFunctor, acceptorVars
<1>2. /\ h \in Range(functors[l])
      /\ functors' \in [LoopId -> Seq(Functor)]
      /\ \A k \in LoopId : NoRepeats(functors'[k])
      /\ Range(functors'[l]) = Range(functors[l]) \ {h}
      /\ \A k \in LoopId : k # l => functors'[k] = functors[k]
  BY <1>1, HeadOfFunctors
<1> HIDE DEF h
<1>3. /\ c \in Client /\ h = <<h[1], c>>
      /\ client[c] = IF h[1] = "establish" THEN "connecting" ELSE "down"
  BY <1>2, QueuedClient
<1>4. /\ h[1] = "establish" => l = loopOf[c]
      /\ h[1] = "remove" => l = 0
  BY <1>2 DEF ConnectionInv, FunctorsOnce, OnItsLoop
<1> HIDE DEF c
<1> USE DEF ConnectionInv
<1>5. \A k \in LoopId : Range(functors'[k]) \subseteq Range(functors[k]) \ {h}
  <2>1. SUFFICES ASSUME NEW k \in LoopId, k # l, h \in Range(functors[k]) PROVE FALSE
    BY <1>2
  <2>2. h[1] = "establish" => k = loopOf[c]
    BY <2>1 DEF FunctorsOnce, OnItsLoop, c
  <2>3. h[1] = "remove" => k = 0
    BY <2>1 DEF FunctorsOnce, OnItsLoop
  <2>4. QED
    BY <1>1, <1>4, <2>1, <2>2, <2>3
<1>6. CASE h[1] = "establish"
  <2>1. client' = [client EXCEPT ![c] = "up"] /\ UNCHANGED TCPPtrMap_
    BY <1>1, <1>6 DEF onEstablished
  <2>2. /\ client'[c] = "up" /\ \A d \in Client : d # c => client'[d] = client[d]
        /\ client' \in [Client -> {"away", "waiting", "connecting", "up", "down", "dropped"}]
    BY <1>3, <2>1 DEF ConnectionTypes
  <2>3. ConnectionTypes'
    BY <1>1, <1>2, <2>2 DEF ConnectionTypes
  <2>4. BacklogWaits'
    <3>1. \A d \in Range(backlog) : d \in Client /\ d # c
      BY <1>3, <1>6 DEF BacklogWaits, ConnectionTypes, Range
    <3>2. QED
      BY <1>1, <2>2, <3>1 DEF BacklogWaits
  <2>5. OnItsLoop'
    <3> SUFFICES ASSUME NEW k \in LoopId, NEW f \in Range(functors'[k])
                 PROVE  /\ f[1] = "establish" => k = loopOf'[f[2]] /\ client'[f[2]] = "connecting"
                        /\ f[1] = "remove" => k = 0 /\ client'[f[2]] = "down"
      BY DEF OnItsLoop
    <3>1. f \in Range(functors[k]) /\ f # h
      BY <1>5
    <3>2. f[2] \in Client /\ f = <<f[1], f[2]>> /\ f[1] \in {"establish", "remove"}
          /\ client[f[2]] = IF f[1] = "establish" THEN "connecting" ELSE "down"
      BY <3>1, QueuedClient
    <3>3. f[2] # c
      BY <1>3, <1>6, <3>1, <3>2
    <3>4. QED
      BY <1>1, <2>2, <3>1, <3>2, <3>3 DEF FunctorsOnce, OnItsLoop
  <2>6. NamesOnce'
    BY <1>1, <2>1 DEF NamesOnce
  <2>7. EntersTracked'
    <3>1. \A d : Entered(d)' <=> Entered(d)
      BY <2>1 DEF Entered
    <3>2. \A d \in Client :
            <<"remove", d>> \in Range(functors'[0]) <=> <<"remove", d>> \in Range(functors[0])
      BY <1>2, <1>3, <1>6, LoopZero
    <3>3. \A d \in Client : Tracked(d)' <=> Tracked(d)
      BY <1>3, <1>6, <2>2, <3>2 DEF Tracked
    <3>4. QED
      BY <1>1, <3>1, <3>3 DEF EntersTracked
  <2>8. QED
    BY <1>2, <2>3, <2>4, <2>5, <2>6, <2>7 DEF FunctorsOnce
<1>7. CASE h[1] = "remove"
  <2>1. removeConnectionInLoop(c) /\ UNCHANGED client
    BY <1>1, <1>7
  <2>2. ConnectionTypes' /\ BacklogWaits'
    BY <1>1, <1>2, <2>1 DEF ConnectionTypes, BacklogWaits
  <2>3. FunctorsOnce'
    BY <1>1, <1>2, <1>5, <2>1 DEF FunctorsOnce, OnItsLoop
  <2>4. CASE phase = "gone"
    <3>1. NamesOnce' /\ EntersTracked'
      BY <1>1, <2>1, <2>4 DEF removeConnectionInLoop, NamesOnce, EntersTracked
    <3>2. QED
      BY <2>2, <2>3, <3>1
  <2>5. CASE phase # "gone"
    <3>1. NamesOnce' /\ \A d : Entered(d)' <=> Entered(d) /\ d # c
      BY <1>1, <2>1, <2>5, EraseOne DEF removeConnectionInLoop
    <3>2. l = 0 /\ h = <<"remove", c>> /\ client[c] = "down"
      BY <1>3, <1>4, <1>7
    <3>3. \A d \in Client : <<"remove", d>> \in Range(functors'[0])
                            <=> <<"remove", d>> \in Range(functors[0]) /\ d # c
      BY <1>2, <3>2
    <3>4. \A d \in Client : Tracked(d)' <=> Tracked(d) /\ d # c
      BY <2>1, <3>2, <3>3 DEF Tracked
    <3>5. EntersTracked'
      BY <1>1, <3>1, <3>4 DEF EntersTracked
    <3>6. QED
      BY <2>2, <2>3, <3>1, <3>5
  <2>6. QED
    BY <2>4, <2>5
<1>8. QED
  BY <1>1, <1>6, <1>7

LEMMA CloseKeeps ==
  ASSUME ConnectionInv, NEW c \in Client, CloseConnection(c) PROVE ConnectionInv'
<1> DEFINE e == <<"remove", c>>
<1> USE DEF ConnectionInv
<1>1. /\ client[c] = "up" /\ client' = [client EXCEPT ![c] = "down"]
      /\ removeConnection(c) /\ UNCHANGED <<phase, backlog, conectionID_, loopOf>>
  BY DEF CloseConnection, acceptorVars
<1>2. /\ client'[c] = "down" /\ \A d \in Client : d # c => client'[d] = client[d]
      /\ client' \in [Client -> {"away", "waiting", "connecting", "up", "down", "dropped"}]
  BY <1>1 DEF ConnectionTypes
<1>3. e \in Functor /\ e[1] = "remove" /\ e[2] = c
  BY FunctorIsPair
<1>4. \A k \in LoopId : \A f \in Range(functors[k]) : f[2] \in Client /\ f[2] # c
  BY <1>1, QueuedClient
<1> HIDE DEF e
<1>5. BacklogWaits'
  <2>1. \A d \in Range(backlog) : d \in Client /\ d # c
    BY <1>1 DEF BacklogWaits, ConnectionTypes, Range
  <2>2. QED
    BY <1>1, <1>2, <2>1 DEF BacklogWaits
<1>6. \/ functors' = functors
      \/ /\ functors' = [functors EXCEPT ![0] = Append(@, e)] /\ phase # "gone"
         /\ loopOf[c] # 0 /\ UNCHANGED TCPPtrMap_
  BY <1>1 DEF removeConnection, e
<1>7. CASE functors' = functors
  <2>1. ConnectionTypes'
    BY <1>1, <1>2, <1>7 DEF ConnectionTypes
  <2>2. FunctorsOnce'
    BY <1>1, <1>2, <1>4, <1>7 DEF FunctorsOnce, OnItsLoop
  <2>3. e \notin Range(functors[0])
    BY <1>3, <1>4, LoopZero
  <2>4. CASE phase = "gone"
    <3>1. NamesOnce' /\ EntersTracked'
      BY <1>1, <2>4 DEF removeConnection, NamesOnce, EntersTracked
    <3>2. QED
      BY <1>5, <2>1, <2>2, <3>1
  <2>5. CASE phase # "gone"
    <3>1. Erase(c)
      <4>1. CASE loopOf[c] = 0
        BY <1>1, <2>5, <4>1 DEF removeConnection
      <4>2. CASE loopOf[c] # 0
        <5>1. functors'[0] = Append(functors[0], e) /\ functors[0] \in Seq(Functor)
          BY <1>1, <2>5, <4>2, LoopZero DEF removeConnection, ConnectionTypes, e
        <5>2. e \in Range(functors'[0])
          BY <1>3, <5>1, AppendOnce
        <5>3. QED
          BY <1>7, <2>3, <5>2
      <4>3. QED
        BY <4>1, <4>2
    <3>2. NamesOnce' /\ \A d : Entered(d)' <=> Entered(d) /\ d # c
      BY <1>1, <3>1, EraseOne
    <3>3. \A d \in Client : Tracked(d)' <=> Tracked(d) /\ d # c
      BY <1>1, <1>2, <1>7, <2>3 DEF Tracked, e
    <3>4. EntersTracked'
      BY <1>1, <3>2, <3>3 DEF EntersTracked
    <3>5. QED
      BY <1>5, <2>1, <2>2, <3>2, <3>4
  <2>6. QED
    BY <2>4, <2>5
<1>8. CASE /\ functors' = [functors EXCEPT ![0] = Append(@, e)] /\ phase # "gone"
           /\ UNCHANGED TCPPtrMap_
  <2>1. functors[0] \in Seq(Functor) /\ NoRepeats(functors[0]) /\ e \notin Range(functors[0])
    BY <1>3, <1>4, LoopZero DEF ConnectionTypes, FunctorsOnce
  <2>2. /\ Append(functors[0], e) \in Seq(Functor)
        /\ Range(Append(functors[0], e)) = Range(functors[0]) \cup {e}
        /\ NoRepeats(Append(functors[0], e))
    BY <1>3, <2>1, AppendOnce
  <2>3. functors'[0] = Append(functors[0], e)
        /\ \A k \in LoopId : k # 0 => functors'[k] = functors[k]
    BY <1>8, LoopZero DEF ConnectionTypes
  <2>4. functors' \in [LoopId -> Seq(Functor)]
    BY <1>8, <2>2, LoopZero DEF ConnectionTypes
  <2>5. ConnectionTypes'
    BY <1>1, <1>2, <2>4 DEF ConnectionTypes
  <2>6. OnItsLoop'
    <3> SUFFICES ASSUME NEW k \in LoopId, NEW f \in Range(functors'[k])
                 PROVE  /\ f[1] = "establish" => k = loopOf'[f[2]] /\ client'[f[2]] = "connecting"
                        /\ f[1] = "remove" => k = 0 /\ client'[f[2]] = "down"
      BY DEF OnItsLoop
    <3>1. f \in Range(functors[k]) \/ (k = 0 /\ f = e)
      BY <2>2, <2>3
    <3>2. CASE f \in Range(functors[k])
      BY <1>1, <1>2, <1>4, <3>2 DEF FunctorsOnce, OnItsLoop
    <3>3. CASE k = 0 /\ f = e
      BY <1>2, <1>3, <3>3
    <3>4. QED
      BY <3>1, <3>2, <3>3
  <2>7. FunctorsOnce'
    BY <2>2, <2>3, <2>6 DEF FunctorsOnce
  <2>8. NamesOnce'
    BY <1>1, <1>8 DEF NamesOnce
  <2>9. EntersTracked'
    <3>1. \A d \in Client : Entered(d)' <=> Entered(d)
      BY <1>8 DEF Entered
    <3>2. \A d \in Client : <<"remove", d>> \in Range(functors'[0])
                            <=> <<"remove", d>> \in Range(functors[0]) \/ d = c
      BY <2>2, <2>3 DEF e
    <3>3. \A d \in Client : Tracked(d)' <=> Tracked(d)
      BY <1>1, <1>2, <3>2 DEF Tracked
    <3>4. QED
      BY <1>1, <3>1, <3>3 DEF EntersTracked
  <2>10. QED
    BY <1>5, <2>5, <2>7, <2>8, <2>9
<1>9. QED
  BY <1>6, <1>7, <1>8

LEMMA ConnectionInvariance == ServerSafety => []ConnectionInv
<1>1. ConnectionInv /\ PoolInv /\ SpareInv /\ [ServerNext]_serverVars => ConnectionInv'
  <2> SUFFICES ASSUME ConnectionInv, PoolInv, SpareInv, [ServerNext]_serverVars
               PROVE  ConnectionInv'
    OBVIOUS
  <2>1. ASSUME NEW n \in 0 .. MaxThreads, SetThreads(n) PROVE ConnectionInv'
    BY <2>1, OthersKeepConnections DEF SetThreads, acceptorVars
  <2>2. CASE Start \/ Destroy
    BY <2>2, OthersKeepConnections DEF Start, Destroy, BaseLoopFree, acceptorVars
  <2>3. CASE Destroyed
    BY <2>3, DestroyedKeeps
  <2>4. CASE Accept
    BY <2>4, AcceptKeeps DEF SpareInv, Accept
  <2>5. CASE Take
    BY <2>5, TakeKeeps
  <2>6. CASE HandleRead \/ EndCallback \/ NobodyWaits \/ NoDescriptor
    BY <2>6, OthersKeepConnections DEF HandleRead, EndCallback, NobodyWaits, NoDescriptor
  <2>7. CASE Release \/ Drop \/ Reopen \/ OtherOpens \/ OtherCloses
    BY <2>7, OthersKeepConnections DEF Release, Drop, Reopen, OtherOpens, OtherCloses
  <2>8. ASSUME NEW l \in LoopId, RunFunctor(l) PROVE ConnectionInv'
    BY <2>8, RunKeeps
  <2>9. ASSUME NEW c \in Client, CloseConnection(c) \/ Connect(c) PROVE ConnectionInv'
    BY <2>9, CloseKeeps, ConnectKeeps
  <2>10. CASE UNCHANGED serverVars
    BY <2>10, OthersKeepConnections DEF serverVars, acceptorVars
  <2>11. QED
    BY <2>1, <2>2, <2>3, <2>4, <2>5, <2>6, <2>7, <2>8, <2>9, <2>10
       DEF ServerNext, AcceptStep
<1>2. QED
  BY <1>1, InitConnections, ServerPool, SpareInvariance, PTL DEF ServerSafety

(* A connection is established by the loop it was dealt to and removed by  *)
(* the base loop, for any clients, threads and interleaving of the loops.  *)
THEOREM FunctorsOnTheirLoop == ServerSafety => []OnItsLoop
<1>1. ConnectionInv => OnItsLoop
  BY DEF ConnectionInv, FunctorsOnce
<1>2. QED
  BY <1>1, ConnectionInvariance, PTL

(* TCPPtrMap_ holds each live connection once, and no other.               *)
THEOREM MapHoldsLiveConnections == ServerSafety => []MapTracksConnections
<1>1. ConnectionInv => MapTracksConnections
  <2> SUFFICES ASSUME ConnectionInv, phase # "gone", NEW c \in Client
               PROVE  Cardinality({ id \in DOMAIN TCPPtrMap_ : TCPPtrMap_[id] = c })
                        = IF Tracked(c) THEN 1 ELSE 0
    BY DEF MapTracksConnections, Tracked
  <2> DEFINE names == { id \in DOMAIN TCPPtrMap_ : TCPPtrMap_[id] = c }
  <2>1. Entered(c) <=> Tracked(c)
    BY DEF ConnectionInv, EntersTracked
  <2>2. CASE ~ Entered(c)
    <3>1. names = {}
      BY <2>2 DEF Entered
    <3>2. QED
      BY <2>1, <2>2, <3>1, FS_EmptySet
  <2>3. CASE Entered(c)
    <3>1. PICK id \in DOMAIN TCPPtrMap_ : TCPPtrMap_[id] = c
      BY <2>3 DEF Entered
    <3>2. names = {id}
      BY <3>1 DEF ConnectionInv, NamesOnce
    <3>3. QED
      BY <2>1, <2>3, <3>2, FS_Singleton
  <2>4. QED
    BY <2>2, <2>3
<1>2. QED
  BY <1>1, ConnectionInvariance, PTL

-----------------------------------------------------------------------------
(* Types.                                                                  *)

ServerTypes ==
  /\ phase \in {"built", "listening", "joining", "gone"}
  /\ nullfd_ \in Fd \cup {None}
  /\ Range(TCPPtrMap_) \subseteq Client
  /\ opens \in 0 .. MaxOpens
  /\ dangling \in BOOLEAN

(* The members of a TCPServer and its Acceptor, the loops' functors and    *)
(* the descriptors keep their types, for any clients, threads and files    *)
(* opened elsewhere.                                                       *)
THEOREM ServerTypeInvariant == ServerSafety => []ServerTypeOK
<1>1. ServerInit => ServerTypes
  <2> SUFFICES ASSUME ServerInit PROVE ServerTypes
    OBVIOUS
  <2>1. phase \in {"built", "listening", "joining", "gone"} /\ dangling \in BOOLEAN
    BY DEF ServerInit
  <2>2. nullfd_ \in Fd \cup {None} /\ opens \in 0 .. MaxOpens
    BY TCPServerAssumption DEF ServerInit, Fd
  <2>3. Range(TCPPtrMap_) \subseteq Client
    BY DEF ServerInit, Range
  <2>4. QED
    BY <2>1, <2>2, <2>3 DEF ServerTypes
<1>2. ServerTypes /\ ConnectionInv /\ SpareInv /\ [ServerNext]_serverVars => ServerTypes'
  <2> SUFFICES ASSUME ServerTypes, ConnectionInv, SpareInv, [ServerNext]_serverVars
               PROVE  ServerTypes'
    OBVIOUS
  <2> USE DEF ServerTypes
  <2>1. Free # {} => LowestFree \in Fd
    BY LowestIsFree DEF Free
  <2>2. ASSUME NEW n \in 0 .. MaxThreads, SetThreads(n) PROVE ServerTypes'
    BY <2>2 DEF SetThreads, acceptorVars, connectionVars
  <2>3. CASE Start \/ Destroy
    BY <2>3 DEF Start, Destroy, acceptorVars, connectionVars
  <2>4. CASE Destroyed
    BY <2>4 DEF Destroyed, Range
  <2>5. CASE HandleRead \/ EndCallback \/ NobodyWaits \/ NoDescriptor
    BY <2>5 DEF HandleRead, EndCallback, NobodyWaits, NoDescriptor, connectionVars
  <2>6. CASE Release \/ Drop
    BY <2>6 DEF Release, Drop, connectionVars
  <2>7. CASE Take
    BY <2>1, <2>7 DEF Take, Accepts
  <2>8. CASE Reopen
    BY <2>1, <2>8 DEF Reopen, connectionVars
  <2>9. CASE OtherOpens \/ OtherCloses
    BY <2>9, TCPServerAssumption DEF OtherOpens, OtherCloses, connectionVars
  <2>10. CASE Accept
    <3>1. Head(backlog) \in Client
      BY <2>10, HeadOfBacklog DEF Accept, Accepts
    <3>2. Range(TCPPtrMap_)' \subseteq Client
      BY <2>10, <3>1 DEF Accept, newConnection, Enter, Range
    <3>3. QED
      BY <2>10, <3>2 DEF Accept
  <2>11. ASSUME NEW l \in LoopId, RunFunctor(l) PROVE ServerTypes'
    BY <2>11 DEF RunFunctor, removeConnectionInLoop, Erase, Range, acceptorVars
  <2>12. ASSUME NEW c \in Client, CloseConnection(c) PROVE ServerTypes'
    BY <2>12 DEF CloseConnection, removeConnection, Erase, Range, acceptorVars
  <2>13. ASSUME NEW c \in Client, Connect(c) PROVE ServerTypes'
    BY <2>13 DEF Connect
  <2>14. CASE UNCHANGED serverVars
    BY <2>14 DEF serverVars, acceptorVars, connectionVars
  <2>15. QED
    BY <2>2, <2>3, <2>4, <2>5, <2>6, <2>7, <2>8, <2>9, <2>10, <2>11, <2>12, <2>13, <2>14
       DEF ServerNext, AcceptStep
<1>3. ServerTypes /\ ConnectionInv /\ SpareInv /\ PoolInv => ServerTypeOK
  <2> SUFFICES ASSUME ServerTypes, ConnectionInv, SpareInv, PoolInv PROVE ServerTypeOK
    OBVIOUS
  <2>1. DOMAIN TCPPtrMap_ \subseteq 0 .. conectionID_
    BY DEF ConnectionInv, ConnectionTypes, NamesOnce
  <2>2. QED
    BY <2>1 DEF ServerTypes, ConnectionInv, ConnectionTypes, SpareInv, Place, PoolInv,
       ServerTypeOK
<1>4. QED
  BY <1>1, <1>2, <1>3, ConnectionInvariance, SpareInvariance, ServerPool, PTL
     DEF ServerSafety

=============================================================================
