------------------------- MODULE TCPConnectionProofs -------------------------
(***************************************************************************)
(* Proofs about TCPConnection for any messages, sockets and queues.        *)
(***************************************************************************)
EXTENDS TCPConnection, BufferDataProofs

LEMMA BytesOfMessage ==
  ASSUME NEW m \in Message
  PROVE  /\ Bytes(m) \in Seq(Byte) /\ Len(Bytes(m)) = MsgLen[m] /\ MsgLen[m] \in Nat \ {0}
<1>1. MsgLen[m] \in Nat \ {0}
  BY TCPConnectionAssumption
<1>2. \A i \in 1 .. MsgLen[m] : <<m, i>> \in Byte
  BY TCPConnectionAssumption
<1>3. QED
  BY <1>1, <1>2 DEF Bytes

LEMMA BytesAreCells == ASSUME NEW s \in Seq(Byte) PROVE s \in Seq(Cell)
BY SeqMonotonic DEF Cell

(* write() takes a beginning of what it is given and leaves the rest.      *)
LEMMA WriteSplits ==
  ASSUME NEW S, NEW s \in Seq(S), room \in 0 .. SockBuf
  PROVE  /\ Taken(s) \in Seq(S) /\ Rest(s) \in Seq(S) /\ Taken(s) \o Rest(s) = s
         /\ Len(Taken(s)) \in 0 .. Len(s) /\ room - Len(Taken(s)) \in 0 .. SockBuf
         /\ Rest(s) = SubSeq(s, Len(Taken(s)) + 1, Len(s))
<1> DEFINE n == IF room <= Len(s) THEN room ELSE Len(s)
           front == SubSeq(s, 1, n)
           rest == SubSeq(s, n + 1, Len(s))
<1>1. n \in 0 .. Len(s) /\ Len(s) \in Nat /\ n \in Int /\ room - n \in 0 .. SockBuf
  BY TCPConnectionAssumption
<1>2. Min({room, Len(s)}) = n
  BY SmallerOfTwo, TCPConnectionAssumption
<1>3. Taken(s) = front /\ Rest(s) = rest
  BY <1>2 DEF Taken, Rest
<1> HIDE DEF n
<1>4. \A i \in 1 .. Len(s) : s[i] \in S
  BY ElementOfSeq
<1>5. front \in Seq(S) /\ Len(front) = n
  BY <1>1, <1>4, SubSeqProperties
<1>6. rest \in Seq(S)
  BY <1>1, <1>4, SubSeqProperties
<1>7. front \o rest = s
  <2>1. 1 \in 1 .. Len(s) + 1 /\ n \in 1 - 1 .. Len(s) /\ Len(s) \in n .. Len(s)
    BY <1>1
  <2>2. front \o rest = SubSeq(s, 1, Len(s))
    BY <2>1, ConcatAdjacentSubSeq
  <2>3. QED
    BY <2>2, SubSeqFull
<1>8. QED
  BY <1>1, <1>3, <1>5, <1>6, <1>7

-----------------------------------------------------------------------------
(* The output buffer.                                                      *)

LEMMA OutputHolds ==
  ASSUME NEW b, InVector(b)
  PROVE  /\ Held(b) \in Seq(Cell) /\ Len(Held(b)) = readableBytes(b)
         /\ readableBytes(b) \in Nat
         /\ empty(b) <=> Held(b) = <<>>
<1>1. b.size \in Nat /\ readableBytes(b) \in 0 .. b.size
  BY VectorHolds DEF InVector, Record
<1>2. /\ Held(b) \in Seq(Cell) /\ Len(Held(b)) = readableBytes(b)
      /\ readableBytes(b) = 0 <=> b.w = b.r
  BY VectorHolds
<1>3. Held(b) = <<>> <=> Len(Held(b)) = 0
  BY <1>2, EmptySeq
<1>4. QED
  BY <1>1, <1>2, <1>3 DEF empty

(* sendInLoop's end adds the rest behind the other output, or fails.       *)
LEMMA AcceptAppends ==
  ASSUME InVector(output), NEW taken, NEW rest \in Seq(Cell), Accept(taken, rest)
  PROVE  \/ /\ UNCHANGED output /\ UNCHANGED events /\ stream' = stream \o taken
            /\ failed' = TRUE \/ UNCHANGED failed
         \/ /\ InVector(output') /\ Held(output') = Held(output) \o rest
            /\ ~empty(output') /\ events' = events \cup {"out"} /\ UNCHANGED failed
            /\ stream' = (stream \o taken) \o rest
<1> DEFINE b == ensurePlace(output, Len(rest))
<1>1. CASE rest # <<>> /\ HasPlace(b, Len(rest)) /\ output' = Appended(b, rest)
  <2>1. InVector(b) /\ Held(b) = Held(output)
    BY VectorPlace
  <2>2. InVector(output') /\ Held(output') = Held(output) \o rest
    BY <1>1, <2>1, VectorAppend DEF HasPlace
  <2>3. Held(output) \in Seq(Cell)
    BY OutputHolds
  <2>4. Held(output') # <<>>
    BY <1>1, <2>2, <2>3, ConcatEqualIffEmpty, ConcatProperties
  <2>5. ~empty(output')
    BY <2>2, <2>4, OutputHolds
  <2>6. QED
    BY <1>1, <2>2, <2>5 DEF Accept
<1>2. QED
  BY <1>1 DEF Accept

-----------------------------------------------------------------------------
(* The functors of the loop.                                               *)

NoEstablish(fs) == \A i \in 1 .. Len(fs) : fs[i].op # "establish"

LEMMA CallIsFunctor ==
  ASSUME NEW op \in {"establish", "shutdown", "forceClose"}
  PROVE  Call(op) \in Functor /\ Call(op).op = op
BY DEF Call, Functor

LEMMA SendIsFunctor ==
  ASSUME NEW s \in Seq(Byte)
  PROVE  Send(s) \in Functor /\ Send(s).op = "send" /\ Send(s).data = s
BY DEF Send, Functor

LEMMA OneMoreFunctor ==
  ASSUME functors \in Seq(Functor), NEW f \in Functor,
         NoEstablish(functors), f.op # "establish"
  PROVE  Append(functors, f) \in Seq(Functor) /\ NoEstablish(Append(functors, f))
<1>1. \A i \in 1 .. Len(Append(functors, f)) : i \in 1 .. Len(functors) \/ i = Len(functors) + 1
  BY AppendProperties
<1>2. QED
  BY <1>1, AppendProperties DEF NoEstablish

LEMMA OneFunctorLess ==
  ASSUME functors \in Seq(Functor), functors # <<>>
  PROVE  /\ Head(functors) \in Functor /\ Tail(functors) \in Seq(Functor)
         /\ Head(functors) = functors[1] /\ 1 \in 1 .. Len(functors)
         /\ Len(Tail(functors)) = Len(functors) - 1
         /\ \A i \in 1 .. Len(Tail(functors)) :
              i + 1 \in 1 .. Len(functors) /\ Tail(functors)[i] = functors[i + 1]
OBVIOUS

-----------------------------------------------------------------------------
(* The inductive invariant.                                                *)

ConnectionTypes ==
  TypeOK /\ InVector(output) /\ wire \in Seq(Cell) /\ stream \in Seq(Cell)

Open == status \in {"kConnected", "kDisConnecting"}

(* The connection is established by the first functor of its loop; before, *)
(* nobody has it, and afterwards no functor establishes it again.          *)
Establishment ==
  /\ status = "none" => functors = <<>> /\ ~closeRef
  /\ status = "kConnecting" => functors = <<Call("establish")>>
  /\ Known => NoEstablish(functors)
  /\ ~Known => pc = "idle" /\ empty(output)
  /\ status # "none" => closeRef
  /\ ~Open => events = {}

(* The server's map follows the connection's status.                       *)
MapFollowsStatus ==
  /\ downs = IF status = "kDisConnected" THEN 1 ELSE 0
  /\ status = "none" => ~inMap /\ ~removing
  /\ status = "kConnecting" \/ Open => inMap /\ ~removing
  /\ status = "kDisConnected" => removing \/ ~inMap

ShutAfterOutput ==
  writeShut => empty(output) /\ status \in {"kDisConnecting", "kDisConnected"}

ConnectionInv ==
  /\ ConnectionTypes /\ Establishment /\ MapFollowsStatus
  /\ WatchesOutput /\ ShutAfterOutput /\ StreamIntact

LEMMA InitConnection == Init => ConnectionInv
<1> SUFFICES ASSUME Init PROVE ConnectionInv
  OBVIOUS
<1> USE TCPConnectionAssumption DEF Init, Known, Open
<1>0. InVector(output) /\ output \in Record /\ empty(output)
  <2>1. AtZero(output) /\ Held(output) = <<>>
    BY BufferDataAssumption, FreshIsEmpty
  <2>2. QED
    BY <2>1, AtZeroHolds, OutputHolds DEF AtZero
<1>1. ConnectionTypes
  <2>1. room \in 0 .. SockBuf
    OBVIOUS
  <2>2. functors \in Seq(Functor)
    BY EmptySeq
  <2>3. wire \in Seq(Cell) /\ stream \in Seq(Cell)
    BY EmptySeq
  <2>4. QED
    BY <1>0, <2>1, <2>2, <2>3 DEF ConnectionTypes, TypeOK, Status, Location
<1>2. Establishment /\ WatchesOutput
  BY <1>0 DEF Establishment, WatchesOutput
<1>3. MapFollowsStatus
  BY DEF MapFollowsStatus
<1>4. ShutAfterOutput
  BY DEF ShutAfterOutput
<1>5. StreamIntact
  <2>1. Pending = <<>> /\ <<>> \o <<>> = <<>>
    BY <1>0, OutputHolds DEF Pending
  <2>2. QED
    BY <2>1 DEF StreamIntact
<1>6. QED
  BY <1>1, <1>2, <1>3, <1>4, <1>5 DEF ConnectionInv

(* handleClose, wherever it is called from, ends the connection once.      *)
LEMMA CloseEnds ==
  ASSUME ConnectionInv, Known, handleClose
  PROVE  /\ status' = "kDisConnected" /\ events' = {} /\ downs' = 1
         /\ ownLoop' \in BOOLEAN /\ inMap' \in BOOLEAN
         /\ removing' \in BOOLEAN /\ closeRef' \in BOOLEAN
         /\ removing' \/ ~inMap'
         /\ closeRef' = closeRef
<1> USE DEF ConnectionInv, ConnectionTypes, TypeOK, Establishment, Known, Open,
            MapFollowsStatus, Status
<1>1. CASE status = "kDisConnected"
  <2>1. UNCHANGED <<status, events, downs>>
        /\ UNCHANGED ownLoop /\ UNCHANGED inMap /\ UNCHANGED removing /\ UNCHANGED closeRef
    BY <1>1 DEF handleClose, refVars
  <2>2. QED
    BY <1>1, <2>1
<1>2. CASE status # "kDisConnected"
  <2>1. status' = "kDisConnected" /\ events' = {} /\ downs' = 1
    BY <1>2 DEF handleClose
  <2>2. ownLoop' \in BOOLEAN /\ inMap' \in BOOLEAN /\ removing' \in BOOLEAN
    BY <1>2 DEF handleClose, removeConnection
  <2>3. removing' \/ ~inMap'
    BY <1>2 DEF handleClose, removeConnection
  <2>4. closeRef' = closeRef
    BY <1>2 DEF handleClose, removeConnection
  <2>5. QED
    BY <2>1, <2>2, <2>3, <2>4
<1>3. QED
  BY <1>1, <1>2

(* sendInLoop adds what it accepts at the end, and asks for EPOLLOUT when  *)
(* it leaves something in the buffer.                                      *)
LEMMA SendAtTheEnd ==
  ASSUME ConnectionInv, NEW s \in Seq(Byte), sendInLoop(s)
  PROVE  /\ InVector(output') /\ wire' \in Seq(Cell) /\ stream' \in Seq(Cell)
         /\ room' \in 0 .. SockBuf /\ events' \subseteq {"in", "out"} /\ failed' \in BOOLEAN
         /\ wire' \o Held(output') = stream'
         /\ status = "kConnected" => ("out" \in events' <=> ~empty(output'))
         /\ status # "kConnected" => UNCHANGED <<outVars, events>>
         /\ ~empty(output) => ~empty(output') /\ room' = room
<1>1. /\ InVector(output) /\ wire \in Seq(Cell) /\ stream \in Seq(Cell)
      /\ room \in 0 .. SockBuf /\ events \subseteq {"in", "out"} /\ failed \in BOOLEAN
      /\ wire \o Held(output) = stream
      /\ status = "kConnected" => ("out" \in events <=> ~empty(output))
  BY DEF ConnectionInv, ConnectionTypes, TypeOK, StreamIntact, Pending, WatchesOutput
<1>2. Held(output) \in Seq(Cell) /\ s \in Seq(Cell)
  BY <1>1, OutputHolds, BytesAreCells
<1>3. ASSUME NEW taken \in Seq(Cell), NEW rest \in Seq(Cell), Accept(taken, rest),
             wire' = wire \o taken, taken # <<>> => empty(output)
      PROVE  /\ InVector(output') /\ wire' \in Seq(Cell) /\ stream' \in Seq(Cell)
             /\ events' \subseteq {"in", "out"} /\ failed' \in BOOLEAN
             /\ wire' \o Held(output') = stream'
             /\ status = "kConnected" => ("out" \in events' <=> ~empty(output'))
             /\ ~empty(output) => ~empty(output')
  <2> DEFINE h == Held(output)
  <2>1. wire' \o h = stream \o taken
    <3>1. CASE taken = <<>>
      BY <1>1, <1>2, <1>3, <3>1, ConcatEmptySeq
    <3>2. CASE empty(output)
      <4>1. h = <<>>
        BY <1>1, <3>2, OutputHolds
      <4>2. stream = wire /\ wire' \in Seq(Cell)
        BY <1>1, <1>3, <4>1, ConcatEmptySeq, ConcatProperties
      <4>3. QED
        BY <1>3, <4>1, <4>2, ConcatEmptySeq
    <3>3. QED
      BY <1>3, <3>1, <3>2
  <2>2. wire' \in Seq(Cell) /\ stream \o taken \in Seq(Cell)
    BY <1>1, <1>3, ConcatProperties
  <2>3. CASE /\ UNCHANGED output /\ UNCHANGED events /\ stream' = stream \o taken
             /\ failed' = TRUE \/ UNCHANGED failed
    BY <1>1, <2>1, <2>2, <2>3
  <2>4. CASE /\ InVector(output') /\ Held(output') = h \o rest
             /\ ~empty(output') /\ events' = events \cup {"out"} /\ UNCHANGED failed
             /\ stream' = (stream \o taken) \o rest
    <3>1. stream' \in Seq(Cell)
      BY <1>3, <2>2, <2>4, ConcatProperties
    <3>2. wire' \in Seq(Cell) /\ h \in Seq(Cell) /\ rest \in Seq(Cell)
      BY <1>2, <1>3, <2>2
    <3> HIDE DEF h
    <3>3. wire' \o (h \o rest) = (wire' \o h) \o rest
      BY ONLY <3>2, ConcatAssociative
    <3>4. QED
      BY <1>1, <2>1, <2>2, <2>4, <3>1, <3>3
  <2>5. QED
    BY <1>1, <1>3, <2>3, <2>4, AcceptAppends
<1>4. CASE status = "kConnected" /\ Enqueue(s)
  <2>1. <<>> \in Seq(Cell) /\ wire \o <<>> = wire
    BY <1>1, ConcatEmptySeq, EmptySeq
  <2>2. wire' = wire \o <<>> /\ room' = room /\ Accept(<<>>, s)
    BY <1>4, <2>1 DEF Enqueue
  <2>3. QED
    BY <1>1, <1>2, <1>3, <1>4, <2>1, <2>2
<1>5. CASE status = "kConnected" /\ WriteDirectly(s)
  <2> DEFINE rest == IF room = 0 THEN <<Garbage>> \o s ELSE Rest(s)
  <2>1. /\ Taken(s) \in Seq(Cell) /\ Rest(s) \in Seq(Cell)
        /\ room - Len(Taken(s)) \in 0 .. SockBuf
    BY <1>1, <1>2, WriteSplits
  <2>2. <<Garbage>> \in Seq(Cell)
    BY TCPConnectionAssumption DEF Cell
  <2>3. <<Garbage>> \o s \in Seq(Cell)
    BY <1>2, <2>2, ConcatProperties
  <2>4. rest \in Seq(Cell)
    BY <2>1, <2>3
  <2>5. /\ empty(output) /\ Accept(Taken(s), rest)
        /\ wire' = wire \o Taken(s) /\ room' = room - Len(Taken(s))
    BY <1>5 DEF WriteDirectly, Write
  <2> HIDE DEF rest
  <2>6. QED
    BY <1>3, <1>5, <2>1, <2>4, <2>5
<1>6. CASE WriteToReset
  BY <1>1, <1>6 DEF WriteToReset, outVars
<1>7. CASE status # "kConnected" /\ UNCHANGED <<outVars, events, failed>>
  BY <1>1, <1>7 DEF outVars
<1>8. QED
  BY <1>4, <1>5, <1>6, <1>7 DEF sendInLoop

(* shutdownInLoop shuts down only what has nothing left to write.          *)
LEMMA ShutdownWaits ==
  ASSUME ConnectionInv, Known, shutdownInLoop
  PROVE  /\ status' = IF status = "kConnected" THEN "kDisConnecting" ELSE status
         /\ writeShut' \in BOOLEAN /\ failed' \in BOOLEAN
         /\ writeShut' => writeShut \/ (empty(output) /\ status = "kDisConnecting")
<1> USE DEF ConnectionInv, ConnectionTypes, TypeOK, shutdownInLoop, shutdownWrite
<1>1. status' = IF status = "kConnected" THEN "kDisConnecting" ELSE status
  OBVIOUS
<1>2. writeShut' \in BOOLEAN
  OBVIOUS
<1>3. failed' \in BOOLEAN
  OBVIOUS
<1>4. writeShut' => writeShut \/ (empty(output) /\ status = "kDisConnecting")
  OBVIOUS
<1>5. QED
  BY <1>1, <1>2, <1>3, <1>4

-----------------------------------------------------------------------------
(* Each action keeps it.                                                   *)

LEMMA NewConnectionKeeps == ASSUME ConnectionInv, NewConnection PROVE ConnectionInv'
<1> USE DEF ConnectionInv, NewConnection, Known, Open
<1>1. /\ status = "none" /\ functors = <<>> /\ empty(output) /\ events = {} /\ pc = "idle"
      /\ downs = 0 /\ ~removing
  BY DEF Establishment, MapFollowsStatus
<1>2. \/ /\ status' = "kConnecting" /\ functors' = <<Call("establish")>>
         /\ events' = {}
      \/ status' = "kConnected" /\ functors' = <<>> /\ events' = {"in"}
  BY <1>1 DEF onEstablished
<1>3. UNCHANGED <<pc, revents, downs, output, room, wire, stream, sent, peer>>
      /\ UNCHANGED removing /\ UNCHANGED failed /\ UNCHANGED writeShut /\ UNCHANGED inbox
  BY DEF outVars, kernelVars
<1>4. functors' \in Seq(Functor)
  <2>1. Call("establish") \in Functor
    BY CallIsFunctor
  <2>2. <<Call("establish")>> \in Seq(Functor) /\ <<>> \in Seq(Functor)
    BY ONLY <2>1
  <2>3. QED
    BY <1>2, <2>2
<1>5. ConnectionTypes'
  <2>1. status' \in Status /\ events' \subseteq {"in", "out"}
    BY <1>2 DEF Status
  <2>2. inMap' \in BOOLEAN /\ closeRef' \in BOOLEAN
    OBVIOUS
  <2>3. QED
    BY <1>3, <1>4, <2>1, <2>2 DEF ConnectionTypes, TypeOK
<1>6. Establishment'
  <2>1. closeRef'
    OBVIOUS
  <2>2. QED
    BY <1>1, <1>2, <1>3, <2>1 DEF Establishment, NoEstablish
<1>7. MapFollowsStatus'
  BY <1>1, <1>2, <1>3 DEF MapFollowsStatus
<1>8. WatchesOutput'
  BY <1>1, <1>2, <1>3 DEF WatchesOutput
<1>9. ShutAfterOutput'
  BY <1>1, <1>3 DEF ShutAfterOutput
<1>10. StreamIntact'
  BY <1>3 DEF StreamIntact, Pending
<1>11. QED
  BY <1>5, <1>6, <1>7, <1>8, <1>9, <1>10

LEMMA RemovalKeeps ==
  ASSUME ConnectionInv, RemoveConnectionInLoop PROVE ConnectionInv'
<1> USE DEF ConnectionInv, RemoveConnectionInLoop, outVars, kernelVars
<1>1. status = "kDisConnected" /\ removing
  BY DEF MapFollowsStatus, ConnectionTypes, TypeOK, Open, Status
<1>2. ConnectionTypes'
  BY DEF ConnectionTypes, TypeOK
<1>3. Establishment' /\ WatchesOutput'
  BY DEF Establishment, Known, Open, WatchesOutput
<1>4. MapFollowsStatus'
  BY <1>1 DEF MapFollowsStatus, Open
<1>5. ShutAfterOutput' /\ StreamIntact'
  BY DEF ShutAfterOutput, StreamIntact, Pending
<1>6. QED
  BY <1>2, <1>3, <1>4, <1>5

(* Steps of the loop, the peer and the kernel that do not touch the        *)
(* connection itself.                                                      *)
LEMMA OthersKeep ==
  ASSUME ConnectionInv, ConnectionTypes', ~Known => pc' = "idle",
         UNCHANGED <<status, events, functors, output, wire, stream, downs>>,
         UNCHANGED writeShut, UNCHANGED refVars
  PROVE  ConnectionInv'
<1> USE DEF ConnectionInv
<1>1. UNCHANGED inMap /\ UNCHANGED removing /\ UNCHANGED closeRef
  BY DEF refVars
<1>2. Establishment' /\ WatchesOutput'
  BY <1>1 DEF Establishment, Known, Open, WatchesOutput
<1>3. MapFollowsStatus'
  BY <1>1 DEF MapFollowsStatus, Open
<1>4. ShutAfterOutput' /\ StreamIntact'
  BY DEF ShutAfterOutput, StreamIntact, Pending
<1>5. QED
  BY <1>2, <1>3, <1>4

LEMMA PeerKeeps == ASSUME ConnectionInv, PeerStep \/ PeerReads PROVE ConnectionInv'
<1>1. CASE PeerStep
  <2>1. /\ UNCHANGED <<status, events, functors, pc, revents, sent, downs, outVars>>
        /\ UNCHANGED failed /\ UNCHANGED writeShut /\ UNCHANGED refVars
        /\ inbox' \in BOOLEAN /\ peer' \in {"open", "fin", "reset"}
    BY <1>1 DEF PeerStep, PeerSends, PeerCloses, PeerResets, ConnectionInv,
       ConnectionTypes, TypeOK
  <2>2. ConnectionTypes'
    BY <2>1 DEF ConnectionInv, ConnectionTypes, TypeOK, outVars, refVars
  <2>3. QED
    BY <2>1, <2>2, OthersKeep DEF outVars, ConnectionInv, Establishment
<1>2. CASE PeerReads
  <2>1. room' \in 0 .. SockBuf
    BY <1>2, TCPConnectionAssumption DEF PeerReads, ConnectionInv, ConnectionTypes, TypeOK
  <2>2. ConnectionTypes'
    BY <1>2, <2>1 DEF PeerReads, ConnectionInv, ConnectionTypes, TypeOK, refVars, kernelVars
  <2>3. QED
    BY <1>2, <2>2, OthersKeep DEF PeerReads, ConnectionInv, Establishment
<1>3. QED
  BY <1>1, <1>2

LEMMA PollKeeps ==
  ASSUME ConnectionInv, Poll \/ EndMessageCallback PROVE ConnectionInv'
<1>1. /\ UNCHANGED <<status, events, functors, sent, downs, outVars, peer>>
      /\ UNCHANGED failed /\ UNCHANGED writeShut /\ UNCHANGED inbox /\ UNCHANGED refVars
      /\ pc' \in Location /\ revents' \subseteq {"in", "out", "hup"}
      /\ Known
  BY DEF Poll, EndMessageCallback, Reported, Location, kernelVars, ConnectionInv,
     ConnectionTypes, TypeOK, Establishment, Known, Open
<1>2. ConnectionTypes'
  BY <1>1 DEF ConnectionInv, ConnectionTypes, TypeOK, outVars, refVars
<1>3. QED
  BY <1>1, <1>2, OthersKeep DEF outVars

(* The three ways a step of a known connection touches it: it ends, its    *)
(* output changes, or it is shut down.                                     *)
LEMMA CloseKeeps ==
  ASSUME ConnectionInv, Known, handleClose, ConnectionTypes', NoEstablish(functors)',
         UNCHANGED <<output, wire, stream>>, UNCHANGED writeShut
  PROVE  ConnectionInv'
<1>1. /\ status' = "kDisConnected" /\ events' = {} /\ downs' = 1
      /\ (removing' \/ ~inMap') /\ closeRef' = closeRef
  BY CloseEnds
<1>2. Establishment'
  BY <1>1 DEF ConnectionInv, Establishment, Known, Open
<1>3. MapFollowsStatus' /\ WatchesOutput'
  BY <1>1 DEF MapFollowsStatus, Open, WatchesOutput
<1>4. ShutAfterOutput' /\ StreamIntact'
  BY <1>1 DEF ConnectionInv, ShutAfterOutput, StreamIntact, Pending
<1>5. QED
  BY <1>2, <1>3, <1>4 DEF ConnectionInv

LEMMA OutputKeeps ==
  ASSUME ConnectionInv, Known, ConnectionTypes', NoEstablish(functors)',
         UNCHANGED <<status, downs>>, UNCHANGED refVars, UNCHANGED writeShut,
         Open => ("out" \in events' <=> ~empty(output')),
         ~Open => events' = {},
         writeShut => empty(output'),
         wire' \o Held(output') = stream'
  PROVE  ConnectionInv'
<1>1. UNCHANGED inMap /\ UNCHANGED removing /\ UNCHANGED closeRef
  BY DEF refVars
<1>2. Establishment'
  BY <1>1 DEF ConnectionInv, Establishment, Known, Open
<1>3. MapFollowsStatus'
  BY <1>1 DEF ConnectionInv, MapFollowsStatus, Open
<1>4. WatchesOutput' /\ ShutAfterOutput' /\ StreamIntact'
  BY DEF ConnectionInv, WatchesOutput, ShutAfterOutput, Open, StreamIntact, Pending
<1>5. QED
  BY <1>2, <1>3, <1>4 DEF ConnectionInv

LEMMA ShutdownKeeps ==
  ASSUME ConnectionInv, Known, shutdownInLoop, ConnectionTypes', NoEstablish(functors)',
         UNCHANGED <<events, output, wire, stream, downs>>, UNCHANGED refVars
  PROVE  ConnectionInv'
<1>1. UNCHANGED inMap /\ UNCHANGED removing /\ UNCHANGED closeRef
  BY DEF refVars
<1>2. /\ status' = IF status = "kConnected" THEN "kDisConnecting" ELSE status
      /\ writeShut' => writeShut \/ (empty(output) /\ status = "kDisConnecting")
  BY ShutdownWaits
<1>3. Establishment'
  BY <1>1, <1>2 DEF ConnectionInv, Establishment, Known, Open
<1>4. MapFollowsStatus'
  BY <1>1, <1>2 DEF ConnectionInv, MapFollowsStatus, Open
<1>5. WatchesOutput'
  BY <1>2 DEF ConnectionInv, WatchesOutput
<1>6. ShutAfterOutput' /\ StreamIntact'
  BY <1>2 DEF ConnectionInv, ShutAfterOutput, StreamIntact, Pending
<1>7. QED
  BY <1>3, <1>4, <1>5, <1>6 DEF ConnectionInv

LEMMA HandleReadKeeps == ASSUME ConnectionInv, HandleRead PROVE ConnectionInv'
<1> USE DEF ConnectionInv
<1>1. /\ UNCHANGED <<functors, revents, sent, output, room, wire, stream, peer>>
      /\ UNCHANGED writeShut
      /\ Known /\ NoEstablish(functors)'
  BY DEF HandleRead, outVars, Establishment
<1>2. CASE ReadEnd
  <2>1. UNCHANGED inbox /\ UNCHANGED failed /\ pc' = "hup" /\ handleClose
    BY <1>2 DEF ReadEnd
  <2>2. ConnectionTypes'
    BY <1>1, <2>1, CloseEnds DEF ConnectionTypes, TypeOK, Status, Location
  <2>3. QED
    BY <1>1, <2>1, <2>2, CloseKeeps
<1>3. CASE ReadData \/ ReadError \/ NothingToRead
  <2>1. /\ UNCHANGED <<status, events, downs>> /\ UNCHANGED refVars
        /\ inbox' \in BOOLEAN /\ failed' \in BOOLEAN /\ pc' \in Location
    BY <1>3 DEF ReadData, ReadError, NothingToRead, Location, ConnectionTypes, TypeOK
  <2>2. ConnectionTypes'
    BY <1>1, <2>1 DEF ConnectionTypes, TypeOK, refVars
  <2>3. QED
    BY <1>1, <2>1, <2>2, OthersKeep
<1>4. QED
  BY <1>2, <1>3 DEF HandleRead

LEMMA HandleHangupKeeps == ASSUME ConnectionInv, HandleHangup PROVE ConnectionInv'
<1> USE DEF ConnectionInv
<1>1. /\ UNCHANGED <<functors, revents, sent, output, room, wire, stream, peer>>
      /\ UNCHANGED writeShut /\ UNCHANGED failed /\ UNCHANGED inbox /\ pc' = "out"
      /\ Known /\ NoEstablish(functors)'
  BY DEF HandleHangup, outVars, kernelVars, Establishment
<1>2. CASE handleClose
  <2>1. ConnectionTypes'
    BY <1>1, <1>2, CloseEnds DEF ConnectionTypes, TypeOK, Status, Location
  <2>2. QED
    BY <1>1, <1>2, <2>1, CloseKeeps
<1>3. CASE UNCHANGED <<status, events, downs, refVars>>
  <2>1. ConnectionTypes'
    BY <1>1, <1>3 DEF ConnectionTypes, TypeOK, Location, refVars
  <2>2. QED
    BY <1>1, <1>3, <2>1, OthersKeep
<1>4. QED
  BY <1>2, <1>3 DEF HandleHangup

LEMMA ForceCloseKeeps == ASSUME ConnectionInv, ForceClose PROVE ConnectionInv'
<1> USE DEF ConnectionInv
<1>1. /\ UNCHANGED <<functors, pc, revents, sent, output, room, wire, stream, peer>>
      /\ UNCHANGED writeShut /\ UNCHANGED failed /\ UNCHANGED inbox
      /\ handleClose /\ Known /\ NoEstablish(functors)'
  BY DEF ForceClose, UserCode, outVars, kernelVars, Establishment
<1>2. ConnectionTypes'
  BY <1>1, CloseEnds DEF ConnectionTypes, TypeOK, Status
<1>3. QED
  BY <1>1, <1>2, CloseKeeps

LEMMA ShutdownActionKeeps ==
  ASSUME ConnectionInv, Shutdown \/ EndCompleteCallback PROVE ConnectionInv'
<1> USE DEF ConnectionInv
<1>1. /\ UNCHANGED <<functors, events, downs, revents, sent, output, room, wire, stream, peer>>
      /\ UNCHANGED refVars /\ UNCHANGED inbox /\ pc' \in Location
      /\ Known /\ NoEstablish(functors)'
  BY DEF Shutdown, EndCompleteCallback, UserCode, outVars, kernelVars, Establishment,
     ConnectionTypes, TypeOK, Location
<1>2. CASE shutdownInLoop
  <2>1. status' \in Status
    BY <1>1, <1>2, ShutdownWaits DEF ConnectionTypes, TypeOK, Status
  <2>2. ConnectionTypes'
    BY <1>1, <1>2, <2>1, ShutdownWaits DEF ConnectionTypes, TypeOK, refVars
  <2>3. QED
    BY <1>1, <1>2, <2>2, ShutdownKeeps
<1>3. CASE UNCHANGED <<status, writeShut, failed>>
  <2>1. UNCHANGED status /\ UNCHANGED writeShut /\ UNCHANGED failed
    BY <1>3
  <2>2. ConnectionTypes'
    BY <1>1, <2>1 DEF ConnectionTypes, TypeOK, refVars
  <2>3. QED
    BY <1>1, <2>1, <2>2, OthersKeep
<1>4. QED
  BY <1>2, <1>3 DEF Shutdown, EndCompleteCallback

LEMMA HandleWriteKeeps == ASSUME ConnectionInv, HandleWrite PROVE ConnectionInv'
<1> USE DEF ConnectionInv
<1>1. /\ UNCHANGED <<status, functors, downs, sent, stream, peer>> /\ revents' = {}
      /\ UNCHANGED refVars /\ UNCHANGED writeShut /\ UNCHANGED inbox
      /\ Known /\ NoEstablish(functors)'
  BY DEF HandleWrite, kernelVars, Establishment
<1>2. CASE ~empty(output) /\ WriteOutput
  <2> DEFINE h == Held(output)
             n == Len(Taken(h))
  <2>1. /\ InVector(output) /\ wire \in Seq(Cell) /\ room \in 0 .. SockBuf
        /\ wire \o h = stream /\ stream \in Seq(Cell)
    BY DEF ConnectionTypes, TypeOK, StreamIntact, Pending
  <2>2. h \in Seq(Cell) /\ Len(h) = readableBytes(output)
    BY <2>1, OutputHolds
  <2>3. /\ wire' = wire \o Taken(h) /\ room' = room - n /\ UNCHANGED failed
        /\ output' = retrieved(output, n)
    BY <1>2 DEF WriteOutput, Write, Pending
  <2>4. /\ Taken(h) \in Seq(Cell) /\ Rest(h) \in Seq(Cell) /\ Taken(h) \o Rest(h) = h
        /\ n \in 0 .. readableBytes(output) /\ room - n \in 0 .. SockBuf
        /\ Rest(h) = SubSeq(h, n + 1, Len(h))
    BY <2>1, <2>2, WriteSplits
  <2>5. InVector(output') /\ Held(output') = Rest(h)
    BY <2>1, <2>3, <2>4, VectorRetrieve
  <2>6. wire' \in Seq(Cell) /\ wire' \o Rest(h) = stream'
    <3> DEFINE first == Taken(h)
               left == Rest(h)
    <3>1. wire \in Seq(Cell) /\ first \in Seq(Cell) /\ left \in Seq(Cell)
      BY <2>1, <2>4
    <3>2. wire \o h = stream' /\ first \o left = h /\ wire' = wire \o first
      BY <1>1, <2>1, <2>3, <2>4
    <3> HIDE DEF first, left
    <3>3. (wire \o first) \o left = wire \o (first \o left)
      BY ONLY <3>1, ConcatAssociative
    <3>4. wire \o first \in Seq(Cell)
      BY ONLY <3>1, ConcatProperties
    <3>5. QED
      BY <3>2, <3>3, <3>4 DEF first, left
  <2>7. /\ pc' \in Location
        /\ events' = IF empty(output') THEN events \ {"out"} ELSE events
    BY <1>2 DEF WriteOutput, Location
  <2> HIDE DEF h, n
  <2>8. ConnectionTypes'
    BY <1>1, <2>1, <2>3, <2>4, <2>5, <2>6, <2>7 DEF ConnectionTypes, TypeOK, refVars, InVector
  <2>9. Open => ("out" \in events' <=> ~empty(output'))
    BY <1>2, <2>7 DEF WatchesOutput, Open
  <2>10. /\ ~Open => events' = {}
         /\ writeShut => empty(output')
    BY <1>2, <2>7 DEF Establishment, ShutAfterOutput
  <2>11. QED
    BY <1>1, <2>5, <2>6, <2>8, <2>9, <2>10, OutputKeeps
<1>3. CASE WriteError \/ NothingToWrite
  <2>1. /\ UNCHANGED <<output, room, wire, events>>
        /\ pc' \in Location /\ failed' \in BOOLEAN
    BY <1>3 DEF WriteError, NothingToWrite, Location, ConnectionTypes, TypeOK
  <2>2. ConnectionTypes'
    BY <1>1, <2>1 DEF ConnectionTypes, TypeOK, refVars
  <2>3. QED
    BY <1>1, <2>1, <2>2, OthersKeep
<1>4. QED
  BY <1>2, <1>3 DEF HandleWrite

(* sendInLoop, called by a user or by a functor.                           *)
LEMMA SendInLoopKeeps ==
  ASSUME ConnectionInv, Known, NEW s \in Seq(Byte), sendInLoop(s),
         functors' \in Seq(Functor), NoEstablish(functors)', sent' \subseteq Message,
         UNCHANGED <<status, pc, revents, downs, peer>>, UNCHANGED inbox,
         UNCHANGED writeShut, UNCHANGED refVars
  PROVE  ConnectionInv'
<1>1. /\ InVector(output') /\ wire' \in Seq(Cell) /\ stream' \in Seq(Cell)
      /\ room' \in 0 .. SockBuf /\ events' \subseteq {"in", "out"} /\ failed' \in BOOLEAN
      /\ wire' \o Held(output') = stream'
      /\ status = "kConnected" => ("out" \in events' <=> ~empty(output'))
      /\ status # "kConnected" => UNCHANGED <<outVars, events>>
  BY SendAtTheEnd
<1>2. ConnectionTypes'
  BY <1>1 DEF ConnectionInv, ConnectionTypes, TypeOK, refVars, InVector
<1>3. Open => ("out" \in events' <=> ~empty(output'))
  BY <1>1 DEF ConnectionInv, WatchesOutput, Open, outVars
<1>4. ~Open => events' = {}
  BY <1>1 DEF ConnectionInv, Establishment, Open
<1>5. writeShut => empty(output')
  BY <1>1 DEF ConnectionInv, ShutAfterOutput, outVars
<1>6. QED
  BY <1>1, <1>2, <1>3, <1>4, <1>5, OutputKeeps

LEMMA SendMessageKeeps ==
  ASSUME ConnectionInv, NEW m \in Message, SendMessage(m) PROVE ConnectionInv'
<1>1. Bytes(m) \in Seq(Byte)
  BY BytesOfMessage
<1>2. /\ Known /\ sendInLoop(Bytes(m)) /\ sent' \subseteq Message
      /\ functors' \in Seq(Functor) /\ NoEstablish(functors)'
      /\ UNCHANGED <<status, pc, revents, downs, peer>> /\ UNCHANGED inbox
      /\ UNCHANGED writeShut /\ UNCHANGED refVars
  BY DEF SendMessage, UserCode, Sends, kernelVars, ConnectionInv, ConnectionTypes, TypeOK,
     Establishment
<1>3. QED
  BY <1>1, <1>2, SendInLoopKeeps

LEMMA RunFunctorKeeps == ASSUME ConnectionInv, RunFunctor PROVE ConnectionInv'
<1> DEFINE f == Head(functors)
<1>1. /\ f \in Functor /\ functors' \in Seq(Functor)
      /\ pc = "idle" /\ UNCHANGED <<pc, revents, sent, peer>> /\ UNCHANGED inbox
      /\ status # "none"
  BY OneFunctorLess DEF RunFunctor, kernelVars, ConnectionInv, ConnectionTypes, TypeOK,
     Establishment
<1>2. Known => NoEstablish(functors)' /\ f.op # "establish"
  BY OneFunctorLess DEF RunFunctor, ConnectionInv, ConnectionTypes, TypeOK, Establishment,
     NoEstablish
<1>3. ~Known => /\ status = "kConnecting" /\ functors' = <<>> /\ f.op = "establish"
                /\ empty(output)
  BY <1>1 DEF RunFunctor, ConnectionInv, Establishment, Known, Call
<1>4. CASE f.op = "establish"
  <2>1. status = "kConnecting" /\ functors' = <<>> /\ empty(output)
    BY <1>2, <1>3, <1>4
  <2>2. /\ status' = "kConnected" /\ events' = {"in"}
        /\ UNCHANGED <<output, room, wire, stream, downs>> /\ UNCHANGED writeShut
        /\ UNCHANGED failed /\ UNCHANGED inMap /\ UNCHANGED removing
        /\ UNCHANGED closeRef /\ UNCHANGED ownLoop
    BY <1>4 DEF RunFunctor, onEstablished, outVars, refVars
  <2>3. ConnectionTypes'
    BY <1>1, <2>2 DEF ConnectionInv, ConnectionTypes, TypeOK, Status
  <2>4. Establishment'
    BY <2>1, <2>2 DEF ConnectionInv, Establishment, Known, Open, NoEstablish
  <2>5. MapFollowsStatus'
    BY <2>1, <2>2 DEF ConnectionInv, MapFollowsStatus, Open
  <2>6. WatchesOutput' /\ ShutAfterOutput' /\ StreamIntact'
    BY <2>1, <2>2 DEF ConnectionInv, WatchesOutput, ShutAfterOutput, StreamIntact, Pending
  <2>7. QED
    BY <2>3, <2>4, <2>5, <2>6 DEF ConnectionInv
<1>5. CASE f.op = "send"
  <2>1. Known /\ NoEstablish(functors)'
    BY <1>2, <1>3, <1>5
  <2>2. /\ sendInLoop(f.data) /\ UNCHANGED <<status, downs>>
        /\ UNCHANGED writeShut /\ UNCHANGED refVars
    BY <1>5 DEF RunFunctor
  <2>3. f.data \in Seq(Byte) /\ sent' \subseteq Message
    BY <1>1 DEF Functor, ConnectionInv, ConnectionTypes, TypeOK
  <2>4. QED
    BY <1>1, <2>1, <2>2, <2>3, SendInLoopKeeps
<1>6. CASE f.op = "shutdown"
  <2>1. Known /\ NoEstablish(functors)'
    BY <1>2, <1>3, <1>6
  <2>2. /\ shutdownInLoop /\ UNCHANGED <<events, downs, output, room, wire, stream>>
        /\ UNCHANGED refVars
    BY <1>6 DEF RunFunctor, outVars
  <2>3. status' \in Status
    BY <2>1, <2>2, ShutdownWaits DEF ConnectionInv, ConnectionTypes, TypeOK, Status
  <2>4. ConnectionTypes'
    BY <1>1, <2>1, <2>2, <2>3, ShutdownWaits DEF ConnectionInv, ConnectionTypes, TypeOK, refVars
  <2>5. QED
    BY <2>1, <2>2, <2>4, ShutdownKeeps
<1>7. CASE f.op = "forceClose"
  <2>1. Known /\ NoEstablish(functors)'
    BY <1>2, <1>3, <1>7
  <2>2. /\ handleClose /\ UNCHANGED <<output, room, wire, stream>>
        /\ UNCHANGED writeShut /\ UNCHANGED failed
    BY <1>7 DEF RunFunctor, outVars
  <2>3. ConnectionTypes'
    BY <1>1, <2>1, <2>2, CloseEnds DEF ConnectionInv, ConnectionTypes, TypeOK, Status
  <2>4. QED
    BY <2>1, <2>2, <2>3, CloseKeeps
<1>8. QED
  BY <1>1, <1>4, <1>5, <1>6, <1>7 DEF Functor

(* A functor is handed over.                                               *)
LEMMA QueueKeeps ==
  ASSUME ConnectionInv, Known, NEW f \in Functor, f.op # "establish", QueueFunctor(f),
         sent' \subseteq Message
  PROVE  ConnectionInv'
<1>1. functors' \in Seq(Functor) /\ NoEstablish(functors)'
  <2>1. functors \in Seq(Functor) /\ NoEstablish(functors)
    BY DEF ConnectionInv, ConnectionTypes, TypeOK, Establishment
  <2>2. functors' = Append(functors, f)
    BY DEF QueueFunctor
  <2>3. QED
    BY <2>1, <2>2, OneMoreFunctor DEF NoEstablish
<1>2. /\ UNCHANGED <<status, events, pc, revents, downs, output, room, wire, stream, peer>>
      /\ UNCHANGED failed /\ UNCHANGED writeShut /\ UNCHANGED refVars /\ UNCHANGED inbox
  BY DEF QueueFunctor, outVars, kernelVars
<1>3. ConnectionTypes'
  BY <1>1, <1>2 DEF ConnectionInv, ConnectionTypes, TypeOK, refVars
<1>4. QED
  BY <1>1, <1>2, <1>3, OutputKeeps DEF ConnectionInv, WatchesOutput, Establishment, Open,
     ShutAfterOutput, StreamIntact, Pending

LEMMA FromAfarKeeps ==
  ASSUME ConnectionInv,
         \/ \E m \in Message : SendFromAfar(m)
         \/ \E op \in {"shutdown", "forceClose"} : CallFromAfar(op)
  PROVE  ConnectionInv'
<1>1. sent \subseteq Message
  BY DEF ConnectionInv, ConnectionTypes, TypeOK
<1>2. ASSUME NEW m \in Message, SendFromAfar(m) PROVE ConnectionInv'
  <2>1. Send(Bytes(m)) \in Functor /\ Send(Bytes(m)).op # "establish"
    BY BytesOfMessage, SendIsFunctor
  <2>2. Known /\ QueueFunctor(Send(Bytes(m))) /\ sent' \subseteq Message
    BY <1>1, <1>2 DEF SendFromAfar, Sends, Known
  <2>3. QED
    BY <2>1, <2>2, QueueKeeps
<1>3. ASSUME NEW op \in {"shutdown", "forceClose"}, CallFromAfar(op) PROVE ConnectionInv'
  <2>1. Call(op) \in Functor /\ Call(op).op # "establish"
    BY CallIsFunctor
  <2>2. Known /\ QueueFunctor(Call(op)) /\ sent' \subseteq Message
    BY <1>1, <1>3 DEF CallFromAfar
  <2>3. QED
    BY <2>1, <2>2, QueueKeeps
<1>4. QED
  BY <1>2, <1>3

(* send(Buffer) hands over all it was given, fails, or writes a beginning  *)
(* and hands over the rest.                                                *)
LEMMA SendBufferSplits ==
  ASSUME ConnectionInv, NEW m \in Message, SendBuffer(m)
  PROVE  /\ wire' \in Seq(Cell) /\ stream' \in Seq(Cell) /\ room' \in 0 .. SockBuf
         /\ UNCHANGED output /\ failed' \in BOOLEAN /\ wire' \o Held(output') = stream'
         /\ \/ functors' = functors
            \/ \E x \in Seq(Byte) : functors' = Append(functors, Send(x))
         /\ ~empty(output) => room' = room
<1> DEFINE s == Bytes(m)
<1>1. /\ InVector(output) /\ wire \in Seq(Cell) /\ stream \in Seq(Cell)
      /\ room \in 0 .. SockBuf /\ failed \in BOOLEAN /\ wire \o Held(output) = stream
  BY DEF ConnectionInv, ConnectionTypes, TypeOK, StreamIntact, Pending
<1>2. s \in Seq(Byte) /\ s \in Seq(Cell)
  BY BytesOfMessage, BytesAreCells
<1> HIDE DEF s
<1>3. CASE ~empty(output) /\ functors' = Append(functors, Send(s)) /\ UNCHANGED <<outVars, failed>>
  BY <1>1, <1>2, <1>3 DEF outVars
<1>4. CASE failed' = TRUE /\ UNCHANGED <<functors, outVars>>
  BY <1>1, <1>4 DEF outVars
<1>5. CASE /\ empty(output) /\ WriteBuffer(m)
           /\ functors' = IF Rest(s) = <<>> THEN functors ELSE Append(functors, Send(Rest(s)))
  <2>1. Taken(s) \in Seq(Cell) /\ Rest(s) \in Seq(Byte) /\ room - Len(Taken(s)) \in 0 .. SockBuf
    BY <1>1, <1>2, WriteSplits
  <2>2. /\ wire' = wire \o Taken(s) /\ stream' = stream \o Taken(s)
        /\ room' = room - Len(Taken(s)) /\ UNCHANGED output /\ UNCHANGED failed
    BY <1>5 DEF WriteBuffer, Write, s
  <2>3. Held(output) = <<>>
    BY <1>1, <1>5, OutputHolds
  <2>4. stream = wire
    BY <1>1, <2>3, ConcatEmptySeq
  <2>5. wire' \in Seq(Cell) /\ wire' \o <<>> = wire'
    BY <1>1, <2>1, <2>2, ConcatProperties, ConcatEmptySeq
  <2>6. QED
    BY <1>1, <1>5, <2>1, <2>2, <2>3, <2>4, <2>5
<1>6. QED
  BY <1>3, <1>4, <1>5 DEF SendBuffer, s

LEMMA SendBufferKeeps ==
  ASSUME ConnectionInv, NEW m \in Message, SendBuffer(m) PROVE ConnectionInv'
<1>1. /\ UNCHANGED <<status, events, pc, revents, downs, peer>> /\ UNCHANGED writeShut
      /\ UNCHANGED refVars /\ UNCHANGED inbox
      /\ status = "kConnected" /\ Known /\ sent' \subseteq Message
  BY DEF SendBuffer, UserCode, Sends, kernelVars, ConnectionInv, ConnectionTypes, TypeOK
<1>2. functors' \in Seq(Functor) /\ NoEstablish(functors)'
  <2>1. functors \in Seq(Functor) /\ NoEstablish(functors)
    BY <1>1 DEF ConnectionInv, ConnectionTypes, TypeOK, Establishment
  <2>2. CASE functors' = functors
    BY <2>1, <2>2 DEF NoEstablish
  <2>3. ASSUME NEW x \in Seq(Byte), functors' = Append(functors, Send(x))
        PROVE  functors' \in Seq(Functor) /\ NoEstablish(functors)'
    <3>1. Send(x) \in Functor /\ Send(x).op # "establish"
      BY SendIsFunctor
    <3>2. QED
      BY <2>1, <2>3, <3>1, OneMoreFunctor DEF NoEstablish
  <2>4. QED
    BY <2>2, <2>3, SendBufferSplits
<1>3. ConnectionTypes'
  BY <1>1, <1>2, SendBufferSplits DEF ConnectionInv, ConnectionTypes, TypeOK, refVars
<1>4. QED
  BY <1>1, <1>2, <1>3, SendBufferSplits, OutputKeeps
     DEF ConnectionInv, WatchesOutput, Establishment, Open, ShutAfterOutput

LEMMA StutterKeeps == ASSUME ConnectionInv, UNCHANGED connVars PROVE ConnectionInv'
<1>1. UNCHANGED <<status, events, functors, pc, revents, sent, downs, output, room, wire,
                  stream, peer>>
      /\ UNCHANGED failed /\ UNCHANGED writeShut /\ UNCHANGED inbox /\ UNCHANGED refVars
  BY DEF connVars, outVars, kernelVars
<1>2. ConnectionTypes'
  BY <1>1 DEF ConnectionInv, ConnectionTypes, TypeOK, refVars
<1>3. QED
  BY <1>1, <1>2, OthersKeep DEF ConnectionInv, Establishment

LEMMA NextKeeps == ASSUME ConnectionInv, [Next]_connVars PROVE ConnectionInv'
<1>1. CASE UNCHANGED connVars
  BY <1>1, StutterKeeps
<1>2. CASE NewConnection \/ RemoveConnectionInLoop
  BY <1>2, NewConnectionKeeps, RemovalKeeps
<1>3. CASE Poll \/ HandleEvent \/ RunFunctor
  BY <1>3, PollKeeps, HandleReadKeeps, HandleHangupKeeps, HandleWriteKeeps,
     ShutdownActionKeeps, RunFunctorKeeps DEF HandleEvent
<1>4. CASE UserStep
  BY <1>4, SendMessageKeeps, SendBufferKeeps, FromAfarKeeps, ShutdownActionKeeps,
     ForceCloseKeeps DEF UserStep
<1>5. CASE PeerStep \/ PeerReads
  BY <1>5, PeerKeeps
<1>6. QED
  BY <1>1, <1>2, <1>3, <1>4, <1>5 DEF Next

LEMMA ConnectionInvariance == Safety => []ConnectionInv
BY InitConnection, NextKeeps, PTL DEF Safety

(* Output left in the buffer is watched for, whoever leaves it there:      *)
(* sendInLoop, in a callback or as a functor, and handleWrite, after a     *)
(* partial write.                                                          *)
THEOREM OutputIsWatched == Safety => []WatchesOutput
<1>1. ConnectionInv => WatchesOutput
  BY DEF ConnectionInv
<1>2. QED
  BY <1>1, ConnectionInvariance, PTL

(* A connection ends once, whether handleRead, handleHangup or a user      *)
(* closes it, and the server's map loses it once.                          *)
THEOREM ConnectionEndsOnce == Safety => []ClosedOnce
<1>1. ConnectionInv => ClosedOnce
  BY DEF ConnectionInv, ClosedOnce, MapFollowsStatus, Open, ConnectionTypes, TypeOK, Status
<1>2. QED
  BY <1>1, ConnectionInvariance, PTL

LEMMA ShutStepKeepsWire ==
  ASSUME ConnectionInv, [Next]_connVars PROVE writeShut => UNCHANGED wire
<1> SUFFICES ASSUME writeShut PROVE UNCHANGED wire
  OBVIOUS
<1>1. empty(output) /\ status # "kConnected"
  BY DEF ConnectionInv, ShutAfterOutput
<1>2. CASE NewConnection \/ RemoveConnectionInLoop \/ UNCHANGED connVars
  BY <1>2 DEF NewConnection, RemoveConnectionInLoop, connVars, outVars
<1>3. CASE Poll \/ EndMessageCallback \/ EndCompleteCallback \/ HandleRead \/ HandleHangup
  BY <1>3 DEF Poll, EndMessageCallback, EndCompleteCallback, HandleRead, HandleHangup, outVars
<1>4. CASE HandleWrite
  BY <1>1, <1>4 DEF HandleWrite, NothingToWrite
<1>5. CASE RunFunctor
  BY <1>1, <1>5 DEF RunFunctor, sendInLoop, outVars
<1>6. ASSUME NEW m \in Message, SendMessage(m) \/ SendBuffer(m) \/ SendFromAfar(m)
      PROVE  UNCHANGED wire
  BY <1>1, <1>6 DEF SendMessage, sendInLoop, SendBuffer, SendFromAfar, QueueFunctor, outVars
<1>7. CASE Shutdown \/ ForceClose \/ \E op \in {"shutdown", "forceClose"} : CallFromAfar(op)
  BY <1>7 DEF Shutdown, ForceClose, CallFromAfar, QueueFunctor, outVars
<1>8. CASE PeerStep \/ PeerReads
  BY <1>8 DEF PeerStep, PeerReads, outVars
<1>9. QED
  BY <1>2, <1>3, <1>4, <1>5, <1>6, <1>7, <1>8 DEF Next, HandleEvent, UserStep

(* After shutdown(SHUT_WR) nothing is written any more: the socket is shut *)
(* with the buffer empty, and the status lets nobody fill it again.        *)
THEOREM ShutSocketIsNotWritten == Safety => NoWriteAfterShutdown
<1>1. ConnectionInv /\ [Next]_connVars => [writeShut => UNCHANGED wire]_connVars
  BY ShutStepKeepsWire
<1>2. QED
  BY <1>1, ConnectionInvariance, PTL DEF Safety, NoWriteAfterShutdown

-----------------------------------------------------------------------------
(* The room that poll has reported.                                        *)

(* Between the poll that reported the socket writable and handleWrite      *)
(* nobody uses up the room: there is output, so that users who send are    *)
(* queued behind it.                                                       *)
RoomReported ==
  pc \in {"in", "message", "hup", "out"} /\ "out" \in revents
  => ~empty(output) /\ (room > 0 \/ peer = "reset")

LEMMA RoomReportedKeeps ==
  ASSUME ConnectionInv, RoomReported, [Next]_connVars PROVE RoomReported'
<1> DEFINE Handling == pc \in {"in", "message", "hup", "out"}
<1> USE DEF RoomReported
<1>1. room \in 0 .. SockBuf /\ SockBuf \in Nat
  BY TCPConnectionAssumption DEF ConnectionInv, ConnectionTypes, TypeOK
<1>2. ASSUME UNCHANGED <<output, room, peer, revents>>, Handling' => Handling
      PROVE  RoomReported'
  BY <1>2
<1>3. CASE \/ NewConnection \/ RemoveConnectionInLoop \/ UNCHANGED connVars
           \/ EndMessageCallback \/ EndCompleteCallback \/ HandleRead \/ HandleHangup
           \/ Shutdown \/ ForceClose
           \/ \E op \in {"shutdown", "forceClose"} : CallFromAfar(op)
           \/ \E m \in Message : SendFromAfar(m)
  <2>1. UNCHANGED <<output, room, peer, revents>>
    BY <1>3 DEF NewConnection, RemoveConnectionInLoop, connVars, EndMessageCallback,
       EndCompleteCallback, HandleRead, HandleHangup, Shutdown, ForceClose, CallFromAfar,
       SendFromAfar, QueueFunctor, outVars, kernelVars
  <2>2. Handling' => Handling
    BY <1>3 DEF NewConnection, RemoveConnectionInLoop, connVars, EndMessageCallback,
       EndCompleteCallback, HandleRead, HandleHangup, Shutdown, ForceClose, CallFromAfar,
       SendFromAfar, QueueFunctor
  <2>3. QED
    BY <1>2, <2>1, <2>2
<1>4. CASE Poll
  <2>1. UNCHANGED <<output, room, peer>> /\ revents' = Reported
    BY <1>4 DEF Poll, outVars, kernelVars
  <2>2. "out" \in Reported => "out" \in events /\ (room > 0 \/ peer = "reset")
    BY DEF Reported
  <2>3. "out" \in events => ~empty(output)
    BY DEF ConnectionInv, Establishment, Open, WatchesOutput
  <2>4. QED
    BY <2>1, <2>2, <2>3
<1>5. CASE HandleWrite
  BY <1>5 DEF HandleWrite
<1>6. CASE RunFunctor
  BY <1>6 DEF RunFunctor
<1>7. ASSUME NEW m \in Message, SendMessage(m) PROVE RoomReported'
  <2>1. UNCHANGED <<pc, revents, peer>> /\ sendInLoop(Bytes(m))
    BY <1>7 DEF SendMessage, kernelVars
  <2>2. ~empty(output) => ~empty(output') /\ room' = room
    BY <2>1, BytesOfMessage, SendAtTheEnd
  <2>3. QED
    BY <2>1, <2>2
<1>8. ASSUME NEW m \in Message, SendBuffer(m) PROVE RoomReported'
  <2>1. UNCHANGED <<pc, revents, peer>>
    BY <1>8 DEF SendBuffer, kernelVars
  <2>2. UNCHANGED output /\ (~empty(output) => room' = room)
    BY <1>8, SendBufferSplits
  <2>3. QED
    BY <2>1, <2>2
<1>9. CASE PeerStep \/ PeerReads
  <2>1. UNCHANGED <<pc, revents, output>> /\ (peer = "reset" => peer' = "reset")
    BY <1>9 DEF PeerStep, PeerSends, PeerCloses, PeerResets, PeerReads, outVars, kernelVars
  <2>2. room > 0 => room' > 0
    BY <1>1, <1>9 DEF PeerStep, PeerReads, outVars
  <2>3. QED
    BY <2>1, <2>2
<1>10. QED
  BY <1>3, <1>4, <1>5, <1>6, <1>7, <1>8, <1>9 DEF Next, HandleEvent, UserStep

(* Room that poll reported is still there when handleWrite writes, so that *)
(* writev does not return the -1 that retrieve takes for a length, unless  *)
(* the peer has reset the connection.                                      *)
THEOREM RoomIsKept == Safety => []ReportedRoomRemains
<1>1. Init => RoomReported
  BY DEF Init, RoomReported
<1>2. ConnectionInv /\ RoomReported /\ [Next]_connVars => RoomReported'
  BY RoomReportedKeeps
<1>3. RoomReported => ReportedRoomRemains
  BY DEF RoomReported, ReportedRoomRemains
<1>4. QED
  BY <1>1, <1>2, <1>3, ConnectionInvariance, PTL DEF Safety

-----------------------------------------------------------------------------
(* The bytes accepted reach the socket in order and none is lost: what is  *)
(* written and what the ring of outputBuffer_ holds make up what was       *)
(* accepted, for any messages, socket and initial size of the ring, for as *)
(* long as the appends have found their place.                             *)
THEOREM BytesStayInOrder == Safety => []StreamIntact
<1>1. ConnectionInv => StreamIntact
  BY DEF ConnectionInv
<1>2. QED
  BY <1>1, ConnectionInvariance, PTL

(* The members of a TCPConnection, its functors and its socket keep their  *)
(* types, for any messages and sizes.                                      *)
THEOREM TypeInvariant == Safety => []TypeOK
<1>1. ConnectionInv => TypeOK
  BY DEF ConnectionInv, ConnectionTypes
<1>2. QED
  BY <1>1, ConnectionInvariance, PTL

=============================================================================
