---------------------------- MODULE TCPConnection ----------------------------
(***************************************************************************)
(* gmuduo::TCPConnection: one connection of a TCPServer, from newConnection*)
(* in the thread of the server's loop to handleClose in the thread of its  *)
(* own loop, which handles its events, runs its functors and calls users.  *)
(*                                                                         *)
(* The functors other threads hand over form a FIFO queue, as EventLoop is *)
(* shown to provide.  outputBuffer_ is a Buffer, cell by cell.  The model  *)
(* stops when the connection has failed: once the process has ended, once  *)
(* outputBuffer_ has put bytes where they do not belong, and after         *)
(* retrieve(-1), which follows a failed write.                             *)
(***************************************************************************)
EXTENDS BufferData, SequencesExt

CONSTANTS
  Message,         \* what users send, each message once
  MsgLen,          \* the number of bytes of each message
  SockBuf,         \* number of bytes the socket takes before it is full
  MaxQueue,        \* bound: functors pending at once
  Resets           \* may the peer reset the connection?

Bytes(m) == [i \in 1 .. MsgLen[m] |-> <<m, i>>]
Garbage == <<"garbage">>         \* the byte in memory before a message

ASSUME TCPConnectionAssumption ==
  /\ MsgLen \in [Message -> Nat \ {0}] /\ SockBuf \in Nat \ {0} /\ MaxQueue \in Nat
  /\ Resets \in BOOLEAN
  /\ Garbage \in Byte /\ \A m \in Message : \A i \in 1 .. MsgLen[m] : <<m, i>> \in Byte

VARIABLES
  ownLoop,         \* has the connection a loop other than the server's?
  status,          \* status_, "none" before the constructor
  events,          \* events_ of channel_, as registered with epoll
  output,          \* outputBuffer_
  functors,        \* penddingTask_ of the connection's loop
  pc,              \* what the connection's loop is doing
  revents,         \* revents_: events of the handleEvent going on
  inMap,           \* is the connection in TCPPtrMap_?
  removing,        \* is removeConnectionInLoop pending on the server's loop?
  closeRef,        \* does closeCallback_ hold a shared_ptr to its connection?
  failed,          \* the process has ended or bytes are misplaced
  room,            \* kernel: bytes the socket would take
  inbox,           \* kernel: is there input not read yet?
  peer,            \* kernel: "open", "fin" or "reset"
  writeShut,       \* kernel: shutdown(SHUT_WR) done
  wire,            \* history: the bytes the socket has taken
  stream,          \* history: the bytes accepted for sending, in order
  sent,            \* history: the messages users have sent
  downs            \* history: calls of connectionCallback_ for the end

outVars == <<output, room, wire, stream>>
refVars == <<ownLoop, inMap, removing, closeRef>>
kernelVars == <<inbox, peer>>
connVars == <<status, events, functors, pc, revents, failed, writeShut, sent,
              downs, outVars, refVars, kernelVars>>

Functor == [op : {"establish", "send", "shutdown", "forceClose"},
            data : Seq(Byte)]
Call(op) == [op |-> op, data |-> <<>>]
Send(s) == [op |-> "send", data |-> s]

(* What is in the output buffer.                                           *)
Pending == Held(output)

Status == {"none", "kConnecting", "kConnected", "kDisConnecting", "kDisConnected"}

(* handleEvent is at its EPOLLIN, EPOLLHUP and EPOLLOUT part; "message"    *)
(* and "complete": in messageCallback_ and writeCompleteCallback_.         *)
Location == {"idle", "in", "message", "hup", "out", "complete"}

TypeOK ==
  /\ status \in Status
  /\ events \subseteq {"in", "out"}
  /\ output \in Record
  /\ functors \in Seq(Functor)
  /\ pc \in Location
  /\ revents \subseteq {"in", "out", "hup"}
  /\ ownLoop \in BOOLEAN /\ inMap \in BOOLEAN /\ removing \in BOOLEAN /\ closeRef \in BOOLEAN
  /\ failed \in BOOLEAN /\ inbox \in BOOLEAN /\ writeShut \in BOOLEAN
  /\ room \in 0 .. SockBuf
  /\ peer \in {"open", "fin", "reset"}
  /\ sent \subseteq Message
  /\ downs \in Nat

Init ==
  /\ ownLoop = FALSE
  /\ status = "none"
  /\ events = {}
  /\ output = Fresh(kInitialSize)
  /\ functors = <<>>
  /\ pc = "idle"
  /\ revents = {}
  /\ inMap = FALSE
  /\ removing = FALSE
  /\ closeRef = FALSE
  /\ failed = FALSE
  /\ room = SockBuf
  /\ inbox = FALSE
  /\ peer = "open"
  /\ writeShut = FALSE
  /\ wire = <<>>
  /\ stream = <<>>
  /\ sent = {}
  /\ downs = 0

-----------------------------------------------------------------------------
(* The server.                                                             *)

onEstablished ==
  /\ status' = "kConnected"
  /\ events' = {"in"}

(* newConnection; getOneLoop gives the server's own loop or another one,   *)
(* and runInLoop calls onEstablished at once if it is the server's own.    *)
NewConnection ==
  /\ status = "none"
  /\ inMap' = TRUE
  /\ closeRef' = TRUE
  /\ ownLoop' \in BOOLEAN
  /\ IF ownLoop'
     THEN /\ status' = "kConnecting"
          /\ functors' = Append(functors, Call("establish"))
          /\ UNCHANGED events
     ELSE onEstablished /\ UNCHANGED functors
  /\ UNCHANGED <<pc, revents, removing, failed, writeShut, sent, downs, outVars,
                 kernelVars>>

(* closeCallback_ is removeConnection.                                     *)
removeConnection ==
  /\ IF ownLoop THEN removing' = TRUE /\ UNCHANGED inMap
     ELSE inMap' = FALSE /\ UNCHANGED removing
  /\ UNCHANGED <<ownLoop, closeRef>>

RemoveConnectionInLoop ==
  /\ removing
  /\ removing' = FALSE
  /\ inMap' = FALSE
  /\ UNCHANGED <<status, events, functors, pc, revents, failed, writeShut, sent,
                 downs, ownLoop, closeRef, outVars, kernelVars>>

-----------------------------------------------------------------------------
(* The handlers' common parts.                                             *)

(* Mutant: status_ is not looked at.                                       *)
handleCloseAgain ==
  /\ status' = "kDisConnected"
  /\ events' = {}
  /\ downs' = downs + 1
  /\ removeConnection

handleClose ==
  IF status = "kDisConnected"
  THEN UNCHANGED <<status, events, downs, refVars>>
  ELSE /\ status' = "kDisConnected"
       /\ events' = {}
       /\ downs' = downs + 1
       /\ removeConnection

(* write() takes as much of s as there is room for.                        *)
Taken(s) == SubSeq(s, 1, Min({room, Len(s)}))
Rest(s) == SubSeq(s, Min({room, Len(s)}) + 1, Len(s))

Write(s) ==
  /\ wire' = wire \o Taken(s)
  /\ room' = room - Len(Taken(s))

(* Does append, once place is made in b, put n bytes behind those it holds *)
(* and leave the indices in the vector?                                    *)
HasPlace(b, n) ==
  /\ n <= writeableBytes(b)
  /\ Fits(b, n)
  /\ Splits(b, n) => Capacity(b) = b.size

(* Mutant: EPOLLOUT is not asked for.                                      *)
AcceptUnwatched(taken, rest) ==
  LET b == ensurePlace(output, Len(rest)) IN
  /\ HasPlace(b, Len(rest))
  /\ output' = Appended(b, rest)
  /\ stream' = stream \o taken \o rest
  /\ UNCHANGED <<events, failed>>

(* The end of sendInLoop: the socket has taken some bytes, what is left    *)
(* goes to the output buffer.                                              *)
Accept(taken, rest) ==
  LET b == ensurePlace(output, Len(rest)) IN
  \/ /\ rest = <<>>
     /\ stream' = stream \o taken
     /\ UNCHANGED <<output, events, failed>>
  \/ /\ rest # <<>> /\ HasPlace(b, Len(rest))
     /\ output' = Appended(b, rest)
     /\ stream' = stream \o taken \o rest
     /\ events' = events \cup {"out"}
     /\ UNCHANGED failed
  \/ /\ rest # <<>> /\ ~HasPlace(b, Len(rest))
     /\ stream' = stream \o taken
     /\ failed' = TRUE
     /\ UNCHANGED <<output, events>>

(* sendInLoop: behind what is in the output buffer ...                     *)
Enqueue(s) ==
  /\ ~empty(output)
  /\ Accept(<<>>, s)
  /\ UNCHANGED <<room, wire>>

(* Mutant: the output buffer is not looked at.                             *)
WriteAnyway(s) ==
  /\ peer # "reset"
  /\ Write(s)
  /\ Accept(Taken(s), Rest(s))

(* ... or, when it is empty, to the socket and the rest to the buffer.  A  *)
(* write to a full socket returns -1, and the rest of a message from -1 on *)
(* begins with the byte before it.                                         *)
WriteDirectly(s) ==
  /\ empty(output)
  /\ peer # "reset"
  /\ Write(s)
  /\ Accept(Taken(s), IF room = 0 THEN <<Garbage>> \o s ELSE Rest(s))

WriteToReset ==
  /\ empty(output)
  /\ peer = "reset"
  /\ failed' = TRUE
  /\ UNCHANGED <<outVars, events>>

sendInLoop(s) ==
  \/ /\ status = "kConnected"
     /\ Enqueue(s) \/ WriteDirectly(s) \/ WriteToReset
  \/ /\ status # "kConnected"
     /\ UNCHANGED <<outVars, events, failed>>

(* Socket::shutdownWrite, whose error ends the process: the peer has reset *)
(* the connection, or it is closed, since both sides have sent their FIN   *)
(* and the last of them may have been acknowledged.                        *)
shutdownWrite ==
  \/ /\ peer # "reset"
     /\ writeShut' = TRUE
     /\ UNCHANGED failed
  \/ /\ peer = "reset" \/ (peer = "fin" /\ writeShut)
     /\ failed' = TRUE
     /\ UNCHANGED writeShut

(* Mutant: the socket is shut down whatever there is left to write.        *)
shutdownInLoopAtOnce ==
  \/ /\ status = "kConnected"
     /\ status' = "kDisConnecting"
     /\ UNCHANGED <<writeShut, failed>>
  \/ /\ status = "kDisConnecting"
     /\ shutdownWrite
     /\ UNCHANGED status
  \/ /\ status \notin {"kConnected", "kDisConnecting"}
     /\ UNCHANGED <<status, writeShut, failed>>

(* The first call only marks the connection; the socket is shut down by a  *)
(* later call that finds nothing left to write.                            *)
shutdownInLoop ==
  \/ /\ status = "kConnected"
     /\ status' = "kDisConnecting"
     /\ UNCHANGED <<writeShut, failed>>
  \/ /\ status = "kDisConnecting" /\ empty(output)
     /\ shutdownWrite
     /\ UNCHANGED status
  \/ /\ status \notin {"kConnected", "kDisConnecting"} \/ ~empty(output)
     /\ status # "kConnected"
     /\ UNCHANGED <<status, writeShut, failed>>

-----------------------------------------------------------------------------
(* One handleEvent of channel_.                                            *)

Hangup == peer = "reset" \/ (peer = "fin" /\ writeShut)

Reported ==
  { e \in events : \/ e = "in" /\ (inbox \/ peer # "open")
                   \/ e = "out" /\ (room > 0 \/ peer = "reset") }
  \cup { e \in {"hup"} : events # {} /\ Hangup }

Poll ==
  /\ pc = "idle"
  /\ Reported # {}
  /\ revents' = Reported
  /\ pc' = "in"
  /\ UNCHANGED <<status, events, functors, failed, writeShut, sent, downs,
                 outVars, refVars, kernelVars>>

(* handleRead: data, the end of the input, or an error.  readFd hands the  *)
(* result -1 to append as a length.                                        *)
ReadData ==
  /\ inbox
  /\ inbox' = FALSE
  /\ pc' = "message"
  /\ UNCHANGED <<status, events, failed, downs, refVars>>

ReadEnd ==
  /\ ~inbox /\ peer = "fin"
  /\ handleClose
  /\ pc' = "hup"
  /\ UNCHANGED <<inbox, failed>>

ReadError ==
  /\ ~inbox /\ peer = "reset"
  /\ failed' = TRUE
  /\ UNCHANGED <<inbox, pc, status, events, downs, refVars>>

NothingToRead ==
  /\ "in" \notin revents
  /\ pc' = "hup"
  /\ UNCHANGED <<inbox, failed, status, events, downs, refVars>>

HandleRead ==
  /\ pc = "in"
  /\ \/ "in" \in revents /\ (ReadData \/ ReadEnd \/ ReadError)
     \/ NothingToRead
  /\ UNCHANGED <<functors, revents, writeShut, sent, outVars, peer>>

EndMessageCallback ==
  /\ pc = "message"
  /\ pc' = "hup"
  /\ UNCHANGED <<status, events, functors, revents, failed, writeShut, sent,
                 downs, outVars, refVars, kernelVars>>

HandleHangup ==
  /\ pc = "hup"
  /\ IF "hup" \in revents THEN handleClose
     ELSE UNCHANGED <<status, events, downs, refVars>>
  /\ pc' = "out"
  /\ UNCHANGED <<functors, revents, failed, writeShut, sent, outVars, kernelVars>>

(* Mutant: the output buffer is emptied after a partial write.             *)
WriteOutputDropsRest ==
  /\ peer # "reset"
  /\ room > 0
  /\ Write(Pending)
  /\ output' = [output EXCEPT !.r = 0, !.w = 0]
  /\ events' = events \ {"out"}
  /\ pc' = "complete"
  /\ UNCHANGED failed

WriteOutput ==
  /\ peer # "reset"
  /\ room > 0
  /\ Write(Pending)
  /\ output' = retrieved(output, Len(Taken(Pending)))
  /\ IF empty(output') THEN events' = events \ {"out"} /\ pc' = "complete"
     ELSE pc' = "idle" /\ UNCHANGED events
  /\ UNCHANGED failed

(* writev's -1 is taken for a length by retrieve.                          *)
WriteError ==
  /\ peer = "reset" \/ room = 0
  /\ failed' = TRUE
  /\ UNCHANGED <<output, room, wire, events, pc>>

NothingToWrite ==
  /\ "out" \notin revents \/ empty(output)
  /\ pc' = "idle"
  /\ UNCHANGED <<output, room, wire, events, failed>>

HandleWrite ==
  /\ pc = "out"
  /\ \/ "out" \in revents /\ ~empty(output) /\ (WriteOutput \/ WriteError)
     \/ NothingToWrite
  /\ revents' = {}
  /\ UNCHANGED <<status, functors, writeShut, sent, downs, stream, refVars,
                 kernelVars>>

(* Mutant: the shutdown that waits for the output is forgotten.            *)
EndCompleteCallbackOnly ==
  /\ pc = "complete"
  /\ pc' = "idle"
  /\ UNCHANGED <<status, writeShut, failed, events, functors, revents, sent,
                 downs, outVars, refVars, kernelVars>>

EndCompleteCallback ==
  /\ pc = "complete"
  /\ pc' = "idle"
  /\ IF status = "kDisConnecting" THEN shutdownInLoop
     ELSE UNCHANGED <<status, writeShut, failed>>
  /\ UNCHANGED <<events, functors, revents, sent, downs, outVars, refVars,
                 kernelVars>>

(* doPendingTask.                                                          *)
RunFunctor ==
  /\ pc = "idle"
  /\ functors # <<>>
  /\ functors' = Tail(functors)
  /\ \/ /\ Head(functors).op = "establish"
        /\ onEstablished
        /\ UNCHANGED <<outVars, writeShut, failed, downs, refVars>>
     \/ /\ Head(functors).op = "send"
        /\ sendInLoop(Head(functors).data)
        /\ UNCHANGED <<status, writeShut, downs, refVars>>
     \/ /\ Head(functors).op = "shutdown"
        /\ shutdownInLoop
        /\ UNCHANGED <<outVars, events, downs, refVars>>
     \/ /\ Head(functors).op = "forceClose"
        /\ handleClose
        /\ UNCHANGED <<outVars, writeShut, failed>>
  /\ UNCHANGED <<pc, revents, sent, kernelVars>>

-----------------------------------------------------------------------------
(* Users, who have the connection from connectionCallback_ on: on its loop *)
(* in callbacks, in other handlers and in tasks, and in other threads.     *)

Known == status \notin {"none", "kConnecting"}
UserCode == Known /\ pc \in {"idle", "in", "message", "complete"}

Sends(m) == m \notin sent /\ sent' = sent \cup {m}

SendMessage(m) ==
  /\ UserCode
  /\ Sends(m)
  /\ sendInLoop(Bytes(m))
  /\ UNCHANGED <<status, functors, pc, revents, writeShut, downs, refVars,
                 kernelVars>>

(* send(Buffer): the buffer to the socket, what is left by queueInLoop.    *)
WriteBuffer(m) ==
  /\ Write(Bytes(m))
  /\ stream' = stream \o Taken(Bytes(m))
  /\ UNCHANGED <<output, failed>>

(* Mutant: what the socket has taken stays in the buffer.                  *)
SendBufferUnretrieved(m) ==
  /\ UserCode
  /\ status = "kConnected"
  /\ Sends(m)
  /\ Len(functors) < MaxQueue
  /\ empty(output) /\ room > 0 /\ peer # "reset"
  /\ WriteBuffer(m)
  /\ functors' = Append(functors, Send(Bytes(m)))
  /\ UNCHANGED <<status, events, pc, revents, writeShut, downs, refVars,
                 kernelVars>>

SendBuffer(m) ==
  /\ UserCode
  /\ status = "kConnected"
  /\ Sends(m)
  /\ Len(functors) < MaxQueue
  /\ \/ /\ ~empty(output)
        /\ functors' = Append(functors, Send(Bytes(m)))
        /\ UNCHANGED <<outVars, failed>>
     \/ /\ empty(output) /\ (room = 0 \/ peer = "reset")
        /\ failed' = TRUE
        /\ UNCHANGED <<functors, outVars>>
     \/ /\ empty(output) /\ room > 0 /\ peer # "reset"
        /\ WriteBuffer(m)
        /\ functors' = IF Rest(Bytes(m)) = <<>> THEN functors
                       ELSE Append(functors, Send(Rest(Bytes(m))))
  /\ UNCHANGED <<status, events, pc, revents, writeShut, downs, refVars,
                 kernelVars>>

Shutdown ==
  /\ UserCode
  /\ shutdownInLoop
  /\ UNCHANGED <<events, functors, pc, revents, sent, downs, outVars, refVars,
                 kernelVars>>

ForceClose ==
  /\ UserCode
  /\ handleClose
  /\ UNCHANGED <<functors, pc, revents, failed, writeShut, sent, outVars,
                 kernelVars>>

QueueFunctor(f) ==
  /\ Len(functors) < MaxQueue
  /\ functors' = Append(functors, f)
  /\ UNCHANGED <<status, events, pc, revents, failed, writeShut, downs, outVars,
                 refVars, kernelVars>>

SendFromAfar(m) ==
  /\ status = "kConnected"
  /\ Sends(m)
  /\ QueueFunctor(Send(Bytes(m)))

CallFromAfar(op) == Known /\ QueueFunctor(Call(op)) /\ UNCHANGED sent

-----------------------------------------------------------------------------
(* The peer and the kernel.                                                *)

PeerSends ==
  /\ Known /\ peer = "open" /\ ~inbox
  /\ inbox' = TRUE
  /\ UNCHANGED peer

PeerCloses ==
  /\ Known /\ peer = "open"
  /\ peer' = "fin"
  /\ UNCHANGED inbox

PeerResets ==
  /\ Resets /\ Known /\ peer # "reset"
  /\ peer' = "reset"
  /\ UNCHANGED inbox

PeerStep ==
  /\ PeerSends \/ PeerCloses \/ PeerResets
  /\ UNCHANGED <<status, events, functors, pc, revents, failed, writeShut, sent,
                 downs, outVars, refVars>>

(* The peer takes a byte out of the socket.                                *)
PeerReads ==
  /\ room < SockBuf
  /\ peer # "reset"
  /\ room' = room + 1
  /\ UNCHANGED <<status, events, functors, pc, revents, failed, writeShut, sent,
                 downs, output, wire, stream, refVars, kernelVars>>

-----------------------------------------------------------------------------

HandleEvent ==
  \/ HandleRead \/ EndMessageCallback \/ HandleHangup
  \/ HandleWrite \/ EndCompleteCallback

UserStep ==
  \/ \E m \in Message : SendMessage(m) \/ SendBuffer(m) \/ SendFromAfar(m)
  \/ Shutdown \/ ForceClose
  \/ \E op \in {"shutdown", "forceClose"} : CallFromAfar(op)

Next ==
  /\ ~failed
  /\ \/ NewConnection \/ RemoveConnectionInLoop
     \/ Poll \/ HandleEvent \/ RunFunctor
     \/ UserStep
     \/ PeerStep \/ PeerReads

(* Both loops run and a peer that is there reads.  The connection's loop   *)
(* alternates between polling and running the functors it has, so that     *)
(* neither keeps it from the other.                                        *)
Fairness ==
  /\ WF_connVars(~failed /\ Poll)
  /\ WF_connVars(~failed /\ HandleEvent)
  /\ SF_connVars(~failed /\ RunFunctor)
  /\ WF_connVars(~failed /\ RemoveConnectionInLoop)
  /\ WF_connVars(~failed /\ PeerReads)

Safety == Init /\ [][Next]_connVars

Spec == Safety /\ Fairness

-----------------------------------------------------------------------------
(* Properties.                                                             *)

(* What the socket was given, followed by the output buffer, is what was   *)
(* accepted for sending, in that order, through partial writes and however *)
(* outputBuffer_ wraps, grows and is drained at any index, up to a         *)
(* failure.  A byte sent with a message is accepted with it, even the one  *)
(* in front of it that a full socket lets in.                              *)
StreamIntact == wire \o Pending = stream

(* Each byte of a message sent while the connection is up is in the        *)
(* socket, in the output buffer or in a functor, once and in the message's *)
(* order, though other messages may come in between: what send(Buffer)     *)
(* leaves over follows what the socket has taken.                          *)
EachByteOnce ==
  LET queued == FoldLeft(LAMBDA bytes, f : bytes \o f.data, <<>>, functors)
      all == wire \o Pending \o queued
  IN  status = "kConnected" /\ ~failed =>
        \A m \in sent : SelectSeq(all, LAMBDA x : x \in Range(Bytes(m))) = Bytes(m)

(* EPOLLOUT is asked for exactly while there is output: output is never    *)
(* forgotten, and epoll does not report a writable socket in vain.         *)
WatchesOutput ==
  status \in {"kConnected", "kDisConnecting"} => ("out" \in events <=> ~empty(output))

(* The end of a connection is reported once and removes it from the server *)
(* once, though one handleEvent may find it closed three times over.       *)
ClosedOnce ==
  /\ downs = IF status = "kDisConnected" THEN 1 ELSE 0
  /\ status = "kDisConnected" <=> status # "none" /\ (removing \/ ~inMap)

(* handleWrite writes because poll reported room.  What users send from    *)
(* the callbacks in between does not use it up, so that writev's -1, which *)
(* would be taken for a length, only comes from a peer that has reset.     *)
ReportedRoomRemains ==
  pc = "out" /\ "out" \in revents /\ ~empty(output) => room > 0 \/ peer = "reset"

(* Nothing is written to the socket once its write side is shut down.      *)
NoWriteAfterShutdown == [][writeShut => UNCHANGED wire]_connVars

(* Output is sent as long as the peer reads, unless the connection ends.   *)
OutputIsSent ==
  ~empty(output) ~> empty(output) \/ status = "kDisConnected" \/ failed

(* A shutdown() that finds output pending closes the write side after it.  *)
ShutdownAfterOutput ==
  status = "kDisConnecting" /\ ~empty(output)
  ~> writeShut \/ status = "kDisConnected" \/ failed

(* TCPConnection.h:67 says that shutdown() closes the write side.  It does *)
(* not when there is nothing to write.                                     *)
ShutdownCloses ==
  status = "kDisConnecting" ~> writeShut \/ status = "kDisConnected" \/ failed

(* Buffer.h:9 calls Buffer a ring.  Once its last byte has been taken at   *)
(* an index other than 0, outputBuffer_ takes itself for one that does not *)
(* wrap: append of a message writes past its end, whatever the peer does.  *)
SendFindsPlace ==
  [][\A m \in Message : SendMessage(m) /\ failed' => peer = "reset"]_connVars

(* TCPConnection.h:67 says that shutdown() closes the write side.  Called  *)
(* once more after both sides have closed, it ends the process.            *)
OrderlyPeerNeverFails == failed => peer = "reset"

(* TCPConnection.cc:93 says that an empty buffer lets a message be sent    *)
(* directly.  Into a full socket it goes with the byte in front of it.     *)
NoGarbage == Garbage \notin Range(stream)

(* TCPConnection.cc:81 queues what is left of a send(Buffer), as if        *)
(* nothing could be sent in between.                                       *)
MessagesWhole ==
  LET all == wire \o Pending IN
  \A k \in DOMAIN all : \A m \in Message : \A i \in 2 .. MsgLen[m] :
    all[k] = <<m, i>> => k > 1 /\ all[k - 1] = <<m, i - 1>>

(* TCPConnection.cc:168 says of handleClose's callbacks that the object is *)
(* destroyed after them.  closeCallback_ keeps it for ever.                *)
Alive ==
  inMap \/ removing \/ closeRef \/ \E f \in Range(functors) : f.op = "establish"
DestroyedAfterClose ==
  status = "kDisConnected" /\ ~inMap /\ ~removing /\ pc = "idle" => ~Alive

(* TCPConnection.cc:168 again: after connectionCallback_ has reported the   *)
(* end, users would be called with a connection that is gone.  handleRead  *)
(* does so when another handler of the iteration has closed it.            *)
NoMessageAfterDown ==
  [][downs > 0 /\ pc # "message" => pc' # "message"]_connVars

(* Channel.cc:32 says of a hangup that no more data should be sent after   *)
(* it.  The same handleEvent goes on to handleWrite.                       *)
NoSendAfterHangup ==
  ~(pc = "out" /\ {"hup", "out"} \subseteq revents /\ ~empty(output))

=============================================================================
