------------------------------ MODULE TCPServer ------------------------------
(***************************************************************************)
(* gmuduo::TCPServer with its Acceptor and its EventLoopThreadpool: clients *)
(* are accepted on the base loop, dealt to the loops of the pool, entered  *)
(* into TCPPtrMap_ and taken out when they are closed.                     *)
(*                                                                         *)
(* A connection is reduced to being established and closed (TCPConnection  *)
(* says what happens in between), a loop to its FIFO of functors (as       *)
(* EventLoop is proved to run them).  The system call accept fails with    *)
(* EMFILE whenever no descriptor is left, even if no client is waiting:    *)
(* Linux takes the descriptor before it looks at the queue.                *)
(***************************************************************************)
EXTENDS EventLoopThreadpool, FiniteSetsExt, Functions

CONSTANTS
  Client,          \* who connects, each once
  Descriptors,     \* the process may open descriptors 1 .. Descriptors
  MaxOpens         \* bound: files the rest of the process opens

ASSUME TCPServerAssumption == Descriptors \in Nat \ {0} /\ MaxOpens \in Nat

VARIABLES
  phase,           \* "built", "listening", "joining" in ~TCPServer, "gone"
  pc,              \* the base loop's place in Acceptor::handleRead, or "idle"
  nullfd_,
  conectionID_,
  TCPPtrMap_,      \* names, which differ in the number only, to connections
  functors,        \* penddingTask_ of each loop
  client,          \* what has become of each client's connection
  loopOf,          \* the loop of each connection
  backlog,         \* kernel: clients in the queue of the listening socket
  holder,          \* kernel: who holds each descriptor
  opens,           \* history: files opened by the rest of the process
  dangling         \* history: was the server used after its destruction?

acceptorVars == <<pc, nullfd_, backlog, holder>>
connectionVars == <<conectionID_, TCPPtrMap_, functors, client, loopOf>>
serverVars == <<phase, opens, dangling, acceptorVars, connectionVars, poolVars>>

Fd == 1 .. Descriptors
None == -1
Free == { fd \in Fd : holder[fd] = "free" }
LowestFree == Min(Free)          \* what open and accept return

(* Socket::accept gives a descriptor, EAGAIN or EMFILE.                    *)
Accepts == Free # {} /\ backlog # <<>>
WouldBlock == Free # {} /\ backlog = <<>>
NoneLeft == Free = {}

Functor == {"establish", "remove"} \X Client

ServerTypeOK ==
  /\ PoolTypeOK
  /\ phase \in {"built", "listening", "joining", "gone"}
  /\ pc \in {"idle", "accept", "callback", "release", "take", "drop", "reopen"}
  /\ nullfd_ \in Fd \cup {None}
  /\ conectionID_ \in Nat
  /\ DOMAIN TCPPtrMap_ \subseteq 0 .. conectionID_ /\ Range(TCPPtrMap_) \subseteq Client
  /\ functors \in [LoopId -> Seq(Functor)]
  /\ client \in [Client -> {"away", "waiting", "connecting", "up", "down", "dropped"}]
  /\ loopOf \in [Client -> LoopId]
  /\ backlog \in Seq(Client)
  /\ holder \in [Fd -> {"free", "acceptor", "connection", "other"}]
  /\ opens \in 0 .. MaxOpens
  /\ dangling \in BOOLEAN

(* The constructor: the spare descriptor is open.                          *)
ServerInit ==
  /\ PoolInit
  /\ phase = "built"
  /\ pc = "idle"
  /\ nullfd_ = 1
  /\ conectionID_ = 0
  /\ TCPPtrMap_ = <<>>
  /\ functors = [l \in LoopId |-> <<>>]
  /\ client = [c \in Client |-> "away"]
  /\ loopOf = [c \in Client |-> 0]
  /\ backlog = <<>>
  /\ holder = [fd \in Fd |-> IF fd = 1 THEN "acceptor" ELSE "free"]
  /\ opens = 0
  /\ dangling = FALSE

-----------------------------------------------------------------------------
(* Users, in the base loop's thread.                                       *)

BaseLoopFree == pc = "idle" /\ phase # "joining"

SetThreads(n) ==
  /\ BaseLoopFree /\ phase # "gone"
  /\ SetThreadNum(n)
  /\ UNCHANGED <<phase, opens, dangling, acceptorVars, connectionVars>>

Start ==
  /\ BaseLoopFree /\ phase # "gone"
  /\ StartPool \/ (started /\ UNCHANGED poolVars)
  /\ phase' = "listening"
  /\ UNCHANGED <<opens, dangling, acceptorVars, connectionVars>>

(* ~TCPServer destroys threadpool_ first, whose threads are joined ...     *)
Destroy ==
  /\ BaseLoopFree /\ phase # "gone"
  /\ phase' = "joining"
  /\ UNCHANGED <<opens, dangling, acceptorVars, connectionVars, poolVars>>

(* ... then the map and the acceptor, with its sockets.                    *)
Destroyed ==
  /\ phase = "joining"
  /\ { loops[i] : i \in 2 .. Len(loops) } \subseteq stopped
  /\ phase' = "gone"
  /\ TCPPtrMap_' = <<>>
  /\ holder' = [fd \in Fd |-> IF fd = nullfd_ THEN "free" ELSE holder[fd]]
  /\ backlog' = <<>>
  /\ client' = [c \in Client |-> IF client[c] = "waiting" THEN "dropped" ELSE client[c]]
  /\ UNCHANGED <<pc, nullfd_, conectionID_, functors, loopOf, opens, dangling, poolVars>>

-----------------------------------------------------------------------------
(* Acceptor::handleRead.                                                   *)

(* The acceptor's channel is registered, level-triggered, from listen() on. *)
HandleRead ==
  /\ phase = "listening" /\ pc = "idle"
  /\ backlog # <<>>
  /\ pc' = "accept"
  /\ UNCHANGED <<phase, opens, dangling, nullfd_, backlog, holder, connectionVars, poolVars>>

Enter(id, c) ==
  TCPPtrMap_' = [i \in DOMAIN TCPPtrMap_ \cup {id} |->
                   IF i = id THEN c ELSE TCPPtrMap_[i]]

onEstablished(c) == client' = [client EXCEPT ![c] = "up"]

(* Mutant: conectionID_ is not counted up.                                 *)
newConnectionSameName(c) ==
  /\ GetOneLoop
  /\ Enter(conectionID_, c)
  /\ loopOf' = [loopOf EXCEPT ![c] = loops[loopIndex']]
  /\ IF loopOf'[c] = 0
     THEN onEstablished(c) /\ pc' = "callback" /\ UNCHANGED functors
     ELSE /\ client' = [client EXCEPT ![c] = "connecting"]
          /\ functors' = [functors EXCEPT ![loopOf'[c]] = Append(@, <<"establish", c>>)]
          /\ UNCHANGED pc
  /\ UNCHANGED conectionID_

(* Mutant: runInLoop gives every functor to the base loop.                 *)
newConnectionOnBase(c) ==
  /\ GetOneLoop
  /\ Enter(conectionID_, c)
  /\ conectionID_' = conectionID_ + 1
  /\ loopOf' = [loopOf EXCEPT ![c] = loops[loopIndex']]
  /\ client' = [client EXCEPT ![c] = "connecting"]
  /\ functors' = [functors EXCEPT ![0] = Append(@, <<"establish", c>>)]
  /\ UNCHANGED pc

(* The name is entered, and onEstablished called, at once if the loop is   *)
(* the base loop: connectionCallback_ then runs inside handleRead.         *)
newConnection(c) ==
  /\ GetOneLoop
  /\ Enter(conectionID_, c)
  /\ conectionID_' = conectionID_ + 1
  /\ loopOf' = [loopOf EXCEPT ![c] = loops[loopIndex']]
  /\ IF loopOf'[c] = 0
     THEN onEstablished(c) /\ pc' = "callback" /\ UNCHANGED functors
     ELSE /\ client' = [client EXCEPT ![c] = "connecting"]
          /\ functors' = [functors EXCEPT ![loopOf'[c]] = Append(@, <<"establish", c>>)]
          /\ UNCHANGED pc

Accept ==
  /\ pc = "accept"
  /\ Accepts
  /\ newConnection(Head(backlog))
  /\ backlog' = Tail(backlog)
  /\ holder' = [holder EXCEPT ![LowestFree] = "connection"]
  /\ UNCHANGED <<phase, opens, dangling, nullfd_>>

EndCallback ==
  /\ pc = "callback"
  /\ pc' = "accept"
  /\ UNCHANGED <<phase, opens, dangling, nullfd_, backlog, holder, connectionVars, poolVars>>

(* EAGAIN: back to the loop.                                               *)
NobodyWaits ==
  /\ pc = "accept"
  /\ WouldBlock
  /\ pc' = "idle"
  /\ UNCHANGED <<phase, opens, dangling, nullfd_, backlog, holder, connectionVars, poolVars>>

(* Mutant: EMFILE ends the loop like EAGAIN.                               *)
NoDescriptorBreaks ==
  /\ pc = "accept"
  /\ NoneLeft
  /\ pc' = "idle"
  /\ UNCHANGED <<phase, opens, dangling, nullfd_, backlog, holder, connectionVars, poolVars>>

(* EMFILE: the spare descriptor is given up for the client, ...            *)
NoDescriptor ==
  /\ pc = "accept"
  /\ NoneLeft
  /\ pc' = "release"
  /\ UNCHANGED <<phase, opens, dangling, nullfd_, backlog, holder, connectionVars, poolVars>>

Close(fd) == holder' = [f \in Fd |-> IF f = fd THEN "free" ELSE holder[f]]

Release ==
  /\ pc = "release"
  /\ Close(nullfd_)
  /\ pc' = "take"
  /\ UNCHANGED <<phase, opens, dangling, nullfd_, backlog, connectionVars, poolVars>>

(* Mutant: what a failed accept returns is not stored.                     *)
TakeOrKeep ==
  /\ pc = "take"
  /\ pc' = "drop"
  /\ IF Accepts
     THEN /\ nullfd_' = LowestFree
          /\ holder' = [holder EXCEPT ![LowestFree] = "acceptor"]
          /\ backlog' = Tail(backlog)
          /\ client' = [client EXCEPT ![Head(backlog)] = "dropped"]
     ELSE UNCHANGED <<nullfd_, holder, backlog, client>>
  /\ UNCHANGED <<phase, opens, dangling, conectionID_, TCPPtrMap_, functors, loopOf, poolVars>>

(* ... who is accepted if there is one and no other thread was faster, ... *)
Take ==
  /\ pc = "take"
  /\ pc' = "drop"
  /\ IF Accepts
     THEN /\ nullfd_' = LowestFree
          /\ holder' = [holder EXCEPT ![LowestFree] = "acceptor"]
          /\ backlog' = Tail(backlog)
          /\ client' = [client EXCEPT ![Head(backlog)] = "dropped"]
     ELSE nullfd_' = None /\ UNCHANGED <<holder, backlog, client>>
  /\ UNCHANGED <<phase, opens, dangling, conectionID_, TCPPtrMap_, functors, loopOf, poolVars>>

Drop ==
  /\ pc = "drop"
  /\ Close(nullfd_)
  /\ pc' = "reopen"
  /\ UNCHANGED <<phase, opens, dangling, nullfd_, backlog, connectionVars, poolVars>>

(* ... and sent away, and /dev/null is opened again if that is possible.   *)
Reopen ==
  /\ pc = "reopen"
  /\ pc' = "accept"
  /\ IF Free # {}
     THEN nullfd_' = LowestFree /\ holder' = [holder EXCEPT ![LowestFree] = "acceptor"]
     ELSE nullfd_' = None /\ UNCHANGED holder
  /\ UNCHANGED <<phase, opens, dangling, backlog, connectionVars, poolVars>>

-----------------------------------------------------------------------------
(* Connections, on their loops.                                            *)

(* A loop runs its functors between polls, and none while it is in a       *)
(* handler or joins threads.                                               *)
Idle(l) == l = 0 => BaseLoopFree

Erase(c) ==
  TCPPtrMap_' = [id \in { i \in DOMAIN TCPPtrMap_ : TCPPtrMap_[i] # c } |-> TCPPtrMap_[id]]

(* removeConnectionInLoop, by a pointer to the server.                     *)
removeConnectionInLoop(c) ==
  IF phase = "gone" THEN dangling' = TRUE /\ UNCHANGED TCPPtrMap_
  ELSE Erase(c) /\ UNCHANGED dangling

RunFunctor(l) ==
  /\ Idle(l)
  /\ functors[l] # <<>>
  /\ functors' = [functors EXCEPT ![l] = Tail(@)]
  /\ LET op == Head(functors[l])[1]
         c == Head(functors[l])[2]
     IN  \/ /\ op = "establish"
            /\ onEstablished(c)
            /\ UNCHANGED <<TCPPtrMap_, dangling>>
         \/ /\ op = "remove"
            /\ removeConnectionInLoop(c)
            /\ UNCHANGED client
  /\ UNCHANGED <<phase, opens, acceptorVars, conectionID_, loopOf, poolVars>>

(* Mutant: only the base loop removes connections.                         *)
removeConnectionHere(c) ==
  IF phase = "gone"
  THEN dangling' = TRUE /\ UNCHANGED <<functors, TCPPtrMap_>>
  ELSE IF loopOf[c] = 0 THEN Erase(c) /\ UNCHANGED <<functors, dangling>>
  ELSE UNCHANGED <<functors, TCPPtrMap_, dangling>>

(* removeConnection: to the base loop, which loop_ of the server names.    *)
removeConnection(c) ==
  IF phase = "gone"
  THEN dangling' = TRUE /\ UNCHANGED <<functors, TCPPtrMap_>>
  ELSE IF loopOf[c] = 0 THEN Erase(c) /\ UNCHANGED <<functors, dangling>>
  ELSE /\ functors' = [functors EXCEPT ![0] = Append(@, <<"remove", c>>)]
       /\ UNCHANGED <<TCPPtrMap_, dangling>>

(* handleClose: the client closes, or the user in a handler or callback.   *)
(* The connection holds itself from then on, and its descriptor for ever.  *)
CloseConnection(c) ==
  /\ client[c] = "up"
  /\ Idle(loopOf[c]) \/ pc = "callback"
  /\ client' = [client EXCEPT ![c] = "down"]
  /\ removeConnection(c)
  /\ UNCHANGED <<phase, opens, acceptorVars, conectionID_, loopOf, poolVars>>

-----------------------------------------------------------------------------
(* The clients and the rest of the process.                                *)

Connect(c) ==
  /\ client[c] = "away"
  /\ phase \in {"listening", "joining"}
  /\ client' = [client EXCEPT ![c] = "waiting"]
  /\ backlog' = Append(backlog, c)
  /\ UNCHANGED <<phase, opens, dangling, pc, nullfd_, holder, conectionID_,
                 TCPPtrMap_, functors, loopOf, poolVars>>

OtherOpens ==
  /\ opens < MaxOpens /\ Free # {}
  /\ opens' = opens + 1
  /\ holder' = [holder EXCEPT ![LowestFree] = "other"]
  /\ UNCHANGED <<phase, dangling, pc, nullfd_, backlog, connectionVars, poolVars>>

OtherCloses ==
  /\ \E fd \in Fd : holder[fd] = "other" /\ Close(fd)
  /\ UNCHANGED <<phase, opens, dangling, pc, nullfd_, backlog, connectionVars, poolVars>>

-----------------------------------------------------------------------------

AcceptStep ==
  Accept \/ EndCallback \/ NobodyWaits \/ NoDescriptor \/ Release \/ Take \/ Drop \/ Reopen

ServerNext ==
  /\ ~dangling
  /\ \/ \E n \in 0 .. MaxThreads : SetThreads(n)
     \/ Start \/ Destroy \/ Destroyed
     \/ HandleRead \/ AcceptStep
     \/ \E l \in LoopId : RunFunctor(l)
     \/ \E c \in Client : CloseConnection(c) \/ Connect(c)
     \/ OtherOpens \/ OtherCloses

(* The loops run; the base loop polls as often as it runs its functors.    *)
(* The rest of the process closes what it has opened.                      *)
ServerFairness ==
  /\ WF_serverVars(~dangling /\ HandleRead)
  /\ WF_serverVars(~dangling /\ AcceptStep)
  /\ \A l \in LoopId : SF_serverVars(~dangling /\ RunFunctor(l))
  /\ WF_serverVars(~dangling /\ OtherCloses)
  /\ WF_serverVars(~dangling /\ Destroyed)

ServerSafety == ServerInit /\ [][ServerNext]_serverVars

ServerSpec == ServerSafety /\ ServerFairness

-----------------------------------------------------------------------------
(* Properties.                                                             *)

(* nullfd_, which the acceptor closes without asking, is a descriptor of   *)
(* its own or none, though other threads may take the number it has just   *)
(* closed; and the acceptor loses no descriptor that it has opened.        *)
SpareIsOwn ==
  \A fd \in Fd :
    /\ holder[fd] = "acceptor" => fd = nullfd_
    /\ fd = nullfd_ /\ pc \notin {"take", "reopen"} /\ phase # "gone"
       => holder[fd] = "acceptor"

(* TCPPtrMap_ holds a connection once from its acceptance until its        *)
(* removal, which comes from its own loop and by way of the base loop.     *)
MapTracksConnections ==
  phase # "gone" =>
    \A c \in Client :
      Cardinality({ id \in DOMAIN TCPPtrMap_ : TCPPtrMap_[id] = c }) =
        IF \/ client[c] \in {"connecting", "up"}
           \/ client[c] = "down" /\ <<"remove", c>> \in Range(functors[0])
        THEN 1 ELSE 0

(* A connection is established on the loop it was dealt to, and its loop's *)
(* functors are the only ones to touch it.                                 *)
OnItsLoop ==
  \A l \in LoopId : \A f \in Range(functors[l]) :
    /\ f[1] = "establish" => l = loopOf[f[2]] /\ client[f[2]] = "connecting"
    /\ f[1] = "remove" => l = 0 /\ client[f[2]] = "down"

(* Who connects is served or, when descriptors have run out, sent away by  *)
(* means of the spare one, rather than left waiting.                       *)
ClientIsServed ==
  \A c \in Client :
    client[c] = "waiting" ~> client[c] \in {"up", "down", "dropped"} \/ phase = "joining"

(* A closed connection leaves the map, unless descriptors have run out:    *)
(* handleRead then keeps the base loop busy.                               *)
ClosedIsRemoved ==
  \A c \in Client :
    client[c] = "down" /\ phase = "listening"
    ~> c \notin Range(TCPPtrMap_) \/ NoneLeft \/ phase = "joining"

(* Acceptor.h:20 says that nullfd_ is there for the case that descriptors  *)
(* run out.  handleRead's loop then ends only if accept finds one free.    *)
HandleReadReturns == pc = "accept" ~> pc = "idle"

(* A server can be destroyed.  Its destructor joins threads that only      *)
(* EventLoopThreadpool::stop would end, which nothing calls.               *)
DestroyReturns == phase = "joining" ~> phase = "gone"

(* Connections, which outlive their server, do not use it any more.        *)
NoDanglingServer == ~dangling

=============================================================================
