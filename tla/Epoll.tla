-------------------------------- MODULE Epoll --------------------------------
(***************************************************************************)
(* gmuduo::Epoll and gmuduo::Channel: how the channels of one EventLoop are *)
(* registered with the kernel, reported by epoll_wait and handled, while   *)
(* handlers and functors register, remove and destroy others.              *)
(*                                                                         *)
(* All of it runs in the loop's thread, as EventLoop::updateChannel and    *)
(* removeChannel assert.  What a handler does with its events is the       *)
(* subject of TimerQueue, TCPConnection and TCPServer.                     *)
(***************************************************************************)
EXTENDS Integers, FiniteSets, Sequences, SequencesExt, Functions

CONSTANTS
  Chan,               \* channels, each constructed once
  Fd,                 \* file descriptors
  Event,              \* the events a channel may ask for
  Unasked,            \* those reported whether asked for or not, as EPOLLHUP
  KInitSize,          \* size of activeEvents_
  DestroysInHandler   \* may a handler destroy another one's channel?

ASSUME EpollAssumption ==
  KInitSize \in Nat \ {0} /\ DestroysInHandler \in BOOLEAN /\ Fd # {}

kNotListening == -1
kListening == 1

VARIABLES
  life,               \* of each channel: "none", "live" or "dead"
  fdOf,               \* fd_
  events,             \* events_
  indx,               \* indx_
  channelMap_,        \* descriptors to channels
  capacity,           \* activeEvents_.capacity(); its size() stays KInitSize
  activeChannels_,
  at,                 \* which of activeChannels_ is being handled
  pc,                 \* in a "handler", or in "tasks" or outside loop()
  interest,           \* kernel: descriptors to what was registered for them
  ready,              \* kernel: the state of each descriptor
  readyList,          \* kernel: descriptors epoll_wait will look at, in turn
  refused             \* history: did epoll_ctl return an error?

channelVars == <<life, fdOf>>
ctlVars == <<events, indx, channelMap_, interest, readyList, refused>>
loopVars == <<pc, at, activeChannels_, capacity>>
epollVars == <<channelVars, ctlVars, loopVars, ready>>

Registered(fd) == fd \in DOMAIN interest
Live == { ch \in Chan : life[ch] = "live" }

TypeOK ==
  /\ life \in [Chan -> {"none", "live", "dead"}]
  /\ fdOf \in [Chan -> Fd]
  /\ events \in [Chan -> SUBSET Event]
  /\ indx \in [Chan -> {kNotListening, kListening}]
  /\ DOMAIN channelMap_ \subseteq Fd /\ Range(channelMap_) \subseteq Chan
  /\ capacity \in Nat \ {0}
  /\ activeChannels_ \in Seq(Chan) /\ at \in 0 .. Len(activeChannels_)
  /\ pc \in {"handler", "tasks"}
  /\ DOMAIN interest \subseteq Fd
  /\ Range(interest) \subseteq [chan : Chan, mask : SUBSET Event]
  /\ ready \in [Fd -> SUBSET (Event \cup Unasked)]
  /\ readyList \in Seq(Fd)
  /\ refused \in BOOLEAN

EmptyMap == [fd \in {} |-> {}]

Init ==
  /\ life = [ch \in Chan |-> "none"]
  /\ fdOf = [ch \in Chan |-> CHOOSE fd \in Fd : TRUE]
  /\ events = [ch \in Chan |-> {}]
  /\ indx = [ch \in Chan |-> kNotListening]
  /\ channelMap_ = EmptyMap
  /\ capacity = KInitSize
  /\ activeChannels_ = <<>>
  /\ at = 0
  /\ pc = "tasks"
  /\ interest = EmptyMap
  /\ ready = [fd \in Fd |-> {}]
  /\ readyList = <<>>
  /\ refused = FALSE

-----------------------------------------------------------------------------
(* The kernel.                                                             *)

With(f, fd, v) == [x \in DOMAIN f \cup {fd} |-> IF x = fd THEN v ELSE f[x]]
Without(f, fd) == [x \in DOMAIN f \ {fd} |-> f[x]]

Occurred(fd, mask) == ready[fd] \cap (mask \cup Unasked)

Listed(list, fd) == IF fd \in Range(list) THEN list ELSE Append(list, fd)
Unlisted(list, fd) ==
  IF fd \in Range(list) THEN RemoveAt(list, CHOOSE i \in DOMAIN list : list[i] = fd)
  ELSE list

EpollAdd(fd, reg) ==
  IF Registered(fd) THEN refused' = TRUE /\ UNCHANGED <<interest, readyList>>
  ELSE /\ interest' = With(interest, fd, reg)
       /\ readyList' = IF Occurred(fd, reg.mask) = {} THEN readyList ELSE Listed(readyList, fd)
       /\ UNCHANGED refused

EpollMod(fd, reg) ==
  IF ~Registered(fd) THEN refused' = TRUE /\ UNCHANGED <<interest, readyList>>
  ELSE /\ interest' = With(interest, fd, reg)
       /\ readyList' = IF Occurred(fd, reg.mask) = {} THEN readyList ELSE Listed(readyList, fd)
       /\ UNCHANGED refused

EpollDel(fd) ==
  IF ~Registered(fd) THEN refused' = TRUE /\ UNCHANGED <<interest, readyList>>
  ELSE /\ interest' = Without(interest, fd)
       /\ readyList' = Unlisted(readyList, fd)
       /\ UNCHANGED refused

(* Level-triggered: what is reported goes to the end of the list, what is  *)
(* not ready any more leaves it.                                           *)
Due(fd) == Registered(fd) /\ Occurred(fd, interest[fd].mask) # {}
DueAt == { i \in 1 .. Len(readyList) : Due(readyList[i]) }
NthDue(n) == CHOOSE i \in DueAt : Cardinality({ j \in DueAt : j <= i }) = n
AllDue == Cardinality(DueAt) < capacity
Reported ==
  [n \in 1 .. (IF AllDue THEN Cardinality(DueAt) ELSE capacity) |-> readyList[NthDue(n)]]
NotLookedAt ==
  IF AllDue THEN <<>> ELSE SubSeq(readyList, NthDue(capacity) + 1, Len(readyList))

(* Something happens to a descriptor in use, or is over.                   *)
Occurs(fd, e) ==
  /\ e \notin ready[fd]
  /\ ready' = [ready EXCEPT ![fd] = @ \cup {e}]
  /\ readyList' = IF Registered(fd) /\ e \in interest[fd].mask \cup Unasked
                  THEN Listed(readyList, fd) ELSE readyList

IsOver(fd, e) ==
  /\ e \in ready[fd]
  /\ ready' = [ready EXCEPT ![fd] = @ \ {e}]
  /\ UNCHANGED readyList

KernelChanges ==
  /\ \E ch \in Live, e \in Event \cup Unasked : Occurs(fdOf[ch], e) \/ IsOver(fdOf[ch], e)
  /\ UNCHANGED <<channelVars, loopVars, events, indx, channelMap_, interest, refused>>

-----------------------------------------------------------------------------
(* Epoll::updateChannel, once events_ has become evs.                      *)

(* Mutant: indx_ is not reset when the channel is taken out.               *)
updateChannelKeepsIndx(ch, evs) ==
  LET fd == fdOf[ch]
      reg == [chan |-> ch, mask |-> evs]
  IN /\ events' = [events EXCEPT ![ch] = evs]
     /\ \/ /\ indx[ch] = kNotListening
           /\ channelMap_' = IF fd \in DOMAIN channelMap_ THEN channelMap_
                             ELSE With(channelMap_, fd, ch)
           /\ IF evs = {} THEN UNCHANGED <<indx, interest, readyList, refused>>
              ELSE EpollAdd(fd, reg) /\ indx' = [indx EXCEPT ![ch] = kListening]
        \/ /\ indx[ch] = kListening
           /\ IF evs = {} THEN EpollDel(fd) ELSE EpollMod(fd, reg)
           /\ UNCHANGED <<indx, channelMap_>>

updateChannel(ch, evs) ==
  LET fd == fdOf[ch]
      reg == [chan |-> ch, mask |-> evs]
  IN /\ events' = [events EXCEPT ![ch] = evs]
     /\ \/ /\ indx[ch] = kNotListening
           /\ channelMap_' = IF fd \in DOMAIN channelMap_ THEN channelMap_
                             ELSE With(channelMap_, fd, ch)
           /\ IF evs = {} THEN UNCHANGED <<indx, interest, readyList, refused>>
              ELSE EpollAdd(fd, reg) /\ indx' = [indx EXCEPT ![ch] = kListening]
        \/ /\ indx[ch] = kListening
           /\ IF evs = {} THEN EpollDel(fd) /\ indx' = [indx EXCEPT ![ch] = kNotListening]
              ELSE EpollMod(fd, reg) /\ UNCHANGED indx
           /\ UNCHANGED channelMap_

(* removeChannel, alone or after disableAll, which it repeats.             *)
removeChannel(ch) ==
  /\ IF indx[ch] = kListening
     THEN /\ events' = [events EXCEPT ![ch] = {}]
          /\ indx' = [indx EXCEPT ![ch] = kNotListening]
          /\ EpollDel(fdOf[ch])
     ELSE UNCHANGED <<events, indx, interest, readyList, refused>>
  /\ channelMap_' = Without(channelMap_, fdOf[ch])

-----------------------------------------------------------------------------
(* What handlers, functors and users outside loop() do with channels.      *)

Handled == activeChannels_[at]

(* Channels are alike before they are constructed, and the kernel decides  *)
(* which free descriptor is used next.                                     *)
Construct ==
  /\ \E ch \in Chan : life[ch] = "none"
  /\ Fd \ { fdOf[c] : c \in Live } # {}
  /\ LET ch == CHOOSE c \in Chan : life[c] = "none"
         fd == CHOOSE f \in Fd : f \notin { fdOf[c] : c \in Live }
     IN  /\ fdOf' = [fdOf EXCEPT ![ch] = fd]
         /\ life' = [life EXCEPT ![ch] = "live"]
  /\ UNCHANGED <<ctlVars, loopVars, ready>>

(* enableRead and enableWrite; disableRead, disableWrite and disableAll.   *)
Enable(ch, e) ==
  /\ ch \in Live
  /\ updateChannel(ch, events[ch] \cup {e})
  /\ UNCHANGED <<channelVars, loopVars, ready>>

Disable(ch, es) ==
  /\ ch \in Live
  /\ updateChannel(ch, events[ch] \ es)
  /\ UNCHANGED <<channelVars, loopVars, ready>>

(* As TCPConnection::handleClose does; the channel and its descriptor      *)
(* stay, and handleWrite may still call disableWrite.                      *)
RemoveChannel(ch) ==
  /\ ch \in Live
  /\ removeChannel(ch)
  /\ UNCHANGED <<channelVars, loopVars, ready>>

(* As ~Acceptor does, whose socket is closed with it.                      *)
Destroy(ch) ==
  /\ ch \in Live
  /\ pc = "tasks" \/ (pc = "handler" /\ DestroysInHandler /\ Handled # ch)
  /\ removeChannel(ch)
  /\ life' = [life EXCEPT ![ch] = "dead"]
  /\ ready' = [ready EXCEPT ![fdOf[ch]] = {}]
  /\ UNCHANGED <<fdOf, loopVars>>

-----------------------------------------------------------------------------
(* EventLoop::loop with Epoll::poll.                                       *)

(* Mutant: the last event is left out.                                     *)
fillActiveChannelsShort(active, fds) ==
  active \o [i \in 1 .. Len(fds) - 1 |-> interest[fds[i]].chan]

fillActiveChannels(active, fds) ==
  active \o [i \in 1 .. Len(fds) |-> interest[fds[i]].chan]

(* Mutant: activeChannels_ is not cleared.                                 *)
IterateOn ==
  /\ pc = "tasks"
  /\ activeChannels_' = fillActiveChannels(activeChannels_, Reported)
  /\ readyList' = NotLookedAt \o Reported
  /\ capacity' = IF Len(Reported) = capacity THEN 2 * capacity ELSE capacity
  /\ IF activeChannels_' = <<>> THEN UNCHANGED pc /\ at' = 0
     ELSE pc' = "handler" /\ at' = 1
  /\ UNCHANGED <<channelVars, events, indx, channelMap_, interest, refused, ready>>

(* activeChannels_ is cleared and filled anew: epoll_wait reports as many  *)
(* events as activeEvents_ has capacity for, which is doubled if that many *)
(* were ready; or none, after a while.                                     *)
Iterate ==
  /\ pc = "tasks"
  /\ activeChannels_' = fillActiveChannels(<<>>, Reported)
  /\ readyList' = NotLookedAt \o Reported
  /\ capacity' = IF Len(Reported) = capacity THEN 2 * capacity ELSE capacity
  /\ IF activeChannels_' = <<>> THEN UNCHANGED pc /\ at' = 0
     ELSE pc' = "handler" /\ at' = 1
  /\ UNCHANGED <<channelVars, events, indx, channelMap_, interest, refused, ready>>

EndHandler ==
  /\ pc = "handler"
  /\ IF at < Len(activeChannels_) THEN at' = at + 1 /\ UNCHANGED pc
     ELSE pc' = "tasks" /\ UNCHANGED at
  /\ UNCHANGED <<channelVars, ctlVars, activeChannels_, capacity, ready>>

UserStep ==
  \/ Construct
  \/ \E ch \in Chan :
       \/ RemoveChannel(ch) \/ Destroy(ch)
       \/ \E e \in Event : Enable(ch, e) \/ Disable(ch, {e})
       \/ Disable(ch, Event)

LoopStep == Iterate \/ EndHandler

Next ==
  /\ ~refused                       \* LOG_ERROR ends the process
  /\ UserStep \/ LoopStep \/ KernelChanges

(* Handlers and functors return, and the loop goes on.                     *)
Spec == Init /\ [][Next]_epollVars /\ WF_epollVars(~refused /\ LoopStep)

-----------------------------------------------------------------------------
(* Properties.                                                             *)

(* The kernel has been told of every channel what indx_, events_ and       *)
(* channelMap_ say, and of no channel that is gone: epoll_ctl is never     *)
(* asked to add what is there or to change what is not, also when a        *)
(* descriptor is used again.                                               *)
RegistrationAgrees ==
  /\ ~refused
  /\ \A ch \in Chan :
       indx[ch] = kListening <=>
         /\ ch \in Live /\ Registered(fdOf[ch])
         /\ interest[fdOf[ch]] = [chan |-> ch, mask |-> events[ch]]
         /\ fdOf[ch] \in DOMAIN channelMap_ /\ channelMap_[fdOf[ch]] = ch
  /\ \A fd \in DOMAIN interest : interest[fd].mask # {} /\ interest[fd].chan \in Live
  /\ \A fd \in DOMAIN channelMap_ : channelMap_[fd] \in Live

(* Only channels that exist are handled, though the loop works on a        *)
(* snapshot that functors make stale.                                      *)
HandledIsAlive == pc = "handler" => life[Handled] = "live"

(* A channel whose events have occurred is handled, however many others    *)
(* are ready and however few fit into activeEvents_.                       *)
Handling(fd) == pc = "handler" /\ fdOf[Handled] = fd
EveryEventIsHandled == \A fd \in Fd : Due(fd) ~> Handling(fd) \/ ~Due(fd)

(* activeEvents_ is read within its size().                                *)
EventsInVector == Len(activeChannels_) <= KInitSize

=============================================================================
