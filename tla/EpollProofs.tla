----------------------------- MODULE EpollProofs -----------------------------
(***************************************************************************)
(* Proofs about Epoll for any channels, descriptors and events.            *)
(***************************************************************************)
EXTENDS Epoll, FiniteSetTheorems, SequenceTheorems, WellFoundedInduction, TLAPS

ChannelTypes ==
  /\ life \in [Chan -> {"none", "live", "dead"}]
  /\ fdOf \in [Chan -> Fd]
  /\ events \in [Chan -> SUBSET Event]
  /\ indx \in [Chan -> {kNotListening, kListening}]

(* A descriptor in use is not given out again.                             *)
OneChannelPerFd == \A c, d \in Live : fdOf[c] = fdOf[d] => c = d

(* The kernel's list and indx_ say the same; what is registered for a      *)
(* descriptor belongs to the channel that has it.                          *)
ListeningIsRegistered ==
  \A ch \in Chan : indx[ch] = kListening =>
    /\ ch \in Live /\ Registered(fdOf[ch])
    /\ interest[fdOf[ch]] = [chan |-> ch, mask |-> events[ch]]
    /\ fdOf[ch] \in DOMAIN channelMap_ /\ channelMap_[fdOf[ch]] = ch

RegisteredIsListening ==
  \A fd \in DOMAIN interest :
    /\ interest[fd].chan \in Live /\ fdOf[interest[fd].chan] = fd
    /\ indx[interest[fd].chan] = kListening
    /\ interest[fd].mask # {}

MappedIsLive ==
  \A fd \in DOMAIN channelMap_ : channelMap_[fd] \in Live /\ fdOf[channelMap_[fd]] = fd

RegistrationInv ==
  /\ ChannelTypes /\ OneChannelPerFd /\ ~refused
  /\ ListeningIsRegistered /\ RegisteredIsListening /\ MappedIsLive

LEMMA InitRegistration == Init => RegistrationInv
<1> SUFFICES ASSUME Init PROVE RegistrationInv
  OBVIOUS
<1>1. Live = {} /\ DOMAIN interest = {} /\ DOMAIN channelMap_ = {}
  BY DEF Init, Live, EmptyMap
<1>2. \A ch \in Chan : indx[ch] # kListening
  BY DEF Init, kListening, kNotListening
<1>3. ChannelTypes /\ ~refused
  BY EpollAssumption DEF Init, ChannelTypes
<1>4. QED
  BY <1>1, <1>2, <1>3 DEF RegistrationInv, OneChannelPerFd, ListeningIsRegistered,
     RegisteredIsListening, MappedIsLive

(* The state of the registration only.                                     *)
LEMMA OthersKeepRegistration ==
  ASSUME RegistrationInv,
         UNCHANGED <<channelVars, events, indx, channelMap_, interest, refused>>
  PROVE  RegistrationInv'
BY DEF RegistrationInv, ChannelTypes, OneChannelPerFd, ListeningIsRegistered,
       RegisteredIsListening, MappedIsLive, Registered, Live, channelVars

LEMMA ConstructKeeps == ASSUME RegistrationInv, Construct PROVE RegistrationInv'
<1> USE DEF RegistrationInv
<1>1. PICK ch \in Chan, fd \in Fd :
        /\ life[ch] = "none" /\ fd \notin { fdOf[c] : c \in Live }
        /\ fdOf' = [fdOf EXCEPT ![ch] = fd] /\ life' = [life EXCEPT ![ch] = "live"]
  BY DEF Construct
<1>2. UNCHANGED <<events, indx, channelMap_, interest, refused>>
  BY DEF Construct, ctlVars
<1>3. /\ ch \notin Live /\ Live' = Live \cup {ch} /\ Live \subseteq Chan
      /\ fdOf'[ch] = fd /\ \A c \in Chan : c # ch => fdOf'[c] = fdOf[c]
  BY <1>1 DEF Live, ChannelTypes
<1>4. ChannelTypes'
  BY <1>1, <1>2 DEF ChannelTypes
<1>5. OneChannelPerFd'
  BY <1>1, <1>3 DEF OneChannelPerFd
<1>6. ListeningIsRegistered'
  BY <1>2, <1>3 DEF ListeningIsRegistered, Registered
<1>7. RegisteredIsListening' /\ MappedIsLive'
  BY <1>2, <1>3 DEF RegisteredIsListening, MappedIsLive
<1>8. QED
  BY <1>2, <1>4, <1>5, <1>6, <1>7

LEMMA UpdateKeeps ==
  ASSUME RegistrationInv, NEW ch \in Live, NEW evs \in SUBSET Event,
         updateChannel(ch, evs), UNCHANGED channelVars
  PROVE  RegistrationInv'
<1> DEFINE fd == fdOf[ch]
           reg == [chan |-> ch, mask |-> evs]
<1> USE DEF RegistrationInv
<1>1. /\ ch \in Chan /\ Live' = Live /\ fdOf' = fdOf /\ Live \subseteq Chan
      /\ life' = life /\ fd \in Fd
  BY DEF Live, channelVars, ChannelTypes
<1>2. events' = [events EXCEPT ![ch] = evs]
  BY DEF updateChannel
<1>3. events'[ch] = evs /\ \A c \in Chan : c # ch => events'[c] = events[c]
  BY <1>1, <1>2 DEF ChannelTypes
<1>4. \A c \in Live : c # ch => fdOf[c] # fd
  BY DEF OneChannelPerFd
<1>5. kListening # kNotListening
  BY DEF kListening, kNotListening
<1>6. OneChannelPerFd'
  BY <1>1 DEF OneChannelPerFd
<1>7. CASE indx[ch] = kNotListening
  <2>1. ~ Registered(fd)
    <3>1. SUFFICES ASSUME fd \in DOMAIN interest PROVE FALSE
      BY DEF Registered
    <3>2. interest[fd].chan = ch
      BY <1>4, <3>1 DEF RegisteredIsListening
    <3>3. QED
      BY <1>5, <1>7, <3>1, <3>2 DEF RegisteredIsListening
  <2>2. /\ channelMap_' = IF fd \in DOMAIN channelMap_ THEN channelMap_
                          ELSE With(channelMap_, fd, ch)
        /\ IF evs = {} THEN UNCHANGED <<indx, interest, readyList, refused>>
           ELSE EpollAdd(fd, reg) /\ indx' = [indx EXCEPT ![ch] = kListening]
    BY <1>5, <1>7 DEF updateChannel
  <2>3. /\ DOMAIN channelMap_' = DOMAIN channelMap_ \cup {fd}
        /\ channelMap_'[fd] = ch
        /\ \A f \in DOMAIN channelMap_ : channelMap_'[f] = channelMap_[f]
    <3>1. fd \in DOMAIN channelMap_ => channelMap_[fd] = ch
      BY <1>4 DEF MappedIsLive
    <3>2. QED
      BY <2>2, <3>1 DEF With
  <2>4. MappedIsLive'
    BY <1>1, <2>3 DEF MappedIsLive
  <2>5. CASE evs = {}
    <3>1. UNCHANGED <<indx, interest, refused>>
      BY <2>2, <2>5
    <3>2. ChannelTypes'
      BY <1>1, <1>2, <3>1 DEF ChannelTypes
    <3>3. ListeningIsRegistered'
      BY <1>1, <1>3, <1>5, <1>7, <2>3, <3>1 DEF ListeningIsRegistered, Registered
    <3>4. RegisteredIsListening'
      BY <1>1, <3>1 DEF RegisteredIsListening
    <3>5. QED
      BY <1>6, <2>4, <3>1, <3>2, <3>3, <3>4
  <2>6. CASE evs # {}
    <3>1. /\ interest' = With(interest, fd, reg) /\ refused' = refused
          /\ indx' = [indx EXCEPT ![ch] = kListening]
      BY <2>1, <2>2, <2>6 DEF EpollAdd
    <3>2. indx'[ch] = kListening /\ \A c \in Chan : c # ch => indx'[c] = indx[c]
      BY <1>1, <3>1 DEF ChannelTypes
    <3>3. /\ DOMAIN interest' = DOMAIN interest \cup {fd} /\ interest'[fd] = reg
          /\ \A f \in DOMAIN interest : f # fd => interest'[f] = interest[f]
      BY <3>1 DEF With
    <3>4. ChannelTypes'
      BY <1>1, <1>2, <3>1 DEF ChannelTypes
    <3>5. ListeningIsRegistered'
      BY <1>1, <1>3, <1>4, <2>3, <3>2, <3>3 DEF ListeningIsRegistered, Registered
    <3>6. RegisteredIsListening'
      BY <1>1, <1>4, <2>6, <3>2, <3>3 DEF RegisteredIsListening
    <3>7. QED
      BY <1>6, <2>4, <3>1, <3>4, <3>5, <3>6
  <2>7. QED
    BY <2>5, <2>6
<1>8. CASE indx[ch] = kListening
  <2>1. Registered(fd)
    BY <1>1, <1>8 DEF ListeningIsRegistered
  <2>2. /\ UNCHANGED channelMap_
        /\ IF evs = {} THEN EpollDel(fd) /\ indx' = [indx EXCEPT ![ch] = kNotListening]
           ELSE EpollMod(fd, reg) /\ UNCHANGED indx
    BY <1>5, <1>8 DEF updateChannel
  <2>3. MappedIsLive'
    BY <1>1, <2>2 DEF MappedIsLive
  <2>4. CASE evs = {}
    <3>1. /\ interest' = Without(interest, fd) /\ refused' = refused
          /\ indx' = [indx EXCEPT ![ch] = kNotListening]
      BY <2>1, <2>2, <2>4 DEF EpollDel
    <3>2. indx'[ch] = kNotListening /\ \A c \in Chan : c # ch => indx'[c] = indx[c]
      BY <1>1, <3>1 DEF ChannelTypes
    <3>3. /\ DOMAIN interest' = DOMAIN interest \ {fd}
          /\ \A f \in DOMAIN interest : f # fd => interest'[f] = interest[f]
      BY <3>1 DEF Without
    <3>4. ChannelTypes'
      BY <1>1, <1>2, <3>1 DEF ChannelTypes
    <3>5. ListeningIsRegistered'
      BY <1>1, <1>3, <1>4, <1>5, <2>2, <3>2, <3>3 DEF ListeningIsRegistered, Registered
    <3>6. RegisteredIsListening'
      BY <1>1, <1>4, <3>2, <3>3 DEF RegisteredIsListening
    <3>7. QED
      BY <1>6, <2>3, <3>1, <3>4, <3>5, <3>6
  <2>5. CASE evs # {}
    <3>1. /\ interest' = With(interest, fd, reg) /\ refused' = refused /\ indx' = indx
      BY <2>1, <2>2, <2>5 DEF EpollMod
    <3>2. /\ DOMAIN interest' = DOMAIN interest \cup {fd} /\ interest'[fd] = reg
          /\ \A f \in DOMAIN interest : f # fd => interest'[f] = interest[f]
      BY <3>1 DEF With
    <3>3. ChannelTypes'
      BY <1>1, <1>2, <3>1 DEF ChannelTypes
    <3>4. ListeningIsRegistered'
      <4>1. SUFFICES ASSUME NEW c \in Chan, indx[c] = kListening
                     PROVE  /\ c \in Live /\ fdOf[c] \in DOMAIN interest'
                            /\ interest'[fdOf[c]] = [chan |-> c, mask |-> events'[c]]
                            /\ fdOf[c] \in DOMAIN channelMap_ /\ channelMap_[fdOf[c]] = c
        BY <1>1, <2>2, <3>1 DEF ListeningIsRegistered, Registered
      <4>2. CASE c = ch
        BY <1>3, <1>8, <3>2, <4>2 DEF ListeningIsRegistered
      <4>3. CASE c # ch
        BY <1>3, <1>4, <3>2, <4>1, <4>3 DEF ListeningIsRegistered, Registered
      <4>4. QED
        BY <4>2, <4>3
    <3>5. RegisteredIsListening'
      BY <1>1, <1>4, <1>8, <2>5, <3>1, <3>2 DEF RegisteredIsListening
    <3>6. QED
      BY <1>6, <2>3, <3>1, <3>3, <3>4, <3>5
  <2>6. QED
    BY <2>4, <2>5
<1>9. QED
  BY <1>1, <1>7, <1>8 DEF ChannelTypes

(* removeChannel leaves nothing of a channel, in the kernel or in the map. *)
LEMMA RemoveForgets ==
  ASSUME RegistrationInv, NEW ch \in Live, removeChannel(ch)
  PROVE  /\ indx' \in [Chan -> {kNotListening, kListening}]
         /\ events' \in [Chan -> SUBSET Event]
         /\ indx'[ch] = kNotListening
         /\ \A c \in Chan : c # ch => indx'[c] = indx[c] /\ events'[c] = events[c]
         /\ DOMAIN interest' = DOMAIN interest \ {fdOf[ch]}
         /\ DOMAIN channelMap_' = DOMAIN channelMap_ \ {fdOf[ch]}
         /\ \A f \in DOMAIN interest : f # fdOf[ch] => interest'[f] = interest[f]
         /\ \A f \in DOMAIN channelMap_ : f # fdOf[ch] => channelMap_'[f] = channelMap_[f]
         /\ ~refused'
<1> USE DEF RegistrationInv
<1>1. ch \in Chan /\ kListening # kNotListening
  BY DEF Live, kListening, kNotListening
<1>2. channelMap_' = Without(channelMap_, fdOf[ch])
  BY DEF removeChannel
<1>3. CASE indx[ch] = kListening
  <2>1. Registered(fdOf[ch])
    BY <1>1, <1>3 DEF ListeningIsRegistered
  <2>2. /\ events' = [events EXCEPT ![ch] = {}]
        /\ indx' = [indx EXCEPT ![ch] = kNotListening]
        /\ interest' = Without(interest, fdOf[ch]) /\ refused' = refused
    BY <1>3, <2>1 DEF removeChannel, EpollDel
  <2>3. QED
    BY <1>1, <1>2, <2>2 DEF ChannelTypes, Without
<1>4. CASE indx[ch] = kNotListening
  <2>1. UNCHANGED <<events, indx, interest, refused>>
    BY <1>1, <1>4 DEF removeChannel
  <2>2. fdOf[ch] \notin DOMAIN interest
    BY <1>1, <1>4 DEF RegisteredIsListening, OneChannelPerFd
  <2>3. QED
    BY <1>1, <1>2, <1>4, <2>1, <2>2 DEF ChannelTypes, Without
<1>5. QED
  BY <1>1, <1>3, <1>4 DEF ChannelTypes

(* So the channel may stay, or go and leave its descriptor to another.     *)
LEMMA RemoveKeeps ==
  ASSUME RegistrationInv, NEW ch \in Live, removeChannel(ch), UNCHANGED fdOf,
         UNCHANGED life \/ life' = [life EXCEPT ![ch] = "dead"]
  PROVE  RegistrationInv'
<1> USE DEF RegistrationInv
<1>1. /\ indx' \in [Chan -> {kNotListening, kListening}]
      /\ events' \in [Chan -> SUBSET Event]
      /\ indx'[ch] = kNotListening
      /\ \A c \in Chan : c # ch => indx'[c] = indx[c] /\ events'[c] = events[c]
      /\ DOMAIN interest' = DOMAIN interest \ {fdOf[ch]}
      /\ DOMAIN channelMap_' = DOMAIN channelMap_ \ {fdOf[ch]}
      /\ \A f \in DOMAIN interest : f # fdOf[ch] => interest'[f] = interest[f]
      /\ \A f \in DOMAIN channelMap_ : f # fdOf[ch] => channelMap_'[f] = channelMap_[f]
      /\ ~refused'
  BY RemoveForgets
<1>2. /\ Live \ {ch} \subseteq Live' /\ Live' \subseteq Live
      /\ Live \subseteq Chan /\ life' \in [Chan -> {"none", "live", "dead"}]
  BY DEF Live, ChannelTypes
<1>3. kListening # kNotListening
  BY DEF kListening, kNotListening
<1>4. \A c \in Live : c # ch => fdOf[c] # fdOf[ch]
  BY DEF OneChannelPerFd
<1>5. ChannelTypes' /\ OneChannelPerFd'
  BY <1>1, <1>2 DEF ChannelTypes, OneChannelPerFd
<1>6. ListeningIsRegistered'
  BY <1>1, <1>2, <1>3, <1>4 DEF ListeningIsRegistered, Registered
<1>7. RegisteredIsListening'
  BY <1>1, <1>2 DEF RegisteredIsListening
<1>8. MappedIsLive'
  BY <1>1, <1>2 DEF MappedIsLive
<1>9. QED
  BY <1>1, <1>5, <1>6, <1>7, <1>8

LEMMA RegistrationInvariance == Spec => []RegistrationInv
<1>1. RegistrationInv /\ [Next]_epollVars => RegistrationInv'
  <2> SUFFICES ASSUME RegistrationInv, [Next]_epollVars PROVE RegistrationInv'
    OBVIOUS
  <2>1. CASE Construct
    BY <2>1, ConstructKeeps
  <2>2. ASSUME NEW ch \in Chan, RemoveChannel(ch) \/ Destroy(ch) PROVE RegistrationInv'
    BY <2>2, RemoveKeeps DEF RemoveChannel, Destroy, channelVars
  <2>3. ASSUME NEW ch \in Chan, NEW e \in Event, Enable(ch, e) PROVE RegistrationInv'
    <3>1. ch \in Live /\ events[ch] \cup {e} \in SUBSET Event
      BY <2>3 DEF Enable, RegistrationInv, ChannelTypes
    <3>2. QED
      BY <2>3, <3>1, UpdateKeeps DEF Enable
  <2>4. ASSUME NEW ch \in Chan, NEW es, Disable(ch, es) PROVE RegistrationInv'
    <3>1. ch \in Live /\ events[ch] \ es \in SUBSET Event
      BY <2>4 DEF Disable, RegistrationInv, ChannelTypes
    <3>2. QED
      BY <2>4, <3>1, UpdateKeeps DEF Disable
  <2>5. CASE LoopStep
    BY <2>5, OthersKeepRegistration DEF LoopStep, Iterate, EndHandler, ctlVars
  <2>6. CASE KernelChanges
    BY <2>6, OthersKeepRegistration DEF KernelChanges
  <2>7. CASE UNCHANGED epollVars
    BY <2>7, OthersKeepRegistration DEF epollVars, ctlVars
  <2>8. QED
    BY <2>1, <2>2, <2>3, <2>4, <2>5, <2>6, <2>7 DEF Next, UserStep
<1>2. QED
  BY <1>1, InitRegistration, PTL DEF Spec

(* epoll_ctl is never refused, and indx_, channelMap_ and the kernel agree *)
(* on every channel, also when one takes over another's descriptor.        *)
THEOREM KernelAgrees == Spec => []RegistrationAgrees
<1>1. RegistrationInv => RegistrationAgrees
  <2> SUFFICES ASSUME RegistrationInv PROVE RegistrationAgrees
    OBVIOUS
  <2> USE DEF RegistrationInv
  <2>1. ASSUME NEW ch \in Chan, Registered(fdOf[ch]),
               interest[fdOf[ch]] = [chan |-> ch, mask |-> events[ch]]
        PROVE  indx[ch] = kListening
    BY <2>1 DEF RegisteredIsListening, Registered
  <2>2. QED
    BY <2>1 DEF RegistrationAgrees, ListeningIsRegistered, RegisteredIsListening,
       MappedIsLive
<1>2. QED
  BY <1>1, RegistrationInvariance, PTL

-----------------------------------------------------------------------------
(* What epoll_wait reports.                                                *)

(* In a finite set of positions there is an n-th one.                      *)
LEMMA RankIsTaken ==
  ASSUME NEW N \in Nat, NEW P \in SUBSET (1 .. N), NEW n \in 1 .. Cardinality(P)
  PROVE  \E i \in P : Cardinality({ j \in P : j <= i }) = n
<1> DEFINE UpTo(i) == { j \in P : j <= i }
           Enough == { i \in 0 .. N : Cardinality(UpTo(i)) >= n }
           R == OpToRel(<, Nat)
<1>0. \A j \in P : j \in Int /\ 1 <= j /\ j <= N
  OBVIOUS
<1>1. IsFiniteSet(P)
  <2>1. 1 \in Int /\ N \in Int
    OBVIOUS
  <2>2. IsFiniteSet(1 .. N)
    BY <2>1, FS_Interval
  <2>3. QED
    BY <2>2, FS_Subset
<1>2. \A i \in 0 .. N : IsFiniteSet(UpTo(i)) /\ Cardinality(UpTo(i)) \in Nat
  BY <1>1, FS_Subset, FS_CardinalityType
<1>3. Cardinality(P) \in Nat /\ n \in Nat /\ 1 <= n
  BY <1>1, FS_CardinalityType
<1>4. N \in Enough
  <2>1. UpTo(N) = P
    <3>1. \A j \in P : j <= N
      BY <1>0
    <3>2. QED
      BY <3>1
  <2>2. QED
    BY <1>3, <2>1
<1>5. PICK m \in Enough : \A y \in Enough : m <= y
  <2>1. IsWellFoundedOn(R, Nat)
    BY NatLessThanWellFounded
  <2>2. \A x, y \in Nat : x < y => <<x, y>> \in R
    BY DEF OpToRel
  <2>3. Enough \subseteq Nat
    OBVIOUS
  <2> HIDE DEF R, Enough
  <2>4. PICK x \in Enough : \A y \in Enough : ~ (<<y, x>> \in R)
    BY <1>4, <2>1, <2>3, WFMin
  <2>5. \A y \in Enough : x <= y
    <3> TAKE y \in Enough
    <3>1. x \in Nat /\ y \in Nat
      BY <2>3
    <3>2. ~ (y < x)
      BY <2>2, <2>4, <3>1
    <3>3. QED
      BY <3>1, <3>2
  <2>6. QED
    BY <2>5
<1>6. m \in 0 .. N /\ Cardinality(UpTo(m)) >= n
  OBVIOUS
<1>7. m # 0
  <2>1. UpTo(0) = {}
    <3>1. \A j \in P : ~ (j <= 0)
      BY <1>0
    <3>2. QED
      BY <3>1
  <2>2. Cardinality(UpTo(0)) = 0
    BY <2>1, FS_EmptySet
  <2>3. QED
    BY <1>3, <1>6, <2>2
<1>8. m - 1 \in 0 .. N /\ Cardinality(UpTo(m - 1)) < n
  <2>1. m - 1 \in 0 .. N /\ ~ (m <= m - 1)
    BY <1>6, <1>7
  <2>2. m - 1 \notin Enough
    BY <1>5, <2>1
  <2>3. ~ (Cardinality(UpTo(m - 1)) >= n) /\ Cardinality(UpTo(m - 1)) \in Nat
    BY <1>2, <2>1, <2>2
  <2>4. QED
    BY <1>3, <2>1, <2>3
<1>9. m \in P
  <2>1. SUFFICES ASSUME m \notin P PROVE FALSE
    OBVIOUS
  <2>2. UpTo(m) = UpTo(m - 1)
    <3>1. \A j \in P : j <= m <=> j <= m - 1
      BY <1>0, <1>6, <2>1
    <3>2. QED
      BY <3>1
  <2>3. QED
    BY <1>2, <1>3, <1>6, <1>8, <2>2
<1>10. Cardinality(UpTo(m)) = Cardinality(UpTo(m - 1)) + 1
  <2>1. UpTo(m) = UpTo(m - 1) \cup {m} /\ m \notin UpTo(m - 1)
    <3>1. \A j \in P : j <= m <=> j <= m - 1 \/ j = m
      BY <1>0, <1>6
    <3>2. ~ (m <= m - 1)
      BY <1>6
    <3>3. QED
      BY <1>9, <3>1, <3>2
  <2> DEFINE less == UpTo(m - 1)
  <2>2. IsFiniteSet(less)
    BY <1>2, <1>8
  <2> HIDE DEF less
  <2>3. m \notin less => Cardinality(less \cup {m}) = Cardinality(less) + 1
    BY <2>2, FS_AddElement
  <2>4. QED
    BY <2>1, <2>3 DEF less
<1>11. Cardinality(UpTo(m)) = n
  <2>1. Cardinality(UpTo(m - 1)) \in Nat
    BY <1>2, <1>8
  <2>2. Cardinality(UpTo(m)) >= n /\ Cardinality(UpTo(m - 1)) < n
    BY <1>6, <1>8
  <2> HIDE DEF UpTo
  <2>3. QED
    BY <1>3, <1>10, <2>1, <2>2
<1>12. QED
  BY <1>9, <1>11

(* A list of reported descriptors holds only registered ones.              *)
LEMMA ReportedIsDue ==
  ASSUME readyList \in Seq(Fd), capacity \in Nat \ {0}
  PROVE  /\ Len(Reported) \in Nat /\ DOMAIN Reported = 1 .. Len(Reported)
         /\ \A k \in 1 .. Len(Reported) : Due(Reported[k]) /\ Reported[k] \in Fd
         /\ AllDue \/ NthDue(capacity) \in 1 .. Len(readyList)
<1> DEFINE N == Len(readyList)
           c == Cardinality(DueAt)
           l == IF AllDue THEN c ELSE capacity
<1>1. N \in Nat /\ DueAt \in SUBSET (1 .. N)
  BY DEF DueAt
<1>2. c \in Nat
  <2>1. 1 \in Int /\ N \in Int
    BY <1>1
  <2>2. IsFiniteSet(1 .. N)
    BY <2>1, FS_Interval
  <2>3. IsFiniteSet(DueAt)
    BY <1>1, <2>2, FS_Subset
  <2>4. QED
    BY <2>3, FS_CardinalityType
<1>3. AllDue <=> c < capacity
  BY DEF AllDue
<1> HIDE DEF N, c, l
<1>4. l \in Nat /\ l <= c
  BY <1>2, <1>3 DEF l
<1>5. ASSUME NEW k \in 1 .. c PROVE NthDue(k) \in DueAt
  <2>1. \E i \in DueAt : Cardinality({ j \in DueAt : j <= i }) = k
    BY <1>1, <1>5, RankIsTaken DEF c
  <2>2. QED
    BY <2>1 DEF NthDue
<1>6. Reported = [k \in 1 .. l |-> readyList[NthDue(k)]]
  BY DEF Reported, l, c
<1>7. ASSUME NEW i \in DueAt PROVE Due(readyList[i]) /\ readyList[i] \in Fd
  <2>1. i \in 1 .. Len(readyList) /\ Due(readyList[i])
    BY DEF DueAt
  <2>2. QED
    BY <2>1, ElementOfSeq
<1>8. ASSUME NEW k \in 1 .. l PROVE Due(Reported[k]) /\ Reported[k] \in Fd
  <2>1. k \in 1 .. c
    BY <1>2, <1>4
  <2>2. Reported[k] = readyList[NthDue(k)]
    BY <1>6
  <2>3. QED
    BY <1>5, <1>7, <2>1, <2>2
<1>9. Len(Reported) = l /\ DOMAIN Reported = 1 .. l
  BY <1>4, <1>6
<1>10. AllDue \/ NthDue(capacity) \in 1 .. N
  <2>1. CASE ~AllDue
    <3>1. capacity \in 1 .. c
      BY <1>2, <1>3, <2>1
    <3>2. QED
      BY <1>1, <1>5, <3>1
  <2>2. QED
    BY <2>1
<1>11. QED
  BY <1>4, <1>8, <1>9, <1>10 DEF N

(* The kernel's list stays one of descriptors.                             *)
LEMMA ListOfDescriptors ==
  ASSUME NEW list \in Seq(Fd), NEW fd \in Fd
  PROVE  Listed(list, fd) \in Seq(Fd) /\ Unlisted(list, fd) \in Seq(Fd)
<1>1. Listed(list, fd) \in Seq(Fd)
  BY DEF Listed
<1>2. \A k \in 1 .. Len(list) : list[k] \in Fd
  BY ElementOfSeq
<1>3. Len(list) \in Int /\ DOMAIN list = 1 .. Len(list)
  OBVIOUS
<1>4. ASSUME NEW i \in 1 .. Len(list) PROVE RemoveAt(list, i) \in Seq(Fd)
  <2>1. /\ i - 1 \in Int /\ i + 1 \in Int /\ 1 \in Int
        /\ \A k \in 1 .. i - 1 : list[k] \in Fd
        /\ \A k \in i + 1 .. Len(list) : list[k] \in Fd
    BY <1>2, <1>3
  <2>2. SubSeq(list, 1, i - 1) \in Seq(Fd)
    BY <2>1, SubSeqProperties
  <2>3. SubSeq(list, i + 1, Len(list)) \in Seq(Fd)
    BY <1>3, <2>1, SubSeqProperties
  <2>4. QED
    BY <2>2, <2>3, ConcatProperties DEF RemoveAt
<1>5. CASE fd \in Range(list)
  <2> DEFINE i == CHOOSE k \in DOMAIN list : list[k] = fd
  <2>1. \E k \in DOMAIN list : list[k] = fd
    BY <1>5 DEF Range
  <2>2. i \in 1 .. Len(list)
    BY <1>3, <2>1
  <2> HIDE DEF i
  <2>3. RemoveAt(list, i) \in Seq(Fd)
    BY <1>4, <2>2
  <2>4. QED
    BY <1>1, <1>5, <2>3 DEF Unlisted, i
<1>6. CASE fd \notin Range(list)
  BY <1>1, <1>6 DEF Unlisted
<1>7. QED
  BY <1>5, <1>6

LEMMA KernelTypes ==
  ASSUME readyList \in Seq(Fd), refused \in BOOLEAN, NEW fd \in Fd, NEW reg,
         EpollAdd(fd, reg) \/ EpollMod(fd, reg) \/ EpollDel(fd)
  PROVE  readyList' \in Seq(Fd) /\ refused' \in BOOLEAN
<1>1. Listed(readyList, fd) \in Seq(Fd) /\ Unlisted(readyList, fd) \in Seq(Fd)
  BY ListOfDescriptors
<1>2. QED
  BY <1>1 DEF EpollAdd, EpollMod, EpollDel

-----------------------------------------------------------------------------
(* The rest of the state.                                                  *)

LoopTypes ==
  /\ capacity \in Nat \ {0}
  /\ activeChannels_ \in Seq(Chan) /\ at \in 0 .. Len(activeChannels_)
  /\ pc \in {"handler", "tasks"}
  /\ ready \in [Fd -> SUBSET (Event \cup Unasked)]
  /\ readyList \in Seq(Fd)
  /\ refused \in BOOLEAN

(* Whatever is still to be handled in this iteration exists.               *)
ActiveIsLive ==
  pc = "handler" =>
    /\ at \in 1 .. Len(activeChannels_)
    /\ \A k \in 1 .. Len(activeChannels_) : activeChannels_[k] \in Live

LEMMA TypesImplyTypeOK == ASSUME RegistrationInv, LoopTypes PROVE TypeOK
<1>1. Live \subseteq Chan
  BY DEF Live
<1>2. DOMAIN channelMap_ \subseteq Fd /\ Range(channelMap_) \subseteq Chan
  <2>1. \A fd \in DOMAIN channelMap_ : channelMap_[fd] \in Chan /\ fd \in Fd
    BY <1>1 DEF RegistrationInv, MappedIsLive, ChannelTypes
  <2>2. QED
    BY <2>1 DEF Range
<1>3. /\ DOMAIN interest \subseteq Fd
      /\ Range(interest) \subseteq [chan : Chan, mask : SUBSET Event]
  <2>1. ASSUME NEW fd \in DOMAIN interest
        PROVE  fd \in Fd /\ interest[fd] \in [chan : Chan, mask : SUBSET Event]
    <3> DEFINE c == interest[fd].chan
    <3>1. c \in Chan /\ fdOf[c] = fd /\ indx[c] = kListening
      BY <1>1 DEF RegistrationInv, RegisteredIsListening
    <3> HIDE DEF c
    <3>2. interest[fd] = [chan |-> c, mask |-> events[c]]
      BY <3>1 DEF RegistrationInv, ListeningIsRegistered
    <3>3. fd \in Fd /\ events[c] \in SUBSET Event
      BY <3>1 DEF RegistrationInv, ChannelTypes
    <3>4. QED
      BY <3>1, <3>2, <3>3
  <2>2. QED
    BY <2>1 DEF Range
<1>4. QED
  BY <1>2, <1>3 DEF TypeOK, LoopTypes, RegistrationInv, ChannelTypes

LEMMA LoopTypesKept ==
  ASSUME RegistrationInv, LoopTypes, [Next]_epollVars PROVE LoopTypes'
<1> USE DEF LoopTypes
<1>1. \A ch \in Live : ch \in Chan /\ fdOf[ch] \in Fd
  BY DEF RegistrationInv, ChannelTypes, Live
<1>2. ASSUME NEW ch \in Live, NEW evs, updateChannel(ch, evs)
      PROVE  readyList' \in Seq(Fd) /\ refused' \in BOOLEAN
  <2>1. \/ UNCHANGED <<readyList, refused>>
        \/ \E reg : EpollAdd(fdOf[ch], reg) \/ EpollMod(fdOf[ch], reg) \/ EpollDel(fdOf[ch])
    BY <1>2 DEF updateChannel
  <2>2. QED
    BY <1>1, <2>1, KernelTypes
<1>3. ASSUME NEW ch \in Live, removeChannel(ch)
      PROVE  readyList' \in Seq(Fd) /\ refused' \in BOOLEAN
  <2>1. UNCHANGED <<readyList, refused>> \/ EpollDel(fdOf[ch])
    BY <1>3 DEF removeChannel
  <2>2. QED
    BY <1>1, <2>1, KernelTypes
<1>4. CASE Construct
  BY <1>4 DEF Construct, ctlVars, loopVars
<1>5. ASSUME NEW ch \in Chan, NEW es, Disable(ch, es) PROVE LoopTypes'
  BY <1>2, <1>5 DEF Disable, loopVars
<1>6. ASSUME NEW ch \in Chan, NEW e \in Event, Enable(ch, e) PROVE LoopTypes'
  BY <1>2, <1>6 DEF Enable, loopVars
<1>7. ASSUME NEW ch \in Chan, RemoveChannel(ch) PROVE LoopTypes'
  BY <1>3, <1>7 DEF RemoveChannel, loopVars
<1>8. ASSUME NEW ch \in Chan, Destroy(ch) PROVE LoopTypes'
  BY <1>3, <1>8 DEF Destroy, loopVars
<1>9. CASE Iterate
  <2> DEFINE l == Len(Reported)
  <2>1. /\ l \in Nat /\ DOMAIN Reported = 1 .. l
        /\ \A k \in 1 .. l : Due(Reported[k]) /\ Reported[k] \in Fd
        /\ AllDue \/ NthDue(capacity) \in 1 .. Len(readyList)
    BY ReportedIsDue
  <2> HIDE DEF l
  <2>2. Reported \in Seq(Fd)
    <3>1. Reported = [k \in 1 .. l |-> Reported[k]]
      BY <2>1 DEF Reported
    <3>2. Reported \in [1 .. l -> Fd]
      BY <2>1, <3>1
    <3>3. QED
      BY <2>1, <3>2
  <2>3. NotLookedAt \in Seq(Fd)
    <3>1. CASE AllDue
      BY <3>1 DEF NotLookedAt
    <3>2. CASE ~AllDue
      <4> DEFINE m == NthDue(capacity)
      <4>1. m \in 1 .. Len(readyList)
        BY <2>1, <3>2
      <4> HIDE DEF m
      <4>2. \A k \in 1 .. Len(readyList) : readyList[k] \in Fd
        BY ElementOfSeq
      <4>3. /\ m + 1 \in Int /\ Len(readyList) \in Int
            /\ \A k \in m + 1 .. Len(readyList) : readyList[k] \in Fd
        BY <4>1, <4>2
      <4>4. SubSeq(readyList, m + 1, Len(readyList)) \in Seq(Fd)
        BY <4>3, SubSeqProperties
      <4>5. QED
        BY <3>2, <4>4 DEF NotLookedAt, m
    <3>3. QED
      BY <3>1, <3>2
  <2>4. readyList' \in Seq(Fd)
    BY <1>9, <2>2, <2>3, ConcatProperties DEF Iterate
  <2>5. capacity' \in Nat \ {0}
    BY <1>9 DEF Iterate
  <2>6. activeChannels_' \in Seq(Chan)
    <3> DEFINE active == [i \in 1 .. l |-> interest[Reported[i]].chan]
    <3>1. active \in [1 .. l -> Chan]
      BY <2>1 DEF Due, Registered, RegistrationInv, RegisteredIsListening, Live
    <3>2. active \in Seq(Chan)
      BY <2>1, <3>1
    <3>3. activeChannels_' = <<>> \o active
      BY <1>9 DEF Iterate, fillActiveChannels, l
    <3> HIDE DEF active
    <3>4. QED
      BY <3>2, <3>3, ConcatEmptySeq
  <2>7. at' \in 0 .. Len(activeChannels_') /\ pc' \in {"handler", "tasks"}
    BY <1>9, <2>6, EmptySeq DEF Iterate
  <2>8. QED
    BY <1>9, <2>4, <2>5, <2>6, <2>7 DEF Iterate
<1>10. CASE EndHandler
  BY <1>10 DEF EndHandler, ctlVars
<1>11. CASE KernelChanges
  <2>1. PICK ch \in Live, e \in Event \cup Unasked : Occurs(fdOf[ch], e) \/ IsOver(fdOf[ch], e)
    BY <1>11 DEF KernelChanges
  <2>2. fdOf[ch] \in Fd /\ Listed(readyList, fdOf[ch]) \in Seq(Fd)
    BY <1>1, ListOfDescriptors
  <2>3. readyList' \in Seq(Fd)
    BY <2>1, <2>2 DEF Occurs, IsOver
  <2>4. ready' \in [Fd -> SUBSET (Event \cup Unasked)]
    BY <2>1, <2>2 DEF Occurs, IsOver
  <2>5. QED
    BY <1>11, <2>3, <2>4 DEF KernelChanges, loopVars
<1>12. CASE UNCHANGED epollVars
  BY <1>12 DEF epollVars, ctlVars, loopVars
<1>13. QED
  BY <1>4, <1>5, <1>6, <1>7, <1>8, <1>9, <1>10, <1>11, <1>12 DEF Next, UserStep, LoopStep

LEMMA ActiveIsLiveKept ==
  ASSUME RegistrationInv, LoopTypes, ActiveIsLive, ~DestroysInHandler, [Next]_epollVars
  PROVE  ActiveIsLive'
<1> USE DEF ActiveIsLive
<1>1. CASE Construct
  <2>1. Live \subseteq Live'
    BY <1>1 DEF Construct, Live, RegistrationInv, ChannelTypes
  <2>2. UNCHANGED loopVars
    BY <1>1 DEF Construct
  <2>3. QED
    BY <2>1, <2>2 DEF loopVars
<1>2. ASSUME NEW ch \in Chan, NEW es, Disable(ch, es) PROVE ActiveIsLive'
  BY <1>2 DEF Disable, loopVars, channelVars, Live
<1>3. ASSUME NEW ch \in Chan, NEW e, Enable(ch, e) PROVE ActiveIsLive'
  BY <1>3 DEF Enable, loopVars, channelVars, Live
<1>4. ASSUME NEW ch \in Chan, RemoveChannel(ch) PROVE ActiveIsLive'
  BY <1>4 DEF RemoveChannel, loopVars, channelVars, Live
<1>5. ASSUME NEW ch \in Chan, Destroy(ch) PROVE ActiveIsLive'
  BY <1>5 DEF Destroy, loopVars
<1>6. CASE Iterate
  <2> DEFINE l == Len(Reported)
             active == [i \in 1 .. l |-> interest[Reported[i]].chan]
  <2>1. l \in Nat /\ \A k \in 1 .. l : Due(Reported[k])
    BY ReportedIsDue DEF LoopTypes
  <2> HIDE DEF l
  <2>2. \A k \in 1 .. l : active[k] \in Live
    BY <2>1 DEF Due, Registered, RegistrationInv, RegisteredIsListening
  <2>3. Len(active) = l /\ active \in Seq(Live)
    <3>1. active \in [1 .. l -> Live]
      BY <2>2
    <3>2. QED
      BY <2>1, <3>1
  <2>4. activeChannels_' = <<>> \o active
    BY <1>6 DEF Iterate, fillActiveChannels, l
  <2> HIDE DEF active
  <2>5. activeChannels_' = active
    BY <2>3, <2>4, ConcatEmptySeq
  <2>6. Live' = Live
    BY <1>6 DEF Iterate, channelVars, Live
  <2>7. pc' = "handler" => at' = 1 /\ activeChannels_' # <<>>
    BY <1>6 DEF Iterate
  <2>8. pc' = "handler" => l > 0
    BY <2>1, <2>3, <2>5, <2>7, EmptySeq
  <2>9. pc' = "handler" => at' \in 1 .. Len(activeChannels_')
    BY <2>1, <2>3, <2>5, <2>7, <2>8
  <2>10. QED
    BY <2>2, <2>3, <2>5, <2>6, <2>9
<1>7. CASE EndHandler
  <2>1. UNCHANGED activeChannels_ /\ Live' = Live
    BY <1>7 DEF EndHandler, channelVars, Live
  <2>2. pc' = "handler" => pc = "handler" /\ at < Len(activeChannels_) /\ at' = at + 1
    BY <1>7 DEF EndHandler
  <2>3. Len(activeChannels_) \in Nat
    BY DEF LoopTypes
  <2>4. pc' = "handler" => at' \in 1 .. Len(activeChannels_)
    BY <2>2, <2>3
  <2>5. QED
    BY <2>1, <2>2, <2>4
<1>8. CASE KernelChanges
  BY <1>8 DEF KernelChanges, loopVars, channelVars, Live
<1>9. CASE UNCHANGED epollVars
  BY <1>9 DEF epollVars, loopVars, channelVars, Live
<1>10. QED
  BY <1>1, <1>2, <1>3, <1>4, <1>5, <1>6, <1>7, <1>8, <1>9 DEF Next, UserStep, LoopStep

LEMMA LoopTypesInvariance == Spec => []LoopTypes
<1>1. Init => LoopTypes
  <2> SUFFICES ASSUME Init PROVE LoopTypes
    OBVIOUS
  <2>1. capacity \in Nat \ {0} /\ refused \in BOOLEAN /\ pc \in {"handler", "tasks"}
    BY EpollAssumption DEF Init
  <2>2. /\ activeChannels_ \in Seq(Chan) /\ at \in 0 .. Len(activeChannels_)
        /\ readyList \in Seq(Fd)
    BY EmptySeq DEF Init
  <2>3. ready \in [Fd -> SUBSET (Event \cup Unasked)]
    BY DEF Init
  <2>4. QED
    BY <2>1, <2>2, <2>3 DEF LoopTypes
<1>2. RegistrationInv /\ LoopTypes /\ [Next]_epollVars => LoopTypes'
  BY LoopTypesKept
<1>3. QED
  BY <1>1, <1>2, RegistrationInvariance, PTL DEF Spec

(* The members of Epoll and Channel, and the kernel's tables, keep their   *)
(* types.                                                                  *)
THEOREM TypeInvariant == Spec => []TypeOK
<1>1. RegistrationInv /\ LoopTypes => TypeOK
  BY TypesImplyTypeOK
<1>2. QED
  BY <1>1, RegistrationInvariance, LoopTypesInvariance, PTL

(* EventLoop::loop calls handleEvent on channels that exist only, however  *)
(* many are reported and whatever functors have removed or destroyed since *)
(* they were registered, if no handler destroys another one's channel.     *)
THEOREM OnlyLiveAreHandled ==
  ASSUME ~DestroysInHandler PROVE Spec => []HandledIsAlive
<1>1. Init => ActiveIsLive
  BY DEF Init, ActiveIsLive
<1>2. RegistrationInv /\ LoopTypes /\ ActiveIsLive /\ [Next]_epollVars => ActiveIsLive'
  BY ActiveIsLiveKept
<1>3. ActiveIsLive => HandledIsAlive
  BY DEF ActiveIsLive, HandledIsAlive, Handled, Live
<1>4. QED
  BY <1>1, <1>2, <1>3, RegistrationInvariance, LoopTypesInvariance, PTL DEF Spec

=============================================================================
