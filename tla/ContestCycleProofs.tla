------------------------- MODULE ContestCycleProofs -------------------------
(***************************************************************************)
(* What holds of ContestCycle for any number of provers, bids, submit_bid  *)
(* calls and contests and any channel capacity, whichever storage accesses *)
(* fail.                                                                   *)
(***************************************************************************)
EXTENDS ContestCycle, TLAPS

LEMMA EmptyQueue == ASSUME NEW S PROVE <<>> \in Seq(S)
  OBVIOUS

LEMMA HeadTailType ==
  ASSUME NEW S, NEW s \in Seq(S), s # <<>>
  PROVE  Head(s) \in S /\ Tail(s) \in Seq(S)
  OBVIOUS

LEMMA AppendType ==
  ASSUME NEW S, NEW s \in Seq(S), NEW e \in S
  PROVE  Append(s, e) \in Seq(S)
  OBVIOUS

(* Who waits on the mutex of the contest receiver is a handler that has    *)
(* sent its bid and has no reply, and waits once.                          *)
WaitersWait ==
  /\ \A i \in DOMAIN waiters : handler[waiters[i]].pc = "waiting"
  /\ \A i, j \in DOMAIN waiters : waiters[i] = waiters[j] => i = j

TypeInv == TypeOK /\ WaitersWait

LEMMA NewProfileType == \A p \in Provers : NewProfile(p) \in Profile
  BY EmptyQueue, ModulusAssumption DEF NewProfile, Profile, U64Values

LEMMA InitTypeInv == Init => TypeInv
  <1> SUFFICES ASSUME Init PROVE TypeInv
      OBVIOUS
  <1>1. contest \in Contest
    BY DEF Init, DefaultContest, Contest
  <1>2. profiles \in [Names -> Profile \cup {None}]
    <2>1. {NewProfile(p) : p \in Provers} \subseteq Profile
      BY NewProfileType
    <2>2. profiles \in [Names -> {NewProfile(p) : p \in Provers} \cup {None}]
      BY DEF Init, InitProfiles
    <2> QED BY <2>1, <2>2
  <1>3. handler \in [Handlers -> HandlerType]
    BY DEF Init, HandlerType
  <1>4. /\ scheduler \in SchedulerType /\ listener \in ListenerType
        /\ poller \in PollerType /\ completion \in CompletionType
    BY DEF Init, SchedulerType, ListenerType, PollerType, CompletionType
  <1>5. /\ bidQ \in Seq(Bid) /\ internalQ \in Seq(Contest) /\ contestQ \in Seq(Contest)
        /\ stored \in Seq(Contest) /\ waiters \in Seq(Handlers)
    BY EmptyQueue DEF Init
  <1>6. WaitersWait
    BY DEF Init, WaitersWait
  <1> QED BY <1>1, <1>2, <1>3, <1>4, <1>5, <1>6 DEF TypeInv, TypeOK

LEMMA SchedulerTypeInv ==
  ASSUME TypeInv, Scheduler
  PROVE  TypeInv'
  <1> USE DEF channels, storage, rpc, GetProfile, StoreProfile, StoreContest
  <1>0. /\ TypeOK /\ WaitersWait
        /\ contest \in Contest /\ stored \in Seq(Contest) /\ scheduler \in SchedulerType
    BY DEF TypeInv, TypeOK
  <1>1. CASE StartFirst
    <2>1. contest' \in Contest
      BY <1>1, EmptyQueue DEF StartFirst, StartContest, Contest
    <2> QED BY <1>0, <1>1, <2>1 DEF StartFirst, TypeInv, TypeOK, WaitersWait
  <1>2. CASE EndContest
    <2>1. contest' \in Contest
      BY <1>0, <1>2 DEF EndContest, Contest
    <2> QED BY <1>0, <1>2, <2>1 DEF EndContest, TypeInv, TypeOK, WaitersWait
  <1>3. CASE CopyEnded
    <2>1. scheduler' \in SchedulerType
      BY <1>0, <1>3 DEF CopyEnded, SchedulerType
    <2> QED BY <1>0, <1>3, <2>1 DEF CopyEnded, TypeInv, TypeOK, WaitersWait
  <1>4. CASE StoreEnded
    <2>1. scheduler.copy \in Contest /\ scheduler' \in SchedulerType
      BY <1>0, <1>4 DEF StoreEnded, SchedulerType
    <2>2. stored' \in Seq(Contest)
      BY <1>0, <1>4, <2>1 DEF StoreEnded
    <2> QED BY <1>0, <1>4, <2>1, <2>2 DEF StoreEnded, TypeInv, TypeOK, WaitersWait
  <1>5. CASE StoreEndedFails
    <2>1. scheduler.copy \in Contest /\ scheduler' \in SchedulerType
      BY <1>0, <1>5 DEF StoreEndedFails, SchedulerType
    <2>2. stored' \in Seq(Contest)
      BY <1>0, <1>5, <2>1, AppendType DEF StoreEndedFails
    <2> QED BY <1>0, <1>5, <2>1, <2>2 DEF StoreEndedFails, TypeInv, TypeOK, WaitersWait
  <1>6. CASE StartNext
    <2>1. contest' \in Contest
      BY <1>0, <1>6, EmptyQueue DEF StartNext, StartContest, Contest
    <2>2. scheduler' \in SchedulerType
      BY <1>0, <1>6 DEF StartNext, SchedulerType
    <2> QED BY <1>0, <1>6, <2>1, <2>2 DEF StartNext, TypeInv, TypeOK, WaitersWait
  <1> QED BY <1>1, <1>2, <1>3, <1>4, <1>5, <1>6 DEF Scheduler

LEMMA ListenerTypeInv ==
  ASSUME TypeInv, Listener
  PROVE  TypeInv'
  <1> USE DEF channels, storage, rpc, GetProfile, StoreProfile, StoreContest
  <1>0. /\ TypeOK /\ WaitersWait
        /\ contest \in Contest /\ bidQ \in Seq(Bid) /\ listener \in ListenerType
        /\ profiles \in [Names -> Profile \cup {None}]
    BY DEF TypeInv, TypeOK
  <1>1. ListenerDies => listener' \in ListenerType /\ bidQ' \in Seq(Bid)
    BY EmptyQueue DEF ListenerDies, ListenerType
  <1>2. CASE ReceiveBid
    <2>1. Head(bidQ) \in Bid /\ bidQ' \in Seq(Bid)
      BY <1>0, <1>2, HeadTailType DEF ReceiveBid
    <2>2. listener' \in ListenerType
      BY <1>2, <2>1 DEF ReceiveBid, ListenerType
    <2> QED BY <1>0, <1>2, <2>1, <2>2 DEF ReceiveBid, TypeInv, TypeOK, WaitersWait
  <1>3. CASE AddBid
    <2>1. listener.bid \in Bid /\ listener' \in ListenerType
      BY <1>0, <1>3 DEF AddBid, ListenerType
    <2>2. contest' \in Contest
      BY <1>0, <1>3, <2>1, AppendType DEF AddBid, Contest
    <2> QED BY <1>0, <1>3, <2>1, <2>2 DEF AddBid, TypeInv, TypeOK, WaitersWait
  <1>4. CASE ReadProfile
    <2>1. listener.bid \in Bid
      BY <1>0, <1>4 DEF ReadProfile, ListenerType
    <2>2. profiles[listener.bid.name] \in Profile \cup {None}
      BY <1>0, <2>1 DEF Bid
    <2>3. listener' \in ListenerType /\ bidQ' \in Seq(Bid)
      <3>1. CASE ListenerDies
        BY <3>1, <1>1
      <3>2. CASE ~ListenerDies
        <4> DEFINE p == profiles[listener.bid.name]
                   q == [p EXCEPT !.bids = Append(@, listener.bid)]
        <4>1. /\ p # None /\ bidQ' = bidQ
              /\ listener' = [listener EXCEPT !.pc = "update", !.bid = None, !.profile = q]
          BY <1>4, <3>2 DEF ReadProfile
        <4>2. q \in Profile
          BY <2>1, <2>2, <4>1, AppendType DEF Profile
        <4>3. listener' \in ListenerType
          <5> HIDE DEF q
          <5> QED BY <1>0, <4>1, <4>2 DEF ListenerType
        <4> QED BY <1>0, <4>1, <4>3
      <3> QED BY <3>1, <3>2
    <2> QED BY <1>0, <1>4, <2>3 DEF ReadProfile, TypeInv, TypeOK, WaitersWait
  <1>5. CASE WriteProfile
    <2>1. listener.profile \in Profile
      BY <1>0, <1>5 DEF WriteProfile, ListenerType
    <2>2. profiles' \in [Names -> Profile \cup {None}]
      BY <1>0, <1>5, <2>1 DEF WriteProfile
    <2>3. listener' \in ListenerType /\ bidQ' \in Seq(Bid)
      BY <1>0, <1>1, <1>5 DEF WriteProfile, ListenerType
    <2> QED BY <1>0, <1>5, <2>2, <2>3 DEF WriteProfile, TypeInv, TypeOK, WaitersWait
  <1> QED BY <1>2, <1>3, <1>4, <1>5 DEF Listener

LEMMA PollerTypeInv ==
  ASSUME TypeInv, Poller
  PROVE  TypeInv'
  <1> USE DEF channels, storage, rpc, GetProfile, StoreProfile, StoreContest
  <1>0. /\ TypeOK /\ WaitersWait
        /\ contest \in Contest /\ poller \in PollerType /\ internalQ \in Seq(Contest)
    BY DEF TypeInv, TypeOK
  <1>1. CASE PollEnded
    <2>1. poller' \in PollerType
      BY <1>0, <1>1 DEF PollEnded, PollerType
    <2> QED BY <1>0, <1>1, <2>1 DEF PollEnded, TypeInv, TypeOK, WaitersWait
  <1>2. CASE PollerSend
    <2>1. poller.copy \in Contest /\ poller' \in PollerType
      BY <1>0, <1>2 DEF PollerSend, PollerType
    <2>2. internalQ' \in Seq(Contest)
      BY <1>0, <1>2, <2>1, AppendType DEF PollerSend
    <2> QED BY <1>0, <1>2, <2>1, <2>2 DEF PollerSend, TypeInv, TypeOK, WaitersWait
  <1>3. CASE PollLive
    <2>1. poller' \in PollerType
      BY <1>0, <1>3 DEF PollLive, PollerType
    <2> QED BY <1>0, <1>3, <2>1 DEF PollLive, TypeInv, TypeOK, WaitersWait
  <1> QED BY <1>1, <1>2, <1>3 DEF Poller

(* get_winner returns a bid of the contest.                                *)
LEMMA WinnerIsABid ==
  ASSUME NEW bids, NEW b \in Winners(bids)
  PROVE  b \in Range(bids)
  BY DEF Winners

LEMMA CompletionTypeInv ==
  ASSUME TypeInv, Completion
  PROVE  TypeInv'
  <1> USE DEF channels, storage, rpc, GetProfile, StoreProfile, StoreContest
  <1>0. /\ TypeOK /\ WaitersWait
        /\ completion \in CompletionType
        /\ internalQ \in Seq(Contest) /\ contestQ \in Seq(Contest) /\ stored \in Seq(Contest)
    BY DEF TypeInv, TypeOK
  <1>1. CASE CompleteWithoutBids
    <2>1. internalQ' \in Seq(Contest)
      BY <1>0, <1>1, HeadTailType DEF CompleteWithoutBids
    <2> QED BY <1>0, <1>1, <2>1 DEF CompleteWithoutBids, TypeInv, TypeOK, WaitersWait
  <1>2. CASE SelectWinner
    <2>1. Head(internalQ) \in Contest /\ internalQ' \in Seq(Contest)
      BY <1>0, <1>2, HeadTailType DEF SelectWinner
    <2>2. PICK b \in Winners(Head(internalQ).bids) :
            completion' = [pc |-> "store", contest |-> [Head(internalQ) EXCEPT !.winner = b]]
      BY <1>2 DEF SelectWinner
    <2>3. b \in Bid
      BY <2>1, WinnerIsABid DEF Range, Contest
    <2>4. [Head(internalQ) EXCEPT !.winner = b] \in Contest
      BY <2>1, <2>3 DEF Contest
    <2>5. completion' \in CompletionType
      BY <2>2, <2>4 DEF CompletionType
    <2> QED BY <1>0, <1>2, <2>1, <2>5 DEF SelectWinner, TypeInv, TypeOK, WaitersWait
  <1>3. CASE SelectionPanics
    <2>1. completion' \in CompletionType /\ internalQ' \in Seq(Contest)
      BY <1>3, EmptyQueue DEF SelectionPanics, CompletionType
    <2> QED BY <1>0, <1>3, <2>1 DEF SelectionPanics, TypeInv, TypeOK, WaitersWait
  <1>4. CASE StoreWinner
    <2>1. completion.contest \in Contest /\ completion' \in CompletionType
      BY <1>0, <1>4 DEF StoreWinner, CompletionType
    <2>2. stored' \in Seq(Contest)
      BY <1>0, <1>4, <2>1, AppendType DEF StoreWinner
    <2> QED BY <1>0, <1>4, <2>1, <2>2 DEF StoreWinner, TypeInv, TypeOK, WaitersWait
  <1>5. CASE SendContest
    <2>1. completion.contest \in Contest /\ completion' \in CompletionType
      BY <1>0, <1>5 DEF SendContest, CompletionType
    <2>2. contestQ' \in Seq(Contest)
      BY <1>0, <1>5, <2>1, AppendType DEF SendContest
    <2> QED BY <1>0, <1>5, <2>1, <2>2 DEF SendContest, TypeInv, TypeOK, WaitersWait
  <1> QED BY <1>1, <1>2, <1>3, <1>4, <1>5 DEF Completion

LEMMA RpcTypeInv ==
  ASSUME TypeInv,
         (\E p \in Registrants : Register(p)) \/ (\E h \in Handlers : Rpc(h))
  PROVE  TypeInv'
  <1> USE DEF channels, storage, rpc, GetProfile, StoreProfile, StoreContest
  <1>0. /\ TypeOK /\ WaitersWait
        /\ profiles \in [Names -> Profile \cup {None}]
        /\ bidQ \in Seq(Bid) /\ contestQ \in Seq(Contest)
        /\ handler \in [Handlers -> HandlerType] /\ waiters \in Seq(Handlers)
    BY DEF TypeInv, TypeOK
  <1>1. ASSUME NEW p \in Registrants, Register(p) PROVE TypeInv'
    <2>1. NewProfile(p) \in Profile
      BY NewProfileType, ProfilesAssumption
    <2>2. profiles' \in [Names -> Profile \cup {None}]
      BY <1>0, <1>1, <2>1 DEF Register, Registration
    <2> QED BY <1>0, <1>1, <2>2 DEF Register, TypeInv, TypeOK, WaitersWait
  <1>2. ASSUME NEW h \in Handlers, SubmitBid(h) PROVE TypeInv'
    <2>1. PICK p \in Provers, a \in Amounts :
            LET b == [name |-> NameOf[p], addr |-> p, amount |-> a, by |-> h]
            IN  /\ bidQ' = Append(bidQ, b)
                /\ handler' = [handler EXCEPT ![h].pc = "sent", ![h].bid = b]
      BY <1>2 DEF SubmitBid
    <2> DEFINE b == [name |-> NameOf[p], addr |-> p, amount |-> a, by |-> h]
    <2>2. b \in Bid
      BY ProfilesAssumption DEF Bid
    <2>3. bidQ' \in Seq(Bid)
      BY <1>0, <2>1, <2>2, AppendType
    <2>4. handler' \in [Handlers -> HandlerType]
      <3>1. handler[h].pc = "idle" /\ handler[h] \in HandlerType
        BY <1>0, <1>2 DEF SubmitBid
      <3>2. [handler[h] EXCEPT !.pc = "sent", !.bid = b] \in HandlerType
        <4> HIDE DEF b
        <4> QED BY <2>2, <3>1 DEF HandlerType
      <3> QED BY <1>0, <2>1, <3>2
    <2>5. \A i \in DOMAIN waiters : waiters[i] # h
      BY <1>0, <1>2 DEF SubmitBid, WaitersWait
    <2>6. WaitersWait'
      BY <1>0, <1>2, <2>1, <2>5 DEF SubmitBid, WaitersWait
    <2> QED BY <1>0, <1>2, <2>3, <2>4, <2>6 DEF SubmitBid, TypeInv, TypeOK
  <1>3. ASSUME NEW h \in Handlers, SubmitBidFails(h) PROVE TypeInv'
    <2>1. handler' \in [Handlers -> HandlerType]
      BY <1>0, <1>3 DEF SubmitBidFails, HandlerType
    <2>2. WaitersWait'
      BY <1>0, <1>3 DEF SubmitBidFails, WaitersWait
    <2> QED BY <1>0, <1>3, <2>1, <2>2 DEF SubmitBidFails, TypeInv, TypeOK
  <1>4. ASSUME NEW h \in Handlers, AwaitContest(h) PROVE TypeInv'
    <2>1. handler' \in [Handlers -> HandlerType] /\ waiters' \in Seq(Handlers)
      BY <1>0, <1>4, AppendType DEF AwaitContest, HandlerType
    <2>2. WaitersWait'
      BY <1>0, <1>4 DEF AwaitContest, WaitersWait
    <2> QED BY <1>0, <1>4, <2>1, <2>2 DEF AwaitContest, TypeInv, TypeOK
  <1>5. ASSUME NEW h \in Handlers, waiters # <<>>, Head(waiters) = h,
               NEW r, handler' = [handler EXCEPT ![h] = r], waiters' = Tail(waiters)
        PROVE  WaitersWait' /\ waiters' \in Seq(Handlers) /\ handler[h].pc = "waiting"
    <2>1. handler[h].pc = "waiting"
      BY <1>0, <1>5 DEF WaitersWait
    <2>2. /\ \A i \in DOMAIN waiters' : /\ i + 1 \in DOMAIN waiters /\ i + 1 # 1
                                         /\ waiters'[i] = waiters[i + 1]
          /\ 1 \in DOMAIN waiters /\ waiters[1] = h
      BY <1>0, <1>5
    <2>3. \A i \in DOMAIN waiters' : waiters'[i] # h
      BY <1>0, <2>2 DEF WaitersWait
    <2>4. WaitersWait'
      BY <1>0, <1>5, <2>2, <2>3 DEF WaitersWait
    <2> QED BY <1>0, <1>5, <2>1, <2>4, HeadTailType
  <1>6. ASSUME NEW h \in Handlers, TakeContest(h) PROVE TypeInv'
    <2> DEFINE c   == Head(contestQ)
               won == c.winner # None /\ c.winner.addr = handler[h].bid.addr
               rep == [verdict |-> IF won THEN "won" ELSE "lost", contest |-> c.id]
               r   == [handler[h] EXCEPT !.pc = "replied", !.reply = rep]
    <2>1. /\ waiters # <<>> /\ Head(waiters) = h /\ waiters' = Tail(waiters)
          /\ contestQ # <<>> /\ contestQ' = Tail(contestQ)
          /\ handler' = [handler EXCEPT ![h] = r]
      BY <1>6 DEF TakeContest
    <2>2. c \in Contest /\ contestQ' \in Seq(Contest)
      BY <1>0, <2>1, HeadTailType
    <2>3. rep \in Reply
      BY <2>2 DEF Reply, Contest
    <2>4. WaitersWait' /\ waiters' \in Seq(Handlers) /\ handler[h].pc = "waiting"
      BY <1>5, <2>1
    <2>5. r \in HandlerType
      <3> HIDE DEF rep
      <3> QED BY <1>0, <2>3, <2>4 DEF HandlerType
    <2>6. handler' \in [Handlers -> HandlerType]
      BY <1>0, <2>1, <2>5
    <2> QED BY <1>0, <1>6, <2>2, <2>4, <2>6 DEF TakeContest, TypeInv, TypeOK
  <1>7. ASSUME NEW h \in Handlers, ContestsClosed(h) PROVE TypeInv'
    <2> DEFINE r == [handler[h] EXCEPT !.pc = "closed"]
    <2>1. /\ waiters # <<>> /\ Head(waiters) = h /\ waiters' = Tail(waiters)
          /\ handler' = [handler EXCEPT ![h] = r]
      BY <1>7 DEF ContestsClosed
    <2>2. WaitersWait' /\ waiters' \in Seq(Handlers) /\ handler[h].pc = "waiting"
      BY <1>5, <2>1
    <2>3. handler' \in [Handlers -> HandlerType]
      BY <1>0, <2>1, <2>2 DEF HandlerType
    <2> QED BY <1>0, <1>7, <2>2, <2>3 DEF ContestsClosed, TypeInv, TypeOK
  <1> QED BY <1>1, <1>2, <1>3, <1>4, <1>6, <1>7 DEF Rpc, Answer

LEMMA TypeInvStep == TypeInv /\ [Next]_vars => TypeInv'
  <1>1. CASE TypeInv /\ UNCHANGED vars
    BY <1>1 DEF vars, channels, storage, rpc, TypeInv, TypeOK, WaitersWait
  <1> QED
    BY <1>1, SchedulerTypeInv, ListenerTypeInv, PollerTypeInv, CompletionTypeInv,
       RpcTypeInv DEF Next

(* Every variable stays in its type and each task's copy is present exactly*)
(* while its pc needs it; no handler waits for two contests at once        *)
(* (networking.rs:161-172).                                                *)
THEOREM TypeCorrect == Spec => [](TypeOK /\ WaitersWait)
  BY InitTypeInv, TypeInvStep, PTL DEF Spec, TypeInv
-----------------------------------------------------------------------------
(* The completion pipeline.  Each step either leaves the stages alone,     *)
(* lets the contest the poller has just seen end enter, or moves the       *)
(* oldest contest of a stage to the next one.                              *)

LEMMA IdsAppend ==
  ASSUME NEW s \in Seq(Contest), NEW c \in Contest
  PROVE  /\ Ids(Append(s, c)) = Ids(s) \cup {c.id}
         /\ Increasing(s) /\ (\A k \in Ids(s) : k < c.id) => Increasing(Append(s, c))
  <1> DEFINE t == Append(s, c)
  <1>1. /\ DOMAIN t = DOMAIN s \cup {Len(s) + 1}
        /\ \A i \in DOMAIN s : t[i] = s[i] /\ i < Len(s) + 1
        /\ t[Len(s) + 1] = c
    OBVIOUS
  <1> HIDE DEF t
  <1>2. Ids(t) = Ids(s) \cup {c.id}
    BY <1>1 DEF Ids
  <1>3. ASSUME Increasing(s), \A k \in Ids(s) : k < c.id,
               NEW i \in DOMAIN t, NEW j \in DOMAIN t, i < j
        PROVE  t[i].id < t[j].id
    <2>1. i \in DOMAIN s
      BY <1>1, <1>3
    <2>2. t[i].id \in Ids(s)
      BY <1>1, <2>1 DEF Ids
    <2> QED BY <1>1, <1>3, <2>1, <2>2 DEF Increasing
  <1> QED BY <1>2, <1>3 DEF t, Increasing

LEMMA IdsTail ==
  ASSUME NEW s \in Seq(Contest), s # <<>>
  PROVE  /\ Ids(s) = {Head(s).id} \cup Ids(Tail(s))
         /\ Increasing(s) => /\ Increasing(Tail(s))
                             /\ \A k \in Ids(Tail(s)) : Head(s).id < k
  <1> DEFINE t == Tail(s)
  <1>1. /\ 1 \in DOMAIN s /\ s[1] = Head(s)
        /\ \A i \in DOMAIN t : i + 1 \in DOMAIN s /\ t[i] = s[i + 1] /\ 1 < i + 1
        /\ \A i \in DOMAIN s : i = 1 \/ i - 1 \in DOMAIN t
        /\ \A i \in DOMAIN s : i \in Int /\ i - 1 + 1 = i
        /\ \A i, j \in DOMAIN t : i < j => i + 1 < j + 1
    OBVIOUS
  <1> HIDE DEF t
  <1>2. Ids(s) = {Head(s).id} \cup Ids(t)
    <2>1. ASSUME NEW i \in DOMAIN s PROVE s[i].id \in {Head(s).id} \cup Ids(t)
      <3>1. CASE i = 1
        BY <1>1, <3>1
      <3>2. CASE i # 1
        <4>1. i - 1 \in DOMAIN t /\ t[i - 1] = s[i]
          BY <1>1, <3>2
        <4> QED BY <4>1 DEF Ids
      <3> QED BY <3>1, <3>2
    <2>2. ASSUME NEW i \in DOMAIN t PROVE t[i].id \in Ids(s)
      <3>1. i + 1 \in DOMAIN s /\ t[i].id = s[i + 1].id
        BY <1>1
      <3> QED BY <3>1 DEF Ids
    <2>3. Head(s).id \in Ids(s)
      BY <1>1 DEF Ids
    <2> QED BY <2>1, <2>2, <2>3 DEF Ids
  <1>3. ASSUME Increasing(s) PROVE Increasing(t) /\ \A k \in Ids(t) : Head(s).id < k
    <2>1. ASSUME NEW i \in DOMAIN t, NEW j \in DOMAIN t, i < j PROVE t[i].id < t[j].id
      BY <1>1, <1>3, <2>1 DEF Increasing
    <2>2. ASSUME NEW i \in DOMAIN t PROVE Head(s).id < t[i].id
      <3>1. s[1].id < s[i + 1].id
        BY <1>1, <1>3 DEF Increasing
      <3> QED BY <1>1, <3>1
    <2> QED BY <2>1, <2>2 DEF Increasing, Ids
  <1> USE DEF t
  <1> QED BY <1>2, <1>3

LEMMA StageIdsAreNat == TypeInv => InPipeline \subseteq Nat
  <1> SUFFICES ASSUME TypeInv PROVE InPipeline \subseteq Nat
      OBVIOUS
  <1>1. ASSUME NEW s \in Seq(Contest) PROVE Ids(s) \subseteq Nat
    <2>1. \A i \in DOMAIN s : s[i] \in Contest
      OBVIOUS
    <2>2. \A c \in Contest : c.id \in Nat
      BY DEF Contest
    <2> QED BY <2>1, <2>2 DEF Ids
  <1>2. Taken \subseteq Nat
    <2>1. handler \in [Handlers -> HandlerType]
      BY DEF TypeInv, TypeOK
    <2>2. ASSUME NEW h \in Replied PROVE handler[h].reply.contest \in Nat
      <3>1. handler[h] \in HandlerType /\ handler[h].pc = "replied"
        BY <2>1 DEF Replied
      <3>2. handler[h].reply \in Reply
        BY <3>1 DEF HandlerType
      <3> QED BY <3>2 DEF Reply
    <2> QED BY <2>2 DEF Taken
  <1>3. AtCompletion \subseteq Nat
    BY DEF TypeInv, TypeOK, CompletionType, Contest, AtCompletion
  <1>4. AtPoller \subseteq Nat
    BY DEF TypeInv, TypeOK, PollerType, Contest, AtPoller
  <1> QED BY <1>1, <1>2, <1>3, <1>4 DEF TypeInv, TypeOK, InPipeline, Announced

PipelineInv == PipelineOrdered /\ PipelineBehind

\* A step that leaves the pipeline and the shared contest alone.
LEMMA PipelineUnchanged ==
  ASSUME PipelineInv,
         UNCHANGED <<contest.id, contest.status, poller, completion, internalQ, contestQ, handler>>
  PROVE  PipelineInv' /\ Taken' = Taken
  BY DEF PipelineInv, PipelineOrdered, PipelineBehind, InPipeline, Announced, Before,
         Taken, Replied, AtCompletion, AtPoller, Ids, Increasing

LEMMA InitPipelineInv == Init => PipelineInv
  <1> SUFFICES ASSUME Init PROVE PipelineInv
      OBVIOUS
  <1>1. /\ Taken = {} /\ Ids(contestQ) = {} /\ AtCompletion = {}
        /\ Ids(internalQ) = {} /\ AtPoller = {}
    BY DEF Init, Taken, Replied, Ids, AtCompletion, AtPoller
  <1>2. Increasing(contestQ) /\ Increasing(internalQ)
    BY DEF Init, Increasing
  <1>3. contest.id = 0 /\ poller.pc = "watch"
    BY DEF Init, DefaultContest
  <1> QED BY <1>1, <1>2, <1>3
          DEF PipelineInv, PipelineOrdered, PipelineBehind, InPipeline, Announced, Before

LEMMA SchedulerPipelineInv ==
  ASSUME TypeInv, PipelineInv, Scheduler
  PROVE  PipelineInv' /\ Taken' = Taken
  <1> USE DEF channels, storage, rpc, GetProfile, StoreProfile, StoreContest
  <1>1. contest \in Contest /\ contest.id \in Nat
    BY DEF TypeInv, TypeOK, Contest
  <1>2. ASSUME UNCHANGED <<poller, completion, internalQ, contestQ, handler>>
        PROVE  /\ Taken' = Taken /\ InPipeline' = InPipeline
               /\ PipelineOrdered' /\ poller'.pc = poller.pc
    BY <1>2 DEF PipelineInv, PipelineOrdered, InPipeline, Announced, Before,
         Taken, Replied, AtCompletion, AtPoller, Ids, Increasing
  <1>3. CASE StartFirst
    <2>1. contest'.id = 0 /\ contest'.status = "Live" /\ contest.id = 0 /\ poller.pc = "watch"
      BY <1>3 DEF StartFirst, StartContest, PipelineInv, PipelineBehind
    <2> QED BY <1>2, <1>3, <2>1 DEF StartFirst, PipelineInv, PipelineBehind
  <1>4. CASE EndContest
    <2>1. contest'.id = contest.id /\ contest'.status = "Ended" /\ contest.status = "Live"
      BY <1>1, <1>4 DEF EndContest, Contest
    <2> QED BY <1>2, <1>4, <2>1 DEF EndContest, PipelineInv, PipelineBehind
  <1>5. CASE CopyEnded \/ StoreEnded \/ StoreEndedFails
    BY <1>5, PipelineUnchanged DEF CopyEnded, StoreEnded, StoreEndedFails
  <1>6. CASE StartNext
    <2>1. contest'.id = contest.id + 1 /\ contest'.status = "Live"
      BY <1>6 DEF StartNext, StartContest
    <2>2. \A k \in InPipeline : k <= contest.id
      BY DEF PipelineInv, PipelineBehind
    <2>3. \A k \in InPipeline : k <= contest.id + 1 /\ k < contest.id + 1
      BY <1>1, <2>2, StageIdsAreNat
    <2>4. PipelineBehind'
      BY <1>2, <1>6, <2>1, <2>3 DEF StartNext, PipelineBehind
    <2> QED BY <1>2, <1>6, <2>4 DEF StartNext, PipelineInv
  <1> QED BY <1>3, <1>4, <1>5, <1>6 DEF Scheduler

LEMMA PollerPipelineInv ==
  ASSUME TypeInv, PipelineInv, Poller
  PROVE  PipelineInv' /\ Taken' = Taken
  <1> USE DEF channels, storage, rpc, GetProfile, StoreProfile, StoreContest
  <1>0. /\ contest \in Contest /\ poller \in PollerType /\ internalQ \in Seq(Contest)
        /\ contest.id \in Nat
    BY DEF TypeInv, TypeOK, Contest
  <1>1. ASSUME UNCHANGED <<completion, contestQ, handler>>
        PROVE  Taken' = Taken /\ Ids(contestQ)' = Ids(contestQ) /\ AtCompletion' = AtCompletion
    BY <1>1 DEF Taken, Replied, Ids, AtCompletion
  <1>2. CASE PollEnded
    <2>1. /\ poller.pc = "watch" /\ poller'.pc = "send" /\ contest.status = "Ended"
          /\ AtPoller' = {contest.id} /\ AtPoller = {}
          /\ UNCHANGED <<contest, completion, internalQ, contestQ, handler>>
      BY <1>2 DEF PollEnded, AtPoller
    <2>2. Ids(internalQ)' = Ids(internalQ) /\ Increasing(internalQ)' /\ Increasing(contestQ)'
      BY <2>1 DEF Ids, Increasing, PipelineInv, PipelineOrdered
    <2>3. \A k \in InPipeline : k < contest.id /\ k <= contest.id
      BY <1>0, <2>1 DEF PipelineInv, PipelineBehind
    <2>4. PipelineOrdered'
      BY <1>1, <2>1, <2>2, <2>3
         DEF PipelineInv, PipelineOrdered, InPipeline, Announced, Before
    <2>5. InPipeline' = InPipeline \cup {contest.id}
      BY <1>1, <2>1, <2>2 DEF InPipeline, Announced
    <2>6. PipelineBehind'
      BY <1>0, <2>1, <2>3, <2>5 DEF PipelineBehind
    <2> QED BY <1>1, <2>1, <2>4, <2>6 DEF PipelineInv
  <1>3. CASE PollerSend
    <2>1. UNCHANGED <<contest, completion, contestQ, handler>>
      BY <1>3 DEF PollerSend
    <2>2. /\ poller.pc = "send" /\ poller.copy \in Contest
          /\ AtPoller = {poller.copy.id} /\ AtPoller' = {}
          /\ poller'.pc \in {"dead", "waitLive"}
      BY <1>0, <1>3 DEF PollerSend, AtPoller, PollerType
    <2>3. Ids(internalQ)' \subseteq Ids(internalQ) \cup AtPoller /\ Increasing(internalQ)'
      <3>1. CASE internalQ' = internalQ
        BY <3>1 DEF Ids, Increasing, PipelineInv, PipelineOrdered
      <3>2. CASE internalQ' = Append(internalQ, poller.copy)
        BY <1>0, <2>2, <3>2, IdsAppend
           DEF PipelineInv, PipelineOrdered, Before
      <3> QED BY <1>3, <3>1, <3>2 DEF PollerSend
    <2>4. Increasing(contestQ)'
      BY <2>1 DEF Increasing, PipelineInv, PipelineOrdered
    <2>5. PipelineOrdered'
      BY <1>1, <2>1, <2>2, <2>3, <2>4 DEF PipelineInv, PipelineOrdered, Before
    <2>6. InPipeline' \subseteq InPipeline
      BY <1>1, <2>1, <2>2, <2>3 DEF InPipeline, Announced
    <2>7. PipelineBehind'
      BY <2>1, <2>2, <2>6 DEF PipelineInv, PipelineBehind
    <2> QED BY <1>1, <2>1, <2>5, <2>7 DEF PipelineInv
  <1>4. CASE PollLive
    <2>1. /\ UNCHANGED <<contest, completion, internalQ, contestQ, handler>>
          /\ contest.status = "Live" /\ poller'.pc = "watch" 
          /\ AtPoller' = AtPoller
      BY <1>0, <1>4 DEF PollLive, AtPoller, PollerType
    <2>2. Ids(internalQ)' = Ids(internalQ) /\ Increasing(internalQ)' /\ Increasing(contestQ)'
      BY <2>1 DEF Ids, Increasing, PipelineInv, PipelineOrdered
    <2>3. PipelineOrdered' /\ InPipeline' = InPipeline
      BY <1>1, <2>1, <2>2 DEF PipelineInv, PipelineOrdered, Before, InPipeline, Announced
    <2>4. PipelineBehind'
      BY <2>1, <2>3 DEF PipelineInv, PipelineBehind
    <2> QED BY <1>1, <2>1, <2>3, <2>4 DEF PipelineInv
  <1> QED BY <1>2, <1>3, <1>4 DEF Poller

LEMMA CompletionPipelineInv ==
  ASSUME TypeInv, PipelineInv, Completion
  PROVE  PipelineInv' /\ Taken' = Taken
  <1> USE DEF channels, storage, rpc, GetProfile, StoreProfile, StoreContest
  <1>0. /\ completion \in CompletionType
        /\ internalQ \in Seq(Contest) /\ contestQ \in Seq(Contest)
    BY DEF TypeInv, TypeOK
  <1>1. /\ UNCHANGED <<contest, poller, handler>>
        /\ Taken' = Taken /\ AtPoller' = AtPoller
    BY DEF Completion, CompleteWithoutBids, SelectWinner, SelectionPanics, StoreWinner,
           SendContest, Taken, Replied, AtPoller
  \* It is enough that the contests in the three stages only move on.
  <1>2. ASSUME InPipeline' \subseteq InPipeline PROVE PipelineBehind'
    BY <1>1, <1>2 DEF PipelineInv, PipelineBehind
  <1>3. ASSUME internalQ # <<>>, internalQ' = Tail(internalQ), UNCHANGED contestQ,
               completion.pc = "recv", AtCompletion' \subseteq {Head(internalQ).id}
        PROVE  PipelineInv'
    <2>1. /\ Ids(internalQ) = {Head(internalQ).id} \cup Ids(internalQ)'
          /\ Increasing(internalQ)' /\ \A k \in Ids(internalQ)' : Head(internalQ).id < k
      BY <1>0, <1>3, IdsTail DEF PipelineInv, PipelineOrdered
    <2>2. Ids(contestQ)' = Ids(contestQ) /\ Increasing(contestQ)'
      BY <1>3 DEF Ids, Increasing, PipelineInv, PipelineOrdered
    <2>3. PipelineOrdered'
      BY <1>1, <1>3, <2>1, <2>2 DEF PipelineInv, PipelineOrdered, Before
    <2>4. InPipeline' \subseteq InPipeline
      BY <1>1, <1>3, <2>1, <2>2 DEF InPipeline, Announced
    <2> QED BY <1>2, <2>3, <2>4 DEF PipelineInv
  <1>4. CASE CompleteWithoutBids
    <2>1. AtCompletion' = {}
      BY <1>4 DEF CompleteWithoutBids, AtCompletion
    <2> QED BY <1>1, <1>3, <1>4, <2>1 DEF CompleteWithoutBids
  <1>5. CASE SelectWinner
    <2>1. PICK b : completion' = [pc |-> "store", contest |-> [Head(internalQ) EXCEPT !.winner = b]]
      BY <1>5 DEF SelectWinner
    <2>2. /\ internalQ # <<>> /\ internalQ' = Tail(internalQ) /\ contestQ' = contestQ
          /\ completion.pc = "recv"
      BY <1>5 DEF SelectWinner
    <2>3. Head(internalQ) \in Contest
      BY <1>0, <2>2, HeadTailType
    <2>4. AtCompletion' = {Head(internalQ).id}
      BY <2>1, <2>3 DEF AtCompletion, Contest
    <2> QED BY <1>1, <1>3, <2>2, <2>4
  <1>6. CASE SelectionPanics
    <2>1. /\ Ids(internalQ)' = {} /\ AtCompletion' = {} /\ Increasing(internalQ)'
          /\ Ids(contestQ)' = Ids(contestQ) /\ Increasing(contestQ)'
      BY <1>6 DEF SelectionPanics, Ids, AtCompletion, Increasing, PipelineInv, PipelineOrdered
    <2>2. PipelineOrdered' /\ InPipeline' \subseteq InPipeline
      BY <1>1, <2>1 DEF PipelineInv, PipelineOrdered, Before, InPipeline, Announced
    <2> QED BY <1>1, <1>2, <2>2 DEF PipelineInv
  <1>7. CASE StoreWinner
    <2>1. AtCompletion' = AtCompletion /\ UNCHANGED <<internalQ, contestQ>>
      BY <1>0, <1>7 DEF StoreWinner, AtCompletion, CompletionType
    <2>2. /\ Ids(internalQ)' = Ids(internalQ) /\ Increasing(internalQ)'
          /\ Ids(contestQ)' = Ids(contestQ) /\ Increasing(contestQ)'
      BY <2>1 DEF Ids, Increasing, PipelineInv, PipelineOrdered
    <2>3. PipelineOrdered' /\ InPipeline' \subseteq InPipeline
      BY <1>1, <2>1, <2>2 DEF PipelineInv, PipelineOrdered, Before, InPipeline, Announced
    <2> QED BY <1>1, <1>2, <2>3 DEF PipelineInv
  <1>8. CASE SendContest
    <2>1. /\ completion.contest \in Contest /\ contestQ' = Append(contestQ, completion.contest)
          /\ AtCompletion = {completion.contest.id} /\ AtCompletion' = {}
          /\ internalQ' = internalQ
      BY <1>0, <1>8 DEF SendContest, AtCompletion, CompletionType
    <2>2. /\ Ids(contestQ)' = Ids(contestQ) \cup AtCompletion /\ Increasing(contestQ)'
          /\ Ids(internalQ)' = Ids(internalQ) /\ Increasing(internalQ)'
      <3>1. /\ Ids(internalQ)' = Ids(internalQ) /\ Increasing(internalQ)'
        BY <2>1 DEF Ids, Increasing, PipelineInv, PipelineOrdered
      <3>2. Increasing(contestQ) /\ \A k \in Ids(contestQ) : k < completion.contest.id
        BY <2>1 DEF PipelineInv, PipelineOrdered, Before
      <3> QED BY <1>0, <2>1, <3>1, <3>2, IdsAppend
    <2>3. PipelineOrdered' /\ InPipeline' \subseteq InPipeline
      BY <1>1, <2>1, <2>2 DEF PipelineInv, PipelineOrdered, Before, InPipeline, Announced
    <2> QED BY <1>1, <1>2, <2>3 DEF PipelineInv
  <1> QED BY <1>1, <1>4, <1>5, <1>6, <1>7, <1>8 DEF Completion

(* Two replies are never about the same contest: what a handler takes is   *)
(* younger than everything taken before.                                   *)
LEMMA TakeContestInv ==
  ASSUME TypeInv, PipelineInv, OneTakerPerContest, NEW h \in Handlers, TakeContest(h)
  PROVE  PipelineInv' /\ OneTakerPerContest'
  <1> DEFINE k == Head(contestQ).id
  <1>0. contestQ \in Seq(Contest) /\ handler \in [Handlers -> HandlerType]
    BY DEF TypeInv, TypeOK
  <1>1. /\ contestQ # <<>> /\ contestQ' = Tail(contestQ)
        /\ UNCHANGED <<contest, poller, completion, internalQ>>
    BY DEF TakeContest
  <1>2. /\ handler'[h].pc = "replied" /\ handler'[h].reply.contest = k
        /\ \A g \in Handlers : g # h => handler'[g] = handler[g]
        /\ h \notin Replied
    <2>1. handler[h].pc = "waiting"
      BY DEF TakeContest, TypeInv, TypeOK, WaitersWait
    <2>2. handler[h] \in HandlerType /\ {"pc", "reply"} \subseteq DOMAIN handler[h]
      BY <1>0 DEF HandlerType
    <2> QED BY <1>0, <2>1, <2>2 DEF TakeContest, Replied
  <1>3. Replied' = Replied \cup {h}
    BY <1>2 DEF Replied
  <1>4. Taken' = Taken \cup {k}
    BY <1>2, <1>3 DEF Taken, Replied
  <1>5. /\ Ids(contestQ) = {k} \cup Ids(contestQ)' /\ Increasing(contestQ)'
        /\ \A m \in Ids(contestQ)' : k < m
    BY <1>0, <1>1, IdsTail DEF PipelineInv, PipelineOrdered
  <1>6. /\ AtCompletion' = AtCompletion /\ AtPoller' = AtPoller
        /\ Ids(internalQ)' = Ids(internalQ) /\ Increasing(internalQ)'
    BY <1>1 DEF AtCompletion, AtPoller, Ids, Increasing, PipelineInv, PipelineOrdered
  <1>7. PipelineOrdered'
    BY <1>4, <1>5, <1>6 DEF PipelineInv, PipelineOrdered, Before
  <1>8. InPipeline' = InPipeline
    BY <1>4, <1>5, <1>6 DEF InPipeline, Announced
  <1>9. PipelineBehind'
    BY <1>1, <1>8 DEF PipelineInv, PipelineBehind
  <1>10. \A g \in Replied : handler[g].reply.contest # k
    <2>1. \A m \in Taken : m < k
      BY <1>5 DEF PipelineInv, PipelineOrdered, Before
    <2>2. Taken \subseteq Nat
      BY StageIdsAreNat DEF InPipeline, Announced
    <2> QED BY <2>1, <2>2 DEF Taken
  <1>11. OneTakerPerContest'
    BY <1>2, <1>3, <1>10 DEF OneTakerPerContest, Replied
  <1> QED BY <1>7, <1>9, <1>11 DEF PipelineInv

LEMMA RpcPipelineInv ==
  ASSUME TypeInv, PipelineInv, OneTakerPerContest, NEW h \in Handlers, Rpc(h)
  PROVE  PipelineInv' /\ OneTakerPerContest'
  <1> USE DEF channels, storage, rpc, GetProfile, StoreProfile, StoreContest
  <1>1. CASE TakeContest(h)
    BY <1>1, TakeContestInv
  <1>2. CASE ~TakeContest(h)
    <2>1. /\ UNCHANGED <<contest, poller, completion, internalQ, contestQ>>
          /\ handler[h].pc \in {"idle", "sent", "waiting"}
          /\ handler'[h].pc \in {"sent", "failed", "waiting", "closed"}
          /\ \A g \in Handlers : g # h => handler'[g] = handler[g]
      <3>1. handler[h] \in HandlerType /\ "pc" \in DOMAIN handler[h] /\ handler \in [Handlers -> HandlerType]
        BY DEF TypeInv, TypeOK, HandlerType
      <3>2. waiters # <<>> /\ Head(waiters) = h => handler[h].pc = "waiting"
        BY DEF TypeInv, TypeOK, WaitersWait
      <3> QED BY <1>2, <3>1, <3>2
              DEF Rpc, Answer, SubmitBid, SubmitBidFails, AwaitContest, ContestsClosed
    <2>2. Replied' = Replied
      BY <2>1 DEF Replied
    <2>3. \A g \in Replied : handler'[g] = handler[g]
      BY <2>1 DEF Replied
    <2>4. Taken' = Taken /\ OneTakerPerContest'
      BY <2>2, <2>3 DEF Taken, OneTakerPerContest
    <2>5. /\ AtCompletion' = AtCompletion /\ AtPoller' = AtPoller
          /\ Ids(internalQ)' = Ids(internalQ) /\ Increasing(internalQ)'
          /\ Ids(contestQ)' = Ids(contestQ) /\ Increasing(contestQ)'
      BY <2>1 DEF AtCompletion, AtPoller, Ids, Increasing, PipelineInv, PipelineOrdered
    <2>6. PipelineInv'
      BY <2>1, <2>4, <2>5
         DEF PipelineInv, PipelineOrdered, PipelineBehind, Before, InPipeline, Announced
    <2> QED BY <2>4, <2>6
  <1> QED BY <1>1, <1>2

\* The listener touches nothing of the contest but its bids.
LEMMA ListenerPipelineInv ==
  ASSUME TypeInv, PipelineInv, Listener
  PROVE  PipelineInv' /\ handler' = handler
  <1> USE DEF channels, storage, rpc, GetProfile, StoreProfile, StoreContest
  <1>1. UNCHANGED <<contest.id, contest.status>>
    BY DEF TypeInv, TypeOK, Contest, Listener, ReceiveBid, AddBid, ReadProfile, WriteProfile
  <1>2. UNCHANGED <<poller, completion, internalQ, contestQ, handler>>
    BY DEF Listener, ReceiveBid, AddBid, ReadProfile, WriteProfile
  <1> QED BY <1>1, <1>2, PipelineUnchanged

Inv == TypeInv /\ PipelineInv /\ OneTakerPerContest

LEMMA InitInv == Init => Inv
  BY InitTypeInv, InitPipelineInv DEF Init, Inv, OneTakerPerContest, Replied

LEMMA InvStep == Inv /\ [Next]_vars => Inv'
  <1> SUFFICES ASSUME Inv, [Next]_vars PROVE Inv'
      OBVIOUS
  <1>0. TypeInv /\ PipelineInv /\ OneTakerPerContest
    BY DEF Inv
  <1>1. TypeInv'
    BY <1>0, TypeInvStep
  <1>2. ASSUME PipelineInv', handler' = handler PROVE Inv'
    BY <1>0, <1>1, <1>2 DEF Inv, OneTakerPerContest, Replied
  <1>3. CASE Scheduler
    <2>1. handler' = handler
      BY <1>3 DEF Scheduler, StartFirst, EndContest, CopyEnded, StoreEnded, StoreEndedFails,
                  StartNext, rpc
    <2> QED BY <1>0, <1>2, <1>3, <2>1, SchedulerPipelineInv
  <1>4. CASE Listener
    BY <1>0, <1>2, <1>4, ListenerPipelineInv
  <1>5. CASE Poller
    <2>1. handler' = handler
      BY <1>5 DEF Poller, PollEnded, PollerSend, PollLive, rpc
    <2> QED BY <1>0, <1>2, <1>5, <2>1, PollerPipelineInv
  <1>6. CASE Completion
    <2>1. handler' = handler
      BY <1>6 DEF Completion, CompleteWithoutBids, SelectWinner, SelectionPanics, StoreWinner,
                  SendContest, rpc
    <2> QED BY <1>0, <1>2, <1>6, <2>1, CompletionPipelineInv
  <1>7. CASE \E p \in Registrants : Register(p)
    <2>1. UNCHANGED <<contest, poller, completion, internalQ, contestQ, handler>>
      BY <1>7 DEF Register, channels, rpc
    <2> QED BY <1>0, <1>2, <2>1, PipelineUnchanged
  <1>8. CASE \E h \in Handlers : Rpc(h)
    BY <1>0, <1>1, <1>8, RpcPipelineInv DEF Inv
  <1>9. CASE UNCHANGED vars
    <2>1. UNCHANGED <<contest, poller, completion, internalQ, contestQ, handler>>
      BY <1>9 DEF vars, channels, rpc
    <2> QED BY <1>0, <1>2, <2>1, PipelineUnchanged
  <1> QED BY <1>3, <1>4, <1>5, <1>6, <1>7, <1>8, <1>9 DEF Next

LEMMA InvHolds == Spec => []Inv
  BY InitInv, InvStep, PTL DEF Spec

(* Contests reach the handlers in the order of their ids, however the      *)
(* tasks interleave, whichever accesses fail and for any capacity of the   *)
(* channels (main.rs:447-501).                                             *)
THEOREM ContestsInOrder == Spec => []PipelineOrdered
  BY InvHolds, PTL DEF Inv, PipelineInv

(* ... and only after they have ended (main.rs:453-473).                   *)
THEOREM OutcomesAfterTheEnd == Spec => []PipelineBehind
  BY InvHolds, PTL DEF Inv, PipelineInv

(* ... and each reaches at most one handler (networking.rs:161-172).       *)
THEOREM OneTaker == Spec => []OneTakerPerContest
  BY InvHolds, PTL DEF Inv
=============================================================================
