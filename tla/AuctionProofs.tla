---------------------------- MODULE AuctionProofs ----------------------------
(***************************************************************************)
(* ContestCycle implements Auction, for every value of the constants: each *)
(* step of a task or a call is a step of the abstract auctions or leaves   *)
(* them alone.                                                             *)
(***************************************************************************)
EXTENDS BidProofs

\* The mapped state, by the names Auction has for it.
Offers(s)   == [i \in DOMAIN s |-> Offer(s[i])]
Outcomes(s) == [i \in DOMAIN s |-> Outcome(s[i])]

AuctionNow == Offer(contest)
Entry      == [h \in Handlers |-> handler[h].bid]
Closed     == Offers(Clones)
Decided    == Outcomes(Winning)
Halted     == completion.pc = "dead"
Answers    == [h \in Handlers |-> IF handler[h].pc = "replied" THEN Told(h) ELSE None]

(* Lists.                                                                  *)

LEMMA LongerByOne ==
  ASSUME NEW T, NEW t \in Seq(T), NEW u \in Seq(T), NEW e \in T, Len(u) = Len(t) + 1,
         \A i \in 1..Len(t) : u[i] = t[i], u[Len(t) + 1] = e
  PROVE  u = Append(t, e)
  OBVIOUS

LEMMA WithoutFirst ==
  ASSUME NEW T, NEW t \in Seq(T), NEW u \in Seq(T), t # <<>>, Len(u) = Len(t) - 1,
         \A i \in 1..(Len(t) - 1) : u[i] = t[i + 1]
  PROVE  u = Tail(t)
  OBVIOUS

LEMMA Longer ==
  ASSUME NEW S, NEW s \in Seq(S), NEW e \in S
  PROVE  /\ Append(s, e) \in Seq(S) /\ Len(Append(s, e)) = Len(s) + 1
         /\ \A i \in 1..Len(s) : Append(s, e)[i] = s[i]
         /\ Append(s, e)[Len(s) + 1] = e
  OBVIOUS

LEMMA LastOnly ==
  ASSUME NEW S, NEW s \in Seq(S), NEW n \in Nat, Len(s) = n + 1
  PROVE  SubSeq(s, n + 1, Len(s)) = <<s[n + 1]>>
  <1> DEFINE u == SubSeq(s, n + 1, Len(s))
  <1>1. u \in Seq(S) /\ Len(u) = 1 /\ u[1] = s[n + 1] /\ s[n + 1] \in S
    OBVIOUS
  <1> HIDE DEF u
  <1>2. u = <<s[n + 1]>>
    BY <1>1
  <1> QED BY <1>2 DEF u

LEMMA Shorter ==
  ASSUME NEW S, NEW s \in Seq(S), s # <<>>
  PROVE  /\ Tail(s) \in Seq(S) /\ Len(Tail(s)) = Len(s) - 1 /\ Len(s) > 0
         /\ \A i \in 1..(Len(s) - 1) : Tail(s)[i] = s[i + 1]
         /\ Head(s) = s[1]
  OBVIOUS

\* The lists of contests under the two mappings.
OfferType   == [id : Int, bids : Seq(Bid)]
OutcomeType == [id : Nat, winner : Bid \cup {None}]

LEMMA OffersType ==
  ASSUME NEW s \in Seq(Contest)
  PROVE  /\ Offers(s) \in Seq(OfferType) /\ Len(Offers(s)) = Len(s)
         /\ \A i \in 1..Len(s) : Offers(s)[i] = Offer(s[i])
  <1>1. \A c \in Contest : Offer(c) \in OfferType
    BY DEF Offer, Contest, OfferType
  <1>2. Len(s) \in Nat /\ DOMAIN s = 1..Len(s) /\ \A i \in 1..Len(s) : s[i] \in Contest
    OBVIOUS
  <1>3. Offers(s) \in [1..Len(s) -> OfferType]
    BY <1>1, <1>2 DEF Offers
  <1>4. Offers(s) \in Seq(OfferType) /\ DOMAIN Offers(s) = 1..Len(s)
    BY <1>2, <1>3
  <1> QED BY <1>2, <1>4 DEF Offers

LEMMA OffersOf ==
  ASSUME NEW s \in Seq(Contest)
  PROVE  /\ \A c \in Contest : Offers(Append(s, c)) = Append(Offers(s), Offer(c))
         /\ s # <<>> => /\ Offers(s) # <<>> /\ Head(Offers(s)) = Offer(Head(s))
                        /\ Offers(Tail(s)) = Tail(Offers(s))
  <1>1. PICK t : t = Offers(s)
    OBVIOUS
  <1>2. /\ t \in Seq(OfferType) /\ Len(t) = Len(s) /\ Len(s) \in Nat
        /\ \A i \in 1..Len(s) : t[i] = Offer(s[i])
    BY <1>1, OffersType
  <1>3. ASSUME NEW c \in Contest PROVE Offers(Append(s, c)) = Append(t, Offer(c))
    <2>1. PICK q : q = Append(s, c)
      OBVIOUS
    <2>2. /\ q \in Seq(Contest) /\ Len(q) = Len(s) + 1
          /\ \A i \in 1..Len(s) : q[i] = s[i]
          /\ q[Len(s) + 1] = c
      BY <2>1, Longer
    <2>3. PICK u : u = Offers(q)
      OBVIOUS
    <2>4. /\ u \in Seq(OfferType) /\ Len(u) = Len(s) + 1
          /\ \A i \in 1..(Len(s) + 1) : u[i] = Offer(q[i])
      BY <2>2, <2>3, OffersType
    <2>5. /\ \A i \in 1..Len(t) : u[i] = t[i]
          /\ u[Len(t) + 1] = Offer(c) /\ Offer(c) \in OfferType
      BY <1>2, <2>2, <2>4
    <2>6. u = Append(t, Offer(c))
      BY <1>2, <2>4, <2>5, LongerByOne
    <2> QED BY <2>1, <2>3, <2>6
  <1>4. ASSUME s # <<>>
        PROVE  t # <<>> /\ Head(t) = Offer(Head(s)) /\ Offers(Tail(s)) = Tail(t)
    <2>1. PICK q : q = Tail(s)
      OBVIOUS
    <2>2. /\ q \in Seq(Contest) /\ Len(q) = Len(s) - 1 /\ Len(s) > 0
          /\ \A i \in 1..(Len(s) - 1) : q[i] = s[i + 1]
          /\ Head(s) = s[1]
      BY <1>4, <2>1, Shorter
    <2>3. PICK u : u = Offers(q)
      OBVIOUS
    <2>4. /\ u \in Seq(OfferType) /\ Len(u) = Len(s) - 1
          /\ \A i \in 1..(Len(s) - 1) : u[i] = Offer(q[i])
      BY <2>2, <2>3, OffersType
    <2>5. t # <<>> /\ Head(t) = Offer(Head(s))
      BY <1>2, <2>2
    <2>6. \A i \in 1..(Len(t) - 1) : u[i] = t[i + 1]
      BY <1>2, <2>2, <2>4
    <2>7. u = Tail(t)
      BY <1>2, <2>4, <2>5, <2>6, WithoutFirst
    <2> QED BY <2>1, <2>3, <2>5, <2>7
  <1> QED BY <1>1, <1>3, <1>4

LEMMA OutcomesType ==
  ASSUME NEW s \in Seq(Contest)
  PROVE  /\ Outcomes(s) \in Seq(OutcomeType) /\ Len(Outcomes(s)) = Len(s)
         /\ \A i \in 1..Len(s) : Outcomes(s)[i] = Outcome(s[i])
  <1>1. \A c \in Contest : Outcome(c) \in OutcomeType
    BY DEF Outcome, Contest, OutcomeType
  <1>2. Len(s) \in Nat /\ DOMAIN s = 1..Len(s) /\ \A i \in 1..Len(s) : s[i] \in Contest
    OBVIOUS
  <1>3. Outcomes(s) \in [1..Len(s) -> OutcomeType]
    BY <1>1, <1>2 DEF Outcomes
  <1>4. Outcomes(s) \in Seq(OutcomeType) /\ DOMAIN Outcomes(s) = 1..Len(s)
    BY <1>2, <1>3
  <1> QED BY <1>2, <1>4 DEF Outcomes

LEMMA OutcomesOf ==
  ASSUME NEW s \in Seq(Contest)
  PROVE  /\ \A c \in Contest : Outcomes(Append(s, c)) = Append(Outcomes(s), Outcome(c))
         /\ s # <<>> => /\ Outcomes(s) # <<>> /\ Head(Outcomes(s)) = Outcome(Head(s))
                        /\ Outcomes(Tail(s)) = Tail(Outcomes(s))
  <1>1. PICK t : t = Outcomes(s)
    OBVIOUS
  <1>2. /\ t \in Seq(OutcomeType) /\ Len(t) = Len(s) /\ Len(s) \in Nat
        /\ \A i \in 1..Len(s) : t[i] = Outcome(s[i])
    BY <1>1, OutcomesType
  <1>3. ASSUME NEW c \in Contest PROVE Outcomes(Append(s, c)) = Append(t, Outcome(c))
    <2>1. PICK q : q = Append(s, c)
      OBVIOUS
    <2>2. /\ q \in Seq(Contest) /\ Len(q) = Len(s) + 1
          /\ \A i \in 1..Len(s) : q[i] = s[i]
          /\ q[Len(s) + 1] = c
      BY <2>1, Longer
    <2>3. PICK u : u = Outcomes(q)
      OBVIOUS
    <2>4. /\ u \in Seq(OutcomeType) /\ Len(u) = Len(s) + 1
          /\ \A i \in 1..(Len(s) + 1) : u[i] = Outcome(q[i])
      BY <2>2, <2>3, OutcomesType
    <2>5. /\ \A i \in 1..Len(t) : u[i] = t[i]
          /\ u[Len(t) + 1] = Outcome(c) /\ Outcome(c) \in OutcomeType
      BY <1>2, <2>2, <2>4
    <2>6. u = Append(t, Outcome(c))
      BY <1>2, <2>4, <2>5, LongerByOne
    <2> QED BY <2>1, <2>3, <2>6
  <1>4. ASSUME s # <<>>
        PROVE  t # <<>> /\ Head(t) = Outcome(Head(s)) /\ Outcomes(Tail(s)) = Tail(t)
    <2>1. PICK q : q = Tail(s)
      OBVIOUS
    <2>2. /\ q \in Seq(Contest) /\ Len(q) = Len(s) - 1 /\ Len(s) > 0
          /\ \A i \in 1..(Len(s) - 1) : q[i] = s[i + 1]
          /\ Head(s) = s[1]
      BY <1>4, <2>1, Shorter
    <2>3. PICK u : u = Outcomes(q)
      OBVIOUS
    <2>4. /\ u \in Seq(OutcomeType) /\ Len(u) = Len(s) - 1
          /\ \A i \in 1..(Len(s) - 1) : u[i] = Outcome(q[i])
      BY <2>2, <2>3, OutcomesType
    <2>5. t # <<>> /\ Head(t) = Outcome(Head(s))
      BY <1>2, <2>2
    <2>6. \A i \in 1..(Len(t) - 1) : u[i] = t[i + 1]
      BY <1>2, <2>2, <2>4
    <2>7. u = Tail(t)
      BY <1>2, <2>4, <2>5, <2>6, WithoutFirst
    <2> QED BY <2>1, <2>3, <2>5, <2>7
  <1> QED BY <1>1, <1>3, <1>4

-----------------------------------------------------------------------------
(* What the steps rely on, besides the invariants of the other modules:    *)
(* an ended contest is what start_new_contest stores and follows up, and a *)
(* completion task that has died has left nothing in its channel.          *)

Started == scheduler.pc \in {"store", "proofWindow"} => contest.status = "Ended"
Emptied == Halted => internalQ = <<>>

AuctionInv == Inv /\ BidsInv({}) /\ EndedInv /\ WinnersInv /\ Started /\ Emptied

LEMMA StartedStep ==
  ASSUME TypeInv, Started, Next
  PROVE  Started'
  <1>0. contest \in Contest /\ scheduler \in SchedulerType
    BY DEF TypeInv, TypeOK
  <1>1. CASE Scheduler
    BY <1>0, <1>1 DEF Scheduler, StartFirst, EndContest, CopyEnded, StoreEnded, StoreEndedFails, StartNext,
                      Started, Contest, SchedulerType
  <1>2. CASE Listener
    <2>1. scheduler' = scheduler /\ contest'.status = contest.status
      BY <1>0, <1>2 DEF Listener, ReceiveBid, AddBid, ReadProfile, WriteProfile, Contest
    <2> QED BY <2>1 DEF Started
  <1>3. CASE Poller \/ Completion
    BY <1>3 DEF Poller, PollEnded, PollerSend, PollLive, Completion, CompleteWithoutBids,
                SelectWinner, SelectionPanics, StoreWinner, SendContest, Started
  <1>4. CASE (\E p \in Registrants : Register(p)) \/ (\E h \in Handlers : Rpc(h))
    BY <1>4 DEF Register, Rpc, Answer, SubmitBid, SubmitBidFails, AwaitContest, TakeContest,
                ContestsClosed, Started
  <1> QED BY <1>1, <1>2, <1>3, <1>4 DEF Next

LEMMA EmptiedStep ==
  ASSUME TypeInv, Emptied, Next
  PROVE  Emptied'
  <1> USE DEF channels, storage, rpc
  <1>1. CASE Scheduler \/ Listener
    BY <1>1 DEF Scheduler, StartFirst, EndContest, CopyEnded, StoreEnded, StoreEndedFails, StartNext,
                Listener, ReceiveBid, AddBid, ReadProfile, WriteProfile, Emptied, Halted
  <1>2. CASE Poller
    BY <1>2 DEF Poller, PollEnded, PollerSend, PollLive, Emptied, Halted
  <1>3. CASE Completion
    <2>1. CASE StoreWinner
      BY <2>1 DEF StoreWinner, TypeInv, TypeOK, CompletionType, Emptied, Halted
    <2>2. CASE ~StoreWinner
      BY <1>3, <2>2 DEF Completion, CompleteWithoutBids, SelectWinner, SelectionPanics, SendContest,
                        Emptied, Halted
    <2> QED BY <2>1, <2>2
  <1>4. CASE (\E p \in Registrants : Register(p)) \/ (\E h \in Handlers : Rpc(h))
    BY <1>4 DEF Register, Rpc, Answer, SubmitBid, SubmitBidFails, AwaitContest, TakeContest,
                ContestsClosed, Emptied, Halted
  <1> QED BY <1>1, <1>2, <1>3, <1>4 DEF Next

LEMMA InitAuctionInv == Init => AuctionInv
  <1> SUFFICES ASSUME Init PROVE AuctionInv
      OBVIOUS
  <1>1. Held = {} /\ contest.status = "NotStarted"
    BY NoRange DEF Init, Held, DefaultContest
  <1> QED BY <1>1, InitInv, InitBidsInv, InitWinners
          DEF Init, AuctionInv, EndedInv, Started, Emptied, Halted

LEMMA AuctionInvStep == AuctionInv /\ [Next]_vars => AuctionInv'
  <1> SUFFICES ASSUME AuctionInv, [Next]_vars PROVE AuctionInv'
      OBVIOUS
  <1>1. /\ Inv /\ TypeInv /\ BidsInv({}) /\ Gone({})
        /\ EndedInv /\ WinnersInv /\ Started /\ Emptied
    BY DEF AuctionInv, Inv, Gone
  <1>2. Inv'
    BY <1>1, InvStep
  <1>3. BidsInv({})'
    BY <1>1, BidsInvStep
  <1>4. CASE UNCHANGED vars
    <2>1. UNCHANGED <<contest, scheduler, poller, completion, internalQ, contestQ>> /\ Held' = Held
      BY <1>4 DEF vars, channels, storage, rpc, Held
    <2>2. EndedInv' /\ WinnersInv' /\ Started' /\ Emptied'
      BY <1>1, <2>1 DEF EndedInv, WinnersInv, Undecided, Range, Started, Emptied, Halted
    <2> QED BY <1>2, <1>3, <2>2 DEF AuctionInv
  <1>5. CASE Next
    BY <1>1, <1>2, <1>3, <1>5, EndedStep, WinnersStep, StartedStep, EmptiedStep DEF AuctionInv
  <1> QED BY <1>4, <1>5

LEMMA AuctionInvHolds == Spec => []AuctionInv
  BY InitAuctionInv, AuctionInvStep, PTL DEF Spec
-----------------------------------------------------------------------------
(* What leaves a part of the mapped state alone.                           *)

LEMMA Kept ==
  /\ handler' = handler => Entry' = Entry /\ Answers' = Answers
  /\ bidQ' = bidQ /\ listener'.bid = listener.bid => Unheard' = Unheard
  /\ UNCHANGED <<internalQ, poller>> => Closed' = Closed
  /\ UNCHANGED <<contestQ, completion>> => Decided' = Decided /\ Halted' = Halted
  /\ contest' = contest => AuctionNow' = AuctionNow
  BY DEF Entry, Answers, Told, Unheard, Closed, Clones, Decided, Winning, Halted, AuctionNow,
         Offers, Outcomes

LEMMA Stutter ==
  ASSUME UNCHANGED <<AuctionNow, Entry, Unheard, Closed, Decided, Halted, Answers>>
  PROVE  UNCHANGED Abstract!vars
  BY DEF Abstract!vars, AuctionNow, Entry, Closed, Decided, Halted, Answers, Offers, Outcomes

LEMMA BidsTurnedAway ==
  ASSUME Unheard' \subseteq Unheard,
         UNCHANGED <<AuctionNow, Entry, Closed, Decided, Halted, Answers>>
  PROVE  Abstract!Next
  <1>1. Unheard' = Unheard \ (Unheard \ Unheard') /\ Unheard \ Unheard' \in SUBSET Unheard
    OBVIOUS
  <1> QED BY <1>1 DEF Abstract!Next, Abstract!TurnAway, AuctionNow, Entry, Closed, Decided, Halted, Answers,
                      Offers, Outcomes

LEMMA AbstractInit == Init => Abstract!Init
  BY DEF Init, DefaultContest, Abstract!Init, Clones, Winning, Unheard, Offer

\* The mapped lists of contests, by the places the contests are in.
LEMMA Places ==
  ASSUME TypeInv
  PROVE  /\ Clones = IF poller.pc = "send" THEN Append(internalQ, poller.copy) ELSE internalQ
         /\ Winning = IF completion.pc \in {"store", "send"} THEN Append(contestQ, completion.contest)
                                                             ELSE contestQ
         /\ Clones \in Seq(Contest) /\ Winning \in Seq(Contest)
  <1>1. /\ internalQ \in Seq(Contest) /\ contestQ \in Seq(Contest)
        /\ poller.pc = "send" => poller.copy \in Contest
        /\ completion.pc \in {"store", "send"} => completion.contest \in Contest
    BY DEF TypeInv, TypeOK, PollerType, CompletionType
  <1>2. \A s \in Seq(Contest) : s \o <<>> = s /\ \A c \in Contest : s \o <<c>> = Append(s, c)
    OBVIOUS
  <1>3. Clones = IF poller.pc = "send" THEN Append(internalQ, poller.copy) ELSE internalQ
    BY <1>1, <1>2 DEF Clones
  <1>4. Winning = IF completion.pc \in {"store", "send"} THEN Append(contestQ, completion.contest)
                                                         ELSE contestQ
    BY <1>1, <1>2 DEF Winning
  <1> QED BY <1>1, <1>3, <1>4, AppendType

LEMMA PlacesAfter ==
  ASSUME TypeInv'
  PROVE  /\ Clones' = IF poller'.pc = "send" THEN Append(internalQ', poller'.copy) ELSE internalQ'
         /\ Winning' = IF completion'.pc \in {"store", "send"}
                       THEN Append(contestQ', completion'.contest) ELSE contestQ'
  <1>1. /\ internalQ' \in Seq(Contest) /\ contestQ' \in Seq(Contest)
        /\ poller'.pc = "send" => poller'.copy \in Contest
        /\ completion'.pc \in {"store", "send"} => completion'.contest \in Contest
    BY DEF TypeInv, TypeOK, PollerType, CompletionType
  <1>2. \A s \in Seq(Contest) : s \o <<>> = s /\ \A c \in Contest : s \o <<c>> = Append(s, c)
    OBVIOUS
  <1> QED BY <1>1, <1>2 DEF Clones, Winning

LEMMA SchedulerImplements ==
  ASSUME AuctionInv, Scheduler
  PROVE  Abstract!Next \/ UNCHANGED Abstract!vars
  <1> USE DEF channels, storage, rpc
  <1>1. UNCHANGED <<listener, poller, completion, bidQ, internalQ, contestQ, handler>>
    BY DEF Scheduler, StartFirst, EndContest, CopyEnded, StoreEnded, StoreEndedFails, StartNext
  <1>2. UNCHANGED <<Entry, Unheard, Closed, Decided, Halted, Answers>>
    BY <1>1, Kept
  <1>3. contest \in Contest
    BY DEF AuctionInv, Inv, TypeInv, TypeOK
  <1>4. ASSUME AuctionNow' = AuctionNow PROVE UNCHANGED Abstract!vars
    BY <1>2, <1>4, Stutter
  <1>5. CASE StartFirst \/ StartNext
    <2>1. AuctionNow' = [id |-> AuctionNow.id + 1, bids |-> <<>>]
      <3>1. CASE StartFirst
        BY <3>1 DEF StartFirst, StartContest, AuctionNow, Offer
      <3>2. CASE StartNext
        <4>1. contest.status = "Ended"
          BY <3>2 DEF StartNext, AuctionInv, Started
        <4> QED BY <3>2, <4>1 DEF StartNext, StartContest, AuctionNow, Offer
      <3> QED BY <1>5, <3>1, <3>2
    <2> QED BY <1>2, <2>1
            DEF Abstract!Next, Abstract!Open, AuctionNow, Entry, Closed, Decided, Halted, Answers,
                Offers, Outcomes
  <1>6. CASE EndContest
    <2>1. AuctionNow' = AuctionNow
      BY <1>3, <1>6 DEF EndContest, AuctionNow, Offer, Contest
    <2> QED BY <1>4, <2>1
  <1>7. CASE CopyEnded \/ StoreEnded \/ StoreEndedFails
    <2>1. contest' = contest
      BY <1>7 DEF CopyEnded, StoreEnded, StoreEndedFails
    <2> QED BY <1>4, <2>1, Kept
  <1> QED BY <1>5, <1>6, <1>7 DEF Scheduler

\* What is past is behind the auction at hand, once that has ended.
LEMMA PastIsBehind ==
  ASSUME AuctionInv, poller.pc = "watch"
  PROVE  /\ \A i \in DOMAIN Closed : Closed[i].id < contest.id
         /\ \A i \in DOMAIN Decided : Decided[i].id < contest.id
         /\ \A h \in Handlers : Answers[h] # None => Answers[h].id < contest.id
  <1>0. TypeInv /\ \A k \in InPipeline : k < contest.id
    BY DEF AuctionInv, Inv, PipelineInv, PipelineBehind
  <1>1. \A i \in DOMAIN Closed : Closed[i].id < contest.id
    <2>1. Clones = internalQ /\ internalQ \in Seq(Contest)
      BY <1>0, Places DEF TypeInv, TypeOK
    <2>2. ASSUME NEW i \in DOMAIN internalQ PROVE Offer(internalQ[i]).id < contest.id
      <3>1. internalQ[i] \in Held
        BY DEF Held, Range
      <3>2. internalQ[i].status = "Ended"
        BY <3>1 DEF AuctionInv, EndedInv
      <3>3. internalQ[i].id \in InPipeline
        BY DEF InPipeline, Ids
      <3> QED BY <1>0, <3>2, <3>3 DEF Offer
    <2> QED BY <2>1, <2>2 DEF Closed, Offers
  <1>2. \A i \in DOMAIN Decided : Decided[i].id < contest.id
    <2>1. ASSUME NEW i \in DOMAIN Winning PROVE Winning[i].id \in InPipeline
      <3>1. CASE i \in DOMAIN contestQ /\ Winning[i] = contestQ[i]
        BY <3>1 DEF InPipeline, Announced, Ids
      <3>2. CASE completion.pc \in {"store", "send"} /\ Winning[i] = completion.contest
        BY <3>2 DEF InPipeline, AtCompletion
      <3>3. contestQ \in Seq(Contest)
        BY <1>0 DEF TypeInv, TypeOK
      <3>4. CASE completion.pc \in {"store", "send"}
        <4>1. Winning = Append(contestQ, completion.contest)
          BY <1>0, <3>4, Places
        <4> QED BY <3>1, <3>2, <3>3, <3>4, <4>1
      <3>5. CASE completion.pc \notin {"store", "send"}
        BY <1>0, <3>1, <3>5, Places
      <3> QED BY <3>4, <3>5
    <2> QED BY <1>0, <2>1 DEF Decided, Outcomes, Outcome
  <1>3. \A h \in Handlers : Answers[h] # None => Answers[h].id < contest.id
    <2>1. ASSUME NEW h \in Replied PROVE Told(h).id < contest.id
      <3>1. Told(h).id \in Taken
        BY DEF Told, Taken
      <3> QED BY <1>0, <3>1 DEF InPipeline, Announced
    <2> QED BY <2>1 DEF Answers, Replied
  <1> QED BY <1>1, <1>2, <1>3

LEMMA PollerImplements ==
  ASSUME AuctionInv, Poller
  PROVE  Abstract!Next \/ UNCHANGED Abstract!vars
  <1> USE DEF channels, storage, rpc
  <1>0. /\ TypeInv /\ TypeInv' /\ contest \in Contest /\ contest.id \in Nat
        /\ poller \in PollerType /\ internalQ \in Seq(Contest)
    <2>1. TypeInv /\ Next
      BY DEF AuctionInv, Inv, Next
    <2> QED BY <2>1, TypeInvStep DEF TypeInv, TypeOK, Contest
  <1>1. UNCHANGED <<contest, listener, completion, bidQ, contestQ, handler>>
    BY DEF Poller, PollEnded, PollerSend, PollLive
  <1>2. UNCHANGED <<AuctionNow, Entry, Unheard, Decided, Halted, Answers>>
    BY <1>1, Kept
  <1>3. ASSUME Clones' = Clones PROVE UNCHANGED Abstract!vars
    <2>1. Closed' = Closed
      BY <1>3 DEF Closed, Offers
    <2> QED BY <1>2, <2>1, Stutter
  <1>4. CASE PollEnded
    <2>1. Clones = internalQ /\ Clones' = Append(internalQ, contest)
      BY <1>0, <1>4, Places, PlacesAfter DEF PollEnded
    <2>2. Closed' = Append(Closed, AuctionNow)
      <3>1. Offers(Append(internalQ, contest)) = Append(Offers(internalQ), Offer(contest))
        BY <1>0, OffersOf
      <3> QED BY <2>1, <3>1 DEF Closed, AuctionNow, Offers
    <2>3. AuctionNow.id = contest.id
      BY <1>4 DEF PollEnded, AuctionNow, Offer
    <2>4. /\ AuctionNow.id >= 0
          /\ \A i \in DOMAIN Closed : Closed[i].id < AuctionNow.id
          /\ \A i \in DOMAIN Decided : Decided[i].id < AuctionNow.id
          /\ \A h \in Handlers : Answers[h] # None => Answers[h].id < AuctionNow.id
      BY <1>0, <1>4, <2>3, PastIsBehind DEF PollEnded
    <2> QED BY <1>2, <2>2, <2>4
            DEF Abstract!Next, Abstract!Close, Abstract!Past, AuctionNow, Entry, Closed, Decided, Halted,
                Answers, Offers, Outcomes
  <1>5. CASE PollerSend /\ completion.pc # "dead"
    <2>1. poller.pc = "send" /\ poller'.pc = "waitLive" /\ internalQ' = Append(internalQ, poller.copy)
      BY <1>5 DEF PollerSend
    <2>2. Clones' = Clones
      BY <1>0, <2>1, Places, PlacesAfter
    <2> QED BY <1>3, <2>2
  <1>6. CASE PollerSend /\ completion.pc = "dead"
    <2>1. /\ Halted' = TRUE /\ internalQ = <<>> /\ internalQ' = internalQ
          /\ poller.pc = "send" /\ poller'.pc = "dead" /\ poller.copy \in Contest
      BY <1>0, <1>1, <1>6 DEF PollerSend, AuctionInv, Emptied, Halted, PollerType
    <2>2. Clones = <<poller.copy>> /\ Clones' = <<>>
      BY <1>0, <2>1, Places, PlacesAfter
    <2>3. Len(Closed) = 1 /\ DOMAIN Closed = {1} /\ Closed' = <<>> /\ Closed \in Seq(OfferType)
      <3>1. Closed \in Seq(OfferType) /\ Len(Closed) = Len(Clones)
        BY <1>0, Places, OffersType DEF Closed
      <3>2. Len(Clones) = 1
        BY <2>2
      <3>3. Closed' = <<>>
        BY <2>2 DEF Closed, Offers
      <3> QED BY <3>1, <3>2, <3>3
    <2>4. 1 \in DOMAIN Closed /\ Closed' = SubSeq(Closed, 1 + 1, Len(Closed))
      BY <2>3
    <2> QED BY <1>2, <2>1, <2>4
            DEF Abstract!Next, Abstract!Halt, AuctionNow, Entry, Closed, Decided, Halted,
                Answers, Offers, Outcomes
  <1>7. CASE PollLive
    <2>1. poller.pc # "send" /\ poller'.pc # "send" /\ internalQ' = internalQ
      BY <1>0, <1>7 DEF PollLive, PollerType
    <2>2. Clones' = Clones
      BY <1>0, <2>1, Places, PlacesAfter
    <2> QED BY <1>3, <2>2
  <1> QED BY <1>4, <1>5, <1>6, <1>7 DEF Poller

\* The completion task takes the oldest closed auction.
LEMMA OldestTaken ==
  ASSUME TypeInv, TypeInv', internalQ # <<>>, internalQ' = Tail(internalQ), poller' = poller
  PROVE  /\ Closed # <<>> /\ Head(Closed) = Offer(Head(internalQ)) /\ Closed' = Tail(Closed)
  <1>1. internalQ \in Seq(Contest) /\ (poller.pc = "send" => poller.copy \in Contest)
    BY DEF TypeInv, TypeOK, PollerType
  <1>2. Clones # <<>> /\ Head(Clones) = Head(internalQ) /\ Clones' = Tail(Clones)
    <2>1. \A c \in Contest : /\ Append(internalQ, c) # <<>>
                             /\ Head(Append(internalQ, c)) = Head(internalQ)
                             /\ Tail(Append(internalQ, c)) = Append(Tail(internalQ), c)
      BY <1>1
    <2>2. CASE poller.pc = "send"
      <3>1. Clones = Append(internalQ, poller.copy)
        BY <2>2, Places
      <3>2. Clones' = Append(Tail(internalQ), poller.copy)
        BY <2>2, PlacesAfter
      <3> QED BY <1>1, <2>1, <2>2, <3>1, <3>2
    <2>3. CASE poller.pc # "send"
      BY <2>3, Places, PlacesAfter
    <2> QED BY <2>2, <2>3
  <1>3. Clones \in Seq(Contest)
    BY Places
  <1>4. Closed' = Offers(Clones')
    BY DEF Closed, Offers
  <1> QED BY <1>2, <1>3, <1>4, OffersOf DEF Closed

LEMMA SelectionImplements ==
  ASSUME AuctionInv, SelectWinner
  PROVE  Abstract!Next
  <1> DEFINE d == Head(internalQ)
  <1>0. /\ TypeInv /\ TypeInv' /\ internalQ \in Seq(Contest) /\ contestQ \in Seq(Contest)
    <2>1. TypeInv /\ Next
      BY DEF AuctionInv, Inv, Next, Completion
    <2> QED BY <2>1, TypeInvStep DEF TypeInv, TypeOK
  <1>1. /\ completion.pc = "recv" /\ internalQ # <<>> /\ internalQ' = Tail(internalQ)
        /\ UNCHANGED <<contest, listener, poller, bidQ, contestQ, handler>>
    BY DEF SelectWinner, storage, rpc
  <1>2. PICK b \in Winners(d.bids) :
          completion' = [pc |-> "store", contest |-> [d EXCEPT !.winner = b]]
    BY DEF SelectWinner
  <1>3. d \in Contest /\ b \in Range(d.bids) /\ d.status = "Ended"
    <2>1. d \in Contest /\ d \in Range(internalQ)
      BY <1>0, <1>1, HeadTailType, RangeLemma
    <2>2. d.status = "Ended"
      BY <2>1 DEF AuctionInv, EndedInv, Held
    <2> QED BY <2>1, <2>2, WinnerIsABid
  <1>4. /\ Closed # <<>> /\ Closed' = Tail(Closed)
        /\ Head(Closed).id = d.id /\ Head(Closed).bids = d.bids
    BY <1>0, <1>1, <1>3, OldestTaken DEF Offer
  <1>5. Decided' = Append(Decided, [id |-> Head(Closed).id, winner |-> b])
    <2>1. PICK c : c = completion'.contest
      OBVIOUS
    <2>2. c \in Contest /\ completion'.pc = "store"
      BY <1>0, <1>2, <2>1 DEF TypeInv, TypeOK, CompletionType
    <2>3. Outcome(c) = [id |-> d.id, winner |-> b]
      <3>1. c = [d EXCEPT !.winner = b]
        BY <1>2, <2>1
      <3> QED BY <1>3, <3>1 DEF Outcome, Contest
    <2>4. Winning = contestQ /\ Winning' = Append(contestQ, c)
      BY <1>0, <1>1, <2>1, <2>2, Places, PlacesAfter
    <2>5. Outcomes(Append(contestQ, c)) = Append(Outcomes(contestQ), Outcome(c))
      BY <1>0, <2>2, OutcomesOf
    <2>6. Decided' = Outcomes(Winning')
      BY DEF Decided, Outcomes
    <2> QED BY <1>4, <2>3, <2>4, <2>5, <2>6 DEF Decided
  <1>6. UNCHANGED <<AuctionNow, Entry, Unheard, Answers>>
    BY <1>1, Kept
  <1>7. Halted = FALSE /\ Halted' = Halted
    BY <1>1, <1>2 DEF Halted
  <1>8. \E w \in Range(Head(Closed).bids) :
          Decided' = Append(Decided, [id |-> Head(Closed).id, winner |-> w])
    BY <1>3, <1>4, <1>5
  <1> QED BY <1>4, <1>6, <1>7, <1>8
          DEF Abstract!Next, Abstract!Decide, Abstract!Range, Range, AuctionNow, Entry, Closed, Decided, Halted, Answers,
              Offers, Outcomes

LEMMA PanicImplements ==
  ASSUME AuctionInv, SelectionPanics
  PROVE  Abstract!Next
  <1> DEFINE n == Len(internalQ)
  <1>0. /\ TypeInv /\ TypeInv' /\ internalQ \in Seq(Contest)
        /\ poller.pc = "send" => poller.copy \in Contest
    <2>1. TypeInv /\ Next
      BY DEF AuctionInv, Inv, Next, Completion
    <2> QED BY <2>1, TypeInvStep DEF TypeInv, TypeOK, PollerType
  <1>1. /\ completion.pc = "recv" /\ completion'.pc = "dead" /\ internalQ # <<>> /\ internalQ' = <<>>
        /\ UNCHANGED <<contest, listener, poller, bidQ, contestQ, handler>>
    BY DEF SelectionPanics, storage, rpc
  <1>2. UNCHANGED <<AuctionNow, Entry, Unheard, Answers>>
    BY <1>1, Kept
  <1>3. Decided' = Decided
    <2>1. Winning' = Winning
      BY <1>0, <1>1, Places, PlacesAfter
    <2> QED BY <2>1 DEF Decided, Outcomes
  <1>4. Halted' = TRUE
    BY <1>1 DEF Halted
  <1>5. n \in DOMAIN Closed /\ Closed' = SubSeq(Closed, n + 1, Len(Closed))
    <2>1. PICK q : q = Closed
      OBVIOUS
    <2>2. q \in Seq(OfferType) /\ Len(q) = Len(Clones) /\ \A i \in 1..Len(Clones) : q[i] = Offer(Clones[i])
      BY <1>0, <2>1, Places, OffersType DEF Closed
    <2>3. n \in Nat /\ n > 0
      BY <1>0, <1>1
    <2>4. CASE poller.pc = "send"
      <3>1. Clones = Append(internalQ, poller.copy) /\ Clones' = <<poller.copy>>
        BY <1>0, <1>1, <2>4, Places, PlacesAfter
      <3>2. Len(Clones) = n + 1 /\ Clones[n + 1] = poller.copy
        BY <1>0, <2>4, <3>1
      <3>3. Closed' = <<Offer(poller.copy)>>
        BY <3>1 DEF Closed, Offers
      <3>4. q[n + 1] = Offer(poller.copy) /\ n \in DOMAIN q
        BY <2>2, <2>3, <3>2
      <3>5. SubSeq(q, n + 1, Len(q)) = <<q[n + 1]>>
        BY <2>2, <2>3, <3>2, LastOnly
      <3> QED BY <2>1, <3>3, <3>4, <3>5
    <2>5. CASE poller.pc # "send"
      <3>1. Clones = internalQ /\ Clones' = <<>>
        BY <1>0, <1>1, <2>5, Places, PlacesAfter
      <3>2. Closed' = <<>>
        BY <3>1 DEF Closed, Offers
      <3>3. n \in DOMAIN q /\ SubSeq(q, n + 1, Len(q)) = <<>>
        BY <2>2, <2>3, <3>1
      <3> QED BY <2>1, <3>2, <3>3
    <2> QED BY <2>4, <2>5
  <1>6. \E i \in DOMAIN Closed : Closed' = SubSeq(Closed, i + 1, Len(Closed))
    BY <1>5
  <1> QED BY <1>2, <1>3, <1>4, <1>6
          DEF Abstract!Next, Abstract!Halt, AuctionNow, Entry, Closed, Decided, Halted, Answers,
              Offers, Outcomes

LEMMA CompletionImplements ==
  ASSUME AuctionInv, Completion
  PROVE  Abstract!Next \/ UNCHANGED Abstract!vars
  <1> USE DEF channels, storage, rpc
  <1>0. TypeInv /\ TypeInv' /\ completion \in CompletionType /\ contestQ \in Seq(Contest)
    <2>1. TypeInv /\ Next
      BY DEF AuctionInv, Inv, Next
    <2> QED BY <2>1, TypeInvStep DEF TypeInv, TypeOK
  <1>1. UNCHANGED <<contest, listener, poller, bidQ, handler>>
    BY DEF Completion, CompleteWithoutBids, SelectWinner, SelectionPanics, StoreWinner, SendContest
  <1>2. UNCHANGED <<AuctionNow, Entry, Unheard, Answers>>
    BY <1>1, Kept
  <1>3. CASE CompleteWithoutBids
    <2>1. /\ internalQ # <<>> /\ internalQ' = Tail(internalQ) /\ Head(internalQ).bids = <<>>
          /\ UNCHANGED <<completion, contestQ>> /\ completion.pc = "recv"
      BY <1>3 DEF CompleteWithoutBids
    <2>2. Decided' = Decided /\ Halted' = Halted /\ Halted = FALSE
      BY <2>1, Kept DEF Halted
    <2>3. Closed # <<>> /\ Head(Closed).bids = <<>> /\ Closed' = Tail(Closed)
      BY <1>0, <1>1, <2>1, OldestTaken DEF Offer
    <2> QED BY <1>2, <2>2, <2>3
            DEF Abstract!Next, Abstract!Drop, AuctionNow, Entry, Closed, Decided, Halted, Answers,
                Offers, Outcomes
  <1>4. CASE SelectWinner
    BY <1>4, SelectionImplements
  <1>5. CASE SelectionPanics
    BY <1>5, PanicImplements
  <1>6. CASE StoreWinner \/ SendContest
    <2>1. internalQ' = internalQ /\ completion.pc # "dead" /\ completion'.pc # "dead"
      BY <1>0, <1>6 DEF StoreWinner, SendContest, CompletionType
    <2>2. Winning' = Winning
      <3>1. CASE StoreWinner
        <4>1. /\ completion.pc = "store" /\ completion'.pc = "send"
              /\ completion'.contest = completion.contest /\ contestQ' = contestQ
          BY <1>0, <3>1 DEF StoreWinner, CompletionType
        <4> QED BY <1>0, <4>1, Places, PlacesAfter
      <3>2. CASE SendContest
        <4>1. /\ completion.pc = "send" /\ completion'.pc = "recv"
              /\ contestQ' = Append(contestQ, completion.contest)
          BY <3>2 DEF SendContest
        <4> QED BY <1>0, <4>1, Places, PlacesAfter
      <3> QED BY <1>6, <3>1, <3>2
    <2>3. Decided' = Decided /\ Halted' = Halted
      BY <2>1, <2>2 DEF Decided, Outcomes, Halted
    <2>4. Closed' = Closed
      BY <1>1, <2>1, Kept
    <2> QED BY <1>2, <2>3, <2>4, Stutter
  <1> QED BY <1>3, <1>4, <1>5, <1>6 DEF Completion

\* The callers that are not heard yet are those of the bids at hand.
LEMMA UnheardAtHand == Unheard = {b.by : b \in AtHand} /\ Unheard' = {b.by : b \in AtHand'}
  BY DEF Unheard, AtHand, Range

LEMMA AddedBidJoins ==
  ASSUME AuctionInv, AddBid, BidJoins
  PROVE  Abstract!Next
  <1> DEFINE b == listener.bid
             h == listener.bid.by
  <1>0. /\ TypeInv /\ contest \in Contest /\ listener \in ListenerType /\ bidQ \in Seq(Bid)
        /\ Authentic({}) /\ HandedOnce /\ None \notin Bid
    BY NoneAssumption DEF AuctionInv, Inv, TypeInv, TypeOK, BidsInv
  <1>1. /\ b \in Bid /\ h \in Handlers /\ b \in AtHand
        /\ listener'.bid = None /\ bidQ' = bidQ
        /\ UNCHANGED <<poller, completion, internalQ, contestQ, handler>>
    <2>1. b \in Bid /\ listener'.bid = None
      BY <1>0 DEF AddBid, ListenerType
    <2> QED BY <1>0, <2>1 DEF AddBid, AtHand, Bid, channels, storage, rpc
  <1>2. UNCHANGED <<Entry, Closed, Decided, Halted, Answers>>
    BY <1>1, Kept
  <1>3. Entry[h] = b
    BY <1>0, <1>1 DEF Entry, Authentic
  <1>4. h \in Unheard /\ Unheard' = Unheard \ {h}
    <2>1. AtHand = Range(bidQ) \cup {b} /\ AtHand' = Range(bidQ) /\ b \notin Range(bidQ)
      BY <1>0, <1>1, RangeLemma DEF AtHand, HandedOnce
    <2>2. \A d \in Range(bidQ) : d.by # h
      <3> SUFFICES ASSUME NEW d \in Range(bidQ), d.by = h PROVE FALSE
          OBVIOUS
      <3>1. handler[h].bid = d /\ handler[h].bid = b
        BY <1>0, <1>1, <2>1 DEF Authentic
      <3> QED BY <2>1, <3>1
    <2> QED BY <2>1, <2>2, UnheardAtHand
  <1>5. /\ AuctionNow.bids = contest.bids
        /\ \A i \in DOMAIN AuctionNow.bids : AuctionNow.bids[i].addr # Entry[h].addr
    BY <1>3 DEF AuctionNow, Offer, BidJoins, HasBidFrom
  <1>6. AuctionNow' = [AuctionNow EXCEPT !.bids = Append(@, Entry[h])]
    <2>1. /\ contest'.id = contest.id /\ contest'.status = contest.status
          /\ contest'.bids = Append(contest.bids, b)
      BY <1>0, BidJoinsBids
    <2>2. PICK n : n = IF contest.status = "NotStarted" THEN -1 ELSE contest.id
      OBVIOUS
    <2>3. PICK s : s = Append(contest.bids, b)
      OBVIOUS
    <2>4. AuctionNow = [id |-> n, bids |-> contest.bids] /\ AuctionNow' = [id |-> n, bids |-> s]
      BY <2>1, <2>2, <2>3 DEF AuctionNow, Offer
    <2>5. PICK before : before = contest.bids
      OBVIOUS
    <2>6. PICK r : r = [id |-> n, bids |-> before]
      OBVIOUS
    <2>7. PICK e : e = Entry[h]
      OBVIOUS
    <2>8. [r EXCEPT !.bids = Append(@, e)] = [id |-> n, bids |-> s]
      <3>1. Append(before, e) = s
        BY <1>3, <2>3, <2>5, <2>7
      <3>2. PICK joined : joined = Append(before, e)
        OBVIOUS
      <3>3. r.bids = before
        BY <2>6
      <3>4. [r EXCEPT !.bids = joined] = [id |-> n, bids |-> joined]
        BY <2>6
      <3>5. Append(r.bids, e) = joined
        BY <3>2, <3>3
      <3> QED BY <3>1, <3>2, <3>4, <3>5
    <2>9. AuctionNow = r
      BY <2>4, <2>5, <2>6
    <2> HIDE DEF b, h
    <2>10. [AuctionNow EXCEPT !.bids = Append(@, Entry[h])] = [r EXCEPT !.bids = Append(@, e)]
      BY <2>7, <2>9
    <2> QED BY <2>4, <2>8, <2>10
  <1> HIDE DEF b, h
  <1> QED BY <1>1, <1>2, <1>4, <1>5, <1>6
          DEF Abstract!Next, Abstract!Join, AuctionNow, Entry, Closed, Decided, Halted, Answers,
              Offers, Outcomes

LEMMA ListenerImplements ==
  ASSUME AuctionInv, Listener
  PROVE  Abstract!Next \/ UNCHANGED Abstract!vars
  <1> USE DEF channels, storage, rpc
  <1>0. listener \in ListenerType /\ bidQ \in Seq(Bid) /\ contest \in Contest /\ None \notin Bid
    BY NoneAssumption DEF AuctionInv, Inv, TypeInv, TypeOK
  <1>1. UNCHANGED <<poller, completion, internalQ, contestQ, handler>>
    BY DEF Listener, ReceiveBid, AddBid, ReadProfile, WriteProfile
  <1>2. UNCHANGED <<Entry, Closed, Decided, Halted, Answers>>
    BY <1>1, Kept
  <1>3. CASE ReceiveBid
    <2>1. /\ listener.bid = None /\ listener'.bid = Head(bidQ) /\ bidQ # <<>>
          /\ bidQ' = Tail(bidQ) /\ contest' = contest
      BY <1>0, <1>3 DEF ReceiveBid, ListenerType
    <2>2. Range(bidQ) = {Head(bidQ)} \cup Range(Tail(bidQ)) /\ Head(bidQ) \in Bid
      <3>1. /\ Tail(bidQ) \in Seq(Bid) /\ Len(Tail(bidQ)) = Len(bidQ) - 1 /\ Len(bidQ) > 0
            /\ \A i \in 1..(Len(bidQ) - 1) : Tail(bidQ)[i] = bidQ[i + 1]
            /\ Head(bidQ) = bidQ[1]
        BY <1>0, <2>1, Shorter
      <3>2. Range(bidQ) \subseteq {Head(bidQ)} \cup Range(Tail(bidQ))
        <4> SUFFICES ASSUME NEW i \in 1..Len(bidQ), i # 1
                     PROVE  bidQ[i] \in Range(Tail(bidQ))
            BY <1>0, <3>1 DEF Range
        <4>1. PICK t : t = Tail(bidQ)
          OBVIOUS
        <4>2. t \in Seq(Bid) /\ i - 1 \in 1..Len(t) /\ t[i - 1] = bidQ[i]
          BY <1>0, <3>1, <4>1
        <4>3. i - 1 \in DOMAIN t
          BY <4>2
        <4> QED BY <4>1, <4>2, <4>3 DEF Range
      <3> QED BY <1>0, <2>1, <3>2, RangeLemma, HeadTailType
    <2>3. AtHand' = AtHand
      BY <1>0, <2>1, <2>2 DEF AtHand
    <2>4. Unheard' = Unheard /\ AuctionNow' = AuctionNow
      BY <2>1, <2>3, UnheardAtHand, Kept
    <2> QED BY <1>2, <2>4, Stutter
  <1>4. CASE AddBid /\ BidJoins
    BY <1>4, AddedBidJoins
  <1>5. ASSUME AtHand' \subseteq AtHand, contest' = contest PROVE Abstract!Next
    <2>1. Unheard' \subseteq Unheard /\ AuctionNow' = AuctionNow
      BY <1>5, UnheardAtHand, Kept
    <2> QED BY <1>2, <2>1, BidsTurnedAway
  <1>6. CASE AddBid /\ ~BidJoins
    <2>1. listener.bid \in Bid /\ listener'.bid = None /\ bidQ' = bidQ
      BY <1>0, <1>6 DEF AddBid, ListenerType
    <2>2. contest' = contest
      BY <1>6, <2>1 DEF AddBid, BidJoins
    <2>3. AtHand' \subseteq AtHand
      BY <2>1 DEF AtHand
    <2> QED BY <1>5, <2>2, <2>3
  <1>7. CASE ReadProfile \/ WriteProfile
    <2>1. contest' = contest
      BY <1>7 DEF ReadProfile, WriteProfile
    <2>2. CASE ListenerDies
      <3>1. AtHand' = {}
        BY <2>2, NoRange DEF ListenerDies, AtHand
      <3> QED BY <1>5, <2>1, <3>1
    <2>3. CASE ~ListenerDies
      <3>1. listener'.bid = None /\ bidQ' = bidQ
        <4>1. CASE WriteProfile
          BY <2>3, <4>1 DEF WriteProfile
        <4>2. CASE ReadProfile
          <5>1. PICK q : listener' = [listener EXCEPT !.pc = "update", !.bid = None, !.profile = q]
            BY <2>3, <4>2 DEF ReadProfile
          <5>2. bidQ' = bidQ
            BY <2>3, <4>2 DEF ReadProfile
          <5> QED BY <1>0, <5>1, <5>2 DEF ListenerType
        <4> QED BY <1>7, <4>1, <4>2
      <3>2. AtHand' \subseteq AtHand
        BY <3>1 DEF AtHand
      <3> QED BY <1>5, <2>1, <3>2
    <2> QED BY <2>2, <2>3
  <1> QED BY <1>3, <1>4, <1>6, <1>7 DEF Listener

LEMMA SubmissionImplements ==
  ASSUME AuctionInv, NEW h \in Handlers, SubmitBid(h)
  PROVE  Abstract!Next
  <1> USE DEF channels, storage, rpc
  <1>0. /\ handler \in [Handlers -> HandlerType] /\ bidQ \in Seq(Bid) /\ None \notin Bid
        /\ listener \in ListenerType
    BY NoneAssumption DEF AuctionInv, Inv, TypeInv, TypeOK
  <1>1. /\ handler[h].pc = "idle"
        /\ UNCHANGED <<contest, listener, poller, completion, internalQ, contestQ>>
    BY DEF SubmitBid
  <1>2. UNCHANGED <<AuctionNow, Closed, Decided, Halted>>
    BY <1>1, Kept
  <1>3. PICK b \in Bid : /\ b.by = h /\ bidQ' = Append(bidQ, b)
                         /\ handler' = [handler EXCEPT ![h].pc = "sent", ![h].bid = b]
    <2>1. PICK p \in Provers, a \in Amounts :
            LET b == [name |-> NameOf[p], addr |-> p, amount |-> a, by |-> h]
            IN  /\ bidQ' = Append(bidQ, b)
                /\ handler' = [handler EXCEPT ![h].pc = "sent", ![h].bid = b]
      BY DEF SubmitBid
    <2>2. [name |-> NameOf[p], addr |-> p, amount |-> a, by |-> h] \in Bid
      BY ProfilesAssumption DEF Bid
    <2> QED BY <2>1, <2>2
  <1>4. /\ handler[h].bid = None /\ {"pc", "bid"} \subseteq DOMAIN handler[h]
    BY <1>0, <1>1 DEF HandlerType
  <1>5. /\ handler'[h].pc = "sent" /\ handler'[h].bid = b
        /\ \A g \in Handlers : g # h => handler'[g] = handler[g]
    BY <1>0, <1>3, <1>4
  <1>6. Entry[h] = None /\ Entry' = [Entry EXCEPT ![h] = b]
    BY <1>4, <1>5 DEF Entry
  <1>7. Answers' = Answers
    BY <1>1, <1>5 DEF Answers, Told
  <1>8. Unheard' = Unheard \cup {h}
    <2>1. Range(bidQ') = Range(bidQ) \cup {b}
      BY <1>0, <1>3, RangeLemma
    <2>2. AtHand' = AtHand \cup {b}
      BY <1>1, <2>1 DEF AtHand
    <2> QED BY <1>3, <2>2, UnheardAtHand
  <1> QED BY <1>2, <1>6, <1>7, <1>8
          DEF Abstract!Next, Abstract!Submit, AuctionNow, Entry, Closed, Decided, Halted, Answers,
              Offers, Outcomes

\* A submit_bid call takes the oldest outcome.
LEMMA TakingImplements ==
  ASSUME AuctionInv, NEW h \in Handlers, TakeContest(h)
  PROVE  Abstract!Next
  <1> DEFINE c == Head(contestQ)
  <1> USE DEF channels, storage, rpc
  <1>0. /\ TypeInv /\ TypeInv' /\ contestQ \in Seq(Contest) /\ handler \in [Handlers -> HandlerType]
        /\ completion.pc \in {"store", "send"} => completion.contest \in Contest
    <2>1. TypeInv /\ Next
      BY DEF AuctionInv, Inv, Next, Rpc, Answer
    <2> QED BY <2>1, TypeInvStep DEF TypeInv, TypeOK, CompletionType
  <1>1. /\ contestQ # <<>> /\ contestQ' = Tail(contestQ) /\ Takes(h)
        /\ UNCHANGED <<contest, listener, poller, completion, bidQ, internalQ>>
    BY <1>0, TakeStep DEF TakeContest
  <1>2. UNCHANGED <<AuctionNow, Closed, Halted, Unheard>>
    <2>1. Unheard' = Unheard
      BY <1>1, Kept
    <2> QED BY <1>1, <2>1, Kept DEF Halted
  <1>3. c \in Contest /\ c.winner # None
    <2>1. c \in Contest /\ c \in Range(contestQ)
      BY <1>0, <1>1, HeadTailType, RangeLemma
    <2> QED BY <2>1 DEF AuctionInv, WinnersInv, Undecided
  <1>4. /\ Decided # <<>> /\ Head(Decided) = Outcome(c) /\ Decided' = Tail(Decided)
    <2>1. Winning # <<>> /\ Head(Winning) = c /\ Winning' = Tail(Winning)
      <3>1. \A d \in Contest : /\ Append(contestQ, d) # <<>>
                               /\ Head(Append(contestQ, d)) = Head(contestQ)
                               /\ Tail(Append(contestQ, d)) = Append(Tail(contestQ), d)
        BY <1>0, <1>1
      <3>2. CASE completion.pc \in {"store", "send"}
        <4>1. Winning = Append(contestQ, completion.contest)
          BY <1>0, <3>2, Places
        <4>2. Winning' = Append(Tail(contestQ), completion.contest)
          BY <1>0, <1>1, <3>2, PlacesAfter
        <4> QED BY <1>0, <3>1, <3>2, <4>1, <4>2
      <3>3. CASE completion.pc \notin {"store", "send"}
        BY <1>0, <1>1, <3>3, Places, PlacesAfter
      <3> QED BY <3>2, <3>3
    <2>2. Winning \in Seq(Contest)
      BY <1>0, Places
    <2>3. Decided' = Outcomes(Winning')
      BY DEF Decided, Outcomes
    <2> QED BY <2>1, <2>2, <2>3, OutcomesOf DEF Decided
  <1>5. Entry' = Entry /\ Entry[h] # None
    <2>1. \A g \in Handlers : handler'[g].bid = handler[g].bid
      BY <1>1 DEF Takes
    <2>2. handler[h].bid # None
      BY <1>1, NoneAssumption DEF Takes
    <2> QED BY <2>1, <2>2 DEF Entry
  <1>6. /\ Answers[h] = None
        /\ Answers' = [Answers EXCEPT ![h] = [id  |-> Head(Decided).id,
                                              won |-> Head(Decided).winner.addr = Entry[h].addr]]
    <2> DEFINE t == [id  |-> Head(Decided).id, won |-> Head(Decided).winner.addr = Entry[h].addr]
    <2>1. /\ Answers = [g \in Handlers |-> IF g \in Replied THEN Told(g) ELSE None]
          /\ Answers' = [g \in Handlers |-> IF g \in Replied' THEN Told(g)' ELSE None]
      BY DEF Answers, Replied, Told
    <2>2. h \notin Replied /\ Replied' = Replied \cup {h}
      BY <1>1 DEF Takes
    <2>3. \A g \in Replied : Told(g)' = Told(g)
      BY <1>1, <2>2 DEF Takes, Told, Replied
    <2>4. Told(h)' = t
      <3>1. /\ handler'[h].reply.contest = c.id
            /\ (handler'[h].reply.verdict = "won") = (c.winner.addr = handler[h].bid.addr)
        BY <1>1, <1>3 DEF Takes
      <3>2. Head(Decided).id = c.id /\ Head(Decided).winner = c.winner /\ Entry[h] = handler[h].bid
        BY <1>4 DEF Outcome, Entry
      <3> QED BY <3>1, <3>2, Zenon DEF Told
    <2> HIDE DEF t
    <2>5. Answers[h] = None
      BY <2>1, <2>2
    <2>6. Answers' = [g \in Handlers |-> IF g = h THEN t ELSE Answers[g]]
      BY <2>1, <2>2, <2>3, <2>4
    <2>7. DOMAIN Answers = Handlers
      BY DEF Answers
    <2>8. Answers' = [Answers EXCEPT ![h] = t]
      BY <2>6, <2>7
    <2> QED BY <2>5, <2>8 DEF t
  <1> QED BY <1>2, <1>4, <1>5, <1>6
          DEF Abstract!Next, Abstract!Tell, AuctionNow, Entry, Closed, Decided, Halted, Answers,
              Offers, Outcomes

LEMMA CallImplements ==
  ASSUME AuctionInv,
         (\E p \in Registrants : Register(p)) \/ (\E h \in Handlers : Rpc(h))
  PROVE  Abstract!Next \/ UNCHANGED Abstract!vars
  <1> USE DEF channels, storage, rpc
  <1>0. handler \in [Handlers -> HandlerType] /\ waiters \in Seq(Handlers) /\ WaitersWait
    BY DEF AuctionInv, Inv, TypeInv, TypeOK
  <1>1. CASE \E p \in Registrants : Register(p)
    <2>1. UNCHANGED <<contest, listener, poller, completion, bidQ, internalQ, contestQ, handler>>
      BY <1>1 DEF Register
    <2> QED BY <2>1, Kept, Stutter
  <1>2. CASE \E h \in Handlers : SubmitBid(h)
    BY <1>2, SubmissionImplements
  <1>3. CASE \E h \in Handlers : TakeContest(h)
    BY <1>3, TakingImplements
  <1>4. ASSUME NEW h \in Handlers, SubmitBidFails(h) \/ AwaitContest(h) \/ ContestsClosed(h)
        PROVE  UNCHANGED Abstract!vars
    <2>1. UNCHANGED <<contest, listener, poller, completion, bidQ, internalQ, contestQ>>
      BY <1>4 DEF SubmitBidFails, AwaitContest, ContestsClosed
    <2>2. /\ "pc" \in DOMAIN handler[h] /\ handler[h].pc # "replied"
          /\ \E pc \in {"failed", "waiting", "closed"} : handler' = [handler EXCEPT ![h].pc = pc]
      <3>1. handler[h] \in HandlerType /\ "pc" \in DOMAIN handler[h]
        BY <1>0 DEF HandlerType
      <3>2. waiters # <<>> /\ Head(waiters) = h => handler[h].pc = "waiting"
        BY <1>0 DEF WaitersWait
      <3> QED BY <1>4, <3>1, <3>2 DEF SubmitBidFails, AwaitContest, ContestsClosed
    <2>3. /\ \A g \in Handlers : handler'[g].bid = handler[g].bid /\ handler'[g].reply = handler[g].reply
          /\ \A g \in Handlers : handler'[g].pc = "replied" <=> handler[g].pc = "replied"
      BY <1>0, <2>2
    <2>4. Entry' = Entry /\ Answers' = Answers
      BY <2>3 DEF Entry, Answers, Told
    <2> QED BY <2>1, <2>4, Kept, Stutter
  <1> QED BY <1>1, <1>2, <1>3, <1>4 DEF Rpc, Answer

LEMMA AuctionStep ==
  ASSUME AuctionInv, Next
  PROVE  Abstract!Next \/ UNCHANGED Abstract!vars
  BY SchedulerImplements, ListenerImplements, PollerImplements, CompletionImplements,
     CallImplements DEF Next

(* The verifier keeps the promises of Auction: every behaviour of its      *)
(* tasks, channels and calls is one of auctions that are held one after    *)
(* the other, decided in their turn for one of their own bidders, and told *)
(* to one caller each (main.rs:339-501, networking.rs:138-218).            *)
THEOREM AuctionIsImplemented == Spec => ImplementsAuction
  <1>1. AuctionInv /\ [Next]_vars => [Abstract!Next]_(Abstract!vars)
    <2> SUFFICES ASSUME AuctionInv, [Next]_vars PROVE Abstract!Next \/ UNCHANGED Abstract!vars
        OBVIOUS
    <2>1. CASE UNCHANGED vars
      <3>1. UNCHANGED <<contest, listener, poller, completion, bidQ, internalQ, contestQ, handler>>
        BY <2>1 DEF vars, channels, rpc
      <3> QED BY <3>1, Kept, Stutter
    <2> QED BY <2>1, AuctionStep
  <1>2. Spec => Init /\ [][Next]_vars
    BY DEF Spec
  <1> QED BY <1>1, <1>2, AbstractInit, AuctionInvHolds, PTL DEF ImplementsAuction, Abstract!Spec
=============================================================================
