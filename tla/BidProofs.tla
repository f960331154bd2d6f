------------------------------ MODULE BidProofs ------------------------------
(***************************************************************************)
(* What becomes of a bid in ContestCycle, for every value of the           *)
(* constants: it is authentic, it takes part in at most one contest or is  *)
(* listed as rejected once, a contest has it before its end or is the one  *)
(* contest it comes late for, and each contest announced finds one of the  *)
(* handlers that bid to take it.  Then what is put on record: the order of *)
(* the stored contests, and the agreement of the verdicts of submit_bid    *)
(* with them.                                                              *)
(***************************************************************************)
EXTENDS ContestCycleProofs, FiniteSetTheorems

\* The contests other than the shared one: the clones under way, the records.
Held ==
       Range(internalQ) \cup Range(contestQ) \cup Range(stored)
  \cup {c \in {scheduler.copy, poller.copy, completion.contest} : c # None}

LEMMA EverywhereIsHeld == Everywhere = {contest} \cup Held
  BY DEF Everywhere, Held

LEMMA RangeLemma ==
  ASSUME NEW S, NEW s \in Seq(S)
  PROVE  /\ Range(s) \subseteq S
         /\ s # <<>> => Head(s) \in Range(s) /\ Range(Tail(s)) \subseteq Range(s)
         /\ \A e \in S : Range(Append(s, e)) = Range(s) \cup {e}
  <1>1. ASSUME s # <<>> PROVE Head(s) \in Range(s) /\ Range(Tail(s)) \subseteq Range(s)
    <2>1. 1 \in DOMAIN s /\ Head(s) = s[1]
      BY <1>1
    <2>2. \A i \in DOMAIN Tail(s) : i + 1 \in DOMAIN s /\ Tail(s)[i] = s[i + 1]
      BY <1>1
    <2> QED BY <2>1, <2>2 DEF Range
  <1>2. ASSUME NEW e \in S PROVE Range(Append(s, e)) = Range(s) \cup {e}
    <2>1. /\ DOMAIN Append(s, e) = DOMAIN s \cup {Len(s) + 1}
          /\ \A i \in DOMAIN s : Append(s, e)[i] = s[i]
          /\ Append(s, e)[Len(s) + 1] = e
      OBVIOUS
    <2> QED BY <2>1 DEF Range
  <1>3. Range(s) \subseteq S
    BY DEF Range
  <1> QED BY <1>1, <1>2, <1>3

LEMMA RangeGrows ==
  ASSUME NEW S, NEW s \in Seq(S), NEW e \in S, NEW t \in {s, Append(s, e)}
  PROVE  Range(t) \subseteq Range(s) \cup {e}
  BY RangeLemma

LEMMA NoRange == Range(<<>>) = {}
  BY DEF Range

LEMMA HeldTypes ==
  ASSUME TypeInv
  PROVE  /\ Everywhere \subseteq Contest
         /\ \A c \in Everywhere : Range(c.bids) \subseteq Bid
  <1>1. /\ contest \in Contest
        /\ internalQ \in Seq(Contest) /\ contestQ \in Seq(Contest) /\ stored \in Seq(Contest)
    BY DEF TypeInv, TypeOK
  <1>2. /\ scheduler.copy \in Contest \cup {None}
        /\ poller.copy \in Contest \cup {None}
        /\ completion.contest \in Contest \cup {None}
    BY DEF TypeInv, TypeOK, SchedulerType, PollerType, CompletionType
  <1>3. Everywhere \subseteq Contest
    BY <1>1, <1>2, RangeLemma DEF Everywhere
  <1>4. \A c \in Contest : c.bids \in Seq(Bid)
    BY DEF Contest
  <1> QED BY <1>3, <1>4, RangeLemma
-----------------------------------------------------------------------------
(* How the contests move.  Each held one is copied from one held before,   *)
(* or from the shared contest once that has ended; only get_winner changes *)
(* a copy.                                                                 *)

CopyOf(c, d) ==
  /\ c.id = d.id /\ c.status = d.status /\ c.bids = d.bids
  /\ c.winner \in {d.winner} \cup Range(d.bids)

LEMMA HeldStep ==
  ASSUME TypeInv, Next, NEW c \in Held'
  PROVE  \/ \E d \in Held : CopyOf(c, d)
         \/ c = contest /\ contest.status = "Ended" /\ contest' = contest
  <1> USE DEF channels, storage, rpc, GetProfile, StoreProfile, StoreContest
  <1>0. /\ listener \in ListenerType /\ poller \in PollerType
        /\ scheduler \in SchedulerType /\ completion \in CompletionType
        /\ internalQ \in Seq(Contest) /\ contestQ \in Seq(Contest) /\ stored \in Seq(Contest)
    BY DEF TypeInv, TypeOK
  <1>1. None \notin Contest
    BY NoneAssumption
  <1>2. ASSUME c \in Held PROVE \E d \in Held : CopyOf(c, d)
    BY <1>2 DEF CopyOf
  <1>3. CASE Scheduler
    <2>1. CASE StartFirst \/ EndContest \/ StartNext
      <3>1. UNCHANGED <<poller, completion, internalQ, contestQ, stored>>
        BY <2>1 DEF StartFirst, EndContest, StartNext
      <3>2. scheduler'.copy = scheduler.copy
        BY <1>0, <2>1 DEF StartFirst, EndContest, StartNext, SchedulerType
      <3> QED BY <1>2, <3>1, <3>2 DEF Held
    <2>2. CASE CopyEnded
      <3>1. UNCHANGED <<contest, poller, completion, internalQ, contestQ, stored>>
        BY <2>2 DEF CopyEnded
      <3>2. contest.status = "Ended" /\ scheduler'.copy = contest
        BY <2>2 DEF CopyEnded
      <3>3. c \in Held \cup {contest}
        BY <3>1, <3>2 DEF Held
      <3> QED BY <1>2, <3>1, <3>2, <3>3
    <2>3. CASE StoreEnded \/ StoreEndedFails
      <3>1. scheduler.copy \in Contest /\ scheduler'.copy = None
        BY <1>0, <2>3 DEF StoreEnded, StoreEndedFails, SchedulerType
      <3>2. stored' \in {stored, Append(stored, scheduler.copy)}
        BY <2>3 DEF StoreEnded, StoreEndedFails
      <3>3. Range(stored') \subseteq Range(stored) \cup {scheduler.copy}
        BY <1>0, <3>1, <3>2, RangeGrows
      <3>4. UNCHANGED <<poller, completion, internalQ, contestQ>>
        BY <2>3 DEF StoreEnded, StoreEndedFails
      <3>5. c \in Held
        BY <1>1, <3>1, <3>3, <3>4 DEF Held
      <3> QED BY <1>2, <3>5
    <2> QED BY <1>3, <2>1, <2>2, <2>3 DEF Scheduler
  <1>4. CASE Listener
    <2>1. UNCHANGED <<scheduler, poller, completion, internalQ, contestQ, stored>>
      BY <1>4 DEF Listener, ReceiveBid, AddBid, ReadProfile, WriteProfile
    <2> QED BY <1>2, <2>1 DEF Held
  <1>5. CASE Poller
    <2>1. UNCHANGED <<contest, scheduler, completion, contestQ, stored>>
      BY <1>5 DEF Poller, PollEnded, PollerSend, PollLive
    <2>2. CASE PollEnded
      <3>1. contest.status = "Ended" /\ poller'.copy = contest /\ internalQ' = internalQ
        BY <2>2 DEF PollEnded
      <3>2. c \in Held \cup {contest}
        BY <2>1, <3>1 DEF Held
      <3> QED BY <1>2, <2>1, <3>1, <3>2
    <2>3. CASE PollerSend
      <3>1. poller.copy \in Contest /\ poller'.copy = None
        BY <1>0, <2>3 DEF PollerSend, PollerType
      <3>2. internalQ' \in {internalQ, Append(internalQ, poller.copy)}
        BY <2>3 DEF PollerSend
      <3>3. Range(internalQ') \subseteq Range(internalQ) \cup {poller.copy}
        BY <1>0, <3>1, <3>2, RangeGrows
      <3>4. c \in Held
        BY <1>1, <2>1, <3>1, <3>3 DEF Held
      <3> QED BY <1>2, <3>4
    <2>4. CASE PollLive
      <3>1. poller'.copy = poller.copy /\ internalQ' = internalQ
        BY <1>0, <2>4 DEF PollLive, PollerType
      <3> QED BY <1>2, <2>1, <3>1 DEF Held
    <2> QED BY <1>5, <2>2, <2>3, <2>4 DEF Poller
  <1>6. CASE Completion
    <2>1. UNCHANGED <<scheduler, poller>>
      BY <1>6 DEF Completion, CompleteWithoutBids, SelectWinner, SelectionPanics, StoreWinner,
                  SendContest
    <2>2. CASE CompleteWithoutBids
      <3>1. UNCHANGED <<completion, contestQ, stored>> /\ Range(internalQ') \subseteq Range(internalQ)
        BY <1>0, <2>2, RangeLemma DEF CompleteWithoutBids
      <3> QED BY <1>2, <2>1, <3>1 DEF Held
    <2>3. CASE SelectWinner
      <3> DEFINE d == Head(internalQ)
      <3>1. PICK b \in Winners(d.bids) :
              completion' = [pc |-> "store", contest |-> [d EXCEPT !.winner = b]]
        BY <2>3 DEF SelectWinner
      <3>2. d \in Contest /\ d \in Range(internalQ) /\ Range(internalQ') \subseteq Range(internalQ)
        BY <1>0, <2>3, RangeLemma, HeadTailType DEF SelectWinner
      <3>3. CopyOf(completion'.contest, d)
        <4>1. b \in Range(d.bids)
          BY WinnerIsABid
        <4>2. completion'.contest = [d EXCEPT !.winner = b]
          BY <3>1
        <4> QED BY <3>2, <4>1, <4>2 DEF CopyOf, Contest
      <3>4. c \in Held \cup {completion'.contest} /\ d \in Held
        BY <2>1, <2>3, <3>2 DEF SelectWinner, Held
      <3> QED BY <1>2, <3>3, <3>4
    <2>4. CASE SelectionPanics
      <3>1. Range(internalQ') = {} /\ completion'.contest = None /\ UNCHANGED <<contestQ, stored>>
        BY <2>4, NoRange DEF SelectionPanics
      <3> QED BY <1>2, <2>1, <3>1 DEF Held
    <2>5. CASE StoreWinner
      <3>1. /\ completion.contest \in Contest /\ completion'.contest = completion.contest
            /\ stored' \in {stored, Append(stored, completion.contest)}
            /\ UNCHANGED <<internalQ, contestQ>>
        BY <1>0, <2>5 DEF StoreWinner, CompletionType
      <3>2. Range(stored') \subseteq Range(stored) \cup {completion.contest}
        BY <1>0, <3>1, RangeGrows
      <3>3. c \in Held
        BY <1>1, <2>1, <3>1, <3>2 DEF Held
      <3> QED BY <1>2, <3>3
    <2>6. CASE SendContest
      <3>1. completion.contest \in Contest
        BY <1>0, <2>6 DEF SendContest, CompletionType
      <3>2. /\ Range(contestQ') = Range(contestQ) \cup {completion.contest}
            /\ completion'.contest = None
            /\ UNCHANGED <<internalQ, stored>>
        BY <1>0, <2>6, <3>1, RangeLemma DEF SendContest
      <3>3. c \in Held
        BY <1>1, <2>1, <3>1, <3>2 DEF Held
      <3> QED BY <1>2, <3>3
    <2> QED BY <1>6, <2>2, <2>3, <2>4, <2>5, <2>6 DEF Completion
  <1>7. CASE (\E p \in Registrants : Register(p)) \/ (\E h \in Handlers : Rpc(h))
    <2>1. UNCHANGED <<scheduler, poller, completion, internalQ, stored>>
      BY <1>7 DEF Register, Rpc, Answer, SubmitBid, SubmitBidFails, AwaitContest, TakeContest,
                  ContestsClosed
    <2>2. contestQ' = contestQ \/ (contestQ # <<>> /\ contestQ' = Tail(contestQ))
      BY <1>7 DEF Register, Rpc, Answer, SubmitBid, SubmitBidFails, AwaitContest, TakeContest,
                  ContestsClosed
    <2>3. Range(contestQ') \subseteq Range(contestQ)
      BY <1>0, <2>2, RangeLemma
    <2> QED BY <1>2, <2>1, <2>3 DEF Held
  <1> QED BY <1>3, <1>4, <1>5, <1>6, <1>7 DEF Next

\* add_bid pushes the bid of the listener, unless its address has one.
BidJoins ==
  /\ listener.pc = "add" /\ listener.bid \in Bid
  /\ ~HasBidFrom(contest, listener.bid.addr)
  /\ contest' = [contest EXCEPT !.bids = Append(@, listener.bid)]

\* A new contest begins.
ContestBegins ==
  /\ contest'.status = "Live" /\ contest'.bids = <<>> /\ contest'.winner = None
  /\ \/ contest.status = "NotStarted" /\ contest'.id = 0
     \/ contest'.id = contest.id + 1

LEMMA ContestChange ==
  ASSUME TypeInv, Next
  PROVE  \/ contest' = contest
         \/ ContestBegins
         \/ contest.status = "Live" /\ contest' = [contest EXCEPT !.status = "Ended"]
         \/ AddBid /\ BidJoins
  <1>1. CASE Scheduler
    BY <1>1 DEF Scheduler, StartFirst, EndContest, CopyEnded, StoreEnded, StoreEndedFails,
                StartNext, StartContest, ContestBegins
  <1>2. CASE Listener
    <2>1. CASE AddBid
      <3>1. listener.bid \in Bid
        BY <2>1 DEF AddBid, TypeInv, TypeOK, ListenerType
      <3> QED BY <2>1, <3>1 DEF AddBid, BidJoins
    <2> QED BY <1>2, <2>1 DEF Listener, ReceiveBid, ReadProfile, WriteProfile
  <1>3. CASE Poller
    BY <1>3 DEF Poller, PollEnded, PollerSend, PollLive
  <1>4. CASE Completion
    BY <1>4 DEF Completion, CompleteWithoutBids, SelectWinner, SelectionPanics, StoreWinner,
                SendContest
  <1>5. CASE (\E p \in Registrants : Register(p)) \/ (\E h \in Handlers : Rpc(h))
    BY <1>5 DEF Register, Rpc, Answer, SubmitBid, SubmitBidFails, AwaitContest, TakeContest,
                ContestsClosed
  <1> QED BY <1>1, <1>2, <1>3, <1>4, <1>5 DEF Next
-----------------------------------------------------------------------------
(* The bids of a contest.                                                  *)

Sound(c) == DistinctBidders(c) /\ (c.winner # None => c.winner \in Range(c.bids))

LEMMA BidJoinsBids ==
  ASSUME TypeInv, BidJoins
  PROVE  /\ contest'.id = contest.id /\ contest'.status = contest.status
         /\ contest'.winner = contest.winner
         /\ contest'.bids = Append(contest.bids, listener.bid)
         /\ Range(contest'.bids) = Range(contest.bids) \cup {listener.bid}
         /\ DOMAIN contest'.bids = DOMAIN contest.bids \cup {Len(contest.bids) + 1}
         /\ \A i \in DOMAIN contest.bids : contest'.bids[i] = contest.bids[i]
         /\ contest'.bids[Len(contest.bids) + 1] = listener.bid
  <1>1. /\ contest'.id = contest.id /\ contest'.status = contest.status
        /\ contest'.winner = contest.winner
        /\ contest'.bids = Append(contest.bids, listener.bid)
        /\ contest.bids \in Seq(Bid) /\ listener.bid \in Bid
    BY DEF TypeInv, TypeOK, Contest, BidJoins
  <1>2. Range(contest'.bids) = Range(contest.bids) \cup {listener.bid}
    BY <1>1, RangeLemma
  <1>3. /\ DOMAIN contest'.bids = DOMAIN contest.bids \cup {Len(contest.bids) + 1}
        /\ \A i \in DOMAIN contest.bids : contest'.bids[i] = contest.bids[i]
        /\ contest'.bids[Len(contest.bids) + 1] = listener.bid
    BY <1>1
  <1> QED BY <1>1, <1>2, <1>3

LEMMA BidsStep ==
  ASSUME TypeInv, OneBidPerAddress, Next
  PROVE  OneBidPerAddress'
  <1>1. \A c \in Everywhere : Sound(c)
    BY DEF OneBidPerAddress, Sound
  <1>2. \A c \in Held' : Sound(c)
    <2>1. ASSUME NEW c \in Held', NEW d \in Held, CopyOf(c, d) PROVE Sound(c)
      BY <1>1, <2>1, EverywhereIsHeld DEF CopyOf, Sound, DistinctBidders
    <2> QED BY <1>1, <2>1, HeldStep, EverywhereIsHeld
  <1>3. Sound(contest')
    <2>0. Sound(contest)
      BY <1>1, EverywhereIsHeld
    <2>1. CASE ContestBegins
      BY <2>1 DEF ContestBegins, Sound, DistinctBidders
    <2>2. CASE contest' = [contest EXCEPT !.status = "Ended"]
      <3>1. contest'.bids = contest.bids /\ contest'.winner = contest.winner
        BY <2>2 DEF TypeInv, TypeOK, Contest
      <3> QED BY <2>0, <3>1 DEF Sound, DistinctBidders
    <2>3. CASE BidJoins
      <3>1. \A i \in DOMAIN contest.bids : contest.bids[i].addr # listener.bid.addr
        BY <2>3 DEF BidJoins, HasBidFrom
      <3>2. DistinctBidders(contest')
        BY <2>0, <2>3, <3>1, BidJoinsBids DEF Sound, DistinctBidders
      <3> QED BY <2>0, <2>3, <3>2, BidJoinsBids DEF Sound
    <2> QED BY <2>0, <2>1, <2>2, <2>3, ContestChange
  <1>4. \A c \in Everywhere' : Sound(c)
    BY <1>2, <1>3 DEF Everywhere, Held
  <1> QED BY <1>4 DEF OneBidPerAddress, Sound, DistinctBidders

LEMMA InitDistinct == Init => OneBidPerAddress
  <1> SUFFICES ASSUME Init PROVE OneBidPerAddress
      OBVIOUS
  <1>1. Everywhere = {contest} /\ contest = DefaultContest
    BY NoRange DEF Init, Everywhere
  <1> QED BY <1>1 DEF OneBidPerAddress, DistinctBidders, DefaultContest

(* No contest, in memory, under way or on record, holds two bids of one    *)
(* address, and a selected winner is one of the contest's own bids         *)
(* (execution.rs:48-60, data_structure.rs:197-255).                        *)
THEOREM BidsAreDistinct == Spec => []OneBidPerAddress
  <1>1. Init => OneBidPerAddress
    BY InitDistinct
  <1>2. TypeInv /\ OneBidPerAddress /\ [Next]_vars => OneBidPerAddress'
    <2>1. CASE UNCHANGED vars
      BY <2>1 DEF vars, channels, storage, rpc, OneBidPerAddress, Everywhere, DistinctBidders, Range
    <2> QED BY <2>1, BidsStep
  <1>3. Spec => []TypeInv
    BY TypeCorrect DEF TypeInv
  <1> QED BY <1>1, <1>2, <1>3, PTL DEF Spec
-----------------------------------------------------------------------------
(* The fate of a bid.  It is in one place at a time: at hand - in the      *)
(* channel or with the listener -, counted in contests of one id, or       *)
(* listed as rejected in one profile, of which there may be two versions.  *)

AtHand       == Range(bidQ) \cup {b \in {listener.bid} : b # None}
Counted      == UNION {Range(c.bids) : c \in Everywhere}
ProfilesHeld == {p \in {profiles[n] : n \in Names} \cup {listener.profile} : p # None}
Listed       == UNION {Range(p.bids) : p \in ProfilesHeld}

\* A bid is the bid of the call it came in with, unless that is one of D:
\* the calls that an earlier life of the verifier has taken with it.
Authentic(D) ==
  \A b \in AtHand \cup Counted \cup Listed : b.by \notin D => handler[b.by].bid = b

Gone(D) == \A h \in Handlers : h \in D => handler[h].pc = "failed"

Apart == /\ AtHand \cap Counted = {} /\ AtHand \cap Listed = {}
         /\ Counted \cap Listed = {}

HandedOnce == IsInjective(bidQ) /\ listener.bid \notin Range(bidQ)
ListedOnce == \A p \in ProfilesHeld : IsInjective(p.bids)

BidsInv(D) == Authentic(D) /\ Apart /\ HandedOnce /\ ListedOnce /\ BidCountsOnce

LEMMA BidTypes ==
  ASSUME TypeInv
  PROVE  /\ Counted \subseteq Bid /\ AtHand \subseteq Bid /\ Listed \subseteq Bid
         /\ ProfilesHeld \subseteq Profile
  <1>1. /\ bidQ \in Seq(Bid) /\ listener.bid \in Bid \cup {None}
        /\ listener.profile \in Profile \cup {None}
        /\ \A n \in Names : profiles[n] \in Profile \cup {None}
    BY DEF TypeInv, TypeOK, ListenerType
  <1>2. AtHand \subseteq Bid
    BY <1>1, RangeLemma DEF AtHand
  <1>3. ProfilesHeld \subseteq Profile
    BY <1>1 DEF ProfilesHeld
  <1>4. \A p \in Profile : Range(p.bids) \subseteq Bid
    BY RangeLemma DEF Profile
  <1> QED BY <1>2, <1>3, <1>4, HeldTypes DEF Counted, Listed

\* Where the bids of a contest come from.
LEMMA Origin ==
  ASSUME TypeInv, Next, NEW c \in Everywhere'
  PROVE  \/ Range(c.bids) = {}
         \/ \E d \in Everywhere : d.id = c.id /\ Range(c.bids) = Range(d.bids)
         \/ c = contest' /\ AddBid /\ BidJoins
  <1>1. ASSUME c \in Held' PROVE \E d \in Everywhere : d.id = c.id /\ Range(c.bids) = Range(d.bids)
    <2>1. ASSUME NEW d \in Held, CopyOf(c, d) PROVE d.id = c.id /\ Range(c.bids) = Range(d.bids)
      BY <2>1 DEF CopyOf
    <2> QED BY <1>1, <2>1, HeldStep, EverywhereIsHeld
  <1>2. CASE c = contest'
    <2>1. CASE ContestBegins
      BY <1>2, <2>1, NoRange DEF ContestBegins
    <2>2. CASE contest' = [contest EXCEPT !.status = "Ended"]
      <3>1. contest'.bids = contest.bids /\ contest'.id = contest.id
        BY <2>2 DEF TypeInv, TypeOK, Contest
      <3> QED BY <1>2, <3>1, EverywhereIsHeld
    <2> QED BY <1>2, <2>1, <2>2, ContestChange, EverywhereIsHeld
  <1>3. c = contest' \/ c \in Held'
    BY DEF Everywhere, Held
  <1> QED BY <1>1, <1>2, <1>3

LEMMA CountsOnceStep ==
  ASSUME TypeInv, Apart, BidCountsOnce, Next
  PROVE  /\ BidCountsOnce'
         /\ Counted' \subseteq Counted \/ (AddBid /\ BidJoins /\ Counted' \subseteq Counted \cup {listener.bid})
  <1>1. ASSUME NEW c \in Everywhere', NEW b \in Range(c.bids)
        PROVE  \/ \E d \in Everywhere : d.id = c.id /\ b \in Range(d.bids)
               \/ c = contest' /\ AddBid /\ BidJoins /\ b = listener.bid
    <2>1. CASE c = contest' /\ AddBid /\ BidJoins
      <3>1. /\ contest'.id = contest.id
            /\ Range(contest'.bids) = Range(contest.bids) \cup {listener.bid}
        BY <2>1, BidJoinsBids
      <3> QED BY <1>1, <2>1, <3>1, EverywhereIsHeld
    <2> QED BY <1>1, <2>1, Origin
  <1>2. AddBid /\ BidJoins => listener.bid \notin Counted
    <2>1. AddBid /\ BidJoins => listener.bid \in AtHand
      BY NoneAssumption DEF BidJoins, AtHand
    <2> QED BY <2>1 DEF Apart
  <1>3. Counted' \subseteq Counted \/ (AddBid /\ BidJoins /\ Counted' \subseteq Counted \cup {listener.bid})
    <2>1. \A b \in Counted' : \E c \in Everywhere' : b \in Range(c.bids)
      BY DEF Counted
    <2>2. \A b \in Counted' : b \in Counted \/ (AddBid /\ BidJoins /\ b = listener.bid)
      BY <1>1, <2>1 DEF Counted
    <2> QED BY <2>2
  <1>4. ASSUME NEW c \in Everywhere', NEW e \in Everywhere', NEW b \in Range(c.bids) \cap Range(e.bids)
        PROVE  c.id = e.id
    <2>1. CASE b \in Counted
      <3>1. ~(AddBid /\ BidJoins /\ b = listener.bid)
        BY <1>2, <2>1
      <3>2. PICK d \in Everywhere : d.id = c.id /\ b \in Range(d.bids)
        BY <1>1, <3>1
      <3>3. PICK f \in Everywhere : f.id = e.id /\ b \in Range(f.bids)
        BY <1>1, <3>1
      <3> QED BY <3>2, <3>3 DEF BidCountsOnce
    <2>2. CASE b \notin Counted
      <3>1. \A d \in Everywhere : b \notin Range(d.bids)
        BY <2>2 DEF Counted
      <3> QED BY <1>1, <3>1
    <2> QED BY <2>1, <2>2
  <1>5. BidCountsOnce'
    BY <1>4 DEF BidCountsOnce
  <1> QED BY <1>3, <1>5

\* A step that only moves bids on, or forgets them.
LEMMA FatesKept ==
  ASSUME NEW D, BidsInv(D), BidCountsOnce', TypeInv,
         \A h \in Handlers : handler'[h].bid = handler[h].bid,
         AtHand' \subseteq AtHand, Counted' \subseteq Counted, Listed' \subseteq Listed,
         HandedOnce', ListedOnce'
  PROVE  BidsInv(D)'
  <1>1. \A b \in AtHand \cup Counted \cup Listed : b.by \in Handlers
    BY BidTypes DEF Bid
  <1>2. Authentic(D)'
    BY <1>1 DEF BidsInv, Authentic
  <1>3. Apart'
    BY DEF BidsInv, Apart
  <1> QED BY <1>2, <1>3 DEF BidsInv

LEMMA InjectiveTail ==
  ASSUME NEW S, NEW s \in Seq(S), s # <<>>, IsInjective(s)
  PROVE  IsInjective(Tail(s)) /\ Head(s) \notin Range(Tail(s))
  <1>1. /\ 1 \in DOMAIN s /\ s[1] = Head(s)
        /\ \A i \in DOMAIN Tail(s) : i \in Int /\ i + 1 \in DOMAIN s /\ Tail(s)[i] = s[i + 1] /\ i + 1 # 1
    OBVIOUS
  <1>2. \A i, j \in DOMAIN s : s[i] = s[j] => i = j
    BY DEF IsInjective
  <1>3. ASSUME NEW i \in DOMAIN Tail(s), NEW j \in DOMAIN Tail(s), Tail(s)[i] = Tail(s)[j]
        PROVE  i = j
    <2>1. i + 1 = j + 1
      BY <1>1, <1>2, <1>3
    <2> QED BY <1>1, <2>1
  <1>4. Head(s) \notin Range(Tail(s))
    BY <1>1, <1>2 DEF Range
  <1> QED BY <1>3, <1>4 DEF IsInjective

LEMMA InjectiveAppend ==
  ASSUME NEW S, NEW s \in Seq(S), IsInjective(s), NEW e \in S, e \notin Range(s)
  PROVE  IsInjective(Append(s, e))
  <1> DEFINE t == Append(s, e)
  <1>1. /\ DOMAIN t = DOMAIN s \cup {Len(s) + 1}
        /\ \A i \in DOMAIN s : t[i] = s[i]
        /\ t[Len(s) + 1] = e
    OBVIOUS
  <1> HIDE DEF t
  <1>2. \A i \in DOMAIN s : s[i] # e
    BY DEF Range
  <1>3. \A i, j \in DOMAIN t : t[i] = t[j] => i = j
    BY <1>1, <1>2 DEF IsInjective
  <1>4. IsInjective(t)
    BY <1>3 DEF IsInjective
  <1> QED BY <1>4 DEF t

LEMMA ListenerBidsInv ==
  ASSUME NEW D, TypeInv, BidsInv(D), Listener
  PROVE  BidsInv(D)'
  <1> USE DEF channels, storage, rpc, GetProfile, StoreProfile, StoreContest
  <1>0. /\ bidQ \in Seq(Bid) /\ listener \in ListenerType
        /\ profiles \in [Names -> Profile \cup {None}]
        /\ Authentic(D) /\ Apart /\ HandedOnce /\ ListedOnce /\ BidCountsOnce
        /\ None \notin Bid /\ None \notin Profile
    BY NoneAssumption DEF TypeInv, TypeOK, BidsInv
  <1>1. BidCountsOnce' /\ (AddBid \/ Counted' \subseteq Counted)
    BY <1>0, CountsOnceStep DEF Next
  <1>2. \A h \in Handlers : handler'[h].bid = handler[h].bid
    BY DEF Listener, ReceiveBid, AddBid, ReadProfile, WriteProfile
  <1>3. CASE ReceiveBid
    <2> DEFINE b == Head(bidQ)
    <2>1. /\ b \in Range(bidQ) /\ Range(Tail(bidQ)) \subseteq Range(bidQ)
          /\ IsInjective(Tail(bidQ)) /\ b \notin Range(Tail(bidQ))
      BY <1>0, <1>3, RangeLemma, InjectiveTail DEF ReceiveBid, HandedOnce
    <2>2. /\ listener'.bid = b /\ bidQ' = Tail(bidQ) /\ listener'.profile = None
          /\ profiles' = profiles
      BY <1>3 DEF ReceiveBid
    <2>3. AtHand' \subseteq AtHand /\ HandedOnce'
      BY <2>1, <2>2 DEF AtHand, HandedOnce
    <2>4. ProfilesHeld' \subseteq ProfilesHeld
      BY <2>2 DEF ProfilesHeld
    <2>5. Listed' \subseteq Listed /\ ListedOnce'
      BY <1>0, <2>4 DEF Listed, ListedOnce
    <2>6. ~AddBid
      BY <1>3 DEF ReceiveBid, AddBid
    <2> QED BY <1>1, <1>2, <2>3, <2>5, <2>6, FatesKept
  <1>4. CASE AddBid
    <2> DEFINE b == listener.bid
    <2>1. /\ b \in Bid /\ b \in AtHand /\ b \notin Range(bidQ)
      BY <1>0, <1>4 DEF AddBid, ListenerType, AtHand, HandedOnce
    <2>2. /\ listener'.bid = None /\ bidQ' = bidQ /\ listener'.profile = listener.profile
          /\ profiles' = profiles
      BY <1>0, <1>4 DEF AddBid, ListenerType
    <2>3. AtHand' = Range(bidQ) /\ AtHand' \subseteq AtHand /\ HandedOnce'
      <3>1. None \notin Range(bidQ)
        BY <1>0, RangeLemma
      <3> QED BY <1>0, <2>2, <3>1 DEF AtHand, HandedOnce
    <2>4. ProfilesHeld' = ProfilesHeld
      BY <2>2 DEF ProfilesHeld
    <2>5. Listed' = Listed /\ ListedOnce'
      BY <1>0, <2>4 DEF Listed, ListedOnce
    <2>6. CASE Counted' \subseteq Counted
      BY <1>1, <1>2, <2>3, <2>5, <2>6, FatesKept
    <2>7. CASE Counted' \subseteq Counted \cup {b}
      <3>1. \A d \in AtHand \cup Counted \cup Listed : d.by \in Handlers
        BY BidTypes DEF Bid
      <3>2. Authentic(D)'
        BY <1>0, <1>2, <2>1, <2>3, <2>5, <2>7, <3>1 DEF Authentic
      <3>3. Apart'
        BY <1>0, <2>1, <2>3, <2>5, <2>7 DEF Apart
      <3> QED BY <1>1, <2>3, <2>5, <3>2, <3>3 DEF BidsInv
    <2> QED BY <1>0, <2>6, <2>7, CountsOnceStep, <1>4 DEF Next, Listener
  <1>5. ASSUME ListenerDies, ProfilesHeld' \subseteq ProfilesHeld, ~AddBid PROVE BidsInv(D)'
    <2>1. bidQ' = <<>> /\ listener'.bid = None
      BY <1>5 DEF ListenerDies
    <2>2. AtHand' = {} /\ HandedOnce'
      BY <2>1, NoRange DEF AtHand, HandedOnce, IsInjective
    <2>3. Listed' \subseteq Listed /\ ListedOnce'
      BY <1>0, <1>5 DEF Listed, ListedOnce
    <2> QED BY <1>1, <1>2, <1>5, <2>2, <2>3, FatesKept
  <1>6. CASE ReadProfile
    <2> DEFINE b == listener.bid
               p == profiles[listener.bid.name]
               q == [p EXCEPT !.bids = Append(@, b)]
    <2>1. /\ b \in Bid /\ b \in AtHand /\ b \notin Range(bidQ) /\ ~AddBid
      BY <1>0, <1>6 DEF ReadProfile, AddBid, ListenerType, AtHand, HandedOnce
    <2>2. profiles' = profiles
      BY <1>6 DEF ReadProfile
    <2>3. CASE ListenerDies
      <3>1. ProfilesHeld' \subseteq ProfilesHeld
        BY <2>2, <2>3 DEF ListenerDies, ProfilesHeld
      <3> QED BY <1>5, <2>1, <2>3, <3>1
    <2>4. CASE ~ListenerDies
      <3>1. /\ p # None /\ bidQ' = bidQ
            /\ listener' = [listener EXCEPT !.pc = "update", !.bid = None, !.profile = q]
        BY <1>6, <2>4 DEF ReadProfile
      <3>2. b.name \in Names
        BY <2>1 DEF Bid
      <3>3. p \in Profile /\ p \in ProfilesHeld
        BY <1>0, <3>1, <3>2 DEF ProfilesHeld
      <3>4. p.bids \in Seq(Bid) /\ q.bids = Append(p.bids, b)
        BY <3>3 DEF Profile
      <3>5. listener'.bid = None /\ listener'.profile = q
        <4> HIDE DEF q
        <4> QED BY <1>0, <1>6, <3>1 DEF ReadProfile, ListenerType
      <3> HIDE DEF q
      <3>6. Range(q.bids) = Range(p.bids) \cup {b}
        BY <2>1, <3>4, RangeLemma
      <3>7. ProfilesHeld' \subseteq ProfilesHeld \cup {q}
        BY <2>2, <3>5 DEF ProfilesHeld
      <3>8. Range(p.bids) \subseteq Listed
        BY <3>3 DEF Listed
      <3>9. Listed' \subseteq Listed \cup {b}
        BY <3>6, <3>7, <3>8 DEF Listed
      <3>10. b \notin Range(p.bids)
        BY <1>0, <2>1, <3>8 DEF Apart
      <3>11. ListedOnce'
        <4>1. IsInjective(q.bids)
          BY <1>0, <2>1, <3>3, <3>4, <3>10, InjectiveAppend DEF ListedOnce
        <4> QED BY <1>0, <3>7, <4>1 DEF ListedOnce
      <3>12. AtHand' = Range(bidQ) /\ HandedOnce' /\ AtHand' \subseteq AtHand
        <4>1. None \notin Range(bidQ)
          BY <1>0, RangeLemma
        <4> QED BY <1>0, <3>1, <3>5, <4>1 DEF AtHand, HandedOnce
      <3>13. \A d \in AtHand \cup Counted \cup Listed : d.by \in Handlers
        BY BidTypes DEF Bid
      <3>14. Counted' \subseteq Counted
        BY <1>1, <2>1
      <3>15. Authentic(D)'
        BY <1>0, <1>2, <2>1, <3>9, <3>12, <3>13, <3>14 DEF Authentic
      <3>16. Apart'
        BY <1>0, <2>1, <3>9, <3>12, <3>14 DEF Apart
      <3> QED BY <1>1, <3>11, <3>12, <3>15, <3>16 DEF BidsInv
    <2> QED BY <2>3, <2>4
  <1>7. CASE WriteProfile
    <2>1. listener.profile \in Profile /\ listener.bid = None /\ ~AddBid
      BY <1>0, <1>7 DEF WriteProfile, ListenerType, AddBid
    <2>2. profiles' = profiles \/ profiles' = [profiles EXCEPT ![NameOf[listener.profile.addr]] = listener.profile]
      BY <1>7 DEF WriteProfile
    <2>3. listener'.profile = None /\ listener'.bid = None
      BY <1>7 DEF WriteProfile, ListenerDies
    <2>4. ProfilesHeld' \subseteq ProfilesHeld
      BY <1>0, <2>2, <2>3 DEF ProfilesHeld
    <2>5. CASE ListenerDies
      BY <1>5, <2>1, <2>4, <2>5
    <2>6. CASE bidQ' = bidQ
      <3>1. AtHand' = AtHand /\ HandedOnce'
        BY <1>0, <2>1, <2>3, <2>6 DEF AtHand, HandedOnce
      <3>2. Listed' \subseteq Listed /\ ListedOnce'
        BY <1>0, <2>4 DEF Listed, ListedOnce
      <3> QED BY <1>1, <1>2, <2>1, <3>1, <3>2, FatesKept
    <2> QED BY <1>7, <2>5, <2>6 DEF WriteProfile
  <1> QED BY <1>3, <1>4, <1>6, <1>7 DEF Listener

LEMMA CallBidsInv ==
  ASSUME NEW D, Gone(D), TypeInv, BidsInv(D),
         (\E p \in Registrants : Register(p)) \/ (\E h \in Handlers : Rpc(h))
  PROVE  BidsInv(D)'
  <1> USE DEF channels, storage, rpc, GetProfile, StoreProfile, StoreContest
  <1>0. /\ bidQ \in Seq(Bid) /\ handler \in [Handlers -> HandlerType]
        /\ profiles \in [Names -> Profile \cup {None}]
        /\ Authentic(D) /\ Apart /\ HandedOnce /\ ListedOnce /\ BidCountsOnce
        /\ None \notin Bid /\ None \notin Profile
    BY NoneAssumption DEF TypeInv, TypeOK, BidsInv
  <1>1. listener' = listener
    BY DEF Register, Rpc, Answer, SubmitBid, SubmitBidFails, AwaitContest, TakeContest,
           ContestsClosed
  <1>2. BidCountsOnce' /\ Counted' \subseteq Counted
    <2>1. ~AddBid
      <3>1. AddBid => listener' # listener
        BY DEF TypeInv, TypeOK, ListenerType, AddBid
      <3> QED BY <1>1, <3>1
    <2> QED BY <1>0, <2>1, CountsOnceStep DEF Next
  <1>3. ASSUME bidQ' = bidQ, ProfilesHeld' \subseteq ProfilesHeld \cup {NewProfile(p) : p \in Provers},
               \A h \in Handlers : handler'[h].bid = handler[h].bid
        PROVE  BidsInv(D)'
    <2>1. AtHand' = AtHand /\ HandedOnce'
      BY <1>0, <1>1, <1>3 DEF AtHand, HandedOnce
    <2>2. \A p \in Provers : Range(NewProfile(p).bids) = {} /\ IsInjective(NewProfile(p).bids)
      BY NoRange DEF NewProfile, IsInjective
    <2>3. ASSUME NEW q \in ProfilesHeld', q \notin ProfilesHeld
          PROVE  Range(q.bids) = {} /\ IsInjective(q.bids)
      <3>1. PICK p \in Provers : q = NewProfile(p)
        BY <1>3, <2>3
      <3> QED BY <2>2, <3>1
    <2>4. Listed' \subseteq Listed
      BY <2>3 DEF Listed
    <2>5. ListedOnce'
      BY <1>0, <2>3 DEF ListedOnce
    <2> QED BY <1>2, <1>3, <2>1, <2>4, <2>5, FatesKept
  <1>4. ASSUME NEW p \in Registrants, Register(p) PROVE BidsInv(D)'
    <2>1. /\ bidQ' = bidQ /\ handler' = handler
          /\ profiles' = [profiles EXCEPT ![NameOf[NewProfile(p).addr]] = NewProfile(p)]
      BY <1>4 DEF Register, Registration
    <2>2. \A n \in Names : profiles'[n] \in {profiles[n], NewProfile(p)}
      BY <1>0, <2>1
    <2>3. ProfilesHeld' \subseteq ProfilesHeld \cup {NewProfile(p)} /\ p \in Provers
      BY <1>1, <2>2, ProfilesAssumption DEF ProfilesHeld
    <2> QED BY <1>3, <2>1, <2>3
  <1>5. ASSUME NEW h \in Handlers, Rpc(h), ~SubmitBid(h) PROVE BidsInv(D)'
    <2>1. bidQ' = bidQ /\ profiles' = profiles
      BY <1>5 DEF Rpc, Answer, SubmitBidFails, AwaitContest, TakeContest, ContestsClosed
    <2>2. \A g \in Handlers : handler'[g].bid = handler[g].bid
      <3>1. CASE TakeContest(h)
        BY <1>0, <3>1 DEF TakeContest
      <3>2. CASE SubmitBidFails(h)
        BY <1>0, <3>2 DEF SubmitBidFails
      <3>3. CASE AwaitContest(h)
        BY <1>0, <3>3 DEF AwaitContest
      <3>4. CASE ContestsClosed(h)
        BY <1>0, <3>4 DEF ContestsClosed
      <3> QED BY <1>5, <3>1, <3>2, <3>3, <3>4 DEF Rpc, Answer
    <2>3. ProfilesHeld' = ProfilesHeld
      BY <1>1, <2>1 DEF ProfilesHeld
    <2> QED BY <1>3, <2>1, <2>2, <2>3
  <1>6. ASSUME NEW h \in Handlers, SubmitBid(h) PROVE BidsInv(D)'
    <2>1. PICK p \in Provers, a \in Amounts :
            LET b == [name |-> NameOf[p], addr |-> p, amount |-> a, by |-> h]
            IN  /\ bidQ' = Append(bidQ, b)
                /\ handler' = [handler EXCEPT ![h].pc = "sent", ![h].bid = b]
      BY <1>6 DEF SubmitBid
    <2> DEFINE b == [name |-> NameOf[p], addr |-> p, amount |-> a, by |-> h]
    <2>2. b \in Bid /\ b.by = h
      BY ProfilesAssumption DEF Bid
    <2> HIDE DEF b
    <2>3. /\ bidQ' = Append(bidQ, b) /\ handler'[h].bid = b
          /\ \A g \in Handlers : g # h => handler'[g] = handler[g]
          /\ handler[h].bid = None /\ profiles' = profiles
      <3>1. /\ bidQ' = Append(bidQ, b) /\ profiles' = profiles
            /\ handler' = [handler EXCEPT ![h].pc = "sent", ![h].bid = b]
        BY <1>6, <2>1 DEF SubmitBid, b
      <3>2. handler[h].bid = None /\ "bid" \in DOMAIN handler[h]
        BY <1>0, <1>6 DEF SubmitBid, HandlerType
      <3> QED BY <1>0, <3>1, <3>2
    <2>4. \A d \in AtHand \cup Counted \cup Listed : d \in Bid /\ d.by # h
      <3>1. \A d \in AtHand \cup Counted \cup Listed : d \in Bid
        BY BidTypes
      <3>2. h \notin D
        BY <1>6 DEF SubmitBid, Gone
      <3> QED BY <1>0, <2>3, <3>1, <3>2 DEF Authentic
    <2>5. b \notin AtHand \cup Counted \cup Listed
      BY <2>2, <2>4
    <2>6. AtHand' = AtHand \cup {b}
      <3>1. Range(bidQ') = Range(bidQ) \cup {b}
        BY <1>0, <2>2, <2>3, RangeLemma
      <3> QED BY <1>1, <3>1 DEF AtHand
    <2>7. HandedOnce'
      <3>1. b \notin Range(bidQ) /\ (listener.bid # None => b # listener.bid)
        BY <2>5 DEF AtHand
      <3>2. IsInjective(bidQ')
        BY <1>0, <2>2, <2>3, <3>1, InjectiveAppend DEF HandedOnce
      <3>3. Range(bidQ') = Range(bidQ) \cup {b}
        BY <1>0, <2>2, <2>3, RangeLemma
      <3> QED BY <1>0, <1>1, <2>2, <3>1, <3>2, <3>3 DEF HandedOnce
    <2>8. ProfilesHeld' = ProfilesHeld
      BY <1>1, <2>3 DEF ProfilesHeld
    <2>9. Listed' = Listed /\ ListedOnce'
      BY <1>0, <2>8 DEF Listed, ListedOnce
    <2>10. Authentic(D)'
      <3>1. \A d \in AtHand \cup Counted \cup Listed : d.by \in Handlers /\ d.by # h
        BY <2>4 DEF Bid
      <3>2. \A d \in AtHand \cup Counted \cup Listed : d.by \notin D => handler'[d.by].bid = d
        BY <1>0, <2>3, <3>1 DEF Authentic
      <3>3. handler'[b.by].bid = b
        BY <2>2, <2>3
      <3> QED BY <1>2, <2>6, <2>9, <3>2, <3>3 DEF Authentic
    <2>11. Apart'
      BY <1>0, <1>2, <2>5, <2>6, <2>9 DEF Apart
    <2> QED BY <1>2, <2>7, <2>9, <2>10, <2>11 DEF BidsInv
  <1> QED BY <1>4, <1>5, <1>6

LEMMA BidsInvStep ==
  ASSUME NEW D, Gone(D), TypeInv, BidsInv(D), [Next]_vars
  PROVE  BidsInv(D)'
  <1>0. Authentic(D) /\ Apart /\ HandedOnce /\ ListedOnce /\ BidCountsOnce
    BY DEF BidsInv
  <1>1. ASSUME UNCHANGED <<bidQ, listener, profiles, handler>>, BidCountsOnce',
               Counted' \subseteq Counted
        PROVE  BidsInv(D)'
    <2>1. AtHand' = AtHand /\ HandedOnce' /\ ProfilesHeld' = ProfilesHeld
      BY <1>0, <1>1 DEF AtHand, HandedOnce, ProfilesHeld
    <2>2. Listed' = Listed /\ ListedOnce'
      BY <1>0, <2>1 DEF Listed, ListedOnce
    <2> QED BY <1>1, <2>1, <2>2, FatesKept
  <1>2. CASE Scheduler \/ Poller \/ Completion
    <2>1. UNCHANGED <<bidQ, listener, profiles, handler>>
      <3>1. CASE Scheduler
        BY <3>1 DEF Scheduler, StartFirst, EndContest, CopyEnded, StoreEnded, StoreEndedFails,
                    StartNext, channels, storage, rpc
      <3>2. CASE Poller
        BY <3>2 DEF Poller, PollEnded, PollerSend, PollLive, channels, storage, rpc
      <3>3. CASE Completion
        BY <3>3 DEF Completion, CompleteWithoutBids, SelectWinner, SelectionPanics, StoreWinner,
                    SendContest, channels, storage, rpc
      <3> QED BY <1>2, <3>1, <3>2, <3>3
    <2>2. ~AddBid
      <3>1. AddBid => listener' # listener
        BY DEF TypeInv, TypeOK, ListenerType, AddBid
      <3> QED BY <2>1, <3>1
    <2> QED BY <1>0, <1>1, <1>2, <2>1, <2>2, CountsOnceStep DEF Next
  <1>3. CASE Listener
    BY <1>3, ListenerBidsInv
  <1>4. CASE (\E p \in Registrants : Register(p)) \/ (\E h \in Handlers : Rpc(h))
    BY <1>4, CallBidsInv
  <1>5. CASE UNCHANGED vars
    <2>1. UNCHANGED <<bidQ, listener, profiles, handler>> /\ Everywhere' = Everywhere
      BY <1>5 DEF vars, channels, storage, rpc, Everywhere
    <2>2. BidCountsOnce' /\ Counted' = Counted
      BY <1>0, <2>1 DEF BidCountsOnce, Counted
    <2> QED BY <1>1, <2>1, <2>2
  <1> QED BY <1>2, <1>3, <1>4, <1>5 DEF Next

LEMMA InitBidsInv == Init => BidsInv({})
  <1> SUFFICES ASSUME Init PROVE BidsInv({})
      OBVIOUS
  <1>1. Everywhere = {contest} /\ contest.bids = <<>>
    BY NoRange DEF Init, Everywhere, DefaultContest
  <1>2. AtHand = {} /\ Counted = {} /\ HandedOnce /\ BidCountsOnce
    BY <1>1, NoRange DEF Init, AtHand, Counted, HandedOnce, IsInjective, BidCountsOnce
  <1>3. \A p \in ProfilesHeld : p.bids = <<>>
    <2>1. \A n \in Names : profiles[n] \in {NewProfile(p) : p \in Provers} \cup {None}
      BY DEF Init, InitProfiles
    <2> QED BY <2>1 DEF Init, ProfilesHeld, NewProfile
  <1>4. Listed = {} /\ ListedOnce
    BY <1>3, NoRange DEF Listed, ListedOnce, IsInjective
  <1> QED BY <1>2, <1>4 DEF BidsInv, Authentic, Apart

LEMMA BidsInvHolds == Spec => [](TypeInv /\ BidsInv({}))
  <1>1. TypeInv /\ BidsInv({}) /\ [Next]_vars => BidsInv({})'
    <2>1. Gone({})
      BY DEF Gone
    <2> QED BY <2>1, BidsInvStep
  <1> QED BY <1>1, InitTypeInv, TypeInvStep, InitBidsInv, PTL DEF Spec

LEMMA OneFate ==
  ASSUME NEW D, TypeInv, BidsInv(D)
  PROVE  BidHasOneFate
  <1> SUFFICES ASSUME NEW n \in Names, profiles[n] # None
               PROVE  /\ \A i, j \in DOMAIN profiles[n].bids :
                           profiles[n].bids[i] = profiles[n].bids[j] => i = j
                      /\ \A c \in Everywhere : Range(c.bids) \cap Range(profiles[n].bids) = {}
      BY NoRange DEF BidHasOneFate
  <1>1. profiles[n] \in ProfilesHeld
    BY DEF ProfilesHeld
  <1>2. Range(profiles[n].bids) \subseteq Listed
    BY <1>1 DEF Listed
  <1>3. \A c \in Everywhere : Range(c.bids) \subseteq Counted
    BY DEF Counted
  <1>4. IsInjective(profiles[n].bids)
    BY <1>1 DEF BidsInv, ListedOnce
  <1> QED BY <1>2, <1>3, <1>4 DEF BidsInv, Apart, IsInjective

(* A submitted bid counts in one contest only, however long it or a clone  *)
(* of its contest is under way (execution.rs:30-60).                       *)
THEOREM BidsCountOnce == Spec => []BidCountsOnce
  BY BidsInvHolds, PTL DEF BidsInv

(* A bid takes part in a contest or is listed as rejected once, never both,*)
(* whichever tasks replace the profile in the meantime and whichever       *)
(* accesses fail (main.rs:349-375, networking.rs:221-237).                 *)
THEOREM BidsHaveOneFate == Spec => []BidHasOneFate
  <1>1. TypeInv /\ BidsInv({}) => BidHasOneFate
    BY OneFate
  <1> QED BY <1>1, BidsInvHolds, PTL
-----------------------------------------------------------------------------
(* Late bids.  What is held has ended, not after the shared contest; as    *)
(* long as the listener still has a bid it checked before the end, nothing *)
(* has come between the clones and the shared contest.                     *)

EndedInv ==
  \A c \in Held : /\ c.status = "Ended" /\ c.id <= contest.id
                  /\ contest.status # "Ended" => c.id < contest.id

LateInv ==
  contest.status = "Ended" /\ listener.pc = "add" =>
    \A c \in Held : c.id = contest.id => c.bids = contest.bids

LEMMA EndedStep ==
  ASSUME Inv, EndedInv, Next
  PROVE  EndedInv'
  <1>0. /\ TypeInv /\ contest.id \in Nat
        /\ contest.status = "NotStarted" => contest.id = 0
    BY DEF Inv, TypeInv, TypeOK, Contest, PipelineInv, PipelineBehind
  <1>1. \A d \in Held : d.id \in Nat
    BY <1>0, HeldTypes, EverywhereIsHeld DEF Contest
  <1> SUFFICES ASSUME NEW c \in Held'
               PROVE  /\ c.status = "Ended" /\ c.id <= contest'.id
                      /\ contest'.status # "Ended" => c.id < contest'.id
      BY DEF EndedInv
  <1>2. CASE c = contest /\ contest.status = "Ended" /\ contest' = contest
    BY <1>0, <1>2
  <1>3. ASSUME NEW d \in Held, CopyOf(c, d)
        PROVE  /\ c.status = "Ended" /\ c.id <= contest'.id
               /\ contest'.status # "Ended" => c.id < contest'.id
    <2>1. /\ c.id = d.id /\ c.status = "Ended" /\ c.id <= contest.id /\ c.id \in Nat
          /\ contest.status # "Ended" => c.id < contest.id
      BY <1>1, <1>3 DEF CopyOf, EndedInv
    <2>2. CASE ContestBegins
      BY <1>0, <2>1, <2>2 DEF ContestBegins
    <2>3. CASE contest.status = "Live" /\ contest' = [contest EXCEPT !.status = "Ended"]
      <3>1. contest'.id = contest.id /\ contest'.status = "Ended"
        BY <1>0, <2>3 DEF TypeInv, TypeOK, Contest
      <3> QED BY <2>1, <3>1
    <2>4. CASE BidJoins
      BY <1>0, <2>1, <2>4, BidJoinsBids
    <2> QED BY <1>0, <2>1, <2>2, <2>3, <2>4, ContestChange
  <1> QED BY <1>0, <1>2, <1>3, HeldStep

LEMMA LateStep ==
  ASSUME Inv, EndedInv, LateInv, Next
  PROVE  LateInv'
  <1>0. TypeInv /\ contest.id \in Nat
    BY DEF Inv, TypeInv, TypeOK, Contest
  <1> SUFFICES ASSUME contest'.status = "Ended", listener'.pc = "add",
                      NEW c \in Held', c.id = contest'.id
               PROVE  c.bids = contest'.bids
      BY DEF LateInv
  <1>1. listener.pc = "add" \/ contest.status = "Live"
    <2>1. CASE Listener
      <3>1. CASE ReceiveBid
        BY <3>1 DEF ReceiveBid, IsLive
      <3>2. CASE AddBid
        BY <3>2 DEF AddBid
      <3>3. CASE ReadProfile
        <4>1. listener.pc = "reject" /\ listener \in [pc : {"add", "reject"}, bid : Bid, profile : {None}]
          BY <1>0, <3>3 DEF ReadProfile, TypeInv, TypeOK, ListenerType
        <4>2. CASE ListenerDies
          BY <4>2 DEF ListenerDies
        <4>3. CASE ~ListenerDies
          <5>1. PICK x : listener' = [listener EXCEPT !.pc = "update", !.bid = None, !.profile = x]
            BY <3>3, <4>3, Zenon DEF ReadProfile
          <5> QED BY <4>1, <5>1
        <4> QED BY <4>2, <4>3
      <3>4. CASE WriteProfile
        BY <3>4 DEF WriteProfile, ListenerDies
      <3> QED BY <2>1, <3>1, <3>2, <3>3, <3>4 DEF Listener
    <2>2. CASE Scheduler
      BY <2>2 DEF Scheduler, StartFirst, EndContest, CopyEnded, StoreEnded, StoreEndedFails, StartNext
    <2>3. CASE Poller
      BY <2>3 DEF Poller, PollEnded, PollerSend, PollLive
    <2>4. CASE Completion
      BY <2>4 DEF Completion, CompleteWithoutBids, SelectWinner, SelectionPanics, StoreWinner,
                  SendContest
    <2>5. CASE (\E p \in Registrants : Register(p)) \/ (\E h \in Handlers : Rpc(h))
      BY <2>5 DEF Register, Rpc, Answer, SubmitBid, SubmitBidFails, AwaitContest, TakeContest,
                  ContestsClosed
    <2> QED BY <2>1, <2>2, <2>3, <2>4, <2>5 DEF Next
  <1>2. ~AddBid
    <2>1. AddBid => listener'.pc = "recv"
      BY <1>0 DEF AddBid, TypeInv, TypeOK, ListenerType
    <2> QED BY <2>1
  <1>3. CASE contest' = contest
    <2>1. listener.pc = "add" /\ contest.status = "Ended"
      BY <1>1, <1>3
    <2>2. ASSUME NEW d \in Held, CopyOf(c, d) PROVE c.bids = contest.bids
      BY <1>3, <2>1, <2>2 DEF CopyOf, LateInv
    <2> QED BY <1>0, <1>3, <2>2, HeldStep
  <1>4. CASE contest.status = "Live" /\ contest' = [contest EXCEPT !.status = "Ended"]
    <2>1. contest'.id = contest.id
      BY <1>0, <1>4 DEF TypeInv, TypeOK, Contest
    <2>2. PICK d \in Held : CopyOf(c, d)
      BY <1>0, <1>4, HeldStep
    <2>3. d.id < contest.id
      BY <1>4, <2>2 DEF EndedInv
    <2>4. d.id \in Nat
      BY <1>0, HeldTypes, EverywhereIsHeld DEF Contest
    <2> QED BY <1>0, <2>1, <2>2, <2>3, <2>4 DEF CopyOf
  <1>5. ~ContestBegins
    BY DEF ContestBegins
  <1> QED BY <1>0, <1>2, <1>3, <1>4, <1>5, ContestChange

SameBut1(s, t) == s = t \/ (Len(t) = Len(s) + 1 /\ SubSeq(t, 1, Len(s)) = s)

Similar(c, d) == SameBut1(c.bids, d.bids) \/ SameBut1(d.bids, c.bids)

LEMMA LateIsSimilar ==
  AtMostOneLateBid <=>
    \A c, d \in Everywhere :
      c.status = "Ended" /\ d.status = "Ended" /\ c.id = d.id => Similar(c, d)
  BY DEF AtMostOneLateBid, Similar, SameBut1

LEMMA AppendedByOne ==
  ASSUME NEW S, NEW s \in Seq(S), NEW e \in S
  PROVE  SameBut1(s, Append(s, e))
  <1>1. Len(Append(s, e)) = Len(s) + 1
    OBVIOUS
  <1>2. SubSeq(Append(s, e), 1, Len(s)) = s
    OBVIOUS
  <1> QED BY <1>1, <1>2 DEF SameBut1

LEMMA LateBidStep ==
  ASSUME Inv, EndedInv, LateInv, AtMostOneLateBid, Next
  PROVE  AtMostOneLateBid'
  <1>0. TypeInv /\ contest.id \in Nat /\ contest.bids \in Seq(Bid)
    BY DEF Inv, TypeInv, TypeOK, Contest
  <1>1. \A c, d \in Everywhere :
          c.status = "Ended" /\ d.status = "Ended" /\ c.id = d.id => Similar(c, d)
    BY LateIsSimilar
  <1>2. ASSUME NEW c \in Held'
        PROVE  \E e \in Everywhere : e.id = c.id /\ e.status = "Ended" /\ e.bids = c.bids
    <2>1. ASSUME NEW d \in Held, CopyOf(c, d)
          PROVE  \E e \in Everywhere : e.id = c.id /\ e.status = "Ended" /\ e.bids = c.bids
      BY <2>1, EverywhereIsHeld DEF CopyOf, EndedInv
    <2> QED BY <1>0, <2>1, HeldStep, EverywhereIsHeld
  <1>3. ASSUME NEW c \in Held', contest'.status = "Ended", c.id = contest'.id
        PROVE  Similar(c, contest')
    <2>1. CASE contest' = contest
      <3>1. PICK e \in Everywhere : e.id = c.id /\ e.status = "Ended" /\ e.bids = c.bids
        BY <1>2
      <3>2. Similar(e, contest)
        BY <1>1, <1>3, <2>1, <3>1, EverywhereIsHeld
      <3> QED BY <2>1, <3>1, <3>2 DEF Similar
    <2>2. CASE contest.status = "Live" /\ contest' = [contest EXCEPT !.status = "Ended"]
      <3>1. contest'.id = contest.id
        BY <1>0, <2>2 DEF TypeInv, TypeOK, Contest
      <3>2. PICK d \in Held : CopyOf(c, d)
        BY <1>0, <2>2, HeldStep
      <3>3. d.id < contest.id /\ d.id \in Nat
        BY <1>0, <2>2, HeldTypes, EverywhereIsHeld DEF EndedInv, Contest
      <3> QED BY <1>0, <1>3, <3>1, <3>2, <3>3 DEF CopyOf
    <2>3. CASE AddBid /\ BidJoins
      <3>1. /\ contest'.id = contest.id /\ contest'.status = contest.status
            /\ contest'.bids = Append(contest.bids, listener.bid) /\ listener.bid \in Bid
        BY <1>0, <2>3, BidJoinsBids DEF BidJoins
      <3>2. contest' # contest
        BY <1>0, <3>1
      <3>3. PICK d \in Held : CopyOf(c, d)
        BY <1>0, <3>2, HeldStep
      <3>4. c.bids = contest.bids
        BY <1>3, <2>3, <3>1, <3>3 DEF CopyOf, LateInv, BidJoins
      <3> QED BY <1>0, <3>1, <3>4, AppendedByOne DEF Similar
    <2>4. ~ContestBegins
      BY <1>3 DEF ContestBegins
    <2> QED BY <1>0, <2>1, <2>2, <2>3, <2>4, ContestChange
  <1>4. \A c, d : Similar(c, d) <=> Similar(d, c)
    BY DEF Similar
  <1>5. \A c : Similar(c, c)
    BY DEF Similar, SameBut1
  <1>6. ASSUME NEW c \in Held', NEW d \in Held', c.id = d.id PROVE Similar(c, d)
    <2>1. PICK e \in Everywhere : e.id = c.id /\ e.status = "Ended" /\ e.bids = c.bids
      BY <1>2
    <2>2. PICK f \in Everywhere : f.id = d.id /\ f.status = "Ended" /\ f.bids = d.bids
      BY <1>2
    <2> QED BY <1>1, <1>6, <2>1, <2>2 DEF Similar
  <1>7. Everywhere' = {contest'} \cup Held'
    BY DEF Everywhere, Held
  <1>8. \A c, d \in Everywhere' :
          c.status = "Ended" /\ d.status = "Ended" /\ c.id = d.id => Similar(c, d)
    BY <1>3, <1>4, <1>5, <1>6, <1>7
  <1> QED BY <1>8 DEF AtMostOneLateBid, Similar, SameBut1

LEMMA InitLate == Init => EndedInv /\ LateInv /\ AtMostOneLateBid
  <1> SUFFICES ASSUME Init PROVE EndedInv /\ LateInv /\ AtMostOneLateBid
      OBVIOUS
  <1>1. Held = {} /\ Everywhere = {contest} /\ contest.status = "NotStarted"
    BY NoRange DEF Init, Held, Everywhere, DefaultContest
  <1> QED BY <1>1 DEF EndedInv, LateInv, AtMostOneLateBid

(* Clones and records of one contest taken after its end differ by at most *)
(* one bid, the one the listener had checked before the end                *)
(* (main.rs:349-360, 389-414, 452-498).                                    *)
THEOREM LateBidsAreRare == Spec => []AtMostOneLateBid
  <1> DEFINE J == EndedInv /\ LateInv /\ AtMostOneLateBid
  <1>1. Init => J
    BY InitLate
  <1>2. Inv /\ J /\ [Next]_vars => J'
    <2>1. CASE UNCHANGED vars
      <3>1. UNCHANGED <<contest, listener>> /\ Held' = Held /\ Everywhere' = Everywhere
        BY <2>1 DEF vars, channels, storage, rpc, Held, Everywhere
      <3> QED BY <3>1 DEF EndedInv, LateInv, AtMostOneLateBid
    <2> QED BY <2>1, EndedStep, LateStep, LateBidStep
  <1> HIDE DEF J
  <1>3. Spec => []J
    BY <1>1, <1>2, InvHolds, PTL DEF Spec
  <1> QED BY <1>3, PTL DEF J
-----------------------------------------------------------------------------
(* Somebody is left to take a contest.  A contest with a winner uses up    *)
(* one of the handlers whose bid it counts, and bids count once: there is  *)
(* a set of as many handlers as contests have been sent, taken or are at   *)
(* the completion task, each of which has a bid in one of them.            *)

Reserved == Announced \cup AtCompletion

Completing == IF completion.pc \in {"store", "send"} THEN 1 ELSE 0

PaidBy(W) ==
  /\ Cardinality(W) = Cardinality(Replied) + Len(contestQ) + Completing
  /\ \A w \in W : handler[w].bid # None
  /\ \A b \in AtHand : b.by \notin W
  /\ \A c \in Everywhere : c.id \in Reserved \/ \A b \in Range(c.bids) : b.by \notin W

ClosedInv ==
  (\E h \in Handlers : handler[h].pc = "closed") => contestQ = <<>> /\ completion.pc = "dead"

WaitersInv == ClosedInv /\ \E W \in SUBSET Handlers : PaidBy(W)

\* A bid that comes to hand is that of a call that had none.
LEMMA AtHandStep ==
  ASSUME TypeInv, Next, NEW b \in AtHand'
  PROVE  b \in AtHand \/ handler[b.by].bid = None
  <1> USE DEF channels, storage, rpc, GetProfile, StoreProfile, StoreContest
  <1>0. bidQ \in Seq(Bid) /\ listener \in ListenerType /\ handler \in [Handlers -> HandlerType]
    BY DEF TypeInv, TypeOK
  <1>1. CASE \E h \in Handlers : SubmitBid(h)
    <2>1. PICK h \in Handlers : SubmitBid(h)
      BY <1>1
    <2>2. PICK p \in Provers, a \in Amounts :
            bidQ' = Append(bidQ, [name |-> NameOf[p], addr |-> p, amount |-> a, by |-> h])
      BY <2>1 DEF SubmitBid
    <2> DEFINE e == [name |-> NameOf[p], addr |-> p, amount |-> a, by |-> h]
    <2>3. e \in Bid /\ e.by = h
      BY ProfilesAssumption DEF Bid
    <2>4. handler[h].bid = None /\ listener' = listener
      BY <1>0, <2>1 DEF SubmitBid, HandlerType
    <2> HIDE DEF e
    <2>5. Range(bidQ') = Range(bidQ) \cup {e}
      BY <1>0, <2>2, <2>3, RangeLemma DEF e
    <2> QED BY <2>3, <2>4, <2>5 DEF AtHand
  <1>2. CASE Listener
    <2>1. CASE ReceiveBid
      <3>1. listener'.bid = Head(bidQ) /\ bidQ' = Tail(bidQ) /\ bidQ # <<>>
        BY <2>1 DEF ReceiveBid
      <3> QED BY <1>0, <3>1, RangeLemma DEF AtHand
    <2>2. ASSUME listener'.bid \in {None, listener.bid}, bidQ' \in {bidQ, <<>>} PROVE b \in AtHand
      BY <2>2, NoRange DEF AtHand
    <2>3. CASE AddBid
      <3>1. listener'.bid = None /\ bidQ' = bidQ
        BY <1>0, <2>3 DEF AddBid, ListenerType
      <3> QED BY <2>2, <3>1
    <2>4. CASE ReadProfile
      <3>1. CASE ListenerDies
        BY <2>2, <3>1 DEF ListenerDies
      <3>2. CASE ~ListenerDies
        <4>1. listener \in [pc : {"add", "reject"}, bid : Bid, profile : {None}] /\ bidQ' = bidQ
          BY <1>0, <2>4, <3>2 DEF ReadProfile, ListenerType
        <4>2. PICK x : listener' = [listener EXCEPT !.pc = "update", !.bid = None, !.profile = x]
          BY <2>4, <3>2, Zenon DEF ReadProfile
        <4>3. listener'.bid = None
          BY <4>1, <4>2
        <4> QED BY <2>2, <4>1, <4>3
      <3> QED BY <3>1, <3>2
    <2>5. CASE WriteProfile
      BY <2>2, <2>5 DEF WriteProfile, ListenerDies
    <2> QED BY <1>2, <2>1, <2>3, <2>4, <2>5 DEF Listener
  <1>3. CASE UNCHANGED <<bidQ, listener>>
    BY <1>3 DEF AtHand
  <1>4. CASE Scheduler
    BY <1>3, <1>4 DEF Scheduler, StartFirst, EndContest, CopyEnded, StoreEnded, StoreEndedFails,
                      StartNext
  <1>5. CASE Poller
    BY <1>3, <1>5 DEF Poller, PollEnded, PollerSend, PollLive
  <1>6. CASE Completion
    BY <1>3, <1>6 DEF Completion, CompleteWithoutBids, SelectWinner, SelectionPanics, StoreWinner,
                      SendContest
  <1>7. CASE \E p \in Registrants : Register(p)
    BY <1>3, <1>7 DEF Register
  <1>8. CASE \E h \in Handlers : SubmitBidFails(h) \/ Answer(h)
    BY <1>3, <1>8 DEF SubmitBidFails, Answer, AwaitContest, TakeContest, ContestsClosed
  <1> QED BY <1>1, <1>2, <1>4, <1>5, <1>6, <1>7, <1>8 DEF Next, Rpc

\* A step that sends no further contest towards the handlers.
LEMMA PaidByKept ==
  ASSUME TypeInv, Next, NEW W \in SUBSET Handlers, PaidBy(W),
         (Cardinality(Replied) + Len(contestQ) + Completing)'
            = Cardinality(Replied) + Len(contestQ) + Completing,
         Reserved \subseteq Reserved',
         \A h \in Handlers : handler[h].bid # None => handler'[h].bid # None
  PROVE  PaidBy(W)'
  <1>1. \A b \in AtHand' : b.by \notin W
    BY AtHandStep DEF PaidBy
  <1>2. ASSUME NEW c \in Everywhere', c.id \notin Reserved', NEW b \in Range(c.bids)
        PROVE  b.by \notin W
    <2>1. ASSUME NEW d \in Everywhere, d.id = c.id, b \in Range(d.bids) PROVE b.by \notin W
      BY <1>2, <2>1 DEF PaidBy
    <2>2. CASE c = contest' /\ AddBid /\ BidJoins
      <3>1. /\ contest'.id = contest.id
            /\ Range(contest'.bids) = Range(contest.bids) \cup {listener.bid}
        BY <2>2, BidJoinsBids
      <3>2. listener.bid \in AtHand
        BY <2>2, NoneAssumption DEF BidJoins, AtHand
      <3> QED BY <1>2, <2>1, <2>2, <3>1, <3>2, EverywhereIsHeld DEF PaidBy
    <2> QED BY <1>2, <2>1, <2>2, Origin
  <1>3. \A w \in W : handler'[w].bid # None
    BY DEF PaidBy
  <1> QED BY <1>1, <1>2, <1>3 DEF PaidBy

\* get_winner: the winner is a bid of a handler not counted yet.
LEMMA SelectWinnerWaiters ==
  ASSUME Inv, BidsInv({}), BidsInv({})', SelectWinner, IsFiniteSet(Handlers),
         NEW W \in SUBSET Handlers, PaidBy(W)
  PROVE  \E V \in SUBSET Handlers : PaidBy(V)'
  <1> USE DEF channels, storage, rpc
  <1>0. /\ TypeInv /\ Next /\ internalQ \in Seq(Contest) /\ completion.pc = "recv"
        /\ UNCHANGED <<handler, contestQ, bidQ, listener>> /\ internalQ # <<>>
    BY DEF Inv, TypeInv, TypeOK, SelectWinner, Next, Completion
  <1> DEFINE c == Head(internalQ)
  <1>1. PICK b \in Winners(c.bids) :
          completion' = [pc |-> "store", contest |-> [c EXCEPT !.winner = b]]
    BY DEF SelectWinner
  <1>2. c \in Range(internalQ) /\ c \in Everywhere /\ c \in Contest
    <2>1. c \in Range(internalQ)
      BY <1>0, RangeLemma
    <2> QED BY <1>0, <2>1, HeldTypes DEF Everywhere
  <1>3. b \in Range(c.bids) /\ b \in Counted /\ b \in Bid /\ b.by \in Handlers
    <2>1. b \in Counted
      BY <1>2, WinnerIsABid DEF Counted
    <2>2. b \in Bid
      BY <1>0, <2>1, BidTypes
    <2> QED BY <2>1, <2>2, WinnerIsABid DEF Bid
  <1> DEFINE k == completion'.contest
  <1>4. k.id = c.id /\ k.bids = c.bids /\ k # None /\ k \in Everywhere'
    <2>1. k = [c EXCEPT !.winner = b]
      BY <1>1
    <2> HIDE DEF c, k
    <2>2. k.id = c.id /\ k.bids = c.bids /\ k \in Contest
      BY <1>2, <1>3, <2>1 DEF Contest
    <2> QED BY <2>2, NoneAssumption DEF Everywhere, k
  <1>5. /\ Completing = 0 /\ Completing' = 1 /\ AtCompletion = {} /\ AtCompletion' = {c.id}
        /\ Replied' = Replied /\ Announced' = Announced
    BY <1>0, <1>1, <1>4 DEF Completing, AtCompletion, Replied, Announced, Taken, Ids
  <1>6. c.id \notin Reserved
    <2>1. \A j \in Taken \cup Ids(contestQ) : j < c.id
      <3>1. c.id \in Ids(internalQ)
        BY <1>2 DEF Ids, Range
      <3> QED BY <3>1 DEF Inv, PipelineInv, PipelineOrdered, Before
    <2>2. ~(c.id < c.id)
      BY <1>2 DEF Contest
    <2> QED BY <1>5, <2>1, <2>2 DEF Reserved, Announced
  <1>7. b.by \notin W
    BY <1>2, <1>3, <1>6 DEF PaidBy
  <1> HIDE DEF c, k
  <1> DEFINE V == W \cup {b.by}
  <1>8. Cardinality(V) = (Cardinality(Replied) + Len(contestQ) + Completing)'
    <2>1. IsFiniteSet(W) /\ IsFiniteSet(Replied) /\ Len(contestQ) \in Nat
      BY <1>0, FS_Subset DEF Replied, TypeInv, TypeOK
    <2>2. Cardinality(V) = Cardinality(W) + 1
      BY <1>7, <2>1, FS_AddElement
    <2>3. Cardinality(Replied) \in Nat
      BY <2>1, FS_CardinalityType
    <2> QED BY <1>0, <1>5, <2>1, <2>2, <2>3 DEF PaidBy
  \* The bids of one call are one bid.
  <1>9. /\ b \in Counted' /\ handler'[b.by].bid = b
        /\ \A d \in AtHand' \cup Counted' : d.by = b.by => d = b
    <2>1. b \in Counted'
      BY <1>3, <1>4 DEF Counted
    <2> QED BY <2>1 DEF BidsInv, Authentic
  <1>10. ASSUME NEW d \in AtHand' PROVE d.by \notin V
    <2>1. d.by # b.by
      BY <1>9, <1>10 DEF BidsInv, Apart
    <2>2. AtHand' = AtHand
      BY <1>0 DEF AtHand
    <2> QED BY <2>1, <2>2 DEF PaidBy
  <1>11. ASSUME NEW d \in Everywhere', d.id \notin Reserved', NEW e \in Range(d.bids)
         PROVE  e.by \notin V
    <2>1. e.by # b.by
      <3>1. e \in Counted'
        BY <1>11 DEF Counted
      <3>2. e # b
        <4>1. e = b => d.id = k.id
          BY <1>3, <1>4, <1>11 DEF BidsInv, BidCountsOnce
        <4> QED BY <1>4, <1>5, <1>11, <4>1 DEF Reserved
      <3> QED BY <1>9, <3>1, <3>2
    <2>2. \E f \in Everywhere : f.id = d.id /\ e \in Range(f.bids)
      <3>1. ~AddBid
        BY <1>0 DEF AddBid, SelectWinner, TypeInv, TypeOK, ListenerType
      <3> QED BY <1>0, <1>11, <3>1, Origin
    <2>3. d.id \notin Reserved
      BY <1>5, <1>11 DEF Reserved
    <2> QED BY <2>1, <2>2, <2>3 DEF PaidBy
  <1>12. \A w \in V : handler'[w].bid # None
    BY <1>0, <1>3, <1>9, NoneAssumption DEF PaidBy
  <1>13. PaidBy(V)'
    BY <1>8, <1>10, <1>11, <1>12 DEF PaidBy
  <1> QED BY <1>3, <1>13

\* The other steps of the completion task and of the handlers that move a
\* contest, or see that none comes any more.
LEMMA ContestMoves ==
  ASSUME TypeInv, ClosedInv, IsFiniteSet(Handlers),
         \/ Completion /\ ~SelectWinner
         \/ \E h \in Handlers : Rpc(h)
  PROVE  /\ (Cardinality(Replied) + Len(contestQ) + Completing)'
               = Cardinality(Replied) + Len(contestQ) + Completing
         /\ Reserved \subseteq Reserved'
         /\ \A h \in Handlers : handler[h].bid # None => handler'[h].bid # None
         /\ ClosedInv'
  <1> USE DEF channels, storage, rpc
  <1>0. /\ contestQ \in Seq(Contest) /\ completion \in CompletionType
        /\ handler \in [Handlers -> HandlerType] /\ IsFiniteSet(Replied)
        /\ Len(contestQ) \in Nat /\ Cardinality(Replied) \in Nat /\ Completing \in {0, 1}
    <2>1. IsFiniteSet(Replied)
      BY FS_Subset DEF Replied
    <2> QED BY <2>1, FS_CardinalityType DEF TypeInv, TypeOK, Completing
  <1>1. CASE Completion /\ ~SelectWinner
    <2>1. handler' = handler /\ Replied' = Replied /\ Taken' = Taken
      BY <1>1 DEF Completion, CompleteWithoutBids, SelectionPanics, StoreWinner, SendContest,
                  Replied, Taken
    <2>2. CASE SendContest
      <3>1. /\ contestQ' = Append(contestQ, completion.contest) /\ completion.contest \in Contest
            /\ completion.pc = "send" /\ completion'.pc = "recv"
        BY <1>0, <2>2 DEF SendContest, CompletionType
      <3>2. Len(contestQ') = Len(contestQ) + 1 /\ Completing = 1 /\ Completing' = 0
        BY <1>0, <3>1 DEF Completing
      <3>3. Ids(contestQ)' = Ids(contestQ) \cup AtCompletion
        <4>1. AtCompletion = {completion.contest.id}
          BY <3>1 DEF AtCompletion
        <4>2. Ids(contestQ') = Ids(contestQ) \cup {completion.contest.id}
          BY <1>0, <3>1, IdsAppend
        <4> QED BY <4>1, <4>2 DEF Ids
      <3>4. ClosedInv'
        BY <2>1, <3>1 DEF ClosedInv
      <3> QED BY <1>0, <2>1, <3>2, <3>3, <3>4 DEF Reserved, Announced
    <2>3. CASE contestQ' = contestQ /\ Completing' = Completing /\ AtCompletion' = AtCompletion
               /\ (completion.pc = "dead" => completion'.pc = "dead")
      BY <1>0, <2>1, <2>3 DEF Reserved, Announced, Ids, ClosedInv
    <2>4. CASE CompleteWithoutBids
      BY <2>3, <2>4 DEF CompleteWithoutBids, Completing, AtCompletion
    <2>5. CASE SelectionPanics
      BY <2>3, <2>5 DEF SelectionPanics, Completing, AtCompletion
    <2>6. CASE StoreWinner
      <3>1. /\ completion'.pc = "send" /\ completion'.contest = completion.contest
            /\ completion.pc = "store" /\ contestQ' = contestQ
        BY <1>0, <2>6 DEF StoreWinner, CompletionType
      <3> QED BY <2>3, <3>1 DEF Completing, AtCompletion
    <2> QED BY <1>1, <2>2, <2>4, <2>5, <2>6 DEF Completion
  <1>2. ASSUME NEW h \in Handlers, TakeContest(h)
        PROVE  /\ (Cardinality(Replied) + Len(contestQ) + Completing)'
                     = Cardinality(Replied) + Len(contestQ) + Completing
               /\ Reserved \subseteq Reserved'
               /\ \A g \in Handlers : handler[g].bid # None => handler'[g].bid # None
               /\ ClosedInv'
    <2>1. /\ contestQ # <<>> /\ contestQ' = Tail(contestQ) /\ completion' = completion
          /\ handler[h].pc = "waiting"
      BY <1>2 DEF TakeContest, TypeInv, TypeOK, WaitersWait
    <2>2. /\ handler'[h].pc = "replied" /\ handler'[h].bid = handler[h].bid
          /\ handler'[h].reply.contest = Head(contestQ).id
          /\ \A g \in Handlers : g # h => handler'[g] = handler[g]
      <3>1. handler[h] \in HandlerType /\ {"pc", "bid", "reply"} \subseteq DOMAIN handler[h]
        BY <1>0 DEF HandlerType
      <3> QED BY <1>0, <1>2, <3>1 DEF TakeContest
    <2>3. h \notin Replied /\ Replied' = Replied \cup {h}
      BY <2>1, <2>2 DEF Replied
    <2>4. Cardinality(Replied') = Cardinality(Replied) + 1
      BY <1>0, <2>3, FS_AddElement
    <2>5. Len(contestQ') = Len(contestQ) - 1
      BY <1>0, <2>1
    <2>6. Completing' = Completing /\ AtCompletion' = AtCompletion
      BY <2>1 DEF Completing, AtCompletion
    <2>7. Announced \subseteq Announced'
      <3>1. Ids(contestQ) = {Head(contestQ).id} \cup Ids(contestQ)'
        BY <1>0, <2>1, IdsTail DEF Ids
      <3>2. Taken \cup {Head(contestQ).id} \subseteq Taken'
        BY <2>2, <2>3 DEF Taken, Replied
      <3> QED BY <3>1, <3>2 DEF Announced
    <2>8. ClosedInv'
      BY <2>1, <2>2 DEF ClosedInv
    <2> QED BY <1>0, <2>2, <2>4, <2>5, <2>6, <2>7, <2>8 DEF Reserved
  <1>3. ASSUME NEW h \in Handlers, Rpc(h), ~TakeContest(h)
        PROVE  /\ (Cardinality(Replied) + Len(contestQ) + Completing)'
                     = Cardinality(Replied) + Len(contestQ) + Completing
               /\ Reserved \subseteq Reserved'
               /\ \A g \in Handlers : handler[g].bid # None => handler'[g].bid # None
               /\ ClosedInv'
    <2>1. /\ contestQ' = contestQ /\ completion' = completion
          /\ \A g \in Handlers : g # h => handler'[g] = handler[g]
          /\ handler[h].pc # "replied" /\ handler'[h].pc # "replied"
      <3>1. handler[h] \in HandlerType /\ "pc" \in DOMAIN handler[h]
        BY <1>0 DEF HandlerType
      <3>2. waiters # <<>> /\ Head(waiters) = h => handler[h].pc = "waiting"
        BY DEF TypeInv, TypeOK, WaitersWait
      <3> QED BY <1>0, <1>3, <3>1, <3>2
              DEF Rpc, Answer, SubmitBid, SubmitBidFails, AwaitContest, ContestsClosed
    <2>2. Replied' = Replied /\ Taken' = Taken
      <3>1. Replied' = Replied
        BY <2>1 DEF Replied
      <3> QED BY <2>1, <3>1 DEF Taken, Replied
    <2>3. handler[h].bid # None => handler'[h].bid # None
      <3>1. handler[h].pc = "idle" => handler[h].bid = None
        BY <1>0 DEF HandlerType
      <3>2. CASE AwaitContest(h)
        BY <1>0, <3>2 DEF AwaitContest, HandlerType
      <3>3. CASE ContestsClosed(h)
        BY <1>0, <3>3 DEF ContestsClosed, HandlerType
      <3> QED BY <1>3, <3>1, <3>2, <3>3 DEF Rpc, Answer, SubmitBid, SubmitBidFails
    <2>4. ClosedInv'
      <3>1. CASE ContestsClosed(h)
        BY <2>1, <3>1 DEF ContestsClosed, ClosedInv
      <3>2. CASE ~ContestsClosed(h)
        <4>1. handler'[h].pc # "closed"
          <5>1. "pc" \in DOMAIN handler[h]
            BY <1>0 DEF HandlerType
          <5> QED BY <1>0, <1>3, <3>2, <5>1 DEF Rpc, Answer, SubmitBid, SubmitBidFails, AwaitContest
        <4> QED BY <2>1, <4>1 DEF ClosedInv
      <3> QED BY <3>1, <3>2
    <2> QED BY <1>0, <2>1, <2>2, <2>3, <2>4
            DEF Completing, Reserved, Announced, Ids, AtCompletion
  <1> QED BY <1>1, <1>2, <1>3

LEMMA WaitersStep ==
  ASSUME Inv, BidsInv({}), BidsInv({})', WaitersInv, Next, IsFiniteSet(Handlers)
  PROVE  WaitersInv'
  <1>0. TypeInv /\ ClosedInv
    BY DEF Inv, WaitersInv
  <1>1. PICK W \in SUBSET Handlers : PaidBy(W)
    BY DEF WaitersInv
  <1>2. CASE SelectWinner
    <2>1. handler' = handler /\ contestQ' = contestQ /\ completion.pc = "recv"
      BY <1>2 DEF SelectWinner, channels, rpc
    <2>2. ClosedInv'
      BY <1>0, <2>1 DEF ClosedInv
    <2> QED BY <1>1, <1>2, <2>2, SelectWinnerWaiters DEF WaitersInv
  <1>3. CASE (Completion /\ ~SelectWinner) \/ \E h \in Handlers : Rpc(h)
    <2>1. PaidBy(W)' /\ ClosedInv'
      BY <1>0, <1>1, <1>3, ContestMoves, PaidByKept
    <2> QED BY <2>1 DEF WaitersInv
  <1>4. CASE Scheduler \/ Listener \/ Poller \/ \E p \in Registrants : Register(p)
    <2>1. UNCHANGED <<handler, contestQ, completion>>
      <3>1. CASE Scheduler
        BY <3>1 DEF Scheduler, StartFirst, EndContest, CopyEnded, StoreEnded, StoreEndedFails,
                    StartNext, channels, storage, rpc
      <3>2. CASE Listener
        BY <3>2, ListenerPipelineInv, <1>0
           DEF Inv, Listener, ReceiveBid, AddBid, ReadProfile, WriteProfile, channels, storage, rpc
      <3>3. CASE Poller
        BY <3>3 DEF Poller, PollEnded, PollerSend, PollLive, channels, storage, rpc
      <3>4. CASE \E p \in Registrants : Register(p)
        BY <3>4 DEF Register, channels, storage, rpc
      <3> QED BY <1>4, <3>1, <3>2, <3>3, <3>4
    <2>2. /\ Replied' = Replied /\ Completing' = Completing /\ Reserved' = Reserved /\ ClosedInv'
      BY <1>0, <2>1 DEF Replied, Completing, Reserved, Announced, Taken, Ids, AtCompletion, ClosedInv
    <2>3. PaidBy(W)'
      BY <1>0, <1>1, <2>1, <2>2, PaidByKept
    <2> QED BY <2>2, <2>3 DEF WaitersInv
  <1> QED BY <1>2, <1>3, <1>4 DEF Next

LEMMA InitWaiters == Init => WaitersInv
  <1> SUFFICES ASSUME Init PROVE WaitersInv
      OBVIOUS
  <1>1. Replied = {} /\ contestQ = <<>> /\ Completing = 0 /\ AtHand = {}
    BY NoRange DEF Init, Replied, Completing, AtHand
  <1>2. Everywhere = {contest} /\ contest.bids = <<>>
    BY NoRange DEF Init, Everywhere, DefaultContest
  <1>3. PaidBy({})
    BY <1>1, <1>2, FS_EmptySet DEF PaidBy
  <1>4. ClosedInv
    BY DEF Init, ClosedInv
  <1> QED BY <1>3, <1>4 DEF WaitersInv

LEMMA WaitersKept ==
  ASSUME WaitersInv,
         UNCHANGED <<contest, scheduler, poller, completion, listener, bidQ, internalQ, contestQ,
                     stored, handler>>
  PROVE  WaitersInv'
  <1>1. AtHand' = AtHand /\ Everywhere' = Everywhere
    BY DEF AtHand, Everywhere
  <1>2. /\ Replied' = Replied /\ Completing' = Completing /\ Reserved' = Reserved
    BY DEF Replied, Completing, Reserved, Announced, Taken, Ids, AtCompletion
  <1> QED BY <1>1, <1>2 DEF WaitersInv, ClosedInv, PaidBy

LEMMA WaitersSuffice ==
  ASSUME Inv, WaitersInv, IsFiniteSet(Handlers)
  PROVE  EnoughWaiters
  <1> SUFFICES ASSUME contestQ # <<>> PROVE EnoughWaiters
    <2>1. Cardinality({h \in Handlers : handler[h].pc \in {"sent", "waiting"}}) \in Nat
      BY FS_Subset, FS_CardinalityType
    <2> QED BY <2>1 DEF EnoughWaiters
  <1> DEFINE Left == {h \in Handlers : handler[h].pc \in {"sent", "waiting"}}
  <1>1. PICK W \in SUBSET Handlers : PaidBy(W)
    BY DEF WaitersInv
  <1>2. W \subseteq Left \cup Replied
    <2>1. \A h \in Handlers : handler[h] \in HandlerType
      BY DEF Inv, TypeInv, TypeOK
    <2>2. \A w \in W : handler[w].pc \in {"sent", "waiting", "closed", "replied"}
      BY <1>1, <2>1 DEF PaidBy, HandlerType
    <2> QED BY <2>2 DEF WaitersInv, ClosedInv, Replied
  <1> HIDE DEF Left
  <1>3. IsFiniteSet(Left) /\ IsFiniteSet(Replied)
    BY FS_Subset DEF Replied, Left
  <1>4. /\ IsFiniteSet(Left \cup Replied) /\ IsFiniteSet(Left \cap Replied)
        /\ Cardinality(Left \cup Replied)
             = Cardinality(Left) + Cardinality(Replied) - Cardinality(Left \cap Replied)
    BY <1>3, FS_Union, FS_Intersection
  <1>5. Cardinality(W) <= Cardinality(Left \cup Replied)
    BY <1>2, <1>4, FS_Subset
  <1>6. /\ Cardinality(Left) \in Nat /\ Cardinality(Replied) \in Nat
        /\ Cardinality(Left \cap Replied) \in Nat /\ Len(contestQ) \in Nat
    BY <1>3, <1>4, FS_CardinalityType DEF Inv, TypeInv, TypeOK
  <1>7. Len(contestQ) <= Cardinality(Left)
    BY <1>1, <1>4, <1>5, <1>6 DEF PaidBy, Completing
  <1> QED BY <1>7 DEF EnoughWaiters, Left

(* The contest channel never holds more contests than there are handlers   *)
(* left to take one, for any finite number of submit_bid calls: no outcome *)
(* is stuck for want of a receiver (networking.rs:161-172).                *)
THEOREM NoOutcomeIsStuck ==
  ASSUME IsFiniteSet(Handlers)
  PROVE  Spec => []EnoughWaiters
  <1> DEFINE J == BidsInv({}) /\ WaitersInv
  <1>1. Init => WaitersInv
    BY InitWaiters
  <1>2. Inv /\ J /\ [Next]_vars => J'
    <2> SUFFICES ASSUME Inv, J, [Next]_vars PROVE J'
        OBVIOUS
    <2>1. UNCHANGED vars => WaitersInv'
      BY WaitersKept DEF vars, channels, storage, rpc
    <2>2. BidsInv({})'
      BY BidsInvStep DEF Inv, Gone
    <2>3. CASE Next
      BY <2>2, <2>3, WaitersStep
    <2> QED BY <2>1, <2>2, <2>3
  <1>3. Inv /\ J => EnoughWaiters
    BY WaitersSuffice
  <1> HIDE DEF J
  <1>4. Init => J
    BY <1>1, InitBidsInv DEF J
  <1>5. Spec => []J
    BY <1>2, <1>4, InvHolds, PTL DEF Spec
  <1> QED BY <1>3, <1>5, InvHolds, PTL

-----------------------------------------------------------------------------
(***************************************************************************)
(* The records.  The steps are looked at with the records from some place  *)
(* on, since those before it may stem from earlier lives of the verifier.  *)
(***************************************************************************)

(* A contest has a winner from its selection on, and not before.           *)
WinnersInv ==
  /\ Undecided(contest)
  /\ scheduler.pc = "store" => Undecided(scheduler.copy)
  /\ poller.pc = "send" => Undecided(poller.copy)
  /\ \A c \in Range(internalQ) : Undecided(c)
  /\ completion.pc \in {"store", "send"} => ~Undecided(completion.contest)
  /\ \A c \in Range(contestQ) : ~Undecided(c)

LEMMA WinnersStep ==
  ASSUME TypeInv, WinnersInv, Next
  PROVE  WinnersInv'
  <1> USE DEF channels, storage, rpc
  <1>0. /\ poller \in PollerType /\ scheduler \in SchedulerType /\ completion \in CompletionType
        /\ internalQ \in Seq(Contest) /\ contestQ \in Seq(Contest) /\ contest \in Contest
    BY DEF TypeInv, TypeOK
  <1>1. Undecided(contest')
    <2>1. CASE contest' = [contest EXCEPT !.status = "Ended"]
      BY <1>0, <2>1 DEF WinnersInv, Undecided, Contest
    <2>2. CASE BidJoins
      BY <2>2, BidJoinsBids DEF WinnersInv, Undecided
    <2> QED BY <2>1, <2>2, ContestChange DEF WinnersInv, Undecided, ContestBegins
  <1>2. CASE Scheduler
    <2>1. UNCHANGED <<poller, completion, internalQ, contestQ>>
      BY <1>2 DEF Scheduler, StartFirst, EndContest, CopyEnded, StoreEnded, StoreEndedFails, StartNext
    <2>2. CASE CopyEnded
      <3>1. scheduler'.copy = contest
        BY <2>2 DEF CopyEnded
      <3> QED BY <1>1, <2>1, <3>1 DEF WinnersInv, Undecided
    <2>3. CASE ~CopyEnded
      <3>1. scheduler' = scheduler \/ scheduler'.pc # "store"
        BY <1>0, <1>2, <2>3
           DEF Scheduler, StartFirst, EndContest, StoreEnded, StoreEndedFails, StartNext, SchedulerType
      <3> QED BY <1>1, <2>1, <3>1 DEF WinnersInv, Undecided
    <2> QED BY <2>2, <2>3
  <1>3. CASE Listener
    <2>1. UNCHANGED <<scheduler, poller, completion, internalQ, contestQ>>
      BY <1>3 DEF Listener, ReceiveBid, AddBid, ReadProfile, WriteProfile
    <2> QED BY <1>1, <2>1 DEF WinnersInv, Undecided
  <1>4. CASE Poller
    <2>1. UNCHANGED <<scheduler, completion, contestQ>>
      BY <1>4 DEF Poller, PollEnded, PollerSend, PollLive
    <2>2. CASE PollEnded
      <3>1. poller'.copy = contest /\ internalQ' = internalQ
        BY <2>2 DEF PollEnded
      <3> QED BY <1>1, <2>1, <3>1 DEF WinnersInv, Undecided
    <2>3. CASE PollerSend
      <3>1. /\ poller.pc = "send" /\ poller.copy \in Contest /\ poller'.pc # "send"
            /\ internalQ' \in {internalQ, Append(internalQ, poller.copy)}
        BY <1>0, <2>3 DEF PollerSend, PollerType
      <3>2. Range(internalQ') \subseteq Range(internalQ) \cup {poller.copy}
        BY <1>0, <3>1, RangeGrows
      <3> QED BY <1>1, <2>1, <3>1, <3>2 DEF WinnersInv, Undecided
    <2>4. CASE PollLive
      <3>1. poller'.pc # "send" /\ internalQ' = internalQ
        BY <1>0, <2>4 DEF PollLive, PollerType
      <3> QED BY <1>1, <2>1, <3>1 DEF WinnersInv, Undecided
    <2> QED BY <1>4, <2>2, <2>3, <2>4 DEF Poller
  <1>5. CASE Completion
    <2>1. UNCHANGED <<scheduler, poller>>
      BY <1>5 DEF Completion, CompleteWithoutBids, SelectWinner, SelectionPanics, StoreWinner,
                  SendContest
    <2>2. CASE CompleteWithoutBids
      <3>1. UNCHANGED <<completion, contestQ>> /\ Range(internalQ') \subseteq Range(internalQ)
        BY <1>0, <2>2, RangeLemma DEF CompleteWithoutBids
      <3> QED BY <1>1, <2>1, <3>1 DEF WinnersInv, Undecided
    <2>3. CASE SelectWinner
      <3> DEFINE d == Head(internalQ)
      <3>1. PICK b \in Winners(d.bids) :
              completion' = [pc |-> "store", contest |-> [d EXCEPT !.winner = b]]
        BY <2>3 DEF SelectWinner
      <3>2. d \in Contest /\ Range(internalQ') \subseteq Range(internalQ) /\ contestQ' = contestQ
        BY <1>0, <2>3, RangeLemma, HeadTailType DEF SelectWinner
      <3>3. b # None
        <4>1. b \in Range(d.bids) /\ d.bids \in Seq(Bid)
          BY <3>2, WinnerIsABid DEF Contest
        <4> QED BY <4>1, RangeLemma, NoneAssumption
      <3>4. completion'.contest.winner = b
        <4>1. completion'.contest = [d EXCEPT !.winner = b]
          BY <3>1
        <4> QED BY <3>2, <4>1 DEF Contest
      <3> QED BY <1>1, <2>1, <3>2, <3>3, <3>4 DEF WinnersInv, Undecided
    <2>4. CASE SelectionPanics
      <3>1. Range(internalQ') = {} /\ completion'.pc = "dead" /\ contestQ' = contestQ
        BY <2>4, NoRange DEF SelectionPanics
      <3> QED BY <1>1, <2>1, <3>1 DEF WinnersInv, Undecided
    <2>5. CASE StoreWinner
      <3>1. /\ completion.pc = "store" /\ completion'.contest = completion.contest
            /\ UNCHANGED <<internalQ, contestQ>>
        BY <1>0, <2>5 DEF StoreWinner, CompletionType
      <3> QED BY <1>1, <2>1, <3>1 DEF WinnersInv, Undecided
    <2>6. CASE SendContest
      <3>1. completion.contest \in Contest /\ completion.pc = "send"
        BY <1>0, <2>6 DEF SendContest, CompletionType
      <3>2. /\ Range(contestQ') = Range(contestQ) \cup {completion.contest}
            /\ completion'.pc = "recv" /\ internalQ' = internalQ
        BY <1>0, <2>6, <3>1, RangeLemma DEF SendContest
      <3> QED BY <1>1, <2>1, <3>1, <3>2 DEF WinnersInv, Undecided
    <2> QED BY <1>5, <2>2, <2>3, <2>4, <2>5, <2>6 DEF Completion
  <1>6. CASE (\E p \in Registrants : Register(p)) \/ (\E h \in Handlers : Rpc(h))
    <2>1. UNCHANGED <<scheduler, poller, completion, internalQ>>
      BY <1>6 DEF Register, Rpc, Answer, SubmitBid, SubmitBidFails, AwaitContest, TakeContest,
                  ContestsClosed
    <2>2. contestQ' = contestQ \/ (contestQ # <<>> /\ contestQ' = Tail(contestQ))
      BY <1>6 DEF Register, Rpc, Answer, SubmitBid, SubmitBidFails, AwaitContest, TakeContest,
                  ContestsClosed
    <2>3. Range(contestQ') \subseteq Range(contestQ)
      BY <1>0, <2>2, RangeLemma
    <2> QED BY <1>1, <2>1, <2>3 DEF WinnersInv, Undecided
  <1> QED BY <1>2, <1>3, <1>4, <1>5, <1>6 DEF Next

LEMMA InitWinners == Init => WinnersInv
  BY NoRange DEF Init, DefaultContest, WinnersInv, Undecided
-----------------------------------------------------------------------------
(* What a step does to the records, to the replies and to the announced    *)
(* contests: a record is added at the end, a reply is never taken back.    *)

LEMMA StoredStep ==
  ASSUME TypeInv, Next
  PROVE  \/ stored' = stored
         \/ /\ StoreEnded \/ StoreEndedFails
            /\ scheduler.copy \in Contest /\ stored' = Append(stored, scheduler.copy)
         \/ /\ StoreWinner
            /\ completion.contest \in Contest /\ stored' = Append(stored, completion.contest)
  <1> USE DEF channels, storage, rpc, StoreContest
  <1>1. CASE Scheduler
    <2>1. StoreEnded \/ StoreEndedFails => scheduler.copy \in Contest
      BY DEF StoreEnded, StoreEndedFails, TypeInv, TypeOK, SchedulerType
    <2> QED BY <1>1, <2>1 DEF Scheduler, StartFirst, EndContest, CopyEnded, StoreEnded,
                              StoreEndedFails, StartNext
  <1>2. CASE Listener \/ Poller
    BY <1>2 DEF Listener, ReceiveBid, AddBid, ReadProfile, WriteProfile,
                Poller, PollEnded, PollerSend, PollLive
  <1>3. CASE Completion
    <2>1. StoreWinner => completion.contest \in Contest
      BY DEF StoreWinner, TypeInv, TypeOK, CompletionType
    <2> QED BY <1>3, <2>1 DEF Completion, CompleteWithoutBids, SelectWinner, SelectionPanics,
                              StoreWinner, SendContest
  <1>4. CASE (\E p \in Registrants : Register(p)) \/ (\E h \in Handlers : Rpc(h))
    BY <1>4 DEF Register, Rpc, Answer, SubmitBid, SubmitBidFails, AwaitContest, TakeContest,
                ContestsClosed
  <1> QED BY <1>1, <1>2, <1>3, <1>4 DEF Next

LEMMA RecordsStay ==
  ASSUME TypeInv, Next
  PROVE  Range(stored) \subseteq Range(stored')
  <1>1. stored \in Seq(Contest)
    BY DEF TypeInv, TypeOK
  <1>2. \A c \in Contest : Range(Append(stored, c)) = Range(stored) \cup {c}
    BY <1>1, RangeLemma
  <1>3. stored' = stored \/ \E c \in Contest : stored' = Append(stored, c)
    BY StoredStep, Zenon
  <1> QED BY <1>2, <1>3

\* What h takes, and what it answers.
Takes(h) ==
  /\ TakeContest(h)
  /\ h \notin Replied /\ Replied' = Replied \cup {h}
  /\ \A g \in Handlers : g # h => handler'[g] = handler[g]
  /\ handler'[h].bid = handler[h].bid /\ handler[h].bid \in Bid
  /\ handler'[h].reply.contest = Head(contestQ).id
  /\ handler'[h].reply.verdict = "won" <=>
       Head(contestQ).winner # None /\ Head(contestQ).winner.addr = handler[h].bid.addr

LEMMA TakeStep ==
  ASSUME TypeInv, NEW h \in Handlers, TakeContest(h)
  PROVE  Takes(h)
  <1>1. handler \in [Handlers -> HandlerType] /\ handler[h].pc = "waiting"
    BY DEF TakeContest, TypeInv, TypeOK, WaitersWait
  <1>2. /\ handler[h] \in HandlerType /\ {"pc", "bid", "reply"} \subseteq DOMAIN handler[h]
        /\ handler[h].bid \in Bid
    BY <1>1 DEF HandlerType
  <1>3. /\ handler'[h].pc = "replied" /\ handler'[h].bid = handler[h].bid
        /\ handler'[h].reply.contest = Head(contestQ).id
        /\ handler'[h].reply.verdict = "won" <=>
             Head(contestQ).winner # None /\ Head(contestQ).winner.addr = handler[h].bid.addr
        /\ \A g \in Handlers : g # h => handler'[g] = handler[g]
    BY <1>1, <1>2 DEF TakeContest
  <1> QED BY <1>1, <1>2, <1>3 DEF Takes, Replied

LEMMA ReplyStep ==
  ASSUME TypeInv, Next
  PROVE  \/ Replied' = Replied /\ \A g \in Replied : handler'[g] = handler[g]
         \/ \E h \in Handlers : Takes(h)
  <1> USE DEF channels, storage, rpc
  <1>1. CASE handler' = handler
    BY <1>1 DEF Replied
  <1>2. CASE \E h \in Handlers : TakeContest(h)
    BY <1>2, TakeStep
  <1>3. ASSUME NEW h \in Handlers, Rpc(h), ~TakeContest(h)
        PROVE  Replied' = Replied /\ \A g \in Replied : handler'[g] = handler[g]
    <2>1. handler[h] \in HandlerType /\ "pc" \in DOMAIN handler[h] /\ handler \in [Handlers -> HandlerType]
      BY DEF TypeInv, TypeOK, HandlerType
    <2>2. waiters # <<>> /\ Head(waiters) = h => handler[h].pc = "waiting"
      BY DEF TypeInv, TypeOK, WaitersWait
    <2>3. /\ \A g \in Handlers : g # h => handler'[g] = handler[g]
          /\ handler[h].pc # "replied" /\ handler'[h].pc # "replied"
      BY <1>3, <2>1, <2>2
         DEF Rpc, Answer, SubmitBid, SubmitBidFails, AwaitContest, ContestsClosed
    <2> QED BY <2>3 DEF Replied
  <1>4. CASE Scheduler \/ Listener
    <2>1. handler' = handler
      BY <1>4 DEF Scheduler, StartFirst, EndContest, CopyEnded, StoreEnded, StoreEndedFails, StartNext,
                  Listener, ReceiveBid, AddBid, ReadProfile, WriteProfile
    <2> QED BY <1>1, <2>1
  <1>5. CASE Poller \/ Completion
    <2>1. handler' = handler
      BY <1>5 DEF Poller, PollEnded, PollerSend, PollLive, Completion, CompleteWithoutBids,
                  SelectWinner, SelectionPanics, StoreWinner, SendContest
    <2> QED BY <1>1, <2>1
  <1>6. CASE \E p \in Registrants : Register(p)
    BY <1>1, <1>6 DEF Register
  <1> QED BY <1>2, <1>3, <1>4, <1>5, <1>6 DEF Next
-----------------------------------------------------------------------------
(* The verdicts and the records.  A contest is on record with its winner   *)
(* before it is sent, unless storing it fails.                             *)

RepliesInv ==
  /\ RepliesAreOnRecord
  /\ completion.pc = "send" => completion.contest \in Range(stored)

LEMMA RepliesStep ==
  ASSUME TypeInv, WinnersInv, RepliesInv, Next, ~(StoreWinner /\ UNCHANGED stored)
  PROVE  RepliesInv'
  <1>0. /\ contestQ \in Seq(Contest) /\ completion \in CompletionType /\ stored \in Seq(Contest)
        /\ Range(stored) \subseteq Range(stored')
    BY RecordsStay DEF TypeInv, TypeOK
  <1>1. \A h \in Replied' : \E c \in Range(stored') :
           /\ c.id = handler'[h].reply.contest /\ c.winner # None
           /\ handler'[h].reply.verdict = "won" <=> c.winner.addr = handler'[h].bid.addr
    <2>1. CASE Replied' = Replied /\ \A g \in Replied : handler'[g] = handler[g]
      BY <1>0, <2>1 DEF RepliesInv, RepliesAreOnRecord
    <2>2. ASSUME NEW h \in Handlers, Takes(h)
          PROVE  \A g \in Replied' : \E c \in Range(stored') :
                    /\ c.id = handler'[g].reply.contest /\ c.winner # None
                    /\ handler'[g].reply.verdict = "won" <=> c.winner.addr = handler'[g].bid.addr
      <3>1. \A g \in Replied : handler'[g] = handler[g]
        BY <2>2 DEF Takes, Replied
      <3>2. PICK c : c = Head(contestQ)
        OBVIOUS
      <3>3. c \in Range(contestQ)
        BY <1>0, <2>2, <3>2, RangeLemma DEF Takes, TakeContest
      <3>4. c \in Range(stored') /\ c.winner # None
        BY <1>0, <3>3 DEF RepliesInv, RepliesAreOnRecord, WinnersInv, Undecided
      <3>5. /\ c.id = handler'[h].reply.contest
            /\ handler'[h].reply.verdict = "won" <=> c.winner.addr = handler'[h].bid.addr
        BY <2>2, <3>2, <3>4 DEF Takes
      <3>6. \A g \in Replied : \E d \in Range(stored') :
               /\ d.id = handler'[g].reply.contest /\ d.winner # None
               /\ handler'[g].reply.verdict = "won" <=> d.winner.addr = handler'[g].bid.addr
        BY <1>0, <3>1 DEF RepliesInv, RepliesAreOnRecord
      <3> QED BY <2>2, <3>4, <3>5, <3>6 DEF Takes
    <2> QED BY <2>1, <2>2, ReplyStep
  <1> USE DEF channels, storage, rpc
  <1>2. CASE StoreWinner
    <2>1. /\ completion.contest \in Contest /\ completion'.contest = completion.contest
          /\ contestQ' = contestQ
      BY <1>0, <1>2 DEF StoreWinner, CompletionType
    <2>2. stored' = Append(stored, completion.contest)
      BY <1>2 DEF StoreWinner, StoreContest
    <2>3. completion.contest \in Range(stored')
      BY <1>0, <2>1, <2>2, RangeLemma
    <2> QED BY <1>0, <1>1, <2>1, <2>3 DEF RepliesInv, RepliesAreOnRecord
  <1>3. CASE SendContest
    <2>1. completion.contest \in Contest /\ completion.pc = "send"
      BY <1>0, <1>3 DEF SendContest, CompletionType
    <2>2. /\ Range(contestQ') = Range(contestQ) \cup {completion.contest}
          /\ completion'.pc = "recv"
      BY <1>0, <1>3, <2>1, RangeLemma DEF SendContest
    <2> QED BY <1>0, <1>1, <2>1, <2>2 DEF RepliesInv, RepliesAreOnRecord
  <1>4. CASE Range(contestQ') \subseteq Range(contestQ) /\ (completion'.pc # "send" \/ completion' = completion)
    BY <1>0, <1>1, <1>4 DEF RepliesInv, RepliesAreOnRecord
  <1>5. CASE Completion
    <2>1. CASE CompleteWithoutBids \/ SelectWinner \/ SelectionPanics
      <3>1. contestQ' = contestQ /\ (completion' = completion \/ completion'.pc # "send")
        BY <2>1 DEF CompleteWithoutBids, SelectWinner, SelectionPanics
      <3> QED BY <1>4, <3>1
    <2> QED BY <1>2, <1>3, <1>5, <2>1 DEF Completion
  <1>6. CASE Scheduler \/ Listener \/ Poller
    <2>1. UNCHANGED <<completion, contestQ>>
      BY <1>6 DEF Scheduler, StartFirst, EndContest, CopyEnded, StoreEnded, StoreEndedFails, StartNext,
                  Listener, ReceiveBid, AddBid, ReadProfile, WriteProfile,
                  Poller, PollEnded, PollerSend, PollLive
    <2> QED BY <1>4, <2>1
  <1>7. CASE (\E p \in Registrants : Register(p)) \/ (\E h \in Handlers : Rpc(h))
    <2>1. /\ completion' = completion
          /\ contestQ' = contestQ \/ (contestQ # <<>> /\ contestQ' = Tail(contestQ))
      BY <1>7 DEF Register, Rpc, Answer, SubmitBid, SubmitBidFails, AwaitContest, TakeContest,
                  ContestsClosed
    <2> QED BY <1>0, <1>4, <2>1, RangeLemma
  <1> QED BY <1>5, <1>6, <1>7 DEF Next

LEMMA RepliesKept ==
  ASSUME WinnersInv, RepliesInv, UNCHANGED vars
  PROVE  WinnersInv' /\ RepliesInv'
  BY DEF vars, channels, storage, rpc, WinnersInv, Undecided, RepliesInv, RepliesAreOnRecord,
         Replied, Range

LEMMA InitReplies == Init => RepliesInv
  BY NoRange DEF Init, RepliesInv, RepliesAreOnRecord, Replied

LEMMA WinnersAreStored ==
  ASSUME TypeInv, StorageFails = FALSE
  PROVE  ~(StoreWinner /\ UNCHANGED stored)
  <1> SUFFICES ASSUME StoreWinner, UNCHANGED stored PROVE FALSE
      OBVIOUS
  <1>1. stored \in Seq(Contest) /\ stored = Append(stored, completion.contest)
    BY DEF StoreWinner, StoreContest, AccessMayFail, TypeInv, TypeOK
  <1>2. Len(stored) \in Nat /\ Len(stored) = Len(stored) + 1
    BY <1>1
  <1> QED BY <1>2

(* Without storage failures, what a bidder is told agrees with the record  *)
(* of a contest that has a winner: for any number of calls, however long   *)
(* the contest is under way (main.rs:485-494, networking.rs:174-203).      *)
THEOREM VerdictsAgreeWithRecords ==
  ASSUME StorageFails = FALSE PROVE Spec => []RepliesAreOnRecord
  <1>1. Init => WinnersInv /\ RepliesInv
    BY InitWinners, InitReplies
  <1>2. TypeInv /\ WinnersInv /\ RepliesInv /\ [Next]_vars => WinnersInv' /\ RepliesInv'
    <2> SUFFICES ASSUME TypeInv, WinnersInv, RepliesInv, [Next]_vars PROVE WinnersInv' /\ RepliesInv'
        OBVIOUS
    <2>1. ~(StoreWinner /\ UNCHANGED stored)
      BY WinnersAreStored
    <2> QED BY <2>1, WinnersStep, RepliesStep, RepliesKept
  <1>3. Spec => []TypeInv
    BY TypeCorrect DEF TypeInv
  <1>4. Spec => [](WinnersInv /\ RepliesInv)
    BY <1>1, <1>2, <1>3, PTL DEF Spec
  <1> QED BY <1>4, PTL DEF RepliesInv
-----------------------------------------------------------------------------
(* The order of the records after the first b.                             *)

Series(s, b) ==
  /\ \A i, j \in (b + 1)..Len(s) :
       i < j /\ (Undecided(s[i]) <=> Undecided(s[j])) => s[i].id < s[j].id
  /\ \A j \in (b + 1)..Len(s) :
       Undecided(s[j]) /\ s[j].id > 0 =>
         \E i \in (b + 1)..(j - 1) : Undecided(s[i]) /\ s[i].id = s[j].id - 1

\* No record has that of its predecessor earlier than need be.
Follow(s) ==
  \A j \in DOMAIN s : s[j].id > 0 =>
    \E i \in 1..(j - 1) :
      /\ Undecided(s[i]) /\ s[i].id = s[j].id - 1
      /\ \A k \in (i + 1)..(j - 1) :
           Undecided(s[k]) => ~Undecided(s[j]) /\ s[k].id >= s[j].id

\* Every contest before contest n has its record without a winner.
AllBefore(s, b, n) ==
  \A m \in Nat : m < n => \E i \in (b + 1)..Len(s) : Undecided(s[i]) /\ s[i].id = m

\* The last record without a winner is that of contest n.
Latest(s, b, n) ==
  \E i \in (b + 1)..Len(s) : /\ Undecided(s[i]) /\ s[i].id = n
                             /\ \A k \in (i + 1)..Len(s) : ~Undecided(s[k])

UndecidedBefore(s, b, n) == \A i \in (b + 1)..Len(s) : Undecided(s[i]) => s[i].id < n
DecidedBefore(s, b, n)   == \A i \in (b + 1)..Len(s) : ~Undecided(s[i]) => s[i].id < n

LEMMA AppendDecided ==
  ASSUME NEW s \in Seq(Contest), NEW c \in Contest, ~Undecided(c),
         NEW b \in 0..Len(s), Series(s, b), Follow(s), DecidedBefore(s, b, c.id),
         AllBefore(s, b, c.id)
  PROVE  LET t == Append(s, c)
         IN  /\ Series(t, b) /\ Follow(t)
             /\ \A n : /\ Latest(s, b, n) => Latest(t, b, n)
                       /\ UndecidedBefore(s, b, n) => UndecidedBefore(t, b, n)
                       /\ AllBefore(s, b, n) => AllBefore(t, b, n)
  <1> DEFINE t == Append(s, c)
  <1>1. /\ Len(s) \in Nat /\ b \in Nat /\ Len(t) = Len(s) + 1 /\ t[Len(t)] = c
        /\ DOMAIN s = 1..Len(s) /\ DOMAIN t = 1..Len(t)
        /\ \A i \in 1..Len(s) : t[i] = s[i]
    OBVIOUS
  <1> HIDE DEF t
  <1>2. \A i \in (b + 1)..Len(t) : (i \in (b + 1)..Len(s) /\ i \in 1..Len(s)) \/ i = Len(t)
    BY <1>1
  <1>3. \A i \in 1..Len(t) : Undecided(t[i]) => i \in 1..Len(s) /\ t[i] = s[i]
    BY <1>1
  <1>4. ASSUME NEW i \in (b + 1)..Len(t), NEW j \in (b + 1)..Len(t), i < j,
               Undecided(t[i]) <=> Undecided(t[j])
        PROVE  t[i].id < t[j].id
    <2>1. i \in (b + 1)..Len(s) /\ i \in 1..Len(s) /\ t[i] = s[i]
      BY <1>1, <1>4
    <2>2. CASE j \in (b + 1)..Len(s)
      BY <1>1, <1>4, <2>1, <2>2 DEF Series
    <2>3. CASE j = Len(t)
      BY <1>1, <1>4, <2>1, <2>3 DEF DecidedBefore
    <2> QED BY <1>2, <2>2, <2>3
  <1>5. ASSUME NEW j \in (b + 1)..Len(t), Undecided(t[j]), t[j].id > 0
        PROVE  \E i \in (b + 1)..(j - 1) : Undecided(t[i]) /\ t[i].id = t[j].id - 1
    <2>1. j \in (b + 1)..Len(s) /\ t[j] = s[j]
      BY <1>1, <1>3, <1>5
    <2>2. PICK i \in (b + 1)..(j - 1) : Undecided(s[i]) /\ s[i].id = s[j].id - 1
      BY <1>5, <2>1 DEF Series
    <2>3. i \in 1..Len(s)
      BY <1>1, <2>1
    <2> QED BY <1>1, <2>1, <2>2, <2>3
  <1>6. ASSUME NEW j \in DOMAIN t, t[j].id > 0
        PROVE  \E i \in 1..(j - 1) :
                 /\ Undecided(t[i]) /\ t[i].id = t[j].id - 1
                 /\ \A k \in (i + 1)..(j - 1) :
                      Undecided(t[k]) => ~Undecided(t[j]) /\ t[k].id >= t[j].id
    <2>1. CASE j = Len(t)
      <3>1. c.id \in Nat /\ c.id > 0 /\ \A i \in 1..Len(s) : s[i].id \in Nat
        <4>1. \A d \in Contest : d.id \in Nat
          BY DEF Contest
        <4>2. \A i \in 1..Len(s) : s[i] \in Contest
          OBVIOUS
        <4> QED BY <1>1, <1>6, <2>1, <4>1, <4>2
      <3>2. PICK i \in (b + 1)..Len(s) : Undecided(s[i]) /\ s[i].id = c.id - 1
        <4>1. c.id - 1 \in Nat /\ c.id - 1 < c.id
          BY <3>1
        <4> QED BY <4>1 DEF AllBefore
      <3>3. ASSUME NEW k \in (i + 1)..Len(s), Undecided(s[k]) PROVE s[k].id >= c.id
        <4>1. k \in (b + 1)..Len(s) /\ k \in 1..Len(s) /\ i < k
          BY <1>1
        <4>2. s[i].id < s[k].id
          BY <3>2, <3>3, <4>1 DEF Series
        <4> QED BY <3>1, <3>2, <4>1, <4>2
      <3>4. /\ j - 1 = Len(s) /\ i \in 1..(j - 1) /\ i \in 1..Len(s) /\ t[j] = c
            /\ \A k \in (i + 1)..(j - 1) : k \in (i + 1)..Len(s) /\ t[k] = s[k]
        BY <1>1, <2>1
      <3> QED BY <1>1, <3>2, <3>3, <3>4
    <2>2. CASE j \in 1..Len(s)
      <3>1. t[j] = s[j]
        BY <1>1, <2>2
      <3>2. PICK i \in 1..(j - 1) : /\ Undecided(s[i]) /\ s[i].id = s[j].id - 1
                                    /\ \A k \in (i + 1)..(j - 1) :
                                         Undecided(s[k]) => ~Undecided(s[j]) /\ s[k].id >= s[j].id
        BY <1>1, <1>6, <2>2, <3>1 DEF Follow
      <3>3. i \in 1..Len(s) /\ \A k \in (i + 1)..(j - 1) : k \in 1..Len(s)
        BY <1>1, <2>2
      <3> QED BY <1>1, <3>1, <3>2, <3>3
    <2> QED BY <1>1, <2>1, <2>2
  <1>7. ASSUME NEW n, Latest(s, b, n) PROVE Latest(t, b, n)
    <2>1. PICK i \in (b + 1)..Len(s) : /\ Undecided(s[i]) /\ s[i].id = n
                                       /\ \A k \in (i + 1)..Len(s) : ~Undecided(s[k])
      BY <1>7 DEF Latest
    <2>2. i \in (b + 1)..Len(t) /\ i \in 1..Len(s) /\ t[i] = s[i]
      BY <1>1
    <2>3. \A k \in (i + 1)..Len(t) : k = Len(t) \/ (k \in (i + 1)..Len(s) /\ t[k] = s[k])
      BY <1>1, <2>2
    <2>4. \A k \in (i + 1)..Len(t) : ~Undecided(t[k])
      BY <1>1, <2>1, <2>3
    <2> QED BY <2>1, <2>2, <2>4 DEF Latest
  <1>8. ASSUME NEW n, UndecidedBefore(s, b, n) PROVE UndecidedBefore(t, b, n)
    BY <1>1, <1>2, <1>8 DEF UndecidedBefore
  <1>9. ASSUME NEW n, AllBefore(s, b, n) PROVE AllBefore(t, b, n)
    <2> SUFFICES ASSUME NEW m \in Nat, m < n
                 PROVE  \E i \in (b + 1)..Len(t) : Undecided(t[i]) /\ t[i].id = m
        BY DEF AllBefore
    <2>1. PICK i \in (b + 1)..Len(s) : Undecided(s[i]) /\ s[i].id = m
      BY <1>9 DEF AllBefore
    <2> QED BY <1>1, <2>1
  <1> QED BY <1>4, <1>5, <1>6, <1>7, <1>8, <1>9 DEF Series, Follow, t

LEMMA AppendUndecided ==
  ASSUME NEW s \in Seq(Contest), NEW c \in Contest, Undecided(c),
         NEW b \in 0..Len(s), Series(s, b), Follow(s), UndecidedBefore(s, b, c.id),
         c.id > 0 => Latest(s, b, c.id - 1), AllBefore(s, b, c.id)
  PROVE  LET t == Append(s, c)
         IN  /\ Series(t, b) /\ Follow(t)
             /\ Latest(t, b, c.id) /\ UndecidedBefore(t, b, c.id + 1)
             /\ AllBefore(t, b, c.id + 1)
             /\ \A n : DecidedBefore(s, b, n) => DecidedBefore(t, b, n)
  <1> DEFINE t == Append(s, c)
  <1>0. \A d \in Contest : d.id \in Nat
    BY DEF Contest
  <1>1. /\ Len(s) \in Nat /\ b \in Nat /\ Len(t) = Len(s) + 1 /\ t[Len(t)] = c
        /\ DOMAIN s = 1..Len(s) /\ DOMAIN t = 1..Len(t)
        /\ \A i \in 1..Len(s) : t[i] = s[i]
        /\ c.id \in Nat /\ \A i \in 1..Len(s) : s[i].id \in Nat
    <2>1. \A i \in 1..Len(s) : s[i] \in Contest
      OBVIOUS
    <2>2. /\ Len(s) \in Nat /\ b \in Nat /\ Len(t) = Len(s) + 1 /\ t[Len(t)] = c
          /\ DOMAIN s = 1..Len(s) /\ DOMAIN t = 1..Len(t)
          /\ \A i \in 1..Len(s) : t[i] = s[i]
      OBVIOUS
    <2> HIDE DEF t
    <2> QED BY <1>0, <2>1, <2>2
  <1> HIDE DEF t
  <1>2. \A i \in (b + 1)..Len(t) : (i \in (b + 1)..Len(s) /\ i \in 1..Len(s)) \/ i = Len(t)
    BY <1>1
  <1>3. ASSUME NEW i \in (b + 1)..Len(t), NEW j \in (b + 1)..Len(t), i < j,
               Undecided(t[i]) <=> Undecided(t[j])
        PROVE  t[i].id < t[j].id
    <2>1. i \in (b + 1)..Len(s) /\ i \in 1..Len(s) /\ t[i] = s[i]
      BY <1>1, <1>3
    <2>2. CASE j \in (b + 1)..Len(s)
      BY <1>1, <1>3, <2>1, <2>2 DEF Series
    <2>3. CASE j = Len(t)
      BY <1>1, <1>3, <2>1, <2>3 DEF UndecidedBefore
    <2> QED BY <1>2, <2>2, <2>3
  <1>4. ASSUME c.id > 0
        PROVE  \E i \in (b + 1)..Len(s) : /\ Undecided(t[i]) /\ t[i].id = c.id - 1
                                          /\ \A k \in (i + 1)..Len(s) : ~Undecided(t[k])
    <2>1. PICK i \in (b + 1)..Len(s) : /\ Undecided(s[i]) /\ s[i].id = c.id - 1
                                       /\ \A k \in (i + 1)..Len(s) : ~Undecided(s[k])
      BY <1>4 DEF Latest
    <2>2. i \in 1..Len(s) /\ \A k \in (i + 1)..Len(s) : k \in 1..Len(s)
      BY <1>1
    <2> QED BY <1>1, <2>1, <2>2
  <1>5. ASSUME NEW j \in (b + 1)..Len(t), Undecided(t[j]), t[j].id > 0
        PROVE  \E i \in (b + 1)..(j - 1) : Undecided(t[i]) /\ t[i].id = t[j].id - 1
    <2>1. CASE j = Len(t)
      BY <1>1, <1>4, <1>5, <2>1
    <2>2. CASE j \in (b + 1)..Len(s)
      <3>1. t[j] = s[j]
        BY <1>1, <2>2
      <3>2. PICK i \in (b + 1)..(j - 1) : Undecided(s[i]) /\ s[i].id = s[j].id - 1
        BY <1>5, <2>2, <3>1 DEF Series
      <3>3. i \in 1..Len(s)
        BY <1>1, <2>2
      <3> QED BY <1>1, <3>1, <3>2, <3>3
    <2> QED BY <1>2, <2>1, <2>2
  <1>6. ASSUME NEW j \in DOMAIN t, t[j].id > 0
        PROVE  \E i \in 1..(j - 1) :
                 /\ Undecided(t[i]) /\ t[i].id = t[j].id - 1
                 /\ \A k \in (i + 1)..(j - 1) :
                      Undecided(t[k]) => ~Undecided(t[j]) /\ t[k].id >= t[j].id
    <2>1. CASE j = Len(t)
      <3>1. PICK i \in (b + 1)..Len(s) : /\ Undecided(t[i]) /\ t[i].id = c.id - 1
                                         /\ \A k \in (i + 1)..Len(s) : ~Undecided(t[k])
        BY <1>1, <1>4, <1>6, <2>1
      <3>2. j - 1 = Len(s) /\ i \in 1..(j - 1) /\ t[j] = c
        BY <1>1, <2>1
      <3> QED BY <3>1, <3>2
    <2>2. CASE j \in 1..Len(s)
      <3>1. t[j] = s[j]
        BY <1>1, <2>2
      <3>2. PICK i \in 1..(j - 1) : /\ Undecided(s[i]) /\ s[i].id = s[j].id - 1
                                    /\ \A k \in (i + 1)..(j - 1) :
                                         Undecided(s[k]) => ~Undecided(s[j]) /\ s[k].id >= s[j].id
        BY <1>1, <1>6, <2>2, <3>1 DEF Follow
      <3>3. i \in 1..Len(s) /\ \A k \in (i + 1)..(j - 1) : k \in 1..Len(s)
        BY <1>1, <2>2
      <3> QED BY <1>1, <3>1, <3>2, <3>3
    <2> QED BY <1>1, <2>1, <2>2
  <1>7. Latest(t, b, c.id)
    <2>1. Len(t) \in (b + 1)..Len(t) /\ \A k \in (Len(t) + 1)..Len(t) : FALSE
      BY <1>1
    <2> QED BY <1>1, <2>1 DEF Latest
  <1>8. UndecidedBefore(t, b, c.id + 1)
    <2>1. ASSUME NEW i \in (b + 1)..Len(s), Undecided(s[i]) PROVE s[i].id < c.id /\ s[i].id \in Nat
      BY <1>1, <2>1 DEF UndecidedBefore
    <2> QED BY <1>1, <1>2, <2>1 DEF UndecidedBefore
  <1>9. ASSUME NEW n, DecidedBefore(s, b, n) PROVE DecidedBefore(t, b, n)
    BY <1>1, <1>2, <1>9 DEF DecidedBefore
  <1>10. AllBefore(t, b, c.id + 1)
    <2> SUFFICES ASSUME NEW m \in Nat, m < c.id + 1
                 PROVE  \E i \in (b + 1)..Len(t) : Undecided(t[i]) /\ t[i].id = m
        BY DEF AllBefore
    <2>1. CASE m < c.id
      <3>1. PICK i \in (b + 1)..Len(s) : Undecided(s[i]) /\ s[i].id = m
        BY <2>1 DEF AllBefore
      <3>2. i \in 1..Len(s) /\ i \in (b + 1)..Len(t)
        BY <1>1
      <3>3. t[i] = s[i]
        BY <1>1, <3>2
      <3> QED BY <3>1, <3>2, <3>3
    <2>2. CASE m = c.id
      <3>1. Len(t) \in (b + 1)..Len(t)
        BY <1>1
      <3> QED BY <1>1, <2>2, <3>1
    <2> QED BY <1>1, <2>1, <2>2
  <1> QED BY <1>3, <1>5, <1>6, <1>7, <1>8, <1>9, <1>10 DEF Series, Follow, t
-----------------------------------------------------------------------------
(* The two tasks that store.  Of a record with a winner the outcome is     *)
(* with the handlers or about to be sent; start_new_contest has stored     *)
(* every contest up to the one before the current.                         *)

Settled == Announced \cup IF completion.pc = "send" THEN {completion.contest.id} ELSE {}

SeriesInv(b) ==
  /\ b \in 0..Len(stored)
  /\ Series(stored, b) /\ Follow(stored)
  /\ \A i \in (b + 1)..Len(stored) : ~Undecided(stored[i]) => stored[i].id \in Settled
  /\ scheduler.pc \in {"loop", "store"} =>
       /\ UndecidedBefore(stored, b, contest.id)
       /\ contest.id > 0 => Latest(stored, b, contest.id - 1)
  /\ scheduler.pc = "store" => scheduler.copy.id = contest.id
  /\ scheduler.pc = "proofWindow" =>
       /\ UndecidedBefore(stored, b, contest.id + 1)
       /\ Latest(stored, b, contest.id)
       /\ AllBefore(stored, b, contest.id + 1)
  /\ AllBefore(stored, b, contest.id)

LEMMA SettledStep ==
  ASSUME TypeInv, Next
  PROVE  Settled \subseteq Settled'
  <1> USE DEF channels, storage, rpc
  <1>0. contestQ \in Seq(Contest) /\ completion \in CompletionType
    BY DEF TypeInv, TypeOK
  <1>1. CASE \E h \in Handlers : TakeContest(h)
    <2>1. PICK h \in Handlers : Takes(h)
      BY <1>1, TakeStep
    <2>2. /\ contestQ # <<>> /\ contestQ' = Tail(contestQ) /\ completion' = completion
      BY <2>1 DEF Takes, TakeContest
    <2>3. Ids(contestQ) = {Head(contestQ).id} \cup Ids(contestQ')
      BY <1>0, <2>2, IdsTail
    <2>4. Ids(contestQ)' = Ids(contestQ')
      BY DEF Ids
    <2>5. Taken \cup {Head(contestQ).id} \subseteq Taken'
      <3>1. \A g \in Replied : handler'[g] = handler[g]
        BY <2>1 DEF Takes, Replied
      <3> QED BY <2>1, <3>1 DEF Takes, Taken
    <2> QED BY <2>2, <2>3, <2>4, <2>5 DEF Settled, Announced
  <1>2. CASE ~\E h \in Handlers : TakeContest(h)
    <2>1. Taken' = Taken
      BY <1>2, ReplyStep DEF Takes, Taken
    <2>2. CASE SendContest
      <3>1. /\ contestQ' = Append(contestQ, completion.contest) /\ completion.contest \in Contest
        BY <1>0, <2>2 DEF SendContest, CompletionType
      <3>2. Ids(contestQ)' = Ids(contestQ) \cup {completion.contest.id}
        <4>1. Ids(contestQ') = Ids(contestQ) \cup {completion.contest.id}
          BY <1>0, <3>1, IdsAppend
        <4> QED BY <4>1 DEF Ids
      <3> QED BY <2>1, <3>2 DEF Settled, Announced
    <2>3. CASE contestQ' = contestQ /\ (completion.pc # "send" \/ completion' = completion)
      BY <2>1, <2>3 DEF Settled, Announced, Ids
    <2>4. CASE Completion
      BY <2>2, <2>3, <2>4 DEF Completion, CompleteWithoutBids, SelectWinner, SelectionPanics, StoreWinner
    <2>5. CASE Scheduler \/ Listener \/ Poller
      BY <2>3, <2>5
         DEF Scheduler, StartFirst, EndContest, CopyEnded, StoreEnded, StoreEndedFails, StartNext,
             Listener, ReceiveBid, AddBid, ReadProfile, WriteProfile,
             Poller, PollEnded, PollerSend, PollLive
    <2>6. CASE (\E p \in Registrants : Register(p)) \/ (\E h \in Handlers : Rpc(h))
      BY <1>2, <2>3, <2>6
         DEF Register, Rpc, Answer, SubmitBid, SubmitBidFails, AwaitContest, ContestsClosed
    <2> QED BY <2>4, <2>5, <2>6 DEF Next
  <1> QED BY <1>1, <1>2

\* What a step that stores nothing does to the scheduler and the id.
LEMMA IdStep ==
  ASSUME TypeInv, PipelineInv, Next, stored' = stored
  PROVE  \/ scheduler' = scheduler /\ contest'.id = contest.id
         \/ /\ scheduler.pc = "loop" /\ scheduler'.pc = "store"
            /\ scheduler'.copy = contest /\ contest' = contest
         \/ /\ scheduler.pc = "proofWindow" /\ scheduler'.pc = "loop"
            /\ contest'.id = contest.id + 1
         \/ scheduler'.pc = "dead" /\ contest' = contest
  <1>0. /\ contest \in Contest /\ scheduler \in SchedulerType /\ stored \in Seq(Contest)
        /\ contest.status = "NotStarted" => contest.id = 0
    BY DEF TypeInv, TypeOK, PipelineInv, PipelineBehind
  <1>1. CASE Scheduler
    <2>1. CASE StartFirst
      BY <1>0, <2>1 DEF StartFirst, StartContest
    <2>2. CASE EndContest
      BY <1>0, <2>2 DEF EndContest, Contest
    <2>3. CASE CopyEnded
      BY <2>3 DEF CopyEnded
    <2>4. ~StoreEnded
      <3> SUFFICES ASSUME StoreEnded PROVE FALSE
          OBVIOUS
      <3>1. stored = Append(stored, scheduler.copy)
        BY DEF StoreEnded, StoreContest
      <3>2. Len(stored) \in Nat /\ Len(stored) = Len(stored) + 1
        BY <1>0, <3>1
      <3> QED BY <3>2
    <2>5. CASE StoreEndedFails
      BY <2>5 DEF StoreEndedFails
    <2>6. CASE StartNext
      BY <1>0, <2>6 DEF StartNext, StartContest, SchedulerType
    <2> QED BY <1>1, <2>1, <2>2, <2>3, <2>4, <2>5, <2>6 DEF Scheduler
  <1>2. CASE Listener
    <2>1. CASE AddBid
      BY <1>0, <2>1 DEF AddBid, Contest
    <2> QED BY <1>2, <2>1 DEF Listener, ReceiveBid, ReadProfile, WriteProfile
  <1>3. CASE Poller \/ Completion
    BY <1>3 DEF Poller, PollEnded, PollerSend, PollLive, Completion, CompleteWithoutBids,
                SelectWinner, SelectionPanics, StoreWinner, SendContest
  <1>4. CASE (\E p \in Registrants : Register(p)) \/ (\E h \in Handlers : Rpc(h))
    BY <1>4 DEF Register, Rpc, Answer, SubmitBid, SubmitBidFails, AwaitContest, TakeContest,
                ContestsClosed
  <1> QED BY <1>1, <1>2, <1>3, <1>4 DEF Next

LEMMA SeriesStep ==
  ASSUME TypeInv, PipelineInv, WinnersInv, NEW b \in Nat, SeriesInv(b), Next
  PROVE  SeriesInv(b)'
  <1>0. /\ stored \in Seq(Contest) /\ contest.id \in Nat /\ Len(stored) \in Nat
        /\ scheduler \in SchedulerType /\ completion \in CompletionType
        /\ Settled \subseteq Settled'
    BY SettledStep DEF TypeInv, TypeOK, Contest
  <1>1. CASE stored' = stored
    <2>1. /\ b \in 0..Len(stored') /\ Series(stored', b) /\ Follow(stored')
          /\ \A i \in (b + 1)..Len(stored') : ~Undecided(stored'[i]) => stored'[i].id \in Settled'
      BY <1>0, <1>1 DEF SeriesInv
    <2>2. CASE scheduler' = scheduler /\ contest'.id = contest.id
      BY <1>1, <2>1, <2>2 DEF SeriesInv
    <2>3. CASE /\ scheduler.pc = "loop" /\ scheduler'.pc = "store"
               /\ scheduler'.copy = contest /\ contest' = contest
      BY <1>1, <2>1, <2>3 DEF SeriesInv
    <2>4. CASE /\ scheduler.pc = "proofWindow" /\ scheduler'.pc = "loop"
               /\ contest'.id = contest.id + 1
      <3>1. contest'.id - 1 = contest.id
        BY <1>0, <2>4
      <3> QED BY <1>1, <2>1, <2>4, <3>1 DEF SeriesInv
    <2>5. CASE scheduler'.pc = "dead" /\ contest' = contest
      BY <1>1, <2>1, <2>5 DEF SeriesInv
    <2> QED BY <1>1, <2>2, <2>3, <2>4, <2>5, IdStep
  <1>2. CASE /\ StoreEnded \/ StoreEndedFails
             /\ scheduler.copy \in Contest /\ stored' = Append(stored, scheduler.copy)
    <2>1. PICK c \in Contest : c = scheduler.copy
      BY <1>2
    <2>2. /\ Undecided(c) /\ c.id = contest.id
          /\ UndecidedBefore(stored, b, c.id)
          /\ c.id > 0 => Latest(stored, b, c.id - 1)
          /\ AllBefore(stored, b, c.id)
      BY <1>2, <2>1 DEF StoreEnded, StoreEndedFails, WinnersInv, SeriesInv
    <2>3. /\ contest' = contest /\ scheduler'.pc \in {"proofWindow", "dead"}
      BY <1>2 DEF StoreEnded, StoreEndedFails
    <2>4. PICK t : t = Append(stored, c)
      OBVIOUS
    <2>5. /\ Series(t, b) /\ Follow(t) /\ Latest(t, b, c.id)
          /\ UndecidedBefore(t, b, c.id + 1) /\ AllBefore(t, b, c.id + 1)
      BY <1>0, <2>2, <2>4, AppendUndecided DEF SeriesInv
    <2>6. /\ t \in Seq(Contest) /\ Len(t) = Len(stored) + 1 /\ t[Len(t)] = c
          /\ \A i \in 1..Len(stored) : t[i] = stored[i]
      BY <1>0, <2>4
    <2>7. \A i \in (b + 1)..Len(t) : ~Undecided(t[i]) => t[i].id \in Settled'
      <3>1. \A i \in (b + 1)..Len(t) :
              (i \in (b + 1)..Len(stored) /\ i \in 1..Len(stored)) \/ i = Len(t)
        BY <1>0, <2>6
      <3> QED BY <1>0, <2>2, <2>6, <3>1 DEF SeriesInv
    <2>8. b \in 0..Len(t)
      BY <1>0, <2>6 DEF SeriesInv
    <2>9. stored' = t
      BY <1>2, <2>1, <2>4
    <2>10. AllBefore(t, b, c.id)
      <3>1. \A m \in Nat : m < c.id => m < c.id + 1
        <4>1. c.id \in Int
          BY DEF Contest
        <4> QED BY <4>1
      <3> QED BY <2>5, <3>1 DEF AllBefore
    <2> QED BY <2>2, <2>3, <2>5, <2>7, <2>8, <2>9, <2>10 DEF SeriesInv
  <1>3. CASE /\ StoreWinner
             /\ completion.contest \in Contest /\ stored' = Append(stored, completion.contest)
    <2>1. PICK c \in Contest : c = completion.contest
      BY <1>3
    <2>2. /\ ~Undecided(c) /\ completion.pc = "store" /\ UNCHANGED <<contest, scheduler>>
      BY <1>3, <2>1 DEF StoreWinner, WinnersInv
    <2>3. c.id \in Settled'
      <3>1. completion'.pc = "send" /\ completion'.contest = c
        BY <1>0, <1>3, <2>1 DEF StoreWinner, CompletionType
      <3> QED BY <3>1 DEF Settled
    <2>4. DecidedBefore(stored, b, c.id)
      <3>1. \A k \in Settled : k < c.id
        BY <2>1, <2>2 DEF Settled, Announced, PipelineInv, PipelineOrdered, Before, AtCompletion
      <3> QED BY <3>1 DEF SeriesInv, DecidedBefore
    <2>5. PICK t : t = Append(stored, c)
      OBVIOUS
    <2>6. /\ Series(t, b) /\ Follow(t)
          /\ \A n : /\ Latest(stored, b, n) => Latest(t, b, n)
                    /\ UndecidedBefore(stored, b, n) => UndecidedBefore(t, b, n)
                    /\ AllBefore(stored, b, n) => AllBefore(t, b, n)
      <3>1. c.id <= contest.id /\ c.id \in Nat
        BY <1>0, <2>1, <2>2 DEF PipelineInv, PipelineBehind, InPipeline, AtCompletion, Contest
      <3>2. AllBefore(stored, b, c.id)
        BY <1>0, <3>1 DEF SeriesInv, AllBefore
      <3> QED BY <1>0, <2>2, <2>4, <2>5, <3>2, AppendDecided DEF SeriesInv
    <2>7. /\ t \in Seq(Contest) /\ Len(t) = Len(stored) + 1 /\ t[Len(t)] = c
          /\ \A i \in 1..Len(stored) : t[i] = stored[i]
      BY <1>0, <2>5
    <2>8. \A i \in (b + 1)..Len(t) : ~Undecided(t[i]) => t[i].id \in Settled'
      <3>1. \A i \in (b + 1)..Len(t) :
              (i \in (b + 1)..Len(stored) /\ i \in 1..Len(stored)) \/ i = Len(t)
        BY <1>0, <2>7
      <3> QED BY <1>0, <2>3, <2>7, <3>1 DEF SeriesInv
    <2>9. b \in 0..Len(t)
      BY <1>0, <2>7 DEF SeriesInv
    <2>10. stored' = t
      BY <1>3, <2>1, <2>5
    <2> QED BY <2>2, <2>6, <2>8, <2>9, <2>10 DEF SeriesInv
  <1> QED BY <1>1, <1>2, <1>3, StoredStep

LEMMA SeriesKept ==
  ASSUME NEW b \in Nat, SeriesInv(b), UNCHANGED vars
  PROVE  SeriesInv(b)'
  <1>1. UNCHANGED <<contest, scheduler, completion, stored, contestQ, handler>>
    BY DEF vars, channels, storage, rpc
  <1>2. Settled' = Settled
    BY <1>1 DEF Settled, Announced, Taken, Replied, Ids
  <1> QED BY <1>1, <1>2 DEF SeriesInv

LEMMA InitSeries == Init => SeriesInv(0)
  <1> SUFFICES ASSUME Init PROVE SeriesInv(0)
      OBVIOUS
  <1>1. Len(stored) = 0 /\ stored = <<>> /\ scheduler.pc = "loop" /\ contest.id = 0
    BY DEF Init, DefaultContest
  <1> QED BY <1>1 DEF SeriesInv, Series, Follow, UndecidedBefore, AllBefore

LEMMA SeriesOrder == SeriesInv(0) => StoredInOrder
  <1>1. 0 + 1 = 1
    OBVIOUS
  <1> QED BY <1>1 DEF SeriesInv, Series, StoredInOrder, InOrderFrom

(* Two tasks store the ended contests, each at most once and in the order  *)
(* of the ids, start_new_contest without leaving one out, whichever        *)
(* accesses fail (main.rs:408-414, 487, 503-508).                          *)
THEOREM RecordsAreInOrder == Spec => []StoredInOrder
  <1>1. Init => WinnersInv /\ SeriesInv(0)
    BY InitWinners, InitSeries
  <1>2. Inv /\ WinnersInv /\ SeriesInv(0) /\ [Next]_vars => WinnersInv' /\ SeriesInv(0)'
    <2> SUFFICES ASSUME Inv, WinnersInv, SeriesInv(0), [Next]_vars PROVE WinnersInv' /\ SeriesInv(0)'
        OBVIOUS
    <2>1. TypeInv /\ PipelineInv
      BY DEF Inv
    <2>2. CASE Next
      BY <2>1, <2>2, WinnersStep, SeriesStep
    <2>3. CASE UNCHANGED vars
      <3>1. WinnersInv'
        BY <2>3 DEF vars, channels, WinnersInv, Undecided, Range
      <3> QED BY <2>3, <3>1, SeriesKept
    <2> QED BY <2>2, <2>3
  <1>3. Spec => [](WinnersInv /\ SeriesInv(0))
    BY <1>1, <1>2, InvHolds, PTL DEF Spec
  <1> QED BY <1>3, SeriesOrder, PTL
=============================================================================
