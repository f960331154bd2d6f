------------------------- MODULE VerifierLivesProofs -------------------------
(***************************************************************************)
(* What survives the crashes of a verifier with Redis, for any number of   *)
(* lives and every value of the other constants.  A step within a life is  *)
(* a step of ContestCycle, whose invariants are stated for the records     *)
(* from some place on and for the calls that no crash has ended; a restart *)
(* puts the place at the end of the records and gives up all calls.        *)
(***************************************************************************)
EXTENDS VerifierLives, BidProofs

BidsSurvive == \E D \in SUBSET Handlers : Gone(D) /\ BidsInv(D)

LivesInv ==
  /\ Inv /\ WinnersInv /\ BidsSurvive
  /\ base \in Nat /\ SeriesInv(base)
  /\ unrecorded \/ RepliesInv
  /\ VerdictsOutliveCrashes

LEMMA InitLives == LivesInit => LivesInv
  <1> SUFFICES ASSUME LivesInit PROVE LivesInv
      OBVIOUS
  <1>1. Inv /\ WinnersInv /\ RepliesInv /\ VerdictsOutliveCrashes
    BY InitInv, InitWinners, InitReplies DEF LivesInit, VerdictsOutliveCrashes
  <1>2. BidsSurvive
    BY InitBidsInv DEF LivesInit, BidsSurvive, Gone
  <1>3. base \in Nat /\ SeriesInv(base)
    <2>1. Len(stored) = 0 /\ stored = <<>> /\ scheduler.pc = "loop" /\ contest.id = 0 /\ base = 0
      BY DEF LivesInit, Init, DefaultContest
    <2> QED BY <2>1 DEF SeriesInv, Series, Follow, UndecidedBefore, AllBefore
  <1> QED BY <1>1, <1>2, <1>3 DEF LivesInv

LEMMA FailedStay ==
  ASSUME TypeInv, Next, NEW h \in Handlers, handler[h].pc = "failed"
  PROVE  handler'[h].pc = "failed"
  <1>0. handler \in [Handlers -> HandlerType] /\ WaitersWait
    BY DEF TypeInv, TypeOK
  <1>1. CASE handler' = handler
    BY <1>1
  <1>2. ASSUME NEW g \in Handlers, Rpc(g) PROVE handler'[h] = handler[h]
    <2>1. g # h
      BY <1>0, <1>2
         DEF Rpc, Answer, SubmitBid, SubmitBidFails, AwaitContest, TakeContest, ContestsClosed,
             WaitersWait, TypeInv, TypeOK
    <2>2. \E r : handler' = [handler EXCEPT ![g] = r]
      BY <1>2 DEF Rpc, Answer, SubmitBid, SubmitBidFails, AwaitContest, TakeContest, ContestsClosed
    <2> QED BY <1>0, <2>1, <2>2
  <1>3. CASE Scheduler \/ Listener
    <2>1. handler' = handler
      BY <1>3 DEF Scheduler, StartFirst, EndContest, CopyEnded, StoreEnded, StoreEndedFails, StartNext,
                  Listener, ReceiveBid, AddBid, ReadProfile, WriteProfile, rpc
    <2> QED BY <1>1, <2>1
  <1>4. CASE Poller \/ Completion
    <2>1. handler' = handler
      BY <1>4 DEF Poller, PollEnded, PollerSend, PollLive, Completion, CompleteWithoutBids,
                  SelectWinner, SelectionPanics, StoreWinner, SendContest, rpc
    <2> QED BY <1>1, <2>1
  <1>5. CASE \E p \in Registrants : Register(p)
    BY <1>1, <1>5 DEF Register, rpc
  <1> QED BY <1>2, <1>3, <1>4, <1>5 DEF Next

LEMMA RunKeeps ==
  ASSUME LivesInv, Run
  PROVE  LivesInv'
  <1>0. /\ TypeInv /\ PipelineInv /\ Next /\ WinnersInv
        /\ UNCHANGED <<base, told>>
        /\ unrecorded' <=> (unrecorded \/ (StoreWinner /\ UNCHANGED stored))
    BY DEF Run, LivesInv, Inv
  <1>1. Inv' /\ WinnersInv'
    BY <1>0, InvStep, WinnersStep DEF LivesInv
  <1>2. BidsSurvive'
    <2>1. PICK D \in SUBSET Handlers : Gone(D) /\ BidsInv(D)
      BY DEF LivesInv, BidsSurvive
    <2>2. BidsInv(D)'
      BY <1>0, <2>1, BidsInvStep
    <2>3. Gone(D)'
      BY <1>0, <2>1, FailedStay DEF Gone
    <2> QED BY <2>2, <2>3 DEF BidsSurvive
  <1>3. base' \in Nat /\ SeriesInv(base)'
    <2>1. PICK b \in Nat : b = base
      BY DEF LivesInv
    <2>2. SeriesInv(b)
      BY <2>1 DEF LivesInv
    <2>3. SeriesInv(b)'
      BY <1>0, <2>2, SeriesStep
    <2>4. base' = b
      BY <1>0, <2>1
    <2> QED BY <2>3, <2>4 DEF SeriesInv
  <1>4. ASSUME ~unrecorded' PROVE RepliesInv' /\ VerdictsOutliveCrashes'
    <2>1. ~unrecorded /\ RepliesInv /\ ~(StoreWinner /\ UNCHANGED stored)
      BY <1>0, <1>4 DEF LivesInv
    <2>2. RepliesInv'
      BY <1>0, <2>1, RepliesStep
    <2>3. Range(stored) \subseteq Range(stored')
      BY <1>0, RecordsStay
    <2> QED BY <1>0, <2>1, <2>2, <2>3 DEF LivesInv, VerdictsOutliveCrashes
  <1> QED BY <1>1, <1>2, <1>3, <1>4 DEF LivesInv, VerdictsOutliveCrashes

\* What a crash and the next start leave of the process.
LEMMA RestartType ==
  ASSUME TypeInv, Restart
  PROVE  Inv' /\ WinnersInv'
  <1> USE DEF Restart, storage
  <1>0. stored \in Seq(Contest) /\ profiles \in [Names -> Profile \cup {None}]
        /\ handler \in [Handlers -> HandlerType]
    BY DEF TypeInv, TypeOK
  <1>1. contest' \in Contest
    BY DEF DefaultContest, Contest
  <1>2. handler' \in [Handlers -> HandlerType]
    BY <1>0 DEF HandlerType
  <1>3. /\ scheduler' \in SchedulerType /\ listener' \in ListenerType
        /\ poller' \in PollerType /\ completion' \in CompletionType
    BY DEF SchedulerType, ListenerType, PollerType, CompletionType
  <1>4. /\ bidQ' \in Seq(Bid) /\ internalQ' \in Seq(Contest) /\ contestQ' \in Seq(Contest)
        /\ waiters' \in Seq(Handlers)
    BY EmptyQueue
  <1>5. stored' \in Seq(Contest) /\ profiles' \in [Names -> Profile \cup {None}]
    BY <1>0
  <1>6. WaitersWait'
    BY DEF WaitersWait
  <1>7. TypeInv'
    BY <1>1, <1>2, <1>3, <1>4, <1>5, <1>6 DEF TypeInv, TypeOK
  <1>8. Replied' = {}
    BY <1>0 DEF Replied
  <1>9. PipelineInv'
    <2>1. /\ Taken' = {} /\ Ids(contestQ)' = {} /\ AtCompletion' = {}
          /\ Ids(internalQ)' = {} /\ AtPoller' = {}
      BY <1>8 DEF Taken, Ids, AtCompletion, AtPoller
    <2>2. Increasing(contestQ)' /\ Increasing(internalQ)'
      BY DEF Increasing
    <2>3. contest'.id = 0 /\ poller'.pc = "watch"
      BY DEF DefaultContest
    <2> QED BY <2>1, <2>2, <2>3
            DEF PipelineInv, PipelineOrdered, PipelineBehind, InPipeline, Announced, Before
  <1>10. WinnersInv'
    BY NoRange DEF DefaultContest, WinnersInv, Undecided
  <1> QED BY <1>7, <1>8, <1>9, <1>10 DEF Inv, OneTakerPerContest

LEMMA RestartBids ==
  ASSUME TypeInv, BidsSurvive, Restart
  PROVE  BidsSurvive'
  <1>0. PICK D \in SUBSET Handlers : Gone(D) /\ BidsInv(D)
    BY DEF BidsSurvive
  <1>1. /\ handler \in [Handlers -> HandlerType] /\ None \notin Bid
        /\ \A h \in Handlers : handler'[h].pc = "failed" \/ (handler[h].pc = "idle" /\ handler'[h] = handler[h])
    BY NoneAssumption DEF Restart, TypeInv, TypeOK
  <1>2. PICK E \in SUBSET Handlers : E = {h \in Handlers : handler'[h].pc = "failed"}
    OBVIOUS
  <1>3. AtHand' = {} /\ HandedOnce'
    BY NoRange DEF Restart, AtHand, HandedOnce, IsInjective
  <1>4. \A c \in Everywhere' : c \in Everywhere \/ Range(c.bids) = {}
    BY NoRange DEF Restart, storage, Everywhere, DefaultContest
  <1>5. Counted' \subseteq Counted /\ BidCountsOnce'
    BY <1>0, <1>4 DEF Counted, BidsInv, BidCountsOnce
  <1>6. ProfilesHeld' \subseteq ProfilesHeld
    BY DEF Restart, storage, ProfilesHeld
  <1>7. Listed' \subseteq Listed /\ ListedOnce'
    BY <1>0, <1>6 DEF Listed, BidsInv, ListedOnce
  <1>8. \A b \in AtHand \cup Counted \cup Listed : b \in Bid /\ b.by \in Handlers
    BY BidTypes DEF Bid
  <1>9. ASSUME NEW b \in Counted \cup Listed PROVE b.by \in E
    <2> SUFFICES ASSUME handler[b.by].pc = "idle" PROVE FALSE
        BY <1>1, <1>2, <1>8
    <2>1. handler[b.by].bid = None
      BY <1>1, <1>8 DEF HandlerType
    <2>2. b.by \notin D
      BY <1>0, <1>8 DEF Gone
    <2>3. handler[b.by].bid = b
      BY <1>0, <2>2 DEF BidsInv, Authentic
    <2> QED BY <1>1, <1>8, <2>1, <2>3
  <1>10. Gone(E)'
    BY <1>2 DEF Gone
  <1>11. Authentic(E)'
    BY <1>3, <1>5, <1>7, <1>9 DEF Authentic
  <1>12. Apart'
    BY <1>0, <1>3, <1>5, <1>7 DEF BidsInv, Apart
  <1>13. BidsInv(E)'
    BY <1>3, <1>5, <1>7, <1>11, <1>12 DEF BidsInv
  <1> QED BY <1>10, <1>13 DEF BidsSurvive

LEMMA RestartKeeps ==
  ASSUME LivesInv, Restart
  PROVE  LivesInv'
  <1>0. TypeInv /\ stored \in Seq(Contest) /\ stored' = stored
    BY DEF LivesInv, Inv, TypeInv, TypeOK, Restart, storage
  <1>1. Inv' /\ WinnersInv' /\ BidsSurvive'
    BY <1>0, RestartType, RestartBids DEF LivesInv
  <1>2. base' \in Nat /\ SeriesInv(base)'
    <2>1. PICK b \in Nat : b = Len(stored)
      BY <1>0
    <2>2. base' = b /\ scheduler'.pc = "loop" /\ contest'.id = 0
      BY <2>1 DEF Restart, DefaultContest
    <2>3. Follow(stored)
      BY DEF LivesInv, SeriesInv
    <2>4. \A i \in (b + 1)..b : FALSE
      OBVIOUS
    <2> QED BY <1>0, <2>1, <2>2, <2>3, <2>4 DEF SeriesInv, Series, UndecidedBefore, AllBefore
  <1>3. RepliesInv'
    <2>1. Replied' = {} /\ Range(contestQ') = {} /\ completion'.pc = "recv"
      BY <1>0, NoRange DEF Restart, Replied, TypeInv, TypeOK
    <2> QED BY <2>1 DEF RepliesInv, RepliesAreOnRecord
  <1>4. VerdictsOutliveCrashes'
    <2>1. /\ unrecorded' = unrecorded
          /\ told' = told \cup {[bid |-> handler[h].bid, reply |-> handler[h].reply] : h \in Replied}
      BY DEF Restart
    <2>2. ASSUME ~unrecorded, NEW h \in Replied
          PROVE  \E c \in Range(stored) :
                   /\ c.id = handler[h].reply.contest /\ c.winner # None
                   /\ handler[h].reply.verdict = "won" <=> c.winner.addr = handler[h].bid.addr
      BY <2>2 DEF LivesInv, RepliesInv, RepliesAreOnRecord
    <2> QED BY <1>0, <2>1, <2>2 DEF LivesInv, VerdictsOutliveCrashes
  <1> QED BY <1>1, <1>2, <1>3, <1>4 DEF LivesInv

LEMMA LivesInvHolds == LivesSpec => []LivesInv
  <1>1. LivesInv /\ [LivesNext]_<<vars, history>> => LivesInv'
    <2> SUFFICES ASSUME LivesInv, [LivesNext]_<<vars, history>> PROVE LivesInv'
        OBVIOUS
    <2>1. CASE UNCHANGED <<vars, history>>
      <3>0. UNCHANGED vars /\ UNCHANGED <<base, told, unrecorded>>
        BY <2>1 DEF history
      <3>1. Inv'
        BY <3>0, InvStep DEF LivesInv
      <3>2. WinnersInv' /\ (RepliesInv => RepliesInv')
        BY <3>0 DEF vars, channels, storage, rpc, LivesInv, WinnersInv, Undecided, RepliesInv,
                    RepliesAreOnRecord, Replied, Range
      <3>3. BidsSurvive'
        <4>1. PICK D \in SUBSET Handlers : Gone(D) /\ BidsInv(D)
          BY DEF LivesInv, BidsSurvive
        <4>2. BidsInv(D)'
          BY <3>0, <4>1, BidsInvStep DEF LivesInv, Inv
        <4>3. Gone(D)'
          BY <3>0, <4>1 DEF Gone, vars, rpc
        <4> QED BY <4>2, <4>3 DEF BidsSurvive
      <3>4. base' \in Nat /\ SeriesInv(base)'
        <4>1. PICK b \in Nat : b = base
          BY DEF LivesInv
        <4>2. SeriesInv(b)
          BY <4>1 DEF LivesInv
        <4>3. SeriesInv(b)'
          BY <3>0, <4>2, SeriesKept
        <4>4. base' = b
          BY <3>0, <4>1
        <4> QED BY <4>3, <4>4 DEF SeriesInv
      <3>5. VerdictsOutliveCrashes'
        BY <3>0 DEF vars, storage, LivesInv, VerdictsOutliveCrashes, Range
      <3> QED BY <3>0, <3>1, <3>2, <3>3, <3>4, <3>5 DEF LivesInv
    <2> QED BY <2>1, RunKeeps, RestartKeeps DEF LivesNext
  <1> QED BY <1>1, InitLives, PTL DEF LivesSpec

(* Every variable stays in its type over the lives: what a crash leaves in *)
(* the storage fits what the next life does (main.rs:407-434).             *)
THEOREM LivesTypeCorrect == LivesSpec => []TypeOK
  <1>1. LivesInv => TypeOK
    BY DEF LivesInv, Inv, TypeInv
  <1> QED BY <1>1, LivesInvHolds, PTL

(* The contests keep their order in every life: what a crash leaves in the *)
(* storage does not come back into the pipeline (main.rs:407-501).         *)
THEOREM LivesInOrder == LivesSpec => []PipelineOrdered
  <1>1. LivesInv => PipelineOrdered
    BY DEF LivesInv, Inv, PipelineInv
  <1> QED BY <1>1, LivesInvHolds, PTL

(* However often the verifier crashes, and wherever, the records of the    *)
(* current life are in order, and before every record, of any life and by  *)
(* either task, there is that of its predecessor without a winner, with no *)
(* older contest begun anew in between (main.rs:407-434, 485-508).         *)
THEOREM RecordsHaveTheirPredecessor == LivesSpec => []RecordsFollowOn
  <1>1. LivesInv => RecordsFollowOn
    BY DEF LivesInv, SeriesInv, Series, Follow, RecordsFollowOn, InOrderFrom
  <1> QED BY <1>1, LivesInvHolds, PTL

(* What a bidder was told before a crash is on record after it, unless a   *)
(* contest with a winner could not be stored (main.rs:487-490, 503-508).   *)
THEOREM VerdictsSurvive == LivesSpec => []VerdictsOutliveCrashes
  <1>1. LivesInv => VerdictsOutliveCrashes
    BY DEF LivesInv
  <1> QED BY <1>1, LivesInvHolds, PTL

(* A bid keeps its one fate over the lives: it is not listed twice, nor in *)
(* a contest and listed, in the storage that outlives its call             *)
(* (main.rs:349-375, networking.rs:221-237).                               *)
THEOREM FatesSurvive == LivesSpec => []BidHasOneFate
  <1>1. LivesInv => BidHasOneFate
    BY OneFate DEF LivesInv, Inv, BidsSurvive
  <1> QED BY <1>1, LivesInvHolds, PTL
=============================================================================
