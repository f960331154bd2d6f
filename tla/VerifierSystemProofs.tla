------------------------ MODULE VerifierSystemProofs ------------------------
(***************************************************************************)
(* What holds of the whole verifier: the types, the profiles that both     *)
(* parts write back whole, and that the contests still implement Auction,  *)
(* with process_proof sharing their mutex and their profiles.  A step of   *)
(* one part leaves the other's variables but `profiles' and `phase' alone, *)
(* so the invariants of the parts carry over, given two facts about what   *)
(* they share: the copies of profiles that the other part holds.           *)
(***************************************************************************)
EXTENDS VerifierClock, AuctionProofs, ProofCycleProofs

\* The copies of profiles that process_proof and submit_proof will store.
Copies == {p \in {processor.profile} \cup {submitter[h].profile : h \in Submissions} : p # None}

\* What such a copy lists as rejected has come in, once, and neither waits
\* for the listener nor counts in a contest.
CopySound(p) ==
  /\ IsInjective(p.bids)
  /\ \A b \in Range(p.bids) : handler[b.by].bid = b /\ b \notin AtHand /\ b \notin Counted

CopiesApart == \A p \in Copies : CopySound(p)

\* The copy the listener will store has credits that verdicts add up to.
ListenerFair == listener.profile # None => Fair(listener.profile)

SystemInv ==
  /\ AuctionInv /\ ProofTypeOK /\ VerdictsInv /\ CreditsInv
  /\ CopiesApart /\ ListenerFair

ContestsStep ==
  \/ OfContests(Scheduler) \/ OfContests(Poller) \/ OfContests(Listener)
  \/ OfContests(Completion)
  \/ \E p \in Registrants : OfContests(Register(p))
  \/ \E h \in Handlers : OfContests(Rpc(h))

ProofsStep ==
  \/ OfProofs(Processor)
  \/ \E h \in Submissions : OfProofs(SubmitProof(h) \/ SubmitFails(h) \/ Submitter(h))
  \/ \E w \in Watchers : OfProofs(Watch(w) \/ Leave(w) \/ ForwardStatus(w))

LEMMA StepsOfParts ==
  /\ SystemNext => ContestsStep \/ ProofsStep
  /\ ContestsStep => Next /\ phase' = contest'.status /\ UNCHANGED provingOnly
  /\ ProofsStep => ProofNext /\ UNCHANGED contestOnly
  <1>1. SystemNext => ContestsStep \/ ProofsStep
    BY DEF SystemNext, Others, LockingScheduler, LockingPoller, LockingListener,
           ContestsStep, ProofsStep
  <1>2. ContestsStep => Next /\ phase' = contest'.status /\ UNCHANGED provingOnly
    BY DEF ContestsStep, OfContests, Next
  <1>3. ProofsStep => ProofNext /\ UNCHANGED contestOnly
    BY DEF ProofsStep, OfProofs, ProofNext
  <1> QED BY <1>1, <1>2, <1>3
-----------------------------------------------------------------------------
(* Types.                                                                  *)

LEMMA ContestsKeepProofTypes ==
  ASSUME TypeInv, TypeInv', ProofTypeOK, phase' = contest'.status, UNCHANGED provingOnly
  PROVE  ProofTypeOK'
  <1>1. contest'.status \in {"NotStarted", "Live", "Ended"} /\ profiles' \in [Names -> Profile \cup {None}]
    BY DEF TypeInv, TypeOK, Contest
  <1> QED BY <1>1 DEF ProofTypeOK, provingOnly, submitters, watching

LEMMA ProofsKeepTypes ==
  ASSUME TypeInv, ProofTypeOK', UNCHANGED contestOnly
  PROVE  TypeInv'
  <1>1. profiles' \in [Names -> Profile \cup {None}]
    BY DEF ProofTypeOK
  <1> QED BY <1>1 DEF TypeInv, TypeOK, WaitersWait, contestOnly, channels, rpc

LEMMA ProfileIsSome == \A p \in Profile : p # None
  BY ProofNoneAssumption
-----------------------------------------------------------------------------
(* The invariants of the contests across a step of the proofs.             *)

LEMMA ProofsKeepContests ==
  ASSUME AuctionInv, TypeInv', UNCHANGED contestOnly
  PROVE  Inv' /\ EndedInv' /\ WinnersInv' /\ Started' /\ Emptied'
  <1> USE DEF contestOnly, channels, rpc
  <1>1. /\ UNCHANGED <<contest, scheduler, listener, poller, completion, bidQ, internalQ, contestQ,
                       stored, handler, waiters>>
        /\ Inv /\ EndedInv /\ WinnersInv /\ Started /\ Emptied
    BY DEF AuctionInv
  <1>2. PipelineInv' /\ OneTakerPerContest'
    BY <1>1, PipelineUnchanged DEF Inv, OneTakerPerContest, Replied
  <1>3. Held' = Held
    BY <1>1 DEF Held, Range
  <1> QED BY <1>1, <1>2, <1>3 DEF Inv, EndedInv, WinnersInv, Started, Emptied, Halted, Range, Undecided

LEMMA ProofsKeepPlaces ==
  ASSUME UNCHANGED contestOnly
  PROVE  AtHand' = AtHand /\ Counted' = Counted /\ Everywhere' = Everywhere
  BY DEF contestOnly, channels, rpc, AtHand, Counted, Everywhere, Range

\* What a step of the proofs does to the profiles: it may store a copy, and
\* a new copy lists what the stored profile did.
LEMMA ProofsAndProfiles ==
  ASSUME ProofTypeOK, ProofsStep
  PROVE  /\ profiles' = profiles \/ \E p \in Copies \cap Profile : StoreProfile(p)
         /\ \A p \in Copies' : p \in Copies \/ \E n \in Names : profiles[n] # None /\ p.bids = profiles[n].bids
  <1> USE DEF submitters, watching
  <1>0. /\ processor \in ProcessorType /\ submitter \in [Submissions -> SubmitterType]
        /\ \A h \in Submissions : /\ submitter[h] \in SubmitterType
                                  /\ {"pc", "proof", "profile"} \subseteq DOMAIN submitter[h]
        /\ {"pc", "job", "verdict", "reward", "profile"} \subseteq DOMAIN processor
    BY DEF ProofTypeOK, SubmitterType, ProcessorType
  <1>1. CASE Processor
    <2>1. submitter' = submitter
      BY <1>1 DEF Processor, ReceiveProof, ReadForCredits, WriteCredits, SendStatus, VerifyProof
    <2>2. ASSUME processor'.profile \in {processor.profile, None}
          PROVE  \A p \in Copies' : p \in Copies
      BY <2>1, <2>2 DEF Copies
    <2>3. Waiting.profile = None
      BY DEF Waiting
    <2>4. ProcessorDies => processor'.profile = None
      BY DEF ProcessorDies, Waiting
    <2>5. CASE ReceiveProof
      BY <2>2, <2>5 DEF ReceiveProof
    <2>6. CASE ReadForCredits
      <3> DEFINE n == processor.job.proof.name
                 q == [GetProfile(n) EXCEPT !.credits = Credited(@)]
      <3>1. n \in Names /\ profiles' = profiles
        BY <1>0, <2>6 DEF ReadForCredits, ProcessorType, Submitted, Proof
      <3>2. CASE ProcessorDies
        BY <2>2, <2>4, <3>1, <3>2
      <3>3. CASE ~ProcessorDies
        <4>1. GetProfile(n) # None /\ processor' = [processor EXCEPT !.pc = "write", !.profile = q]
          BY <2>6, <3>3 DEF ReadForCredits
        <4>2. GetProfile(n) \in Profile
          BY <3>1, <4>1, ReadType
        <4>3. q.bids = profiles[n].bids
          BY <4>2 DEF Profile, GetProfile
        <4> HIDE DEF q, n
        <4>4. processor'.profile = q
          BY <1>0, <4>1
        <4> QED BY <2>1, <3>1, <4>1, <4>3, <4>4 DEF Copies, GetProfile
      <3> QED BY <3>2, <3>3
    <2>7. CASE WriteCredits
      <3>1. processor.pc = "write" /\ processor.profile \in Copies \cap Profile
        BY <1>0, <2>7, ProfileIsSome DEF WriteCredits, ProcessorType, Copies
      <3>2. profiles' = profiles \/ StoreProfile(processor.profile)
        BY <2>7 DEF WriteCredits
      <3>3. processor'.profile = None
        BY <1>0, <2>4, <2>7 DEF WriteCredits
      <3> QED BY <2>2, <3>1, <3>2, <3>3
    <2>8. CASE SendStatus
      <3>1. processor' \in {Waiting, [processor EXCEPT !.pc = "verify", !.verdict = None]}
        BY <2>8, Zenon DEF SendStatus, AfterStatus
      <3>2. processor'.profile \in {processor.profile, None}
        BY <1>0, <2>3, <3>1
      <3> QED BY <2>2, <2>8, <3>2 DEF SendStatus
    <2>9. CASE VerifyProof
      <3>1. processor' \in {Waiting, [processor EXCEPT !.pc = "read", !.verdict = "Accepted"]}
        BY <2>9, Zenon DEF VerifyProof
      <3>2. processor'.profile \in {processor.profile, None}
        BY <1>0, <2>3, <3>1
      <3> QED BY <2>2, <2>9, <3>2 DEF VerifyProof
    <2> QED BY <1>1, <2>5, <2>6, <2>7, <2>8, <2>9 DEF Processor
  <1>2. ASSUME NEW h \in Submissions, SubmitProof(h) \/ SubmitFails(h) \/ Submitter(h)
        PROVE  /\ profiles' = profiles \/ \E p \in Copies \cap Profile : StoreProfile(p)
               /\ \A p \in Copies' : p \in Copies \/ \E n \in Names : profiles[n] # None /\ p.bids = profiles[n].bids
    <2>1. processor' = processor /\ \A g \in Submissions : g # h => submitter'[g] = submitter[g]
      BY <1>0, <1>2 DEF SubmitProof, SubmitFails, Submitter, ReadForProof, WriteForProof
    <2>2. ASSUME submitter'[h].profile \in {submitter[h].profile, None}
          PROVE  \A p \in Copies' : p \in Copies
      BY <2>1, <2>2 DEF Copies
    <2>3. CASE SubmitProof(h) \/ SubmitFails(h)
      <3>1. profiles' = profiles /\ submitter'[h].profile = submitter[h].profile
        BY <1>0, <2>3 DEF SubmitProof, SubmitFails
      <3> QED BY <2>2, <3>1
    <2>4. CASE ReadForProof(h)
      <3> DEFINE n == submitter[h].proof.name
                 q == [GetProfile(n) EXCEPT !.proofs = @ \cup {h}]
      <3>1. n \in Names /\ profiles' = profiles
        BY <1>0, <2>4 DEF ReadForProof, SubmitterType, Proof
      <3>2. CASE submitter' = [submitter EXCEPT ![h].pc = "failed"]
        <4>1. submitter'[h].profile = submitter[h].profile
          BY <1>0, <3>2
        <4> QED BY <2>2, <3>1, <4>1
      <3>3. CASE GetProfile(n) # None /\ submitter' = [submitter EXCEPT ![h].pc = "write", ![h].profile = q]
        <4>1. GetProfile(n) \in Profile
          BY <3>1, <3>3, ReadType
        <4>2. q.bids = profiles[n].bids
          BY <4>1 DEF Profile, GetProfile
        <4> HIDE DEF q, n
        <4>3. submitter'[h].profile = q
          BY <1>0, <3>3
        <4>4. \A p \in Copies' : p \in Copies \/ p = q
          BY <2>1, <4>3 DEF Copies
        <4> QED BY <3>1, <3>3, <4>2, <4>4 DEF GetProfile
      <3> QED BY <2>4, <3>2, <3>3 DEF ReadForProof
    <2>5. CASE WriteForProof(h)
      <3>1. submitter[h].profile \in Copies \cap Profile
        BY <1>0, <2>5, ProfileIsSome DEF WriteForProof, SubmitterType, Copies
      <3>2. profiles' = profiles \/ StoreProfile(submitter[h].profile)
        BY <2>5 DEF WriteForProof
      <3>3. submitter'[h].profile = None
        BY <1>0, <2>5 DEF WriteForProof
      <3> QED BY <2>2, <3>1, <3>2, <3>3
    <2> QED BY <1>2, <2>3, <2>4, <2>5 DEF Submitter
  <1>3. ASSUME NEW w \in Watchers, Watch(w) \/ Leave(w) \/ ForwardStatus(w)
        PROVE  UNCHANGED <<profiles, processor, submitter>>
    BY <1>3 DEF Watch, Leave, ForwardStatus
  <1> QED BY <1>1, <1>2, <1>3 DEF ProofsStep, OfProofs, Copies

LEMMA CopiesOfProfiles ==
  ASSUME ProofTypeOK
  PROVE  /\ Copies \subseteq Profile
         /\ \A p \in Profile : Range(p.bids) \subseteq Bid
  <1>1. /\ processor.profile \in Profile \cup {None}
        /\ \A h \in Submissions : submitter[h].profile \in Profile \cup {None}
    BY DEF ProofTypeOK, ProcessorType, SubmitterType
  <1>2. \A p \in Profile : p.bids \in Seq(Bid)
    BY DEF Profile
  <1> QED BY <1>1, <1>2, RangeLemma DEF Copies

LEMMA ProofsKeepBids ==
  ASSUME TypeInv, ProofTypeOK, BidsInv({}), CopiesApart, ProofsStep
  PROVE  BidsInv({})' /\ CopiesApart'
  <1>0. UNCHANGED contestOnly /\ profiles \in [Names -> Profile \cup {None}]
    BY StepsOfParts DEF ProofTypeOK
  <1>1. /\ AtHand' = AtHand /\ Counted' = Counted /\ Everywhere' = Everywhere
        /\ UNCHANGED <<handler, bidQ, listener>>
    BY <1>0, ProofsKeepPlaces DEF contestOnly, channels, rpc
  <1>2. ProfilesHeld' \subseteq ProfilesHeld \cup Copies
    <2>1. CASE profiles' = profiles
      BY <1>1, <2>1 DEF ProfilesHeld
    <2>2. ASSUME NEW p \in Copies \cap Profile, StoreProfile(p)
          PROVE  \A n \in Names : profiles'[n] \in {profiles[n], p}
      BY <1>0, <2>2 DEF StoreProfile
    <2> QED BY <1>1, <2>1, <2>2, ProofsAndProfiles DEF ProfilesHeld
  <1>3. ASSUME NEW p \in ProfilesHeld PROVE CopySound(p)
    <2>1. IsInjective(p.bids) /\ Range(p.bids) \subseteq Listed
      BY DEF BidsInv, ListedOnce, Listed
    <2> QED BY <2>1 DEF BidsInv, Authentic, Apart, CopySound
  <1>4. \A p \in ProfilesHeld \cup Copies : CopySound(p)
    BY <1>3 DEF CopiesApart
  <1>5. ASSUME NEW p \in ProfilesHeld' PROVE CopySound(p)
    BY <1>2, <1>4
  <1>6. Listed' = UNION {Range(p.bids) : p \in ProfilesHeld'}
    BY DEF Listed, Range
  <1>7. \A b \in Listed' : handler[b.by].bid = b /\ b \notin AtHand /\ b \notin Counted
    BY <1>5, <1>6 DEF CopySound
  <1>8. BidsInv({})'
    <2>1. Authentic({})'
      BY <1>1, <1>7 DEF BidsInv, Authentic
    <2>2. Apart'
      BY <1>1, <1>7 DEF BidsInv, Apart
    <2>3. HandedOnce'
      BY <1>1 DEF BidsInv, HandedOnce, IsInjective, Range
    <2>4. ListedOnce'
      BY <1>5 DEF CopySound, ListedOnce, IsInjective
    <2>5. BidCountsOnce'
      BY <1>1 DEF BidsInv, BidCountsOnce, Range
    <2> QED BY <2>1, <2>2, <2>3, <2>4, <2>5 DEF BidsInv
  <1>9. CopiesApart'
    <2> SUFFICES ASSUME NEW p \in Copies' PROVE CopySound(p)'
        BY DEF CopiesApart
    <2>1. PICK q : q = p
      OBVIOUS
    <2>2. CopySound(q)
      <3>1. CASE q \in Copies
        BY <1>4, <3>1
      <3>2. ASSUME NEW n \in Names, profiles[n] # None, q.bids = profiles[n].bids
            PROVE  CopySound(q)
        <4>1. profiles[n] \in ProfilesHeld
          BY <3>2 DEF ProfilesHeld
        <4>2. CopySound(profiles[n])
          BY <1>4, <4>1
        <4> QED BY <3>2, <4>2 DEF CopySound
      <3> QED BY <2>1, <3>1, <3>2, ProofsAndProfiles
    <2>3. CopySound(q)'
      BY <1>1, <2>2 DEF CopySound, IsInjective, Range
    <2> QED BY <2>1, <2>3
  <1> QED BY <1>8, <1>9
-----------------------------------------------------------------------------
(* The copies of process_proof and submit_proof across a step of the       *)
(* contests.                                                               *)

\* The bid a submit_bid call was made with stays with it.
LEMMA BidStays ==
  ASSUME TypeInv, Next, NEW h \in Handlers, handler[h].bid # None
  PROVE  handler'[h].bid = handler[h].bid
  <1>0. /\ handler \in [Handlers -> HandlerType] /\ handler[h].pc \notin {"idle", "failed"}
        /\ \A g \in Handlers : {"pc", "bid", "reply"} \subseteq DOMAIN handler[g]
    BY DEF TypeInv, TypeOK, HandlerType
  <1>1. CASE handler' = handler
    BY <1>1
  <1>2. ASSUME NEW g \in Handlers, Rpc(g) PROVE handler'[h].bid = handler[h].bid
    <2>1. CASE SubmitBid(g)
      BY <1>0, <2>1 DEF SubmitBid
    <2>2. CASE SubmitBidFails(g)
      BY <1>0, <2>2 DEF SubmitBidFails
    <2>3. CASE AwaitContest(g)
      BY <1>0, <2>3 DEF AwaitContest
    <2>4. CASE TakeContest(g)
      <3>1. Takes(g)
        BY <2>4, TakeStep
      <3> QED BY <3>1 DEF Takes
    <2>5. CASE ContestsClosed(g)
      BY <1>0, <2>5 DEF ContestsClosed
    <2> QED BY <1>2, <2>1, <2>2, <2>3, <2>4, <2>5 DEF Rpc, Answer
  <1>3. Scheduler \/ Poller \/ Completion \/ Listener \/ (\E p \in Registrants : Register(p)) => handler' = handler
    BY DEF Scheduler, StartFirst, EndContest, CopyEnded, StoreEnded, StoreEndedFails, StartNext,
           Poller, PollEnded, PollerSend, PollLive,
           Completion, CompleteWithoutBids, SelectWinner, SelectionPanics, StoreWinner, SendContest,
           Listener, ReceiveBid, AddBid, ReadProfile, WriteProfile, Register, rpc
  <1> QED BY <1>1, <1>2, <1>3 DEF Next

LEMMA ContestsKeepCopies ==
  ASSUME TypeInv, ProofTypeOK, BidsInv({}), CopiesApart, Next, UNCHANGED provingOnly
  PROVE  CopiesApart'
  <1>1. Copies' = Copies
    BY DEF Copies, provingOnly, submitters
  <1>2. SUFFICES ASSUME NEW p \in Copies PROVE CopySound(p)'
    BY <1>1 DEF CopiesApart
  <1>3. CopySound(p) /\ p \in Profile /\ Range(p.bids) \subseteq Bid
    BY CopiesOfProfiles DEF CopiesApart
  <1>4. ASSUME NEW b \in Range(p.bids)
        PROVE  handler'[b.by].bid = b /\ b \notin AtHand' /\ b \notin Counted'
    <2>1. handler[b.by].bid = b /\ b \notin AtHand /\ b \notin Counted /\ b \in Bid /\ b # None
      BY <1>3, <1>4, NoneAssumption DEF CopySound
    <2>2. b.by \in Handlers
      BY <2>1 DEF Bid
    <2>3. handler'[b.by].bid = b
      BY <2>1, <2>2, BidStays
    <2>4. b \notin AtHand'
      BY <2>1, AtHandStep
    <2>5. b \notin Counted'
      <3>1. CASE Counted' \subseteq Counted
        BY <2>1, <3>1
      <3>2. CASE AddBid /\ BidJoins /\ Counted' \subseteq Counted \cup {listener.bid}
        <4>1. listener.bid \in AtHand
          BY <3>2, NoneAssumption DEF BidJoins, AtHand
        <4> QED BY <2>1, <3>2, <4>1
      <3> QED BY <3>1, <3>2, CountsOnceStep DEF BidsInv
    <2> QED BY <2>3, <2>4, <2>5
  <1> QED BY <1>3, <1>4 DEF CopySound, IsInjective, Range
-----------------------------------------------------------------------------
(* The verdicts and the credits across a step of the contests.             *)

LEMMA ContestsKeepVerdicts ==
  ASSUME VerdictsInv, UNCHANGED provingOnly
  PROVE  VerdictsInv'
  <1> USE DEF provingOnly, submitters
  <1>1. QueuedInv'
    BY DEF VerdictsInv, QueuedInv, Genuine
  <1>2. JobInv'
    BY DEF VerdictsInv, JobInv, Genuine
  <1>3. VerdictsInOrder'
    BY DEF VerdictsInv, VerdictsInOrder
  <1> QED BY <1>1, <1>2, <1>3 DEF VerdictsInv

\* What a step of the contests does to the profiles: it may store the
\* listener's copy or a fresh profile, and a new copy of the listener has the
\* credits of the stored profile.
ReadBy(q) == \E n \in Names : /\ profiles[n] # None
                              /\ q.addr = profiles[n].addr /\ q.credits = profiles[n].credits

LEMMA ContestsAndProfiles ==
  ASSUME TypeInv, Next
  PROVE  /\ \/ profiles' = profiles
            \/ \E p \in Registrants : StoreProfile(NewProfile(p))
            \/ listener.profile \in Profile /\ StoreProfile(listener.profile)
         /\ listener'.profile \in {listener.profile, None} \/ ReadBy(listener'.profile)
  <1> USE DEF storage
  <1>0. listener \in ListenerType /\ {"pc", "bid", "profile"} \subseteq DOMAIN listener
        /\ profiles \in [Names -> Profile \cup {None}]
    BY DEF TypeInv, TypeOK, ListenerType
  <1>1. ListenerDies => listener'.profile = None
    BY DEF ListenerDies
  <1>2. CASE ReceiveBid
    BY <1>2 DEF ReceiveBid
  <1>3. CASE AddBid
    BY <1>0, <1>3 DEF AddBid
  <1>4. CASE ReadProfile
    <2> DEFINE n == listener.bid.name
               q == [GetProfile(n) EXCEPT !.bids = Append(@, listener.bid)]
    <2>1. n \in Names /\ profiles' = profiles
      BY <1>0, <1>4 DEF ReadProfile, ListenerType, Bid
    <2>2. CASE ListenerDies
      BY <1>1, <2>1, <2>2
    <2>3. CASE ~ListenerDies
      <3>1. GetProfile(n) # None
            /\ listener' = [listener EXCEPT !.pc = "update", !.bid = None, !.profile = q]
        BY <1>4, <2>3 DEF ReadProfile
      <3>2. GetProfile(n) \in Profile
        BY <1>0, <2>1, <3>1 DEF GetProfile
      <3>3. q.addr = profiles[n].addr /\ q.credits = profiles[n].credits
        BY <3>2 DEF Profile, GetProfile
      <3> HIDE DEF q, n
      <3>4. listener'.profile = q
        BY <1>0, <3>1
      <3> QED BY <2>1, <3>1, <3>3, <3>4 DEF ReadBy, GetProfile
    <2> QED BY <2>2, <2>3
  <1>5. CASE WriteProfile
    <2>1. listener.profile \in Profile
      BY <1>0, <1>5 DEF WriteProfile, ListenerType
    <2>2. profiles' = profiles \/ StoreProfile(listener.profile)
      BY <1>5 DEF WriteProfile
    <2>3. listener'.profile = None
      BY <1>1, <1>5 DEF WriteProfile
    <2> QED BY <2>1, <2>2, <2>3
  <1>6. ASSUME NEW p \in Registrants, Register(p)
        PROVE  StoreProfile(NewProfile(p)) /\ listener' = listener
    BY <1>6 DEF Register, Registration
  <1>7. (\E h \in Handlers : Rpc(h)) \/ Scheduler \/ Poller \/ Completion
          => UNCHANGED <<profiles, listener>>
    BY DEF Scheduler, StartFirst, EndContest, CopyEnded, StoreEnded, StoreEndedFails, StartNext,
           Poller, PollEnded, PollerSend, PollLive,
           Completion, CompleteWithoutBids, SelectWinner, SelectionPanics, StoreWinner, SendContest,
           Rpc, SubmitBid, SubmitBidFails, Answer, AwaitContest, TakeContest, ContestsClosed
  <1> QED BY <1>2, <1>3, <1>4, <1>5, <1>6, <1>7 DEF Next, Listener

LEMMA ContestsKeepCredits ==
  ASSUME TypeInv, ProofTypeOK, CreditsInv, ListenerFair, Next, UNCHANGED provingOnly
  PROVE  CreditsInv' /\ ListenerFair'
  <1> USE DEF provingOnly, submitters
  <1>1. \A n, v : Written(n, v)' = Written(n, v) /\ Due(n, v)' = Due(n, v)
    BY DEF Written, Due
  <1>2. ASSUME NEW p PROVE Fair(p)' <=> Fair(p)
    BY <1>1 DEF Fair, Earned
  <1>3. \A p \in Provers : Fair(NewProfile(p))
    <2>1. \A n, v : Written(n, v) \in Nat
      <3> SUFFICES ASSUME NEW n, NEW v PROVE Written(n, v) \in Nat
          OBVIOUS
      <3>1. Sent(n, v) \in SUBSET DOMAIN sent /\ sent \in Seq(Status)
        BY DEF Sent, ProofTypeOK
      <3>2. Cardinality(Sent(n, v)) \in Nat
        BY <3>1, FinitePart
      <3> QED BY <3>2 DEF Written, Sent
    <2> QED BY <2>1, EarnedNothing DEF Fair, NewProfile
  <1>4. \A p \in Registrants : NewProfile(p) \in Profile /\ Fair(NewProfile(p))
    BY <1>3, FreshProfileType, ProfilesAssumption
  <1>5. profiles' = profiles \/ \E p \in Profile : StoreProfile(p) /\ Fair(p)
    <2>1. listener.profile \in Profile => Fair(listener.profile)
      BY ProfileIsSome DEF ListenerFair
    <2> QED BY <1>4, <2>1, ContestsAndProfiles
  <1>6. ASSUME NEW n \in Names, NEW p, p = profiles'[n], p # None
        PROVE  NameOf[p.addr] = n /\ Fair(p)
    <2>1. CASE p = profiles[n]
      BY <1>6, <2>1 DEF CreditsInv, ProfilesFair
    <2>2. CASE p # profiles[n]
      <3>1. PICK q \in Profile : StoreProfile(q) /\ Fair(q)
        BY <1>5, <1>6, <2>2
      <3>2. p = q /\ NameOf[q.addr] = n
        BY <1>6, <2>2, <3>1 DEF StoreProfile, ProofTypeOK
      <3> QED BY <3>1, <3>2
    <2> QED BY <2>1, <2>2
  <1>7. ProfilesFair'
    <2> SUFFICES ASSUME NEW n \in Names, profiles'[n] # None
                 PROVE  NameOf[profiles'[n].addr] = n /\ (Fair(profiles[n]))'
        BY DEF ProfilesFair
    <2>1. PICK p : p = profiles'[n]
      OBVIOUS
    <2>2. NameOf[p.addr] = n /\ Fair(p)'
      BY <1>2, <1>6, <2>1
    <2> QED BY <2>1, <2>2 DEF Fair
  <1>8. ASSUME NEW h \in Submissions, submitter[h].pc = "write"
        PROVE  (Fair(submitter[h].profile))'
    BY <1>1, <1>8 DEF CreditsInv, Fair, Earned
  <1>9. processor.pc = "write" =>
          NameOf[processor.profile.addr] = processor.job.proof.name /\ Updated(processor.profile)'
    BY <1>1 DEF CreditsInv, Updated, Earned
  <1>10. CreditsInv'
    BY <1>7, <1>8, <1>9 DEF CreditsInv
  <1>11. ListenerFair'
    <2> SUFFICES ASSUME listener'.profile # None PROVE (Fair(listener.profile))'
        BY DEF ListenerFair
    <2>1. PICK p : p = listener'.profile
      OBVIOUS
    <2>2. Fair(p)
      <3>1. CASE p = listener.profile
        BY <2>1, <3>1 DEF ListenerFair
      <3>2. CASE ReadBy(p)
        <4>1. PICK n \in Names : /\ profiles[n] # None /\ p.addr = profiles[n].addr
                                 /\ p.credits = profiles[n].credits
          BY <3>2 DEF ReadBy
        <4>2. Fair(profiles[n])
          BY <4>1 DEF CreditsInv, ProfilesFair
        <4> QED BY <4>1, <4>2 DEF Fair
      <3> QED BY <2>1, <3>1, <3>2, ContestsAndProfiles
    <2>3. Fair(p)'
      BY <1>2, <2>2
    <2> QED BY <2>1, <2>3 DEF Fair
  <1> QED BY <1>10, <1>11

LEMMA ProofsKeepListenerFair ==
  ASSUME ProofTypeOK, ListenerFair, ProofsStep
  PROVE  ListenerFair'
  <1>1. listener' = listener /\ ProofNext
    BY StepsOfParts DEF contestOnly
  <1>2. PICK p : p = listener.profile
    OBVIOUS
  <1>3. p # None => Fair(p)'
    BY <1>1, <1>2, FairKept DEF ListenerFair
  <1> QED BY <1>1, <1>2, <1>3 DEF ListenerFair, Fair
-----------------------------------------------------------------------------
(* The whole.                                                              *)

LEMMA InitSystemInv == SystemInit => SystemInv
  <1> SUFFICES ASSUME SystemInit PROVE SystemInv
      OBVIOUS
  <1>1. AuctionInv /\ ProofTypeOK /\ VerdictsInv /\ CreditsInv
    BY InitAuctionInv, InitType, InitVerdicts, InitCredits DEF SystemInit
  <1>2. Copies = {} /\ listener.profile = None
    BY DEF SystemInit, Init, ProofInit, Waiting, Copies
  <1> QED BY <1>1, <1>2 DEF SystemInv, CopiesApart, ListenerFair

LEMMA ContestsKeepSystemInv ==
  ASSUME SystemInv, ContestsStep
  PROVE  SystemInv'
  <1>1. Next /\ phase' = contest'.status /\ UNCHANGED provingOnly
    BY StepsOfParts
  <1>2. /\ AuctionInv /\ ProofTypeOK /\ VerdictsInv /\ CreditsInv
        /\ CopiesApart /\ ListenerFair /\ TypeInv /\ BidsInv({})
    BY DEF SystemInv, AuctionInv, Inv
  <1>3. AuctionInv'
    BY <1>1, <1>2, AuctionInvStep
  <1>4. ProofTypeOK'
    BY <1>1, <1>2, <1>3, ContestsKeepProofTypes DEF AuctionInv, Inv
  <1>5. VerdictsInv' /\ CreditsInv' /\ ListenerFair' /\ CopiesApart'
    BY <1>1, <1>2, ContestsKeepVerdicts, ContestsKeepCredits, ContestsKeepCopies
  <1> QED BY <1>3, <1>4, <1>5 DEF SystemInv

LEMMA ProofsKeepSystemInv ==
  ASSUME SystemInv, ProofsStep
  PROVE  SystemInv'
  <1>1. ProofNext /\ UNCHANGED contestOnly
    BY StepsOfParts
  <1>2. /\ AuctionInv /\ ProofTypeOK /\ VerdictsInv /\ CreditsInv
        /\ CopiesApart /\ ListenerFair /\ TypeInv /\ BidsInv({})
    BY DEF SystemInv, AuctionInv, Inv
  <1>3. ProofTypeOK' /\ VerdictsInv' /\ CreditsInv'
    BY <1>1, <1>2, TypeStep, VerdictsStep, CreditsStep
  <1>4. TypeInv'
    BY <1>1, <1>2, <1>3, ProofsKeepTypes
  <1>5. AuctionInv'
    BY <1>1, <1>2, <1>4, ProofsKeepContests, ProofsKeepBids DEF AuctionInv
  <1>6. CopiesApart' /\ ListenerFair'
    BY <1>2, ProofsKeepBids, ProofsKeepListenerFair
  <1> QED BY <1>3, <1>5, <1>6 DEF SystemInv

LEMMA SystemInvStep == SystemInv /\ [SystemNext]_systemVars => SystemInv'
  <1> SUFFICES ASSUME SystemInv, [SystemNext]_systemVars PROVE SystemInv'
      OBVIOUS
  <1>1. CASE UNCHANGED systemVars
    <2>1. /\ UNCHANGED vars /\ UNCHANGED proofVars /\ UNCHANGED provingOnly /\ UNCHANGED contestOnly
      BY <1>1 DEF systemVars, contestOnly, provingOnly, vars, proofVars, storage
    <2>2. /\ AuctionInv /\ ProofTypeOK /\ VerdictsInv /\ CreditsInv /\ CopiesApart /\ ListenerFair
      BY DEF SystemInv
    <2>3. AuctionInv' /\ ProofTypeOK' /\ VerdictsInv' /\ CreditsInv'
      BY <2>1, <2>2, AuctionInvStep, TypeStep, VerdictsStep, CreditsStep
    <2>4. UNCHANGED <<Copies, AtHand, Counted, handler, listener, processor, sent>>
      BY <2>1, ProofsKeepPlaces DEF Copies, contestOnly, provingOnly, rpc, submitters
    <2>5. CopiesApart'
      BY <2>2, <2>4 DEF CopiesApart, CopySound, IsInjective, Range
    <2>6. ListenerFair'
      BY <2>2, <2>4 DEF ListenerFair, Fair, Earned, Written
    <2> QED BY <2>3, <2>5, <2>6 DEF SystemInv
  <1> QED BY <1>1, StepsOfParts, ContestsKeepSystemInv, ProofsKeepSystemInv

LEMMA SystemInvHolds == SystemSpec => []SystemInv
  BY InitSystemInv, SystemInvStep, PTL DEF SystemSpec

(* Every variable of the whole verifier stays in its type, a task's copy   *)
(* present exactly while its pc needs it, although both parts write the    *)
(* profiles (main.rs:339-557).                                             *)
THEOREM SystemTypeCorrect == SystemSpec => []SystemTypeOK
  BY SystemInvHolds, PTL DEF SystemInv, AuctionInv, Inv, TypeInv, SystemTypeOK

(* Whatever the order in which the bid listener, process_proof,            *)
(* submit_proof and register_prover get and write back the profiles, over  *)
(* each other's changes, and whichever accesses fail: the credits are      *)
(* those of some of the verdicts, and a bid is in a contest or listed as   *)
(* rejected once, never both (main.rs:366-375, 528-530, 543-545,           *)
(* networking.rs:117-129, 221-237).                                        *)
THEOREM ProfilesStaySound == SystemSpec => []ProfilesAreSound
  <1>1. SystemInv => ProfilesAreSound
    BY CreditsAreFair, OneFate DEF SystemInv, AuctionInv, Inv, ProfilesAreSound
  <1> QED BY <1>1, SystemInvHolds, PTL

(* With the proofs at work the pipeline of the contests still keeps their  *)
(* order and stays behind the shared contest, each outcome reaches one     *)
(* caller, and the verdicts on a submission stay in order, although both   *)
(* parts wait for one execution mutex (main.rs:384-557).                   *)
THEOREM PartsKeepTheirOrder ==
  SystemSpec => [](PipelineOrdered /\ PipelineBehind /\ OneTakerPerContest /\ VerdictsInOrder)
  <1>1. SystemInv => PipelineOrdered /\ PipelineBehind /\ OneTakerPerContest /\ VerdictsInOrder
    BY DEF SystemInv, AuctionInv, Inv, PipelineInv, VerdictsInv
  <1> QED BY <1>1, SystemInvHolds, PTL

(* The whole verifier keeps the promises of Auction: a step of the proofs  *)
(* is none of the auctions', and the contests stay an implementation while *)
(* process_proof takes their mutex and writes their profiles               *)
(* (main.rs:339-557, networking.rs:138-218).                               *)
THEOREM VerifierImplementsAuction == SystemSpec => ImplementsAuction
  <1>1. SystemInit => Abstract!Init
    BY AbstractInit DEF SystemInit
  <1>2. SystemInv /\ [SystemNext]_systemVars => [Abstract!Next]_(Abstract!vars)
    <2> SUFFICES ASSUME SystemInv, [SystemNext]_systemVars
                 PROVE  Abstract!Next \/ UNCHANGED Abstract!vars
        OBVIOUS
    <2>1. CASE ContestsStep
      BY <2>1, AuctionStep, StepsOfParts DEF SystemInv
    <2>2. CASE ProofsStep \/ UNCHANGED systemVars
      <3>1. UNCHANGED contestOnly
        BY <2>2, StepsOfParts DEF systemVars
      <3>2. UNCHANGED <<contest, listener, poller, completion, bidQ, internalQ, contestQ, handler>>
        BY <3>1 DEF contestOnly, channels, rpc
      <3> QED BY <3>2, Kept, Stutter
    <2> QED BY <2>1, <2>2, StepsOfParts
  <1>3. SystemSpec => SystemInit /\ [][SystemNext]_systemVars
    BY DEF SystemSpec
  <1> QED BY <1>1, <1>2, <1>3, SystemInvHolds, PTL DEF ImplementsAuction, Abstract!Spec
-----------------------------------------------------------------------------
(* The other invariants of the contests: what is on record, the late bids  *)
(* and the handlers that wait.  None of them is about a profile, so a step *)
(* of the proofs leaves them as they are.                                  *)

RecordsInv == OneBidPerAddress /\ LateInv /\ AtMostOneLateBid /\ SeriesInv(0)

LEMMA StepOfContests ==
  [SystemNext]_systemVars =>
    \/ Next
    \/ UNCHANGED <<contest, scheduler, poller, completion, listener, bidQ, internalQ, contestQ,
                   stored, handler>>
  <1>1. UNCHANGED contestOnly =>
          UNCHANGED <<contest, scheduler, poller, completion, listener, bidQ, internalQ, contestQ,
                      stored, handler>>
    BY DEF contestOnly, channels, rpc
  <1> QED BY <1>1, StepsOfParts DEF systemVars

LEMMA RecordsStep == SystemInv /\ RecordsInv /\ [SystemNext]_systemVars => RecordsInv'
  <1> SUFFICES ASSUME SystemInv, RecordsInv, [SystemNext]_systemVars PROVE RecordsInv'
      OBVIOUS
  <1>1. /\ Inv /\ EndedInv /\ WinnersInv /\ TypeInv /\ PipelineInv
        /\ OneBidPerAddress /\ LateInv /\ AtMostOneLateBid /\ SeriesInv(0)
    BY DEF SystemInv, AuctionInv, Inv, RecordsInv
  <1>2. CASE Next
    BY <1>1, <1>2, BidsStep, LateStep, LateBidStep, SeriesStep DEF RecordsInv
  <1>3. CASE UNCHANGED <<contest, scheduler, poller, completion, listener, bidQ, internalQ,
                         contestQ, stored, handler>>
    <2>1. Everywhere' = Everywhere /\ Held' = Held /\ Settled' = Settled
      BY <1>3 DEF Everywhere, Held, Settled, Announced, Taken, Replied, Ids, Range
    <2>2. OneBidPerAddress' /\ LateInv' /\ AtMostOneLateBid'
      BY <1>1, <1>3, <2>1 DEF OneBidPerAddress, DistinctBidders, LateInv, AtMostOneLateBid, Range
    <2>3. SeriesInv(0)'
      BY <1>1, <1>3, <2>1 DEF SeriesInv
    <2> QED BY <2>2, <2>3 DEF RecordsInv
  <1> QED BY <1>2, <1>3, StepOfContests

(* Also in the whole verifier an address bids once in a contest and a bid  *)
(* counts in one, the clones of a contest differ by one late bid at most,  *)
(* and the records come in the order of their ids, although process_proof  *)
(* keeps the scheduler, the poller and the listener waiting whenever they  *)
(* need the execution mutex (execution.rs:30-60, main.rs:384-508).         *)
THEOREM RecordsStaySound ==
  SystemSpec => [](OneBidPerAddress /\ BidCountsOnce /\ AtMostOneLateBid /\ StoredInOrder)
  <1>1. SystemInit => RecordsInv
    BY InitDistinct, InitLate, InitSeries DEF SystemInit, RecordsInv
  <1>2. SystemInv /\ RecordsInv =>
          OneBidPerAddress /\ BidCountsOnce /\ AtMostOneLateBid /\ StoredInOrder
    BY SeriesOrder DEF SystemInv, AuctionInv, BidsInv, RecordsInv
  <1>3. SystemSpec => []RecordsInv
    BY <1>1, RecordsStep, SystemInvHolds, PTL DEF SystemSpec
  <1> QED BY <1>2, <1>3, SystemInvHolds, PTL

(* If no access to the storage fails, what a bidder is told agrees         *)
(* with the record of a contest that has a winner, whatever process_proof  *)
(* does meanwhile (main.rs:485-494, networking.rs:174-203).                *)
THEOREM VerdictsStayOnRecord ==
  ASSUME StorageFails = FALSE PROVE SystemSpec => []RepliesAreOnRecord
  <1>1. SystemInit => RepliesInv
    BY InitReplies DEF SystemInit
  <1>2. SystemInv /\ RepliesInv /\ [SystemNext]_systemVars => RepliesInv'
    <2> SUFFICES ASSUME SystemInv, RepliesInv, [SystemNext]_systemVars PROVE RepliesInv'
        OBVIOUS
    <2>1. TypeInv /\ WinnersInv
      BY DEF SystemInv, AuctionInv, Inv
    <2>2. CASE Next
      BY <2>1, <2>2, WinnersAreStored, RepliesStep
    <2>3. CASE UNCHANGED <<contest, scheduler, poller, completion, listener, bidQ, internalQ,
                           contestQ, stored, handler>>
      BY <2>3 DEF RepliesInv, RepliesAreOnRecord, Replied, Range
    <2> QED BY <2>2, <2>3, StepOfContests
  <1>3. SystemSpec => []RepliesInv
    BY <1>1, <1>2, SystemInvHolds, PTL DEF SystemSpec
  <1> QED BY <1>3, PTL DEF RepliesInv

(* Nor does process_proof leave an outcome without a handler that can take *)
(* it, for any finite number of submit_bid calls (networking.rs:161-172).  *)
THEOREM OutcomesAreStillTaken ==
  ASSUME IsFiniteSet(Handlers) PROVE SystemSpec => []EnoughWaiters
  <1>1. SystemInit => WaitersInv
    BY InitWaiters DEF SystemInit
  <1>2. SystemInv /\ SystemInv' /\ WaitersInv /\ [SystemNext]_systemVars => WaitersInv'
    <2> SUFFICES ASSUME SystemInv, SystemInv', WaitersInv, [SystemNext]_systemVars
                 PROVE  WaitersInv'
        OBVIOUS
    <2>1. Inv /\ BidsInv({}) /\ BidsInv({})'
      BY DEF SystemInv, AuctionInv
    <2> QED BY <2>1, WaitersStep, WaitersKept, StepOfContests
  <1>3. SystemInv /\ WaitersInv => EnoughWaiters
    BY WaitersSuffice DEF SystemInv, AuctionInv
  <1>4. SystemSpec => []WaitersInv
    BY <1>1, <1>2, SystemInvHolds, PTL DEF SystemSpec
  <1> QED BY <1>3, <1>4, SystemInvHolds, PTL
-----------------------------------------------------------------------------
(* The clock.                                                              *)

\* The next step of the poller is one towards a status it has not seen.
Unseen ==
  \/ poller.pc = "watch" /\ contest.status = "Ended"
  \/ poller.pc \in {"send", "waitLive"} /\ contest.status = "Live"

\* Such a poller has been due since the scheduler went to sleep.
DueSinceSleep ==
  ~crowded /\ Unseen /\ Sleeping => overdue > Delay \/ overdue + alarm >= Sleep

ClockInv ==
  /\ alarm \in 0..Sleep /\ overdue \in Nat
  /\ poller.pc = "send" /\ ~crowded => ~InternalFull
  /\ DueSinceSleep

LEMMA TimedStepIsStep == [TimedNext]_timedVars => [SystemNext]_systemVars
  BY DEF TimedNext, TimedScheduler, TimedPoller, Tick, SystemNext, timedVars

LEMMA TimedInvHolds == TimedSpec => []SystemInv
  <1>1. TimedInit => SystemInit
    BY DEF TimedInit
  <1> QED BY <1>1, InitSystemInv, SystemInvStep, TimedStepIsStep, PTL DEF TimedSpec

\* The steps of the other tasks change neither sleeper, nor the status, and
\* put nothing in the internal channel.
LEMMA OthersLeaveClock ==
  ASSUME SystemInv, SystemInv', Others
  PROVE  /\ UNCHANGED <<scheduler, poller>> /\ contest'.status = contest.status
         /\ InternalFull' => InternalFull
  <1> USE DEF channels, storage, rpc
  <1>1. /\ contest \in Contest /\ completion \in CompletionType
        /\ internalQ \in Seq(Contest) /\ Capacity \in Nat
    BY CapacityAssumption DEF SystemInv, AuctionInv, Inv, TypeInv, TypeOK
  <1>2. CASE OfContests(Listener)
    BY <1>1, <1>2 DEF OfContests, Listener, ReceiveBid, AddBid, ReadProfile, WriteProfile,
                     Contest, InternalFull
  <1>3. CASE OfContests(Completion)
    <2>1. CASE CompleteWithoutBids
      BY <1>1, <2>1 DEF CompleteWithoutBids, InternalFull
    <2>2. CASE SelectWinner
      BY <1>1, <2>2 DEF SelectWinner, InternalFull
    <2>3. CASE SelectionPanics
      BY <2>3 DEF SelectionPanics, InternalFull
    <2>4. CASE StoreWinner \/ SendContest
      BY <1>1, <2>4 DEF StoreWinner, SendContest, InternalFull, CompletionType
    <2> QED BY <1>3, <2>1, <2>2, <2>3, <2>4 DEF OfContests, Completion
  <1>4. CASE OfProofs(Processor)
    BY <1>4 DEF OfProofs, contestOnly, InternalFull
  <1>5. CASE \E p \in Registrants : OfContests(Register(p))
    BY <1>5 DEF OfContests, Register, InternalFull
  <1>6. CASE \E h \in Handlers : OfContests(Rpc(h))
    BY <1>6 DEF OfContests, Rpc, Answer, SubmitBid, SubmitBidFails, AwaitContest, TakeContest,
               ContestsClosed, InternalFull
  <1>7. CASE \E h \in Submissions : OfProofs(SubmitProof(h) \/ SubmitFails(h) \/ Submitter(h))
    BY <1>7 DEF OfProofs, contestOnly, InternalFull
  <1>8. CASE \E w \in Watchers : OfProofs(Watch(w) \/ Leave(w) \/ ForwardStatus(w))
    BY <1>8 DEF OfProofs, contestOnly, InternalFull
  <1> QED BY <1>2, <1>3, <1>4, <1>5, <1>6, <1>7, <1>8 DEF Others, LockingListener

LEMMA InitClockInv == TimedInit => ClockInv
  BY ClockAssumption DEF TimedInit, SystemInit, Init, ClockInv, DueSinceSleep, Unseen, Sleeping,
                         DefaultContest

LEMMA ClockInvStep ==
  SystemInv /\ SystemInv' /\ ClockInv /\ [TimedNext]_timedVars => ClockInv'
  <1> SUFFICES ASSUME SystemInv, SystemInv', ClockInv, [TimedNext]_timedVars
               PROVE  ClockInv'
    OBVIOUS
  <1> USE ClockAssumption
  <1>1. CASE TimedScheduler
    \* A sleep begins: the poller may have been due for no time of it.
    <2>1. alarm' \in 0..Sleep /\ (Sleeping' => alarm' = Sleep) /\ overdue' = 0 /\ crowded' = crowded
      BY <1>1 DEF TimedScheduler
    <2>2. UNCHANGED <<poller, completion, internalQ>>
      BY <1>1 DEF TimedScheduler, LockingScheduler, OfContests, Scheduler, StartFirst, EndContest,
                  CopyEnded, StoreEnded, StoreEndedFails, StartNext, channels
    <2>3. DueSinceSleep'
      BY <2>1 DEF DueSinceSleep
    <2> QED BY <2>1, <2>2, <2>3 DEF ClockInv, InternalFull
  <1>2. CASE TimedPoller
    <2>1. /\ UNCHANGED <<alarm, overdue, scheduler, contest, completion>>
          /\ crowded' = IF poller.pc = "watch" THEN InternalFull ELSE crowded /\ poller.pc = "send"
      BY <1>2 DEF TimedPoller, LockingPoller, OfContests, Poller, PollEnded, PollerSend, PollLive
    <2>2. CASE PollEnded
      BY <2>1, <2>2 DEF PollEnded, ClockInv, DueSinceSleep, Unseen, InternalFull, channels
    <2>3. CASE PollerSend
      <3>1. poller.pc = "send" /\ poller'.pc \in {"waitLive", "dead"}
        BY <2>3 DEF PollerSend
      <3>2. crowded' <=> crowded
        <4>1. crowded' = (crowded /\ poller.pc = "send")
          BY <2>1, <3>1
        <4> QED BY <3>1, <4>1, Zenon
      <3>3. DueSinceSleep'
        BY <2>1, <3>1, <3>2 DEF ClockInv, DueSinceSleep, Unseen, Sleeping
      <3> QED BY <2>1, <3>1, <3>3 DEF ClockInv
    <2>4. CASE PollLive
      BY <2>1, <2>4 DEF PollLive, ClockInv, DueSinceSleep, Unseen
    <2> QED BY <1>2, <2>2, <2>3, <2>4 DEF TimedPoller, LockingPoller, OfContests, Poller
  <1>3. CASE Tick
    \* A poller with something to see can go on, so its wait grows.
    <2>1. /\ UNCHANGED <<scheduler, poller, contest, completion, internalQ, crowded>>
          /\ alarm > 0 /\ alarm' = alarm - 1
      BY <1>3 DEF Tick, systemVars, contestOnly, channels
    <2>2. ~crowded /\ Unseen => PollerCanGoOn
      BY DEF ClockInv, Unseen, PollerCanGoOn
    <2>3. overdue' = IF ~PollerCanGoOn THEN 0
                     ELSE IF overdue > Delay THEN overdue ELSE overdue + 1
      BY <1>3 DEF Tick
    <2> QED BY <2>1, <2>2, <2>3 DEF ClockInv, DueSinceSleep, Unseen, Sleeping, InternalFull
  <1>4. CASE Others /\ UNCHANGED clock
    BY <1>4, OthersLeaveClock DEF ClockInv, DueSinceSleep, Unseen, Sleeping, clock
  <1>5. CASE UNCHANGED timedVars
    BY <1>5 DEF timedVars, systemVars, contestOnly, channels, clock, ClockInv, DueSinceSleep,
                Unseen, Sleeping, InternalFull
  <1> QED BY <1>1, <1>2, <1>3, <1>4, <1>5 DEF TimedNext

(* The poller misses no contest, however long process_proof keeps the      *)
(* execution mutex from both tasks, if it asks for the mutex sooner after  *)
(* a change of the status than the scheduler does (main.rs:397, 452-474).  *)
THEOREM NoContestIsMissed == TimedSpec => EndsAreSeen
  <1> DEFINE Seen ==
        ~crowded =>
          /\ contest.status = "Live" /\ contest'.status = "Ended"
               => poller.pc \in {"watch", "dead"}
          /\ contest.status = "Ended" /\ contest'.status = "Live"
               => poller.pc \in {"send", "waitLive", "dead"}
  <1>1. SystemInv /\ SystemInv' /\ ClockInv /\ [TimedNext]_timedVars => [Seen]_timedVars
    <2> SUFFICES ASSUME SystemInv, SystemInv', ClockInv, TimedNext, ~crowded,
                        contest'.status # contest.status
                 PROVE  Seen
      OBVIOUS
    <2>1. TimedScheduler
      <3>1. ~TimedPoller /\ ~Tick
        BY DEF TimedPoller, LockingPoller, OfContests, Poller, PollEnded, PollerSend, PollLive,
               Tick, systemVars, contestOnly
      <3>2. ~Others
        BY OthersLeaveClock
      <3> QED BY <3>1, <3>2 DEF TimedNext
    <2>2. (Sleeping /\ alarm = 0 /\ ~PollerIsFirst) \/ contest.status = "NotStarted"
      BY <2>1 DEF TimedScheduler, LockingScheduler, OfContests, Scheduler, StartFirst, EndContest,
                  CopyEnded, StoreEnded, StoreEndedFails, StartNext, Sleeping
    <2>3. contest.status # "NotStarted" => ~Unseen
      <3>1. Unseen => PollerCanGoOn
        BY DEF ClockInv, Unseen, PollerCanGoOn
      <3> QED BY <2>2, <3>1, ClockAssumption DEF ClockInv, DueSinceSleep, PollerIsFirst
    <2>4. poller.pc \in {"watch", "send", "waitLive", "dead"}
      BY DEF SystemInv, AuctionInv, Inv, TypeInv, TypeOK, PollerType
    <2> QED BY <2>3, <2>4 DEF Unseen
  <1>2. TimedSpec => []ClockInv
    BY InitClockInv, ClockInvStep, TimedInvHolds, PTL DEF TimedSpec
  <1> QED BY <1>1, <1>2, TimedInvHolds, PTL DEF TimedSpec, EndsAreSeen
=============================================================================
