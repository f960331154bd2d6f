---------------------------- MODULE ContestCycle ----------------------------
(***************************************************************************)
(* The contests of the verifier: the tasks MainOrchestrator::start spawns  *)
(* around the shared contest, and the submit_bid RPC handlers that wait    *)
(* for its outcome (verifier/src/main.rs, networking.rs, execution.rs).    *)
(*                                                                         *)
(*   submit_bid handlers --bidQ--> bid listener --> contest <-- scheduler  *)
(*        ^                                            |                   *)
(*        +--contestQ-- completion <--internalQ-- poller                   *)
(*                                                                         *)
(* A step runs from one lock, await or storage access to the next.  The    *)
(* handling of proofs (ProofCycle) meets these tasks at the execution      *)
(* mutex and in the stored profiles; VerifierSystem puts both together.    *)
(***************************************************************************)
EXTENDS WinnerSelection, Profiles, Channels

CONSTANT MaxContest    \* bound on the contest id (a u64)

ASSUME ConstantsAssumption == MaxContest \in Nat

Contest == [id     : Nat,
            status : {"NotStarted", "Live", "Ended"},
            bids   : Seq(Bid),
            winner : Bid \cup {None}]

\* What submit_bid hands to its subscription: the program and input of the
\* contest (Some), or null.
Reply == [verdict : {"won", "lost"}, contest : Nat]

ASSUME NoneAssumption == None \notin Bid \cup Contest \cup Profile \cup Reply

VARIABLES
  contest,     \* execution_interface.current_contest
  scheduler,   \* start_new_contest: pc, and contest_to_store
  listener,    \* listen_and_process_bids: pc, the bid, the profile being updated
  poller,      \* the task spawned in process_contest_completion: pc, its snapshot
  completion,  \* the receive loop of process_contest_completion: pc, contest
  bidQ, internalQ, contestQ,  \* the channels, oldest message first
  stored,      \* the stored contests, oldest first
  handler,     \* submit_bid: pc, the bid request, the reply
  waiters      \* handlers queued on the (FIFO) mutex of the contest receiver

channels == <<bidQ, internalQ, contestQ>>
storage  == <<stored, profiles>>
rpc      == <<handler, waiters>>
vars == <<contest, scheduler, listener, poller, completion,
          channels, storage, rpc>>

DefaultContest == [id |-> 0, status |-> "NotStarted", bids |-> <<>>, winner |-> None]

Init ==
  /\ contest = DefaultContest
  /\ scheduler = [pc |-> "loop", copy |-> None]
  /\ listener = [pc |-> "recv", bid |-> None, profile |-> None]
  /\ poller = [pc |-> "watch", copy |-> None]
  /\ completion = [pc |-> "recv", contest |-> None]
  /\ bidQ = <<>> /\ internalQ = <<>> /\ contestQ = <<>>
  /\ stored = <<>>
  /\ InitProfiles
  /\ handler = [h \in Handlers |-> [pc |-> "idle", bid |-> None, reply |-> None]]
  /\ waiters = <<>>
-----------------------------------------------------------------------------
\* store_contest: a push.
StoreContest(c) == stored' = Append(stored, c)

(* start_new_contest.  Only this task writes the status and the id, so the *)
(* status it reads at the top of the loop still holds after the sleep.     *)

StartContest_KeepsBids(nextId) ==
  contest' = [contest EXCEPT !.id = nextId, !.status = "Live"]

StartContest(nextId) ==
  contest' = [id |-> nextId, status |-> "Live", bids |-> <<>>, winner |-> None]

StartFirst ==
  /\ scheduler.pc = "loop" /\ contest.status = "NotStarted"
  /\ StartContest(0)
  /\ UNCHANGED <<scheduler, listener, poller, completion, channels, storage, rpc>>

\* sleep(CONTEST_DURATION), then end_contest.
EndContest ==
  /\ scheduler.pc = "loop" /\ contest.status = "Live"
  /\ contest' = [contest EXCEPT !.status = "Ended"]
  /\ UNCHANGED <<scheduler, listener, poller, completion, channels, storage, rpc>>

CopyEnded ==
  /\ scheduler.pc = "loop" /\ contest.status = "Ended"
  /\ scheduler' = [pc |-> "store", copy |-> contest]
  /\ UNCHANGED <<contest, listener, poller, completion, channels, storage, rpc>>

StoreEnded_NoProofWindow ==
  /\ scheduler.pc = "store"
  /\ StoreContest(scheduler.copy)
  /\ scheduler' = [pc |-> "loop", copy |-> None]
  /\ UNCHANGED <<contest, listener, poller, completion, channels, profiles, rpc>>

StoreEnded ==
  /\ scheduler.pc = "store"
  /\ StoreContest(scheduler.copy)
  /\ scheduler' = [pc |-> "proofWindow", copy |-> None]
  /\ UNCHANGED <<contest, listener, poller, completion, channels, profiles, rpc>>

StoreEndedFails_GoesOn ==
  /\ AccessMayFail
  /\ scheduler.pc = "store"
  /\ StoreContest(scheduler.copy) \/ UNCHANGED stored
  /\ scheduler' = [pc |-> "proofWindow", copy |-> None]
  /\ UNCHANGED <<contest, listener, poller, completion, channels, profiles, rpc>>

\* `store_contest(..)?` fails: the task returns, no contest starts any more.
StoreEndedFails ==
  /\ AccessMayFail
  /\ scheduler.pc = "store"
  /\ StoreContest(scheduler.copy) \/ UNCHANGED stored
  /\ scheduler' = [pc |-> "dead", copy |-> None]
  /\ UNCHANGED <<contest, listener, poller, completion, channels, profiles, rpc>>

\* sleep(PROOF_DURATION), then start_contest with the next id.
StartNext ==
  /\ scheduler.pc = "proofWindow"
  /\ contest.id < MaxContest
  /\ StartContest(contest.id + 1)
  /\ scheduler' = [scheduler EXCEPT !.pc = "loop"]
  /\ UNCHANGED <<listener, poller, completion, channels, storage, rpc>>

Scheduler == \/ StartFirst \/ EndContest \/ CopyEnded
             \/ StoreEnded \/ StoreEndedFails \/ StartNext
-----------------------------------------------------------------------------
(* listen_and_process_bids.                                                *)

IsLive_OnceStarted(c) == c.status # "NotStarted"

IsLive(c) == c.status = "Live"

ReceiveBid_IgnoresLate ==
  /\ listener.pc = "recv"
  /\ bidQ # <<>>
  /\ listener' = IF IsLive(contest)
                 THEN [pc |-> "add", bid |-> Head(bidQ), profile |-> None]
                 ELSE listener
  /\ bidQ' = Tail(bidQ)
  /\ UNCHANGED <<contest, scheduler, poller, completion, internalQ, contestQ, storage, rpc>>

\* Receive a bid and read the status; the lock is released before add_bid.
ReceiveBid ==
  /\ listener.pc = "recv"
  /\ bidQ # <<>>
  /\ listener' = [pc      |-> IF IsLive(contest) THEN "add" ELSE "reject",
                  bid     |-> Head(bidQ),
                  profile |-> None]
  /\ bidQ' = Tail(bidQ)
  /\ UNCHANGED <<contest, scheduler, poller, completion, internalQ, contestQ, storage, rpc>>

HasBidFrom_FirstOnly(c, addr) == c.bids # <<>> /\ c.bids[1].addr = addr

HasBidFrom(c, addr) == \E i \in DOMAIN c.bids : c.bids[i].addr = addr

AddBid_FallsThrough ==
  /\ listener.pc = "add"
  /\ contest' = IF HasBidFrom(contest, listener.bid.addr)
                THEN contest
                ELSE [contest EXCEPT !.bids = Append(@, listener.bid)]
  /\ listener' = [listener EXCEPT !.pc = "reject"]
  /\ UNCHANGED <<scheduler, poller, completion, channels, storage, rpc>>

\* VerifierExecutorImpl::add_bid: it does not look at the status again.
AddBid ==
  /\ listener.pc = "add"
  /\ contest' = IF HasBidFrom(contest, listener.bid.addr)
                THEN contest
                ELSE [contest EXCEPT !.bids = Append(@, listener.bid)]
  /\ listener' = [listener EXCEPT !.pc = "recv", !.bid = None]
  /\ UNCHANGED <<scheduler, poller, completion, channels, storage, rpc>>

ListenerDies_KeepsBid ==
  /\ listener' = [listener EXCEPT !.pc = "dead"]
  /\ bidQ' = <<>>

\* The task returns an error and drops the receiver with what it still holds.
ListenerDies ==
  /\ listener' = [pc |-> "dead", bid |-> None, profile |-> None]
  /\ bidQ' = <<>>

\* get_prover_profile of the name of the bid, then push it on the copy.
ReadProfile ==
  /\ listener.pc = "reject"
  /\ LET p == GetProfile(listener.bid.name)
     IN  \/ /\ p # None
            /\ listener' = [listener EXCEPT !.pc = "update", !.bid = None,
                              !.profile = [p EXCEPT !.bids = Append(@, listener.bid)]]
            /\ UNCHANGED bidQ
         \/ (p = None \/ AccessMayFail) /\ ListenerDies
  /\ UNCHANGED <<contest, scheduler, poller, completion, internalQ, contestQ, storage, rpc>>

\* update_prover_profile writes the whole profile back, under its own name.
WriteProfile ==
  /\ listener.pc = "update"
  /\ \/ /\ StoreProfile(listener.profile)
        /\ listener' = [pc |-> "recv", bid |-> None, profile |-> None]
        /\ UNCHANGED bidQ
     \/ /\ AccessMayFail /\ ListenerDies
        /\ StoreProfile(listener.profile) \/ UNCHANGED profiles
  /\ UNCHANGED <<contest, scheduler, poller, completion, internalQ, contestQ, stored, rpc>>

Listener == ReceiveBid \/ AddBid \/ ReadProfile \/ WriteProfile
-----------------------------------------------------------------------------
(* process_contest_completion: the polling task it spawns ...              *)

\* A poll that finds nothing to do changes nothing and is not a step.
PollEnded ==
  /\ poller.pc = "watch" /\ contest.status = "Ended"
  /\ poller' = [pc |-> "send", copy |-> contest]
  /\ UNCHANGED <<contest, scheduler, listener, completion, channels, storage, rpc>>

PollerSend ==
  /\ poller.pc = "send"
  /\ IF completion.pc = "dead"
     THEN /\ poller' = [pc |-> "dead", copy |-> None]
          /\ UNCHANGED internalQ
     ELSE /\ Len(internalQ) < Capacity
          /\ internalQ' = Append(internalQ, poller.copy)
          /\ poller' = [pc |-> "waitLive", copy |-> None]
  /\ UNCHANGED <<contest, scheduler, listener, completion, bidQ, contestQ, storage, rpc>>

PollLive_WithoutWaiting ==
  /\ poller.pc = "waitLive"
  /\ poller' = [poller EXCEPT !.pc = "watch"]
  /\ UNCHANGED <<contest, scheduler, listener, completion, channels, storage, rpc>>

PollLive ==
  /\ poller.pc = "waitLive" /\ contest.status = "Live"
  /\ poller' = [poller EXCEPT !.pc = "watch"]
  /\ UNCHANGED <<contest, scheduler, listener, completion, channels, storage, rpc>>

Poller == PollEnded \/ PollerSend \/ PollLive

(* ... and its own receive loop.                                           *)

CompleteWithoutBids_SendsContest ==
  /\ completion.pc = "recv" /\ internalQ # <<>>
  /\ Head(internalQ).bids = <<>>
  /\ internalQ' = Tail(internalQ)
  /\ completion' = [pc |-> "send", contest |-> Head(internalQ)]
  /\ UNCHANGED <<contest, scheduler, listener, poller, bidQ, contestQ, storage, rpc>>

CompleteWithoutBids ==
  /\ completion.pc = "recv" /\ internalQ # <<>>
  /\ Head(internalQ).bids = <<>>
  /\ internalQ' = Tail(internalQ)
  /\ UNCHANGED <<contest, scheduler, listener, poller, completion, bidQ, contestQ, storage, rpc>>

SelectWinner_Unstored ==
  /\ completion.pc = "recv" /\ internalQ # <<>>
  /\ \E b \in Winners(Head(internalQ).bids) :
        completion' = [pc |-> "send", contest |-> [Head(internalQ) EXCEPT !.winner = b]]
  /\ internalQ' = Tail(internalQ)
  /\ UNCHANGED <<contest, scheduler, listener, poller, bidQ, contestQ, storage, rpc>>

SelectWinner ==
  /\ completion.pc = "recv" /\ internalQ # <<>>
  /\ \E b \in Winners(Head(internalQ).bids) :
        completion' = [pc |-> "store", contest |-> [Head(internalQ) EXCEPT !.winner = b]]
  /\ internalQ' = Tail(internalQ)
  /\ UNCHANGED <<contest, scheduler, listener, poller, bidQ, contestQ, storage, rpc>>

\* get_winner panics: the task unwinds, the internal receiver and the
\* contest sender are dropped.
SelectionPanics ==
  /\ completion.pc = "recv" /\ internalQ # <<>>
  /\ MayPanic(Head(internalQ).bids)
  /\ completion' = [pc |-> "dead", contest |-> None]
  /\ internalQ' = <<>>
  /\ UNCHANGED <<contest, scheduler, listener, poller, bidQ, contestQ, storage, rpc>>

StoreWinner_BeforeSelection ==
  /\ completion.pc = "store"
  /\ StoreContest([completion.contest EXCEPT !.winner = None])
  /\ completion' = [completion EXCEPT !.pc = "send"]
  /\ UNCHANGED <<contest, scheduler, listener, poller, channels, profiles, rpc>>

StoreWinner_DropsOnFailure ==
  /\ completion.pc = "store"
  /\ \/ /\ StoreContest(completion.contest)
        /\ completion' = [completion EXCEPT !.pc = "send"]
     \/ /\ AccessMayFail /\ UNCHANGED stored
        /\ completion' = [pc |-> "recv", contest |-> None]
  /\ UNCHANGED <<contest, scheduler, listener, poller, channels, profiles, rpc>>

\* store_contest_in_redis: a failure is logged and the contest still sent.
StoreWinner ==
  /\ completion.pc = "store"
  /\ \/ StoreContest(completion.contest)
     \/ AccessMayFail /\ UNCHANGED stored
  /\ completion' = [completion EXCEPT !.pc = "send"]
  /\ UNCHANGED <<contest, scheduler, listener, poller, channels, profiles, rpc>>

SendContest ==
  /\ completion.pc = "send"
  /\ Len(contestQ) < Capacity
  /\ contestQ' = Append(contestQ, completion.contest)
  /\ completion' = [pc |-> "recv", contest |-> None]
  /\ UNCHANGED <<contest, scheduler, listener, poller, bidQ, internalQ, storage, rpc>>

Completion == \/ CompleteWithoutBids \/ SelectWinner \/ SelectionPanics
              \/ StoreWinner \/ SendContest
-----------------------------------------------------------------------------
(* The RPC methods of ProverNetwork.                                       *)

Register(p) ==
  /\ Registration(p)
  /\ UNCHANGED <<contest, scheduler, listener, poller, completion, channels, stored, rpc>>

\* submit_bid up to the channel; a full channel delays the send.
SubmitBid(h) ==
  /\ handler[h].pc = "idle"
  /\ listener.pc # "dead" /\ Len(bidQ) < Capacity
  /\ \E p \in Provers, a \in Amounts :
       LET b == [name |-> NameOf[p], addr |-> p, amount |-> a, by |-> h]
       IN  /\ bidQ' = Append(bidQ, b)
           /\ handler' = [handler EXCEPT ![h].pc = "sent", ![h].bid = b]
  /\ UNCHANGED <<contest, scheduler, listener, poller, completion, internalQ, contestQ, storage, waiters>>

\* Once the listener has dropped the receiver the send is an error.
SubmitBidFails(h) ==
  /\ handler[h].pc = "idle"
  /\ listener.pc = "dead"
  /\ handler' = [handler EXCEPT ![h].pc = "failed"]
  /\ UNCHANGED <<contest, scheduler, listener, poller, completion, channels, storage, waiters>>

\* contest_response_receiver.lock(): the tokio mutex is fair.
AwaitContest(h) ==
  /\ handler[h].pc = "sent"
  /\ handler' = [handler EXCEPT ![h].pc = "waiting"]
  /\ waiters' = Append(waiters, h)
  /\ UNCHANGED <<contest, scheduler, listener, poller, completion, channels, storage>>

\* The lock holder receives one contest, whichever it is, and compares its
\* winner with the address of its own bid.
TakeContest(h) ==
  /\ waiters # <<>> /\ Head(waiters) = h
  /\ contestQ # <<>>
  /\ LET c   == Head(contestQ)
         won == c.winner # None /\ c.winner.addr = handler[h].bid.addr
     IN  handler' = [handler EXCEPT ![h].pc = "replied",
                       ![h].reply = [verdict |-> IF won THEN "won" ELSE "lost",
                                     contest |-> c.id]]
  /\ contestQ' = Tail(contestQ)
  /\ waiters' = Tail(waiters)
  /\ UNCHANGED <<contest, scheduler, listener, poller, completion, bidQ, internalQ, storage>>

ContestsClosed_SenderKept(h) == FALSE

\* recv() returns None once the sender is gone and the channel is empty.
ContestsClosed(h) ==
  /\ waiters # <<>> /\ Head(waiters) = h
  /\ contestQ = <<>> /\ completion.pc = "dead"
  /\ handler' = [handler EXCEPT ![h].pc = "closed"]
  /\ waiters' = Tail(waiters)
  /\ UNCHANGED <<contest, scheduler, listener, poller, completion, channels, storage>>

Answer(h) == AwaitContest(h) \/ TakeContest(h) \/ ContestsClosed(h)

Rpc(h) == SubmitBid(h) \/ SubmitBidFails(h) \/ Answer(h)
-----------------------------------------------------------------------------
Next == \/ Scheduler \/ Listener \/ Poller \/ Completion
        \/ \E p \in Registrants : Register(p)
        \/ \E h \in Handlers : Rpc(h)

Spec == Init /\ [][Next]_vars

\* tokio polls every task that can go on, and a sleep ends; clients need not
\* bid, register or stay.
Fairness == /\ WF_vars(Scheduler) /\ WF_vars(Listener)
            /\ WF_vars(Poller) /\ WF_vars(Completion)
            /\ \A h \in Handlers : WF_vars(Answer(h))

FairSpec == Spec /\ Fairness
-----------------------------------------------------------------------------
(* Types: every variable in its set, and each task's copy present exactly  *)
(* while its pc needs it.                                                  *)
SchedulerType ==
  [pc : {"loop", "proofWindow", "dead"}, copy : {None}] \cup [pc : {"store"}, copy : Contest]

ListenerType ==
       [pc : {"recv", "dead"}, bid : {None}, profile : {None}]
  \cup [pc : {"add", "reject"}, bid : Bid, profile : {None}]
  \cup [pc : {"update"}, bid : {None}, profile : Profile]

PollerType ==
  [pc : {"watch", "waitLive", "dead"}, copy : {None}] \cup [pc : {"send"}, copy : Contest]

CompletionType ==
  [pc : {"recv", "dead"}, contest : {None}] \cup [pc : {"store", "send"}, contest : Contest]

HandlerType ==
       [pc : {"idle", "failed"}, bid : {None}, reply : {None}]
  \cup [pc : {"sent", "waiting", "closed"}, bid : Bid, reply : {None}]
  \cup [pc : {"replied"}, bid : Bid, reply : Reply]

TypeOK ==
  /\ contest \in Contest
  /\ scheduler \in SchedulerType
  /\ listener \in ListenerType
  /\ poller \in PollerType
  /\ completion \in CompletionType
  /\ bidQ \in Seq(Bid)
  /\ internalQ \in Seq(Contest) /\ contestQ \in Seq(Contest)
  /\ stored \in Seq(Contest)
  /\ profiles \in [Names -> Profile \cup {None}]
  /\ handler \in [Handlers -> HandlerType]
  /\ waiters \in Seq(Handlers)
-----------------------------------------------------------------------------
Ids(s) == {s[i].id : i \in DOMAIN s}
Increasing(s) == \A i, j \in DOMAIN s : i < j => s[i].id < s[j].id

Replied == {h \in Handlers : handler[h].pc = "replied"}
Taken   == {handler[h].reply.contest : h \in Replied}
AtCompletion == IF completion.pc \in {"store", "send"} THEN {completion.contest.id} ELSE {}
AtPoller     == IF poller.pc = "send" THEN {poller.copy.id} ELSE {}

Announced == Taken \cup Ids(contestQ)

Before(S, T) == \A m \in S, n \in T : m < n

(* The contests that go through the completion pipeline - poller, internal *)
(* channel, completion task, contest channel, submit_bid handlers - keep   *)
(* the order of their ids, so none enters it twice (main.rs:452-498).      *)
PipelineOrdered ==
  /\ Increasing(contestQ) /\ Increasing(internalQ)
  /\ Before(Taken, Ids(contestQ) \cup AtCompletion \cup Ids(internalQ) \cup AtPoller)
  /\ Before(Ids(contestQ), AtCompletion \cup Ids(internalQ) \cup AtPoller)
  /\ Before(AtCompletion, Ids(internalQ) \cup AtPoller)
  /\ Before(Ids(internalQ), AtPoller)

InPipeline == Announced \cup AtCompletion \cup Ids(internalQ) \cup AtPoller

(* What is in the pipeline, or through it, is never ahead of the shared    *)
(* contest, and is strictly behind it while that contest is live and until *)
(* the poller has seen it end: nobody acts on the outcome of a contest     *)
(* that still takes bids (main.rs:453-473).                                *)
PipelineBehind ==
  /\ \A k \in InPipeline : k <= contest.id
  /\ poller.pc = "watch" \/ contest.status = "Live" =>
       \A k \in InPipeline : k < contest.id
  /\ contest.status = "NotStarted" => poller.pc = "watch" /\ contest.id = 0

(* A contest reaches at most one submit_bid handler: two replies are never *)
(* about the same contest, whoever won it (networking.rs:164-172).         *)
OneTakerPerContest ==
  \A g, h \in Replied : handler[g].reply.contest = handler[h].reply.contest => g = h

(* The contest channel never holds more contests than there are handlers   *)
(* left to take one: a winner implies a bid, and a bid a handler of its    *)
(* own, so a sent contest is not stuck for want of a receiver.             *)
EnoughWaiters ==
  Len(contestQ) <= Cardinality({h \in Handlers : handler[h].pc \in {"sent", "waiting"}})

\* Every contest held anywhere: the shared one, the clones and the records.
Everywhere ==
       {contest} \cup Range(internalQ) \cup Range(contestQ) \cup Range(stored)
  \cup {c \in {scheduler.copy, poller.copy, completion.contest} : c # None}

DistinctBidders(c) == \A i, j \in DOMAIN c.bids : c.bids[i].addr = c.bids[j].addr => i = j

(* No contest ever holds two bids of the same address (execution.rs:48-60),*)
(* and one with a winner holds the winner's bid.                           *)
OneBidPerAddress ==
  \A c \in Everywhere :
    /\ DistinctBidders(c)
    /\ c.winner # None => c.winner \in Range(c.bids)

(* A submitted bid counts in one contest only, however long it or a clone  *)
(* of its contest is under way: start_contest begins with an empty list    *)
(* and the listener forgets a bid it has added (execution.rs:30-42).       *)
BidCountsOnce ==
  \A c, d \in Everywhere :
    Range(c.bids) \cap Range(d.bids) # {} => c.id = d.id

(* A contest that reaches the handlers is on record with its winner, and   *)
(* the verdict each handler passes on agrees with that record, as long as  *)
(* the storage does not fail (main.rs:485-494, networking.rs:174-203).     *)
RepliesAreOnRecord ==
  /\ Range(contestQ) \subseteq Range(stored)
  /\ \A h \in Replied : \E c \in Range(stored) :
       /\ c.id = handler[h].reply.contest /\ c.winner # None
       /\ handler[h].reply.verdict = "won" <=> c.winner.addr = handler[h].bid.addr

Undecided(c) == c.winner = None   \* as start_new_contest stores a contest

\* The records from the one at `first` on, in two interleaved series: with a
\* winner the ids increase, without one they also leave none out.
InOrderFrom(first) ==
  /\ \A i, j \in first..Len(stored) :
       i < j /\ (Undecided(stored[i]) <=> Undecided(stored[j])) => stored[i].id < stored[j].id
  /\ \A j \in first..Len(stored) :
       Undecided(stored[j]) /\ stored[j].id > 0 =>
         \E i \in first..(j - 1) : Undecided(stored[i]) /\ stored[i].id = stored[j].id - 1

(* Two tasks store every ended contest: start_new_contest without a winner *)
(* and the completion task with one.  Each stores a contest at most once   *)
(* and in the order of the ids, start_new_contest without leaving one out, *)
(* whichever accesses fail (main.rs:408-414, 487, 503-508).                *)
StoredInOrder == InOrderFrom(1)

(* Clones of one contest taken after its end differ by at most one bid:    *)
(* the one the listener had checked before the end (main.rs:349-360).      *)
AtMostOneLateBid ==
  LET SameBut1(s, t) == \/ s = t
                        \/ Len(t) = Len(s) + 1 /\ SubSeq(t, 1, Len(s)) = s
  IN  \A c, d \in {e \in Everywhere : e.status = "Ended"} :
        c.id = d.id => SameBut1(c.bids, d.bids) \/ SameBut1(d.bids, c.bids)
-----------------------------------------------------------------------------
\* The abstract state of Auction in terms of the tasks and channels.
Outcome(c) == [id |-> c.id, winner |-> c.winner]
Offer(c)   == [id |-> IF c.status = "NotStarted" THEN -1 ELSE c.id, bids |-> c.bids]

Clones  == internalQ \o IF poller.pc = "send" THEN <<poller.copy>> ELSE <<>>
Winning == contestQ \o IF completion.pc \in {"store", "send"} THEN <<completion.contest>> ELSE <<>>
Unheard == {bidQ[i].by : i \in DOMAIN bidQ}
      \cup (IF listener.bid # None THEN {listener.bid.by} ELSE {})
Told(h) == [id |-> handler[h].reply.contest, won |-> handler[h].reply.verdict = "won"]

Abstract == INSTANCE Auction WITH
  Callers <- Handlers,
  Bids    <- Bid,
  Nothing <- None,
  auction <- Offer(contest),
  entry   <- [h \in Handlers |-> handler[h].bid],
  pending <- Unheard,
  closed  <- [i \in DOMAIN Clones |-> Offer(Clones[i])],
  decided <- [i \in DOMAIN Winning |-> Outcome(Winning[i])],
  halted  <- completion.pc = "dead",
  answer  <- [h \in Handlers |-> IF handler[h].pc = "replied" THEN Told(h) ELSE None]

(* The tasks, channels and handlers together hold the auctions of Auction: *)
(* a clone is a closed auction, what is on its way in the contest channel  *)
(* or just before it a decided one (main.rs:339-501, networking.rs:138-218)*)
ImplementsAuction == Abstract!Spec

(* A bid has one fate: it takes part in a contest or is listed as rejected *)
(* once, never both, although the profile it is listed in is read, written *)
(* and replaced in the meantime (main.rs:349-375, networking.rs:221-237).  *)
BidHasOneFate ==
  LET Listed(n) == IF profiles[n] = None THEN <<>> ELSE profiles[n].bids
  IN  \A n \in Names :
        /\ \A i, j \in DOMAIN Listed(n) : Listed(n)[i] = Listed(n)[j] => i = j
        /\ \A c \in Everywhere : Range(c.bids) \cap Range(Listed(n)) = {}

(* A submitted bid is dealt with while the listener lives: at some moment  *)
(* its address has a bid in the contest, or its profile lists it as        *)
(* rejected (main.rs:339-378, execution.rs:48-60).                         *)
BidsAreDealtWith ==
  \A h \in Handlers :
    (h \in Unheard) ~>
      \/ listener.pc = "dead"
      \/ LET bid == handler[h].bid
         IN  /\ bid # None
             /\ \/ HasBidFrom(contest, bid.addr)
                \/ profiles[bid.name] # None /\ bid \in Range(profiles[bid.name].bids)

\* Contest k has bids, and the poller has copied it, or will because the
\* scheduler is dead.  That it does not miss one is for the clock to ensure:
\* see EndsAreSeen of VerifierClock.
Concluding(k) ==
  \/ poller.pc = "send" /\ poller.copy.id = k /\ poller.copy.bids # <<>>
  \/ /\ contest.id = k /\ contest.status = "Ended" /\ contest.bids # <<>>
     /\ poller.pc = "watch" /\ scheduler.pc = "dead"

(* An ended contest with bids that the poller sees is announced with a     *)
(* winner, unless the completion task has died: a storage that fails, in   *)
(* either task that stores it, does not keep its outcome from the bidders  *)
(* (main.rs:414, 452-508).                                                 *)
AuctionsConclude ==
  \A k \in 0..MaxContest : Concluding(k) ~> (k \in Announced \/ completion.pc = "dead")

(* Every contest sent to the handlers is taken by one of them.             *)
AnnouncementsAreTaken ==
  \A k \in 0..MaxContest : (k \in Ids(contestQ)) ~> (k \in Taken)

(* When the completion task has died nobody waits for ever: each handler   *)
(* still takes a contest or sees the channel closed (networking.rs:204).   *)
DeathAnswersAll ==
  \A h \in Handlers :
    (completion.pc = "dead" /\ handler[h].pc \in {"sent", "waiting"})
      ~> (handler[h].pc \in {"replied", "closed"})
-----------------------------------------------------------------------------
(* What the README says and the code does not do.                          *)

(* README.md:81: "Contest ends and winner is selected".                    *)
WinnerIsSelected ==
  \A k \in 0..MaxContest :
    (contest.id = k /\ contest.status = "Live" /\ contest.bids # <<>>) ~> (k \in Announced)

(* README.md:82: "Winner receives program and input data".                 *)
WinnerIsTold ==
  \A k \in 0..MaxContest :
    (k \in Announced) ~> \E h \in Replied : handler[h].reply = [verdict |-> "won", contest |-> k]
=============================================================================
