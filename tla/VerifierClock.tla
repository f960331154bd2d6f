--------------------------- MODULE VerifierClock ----------------------------
(***************************************************************************)
(* The verifier with the sleeps of its two sleeping tasks.  The scheduler  *)
(* sleeps ten seconds between a start and an end of a contest, the poller  *)
(* a tenth of a second between two looks at its status, and nothing but    *)
(* the clock makes the first wait for the second (verifier/src/main.rs).   *)
(*                                                                         *)
(* Time passes in poll intervals (Tick).  The scheduler's alarm counts its *)
(* sleep down.  The poller has no lower bound here: it may find a status   *)
(* it waits for at any moment.  What bounds it from above is Delay: having *)
(* been due for longer, it comes before the scheduler.  tokio promises no  *)
(* such bound; EndsAreSeen shows how large it may be for no contest to be  *)
(* missed.                                                                 *)
(***************************************************************************)
EXTENDS VerifierSystem

CONSTANTS
  Sleep,  \* CONTEST_DURATION and PROOF_DURATION: 100 poll intervals
  Delay   \* how long the poller takes to ask for the mutex: its own sleep,
          \* 1, and what tokio adds to it

ASSUME ClockAssumption == Sleep \in Nat /\ Delay \in Nat /\ Sleep > Delay

VARIABLES
  alarm,    \* what is left of the scheduler's sleep
  overdue,  \* for how much of this sleep the poller could have gone on, up
            \* to Delay + 1
  crowded   \* history: the internal channel was full when the poller last
            \* had a contest to send, and it has not seen the next one live

clock == <<alarm, overdue, crowded>>
timedVars == <<systemVars, clock>>

TimedInit == SystemInit /\ alarm = 0 /\ overdue = 0 /\ crowded = FALSE
-----------------------------------------------------------------------------
Sleeping_AfterStoringOnly == scheduler.pc = "proofWindow"

\* The scheduler sleeps from its look at a live contest, which follows the
\* start, to the end_contest, and from the store to the next start_contest.
Sleeping == \/ scheduler.pc = "loop" /\ contest.status = "Live"
            \/ scheduler.pc = "proofWindow"

InternalFull == completion.pc # "dead" /\ ~(Len(internalQ) < Capacity)

\* What a look would find, or the send is not waiting for.
PollerCanGoOn ==
  \/ poller.pc = "watch" /\ contest.status = "Ended"
  \/ poller.pc = "send" /\ ~InternalFull
  \/ poller.pc = "waitLive" /\ contest.status = "Live"

\* The execution mutex is FIFO: a poller that has been due for longer than
\* Delay asked for it before a scheduler that has just woken up.
PollerIsFirst == PollerCanGoOn /\ overdue > Delay

TimedScheduler ==
  /\ LockingScheduler
  /\ Sleeping => alarm = 0 /\ ~PollerIsFirst
  /\ alarm' = IF Sleeping' THEN Sleep ELSE 0
  /\ overdue' = 0
  /\ UNCHANGED crowded

\* From an ended contest the poller goes on to the send, and to the first
\* look for a live one, without a sleep.
TimedPoller ==
  /\ LockingPoller
  /\ crowded' = IF poller.pc = "watch" THEN InternalFull
                ELSE crowded /\ poller.pc = "send"
  /\ UNCHANGED <<alarm, overdue>>

Tick ==
  /\ alarm > 0
  /\ alarm' = alarm - 1
  /\ overdue' = IF ~PollerCanGoOn THEN 0
                ELSE IF overdue > Delay THEN overdue ELSE overdue + 1
  /\ UNCHANGED <<systemVars, crowded>>

TimedNext == TimedScheduler \/ TimedPoller \/ Tick \/ (Others /\ UNCHANGED clock)

TimedSpec == TimedInit /\ [][TimedNext]_timedVars

\* tokio polls a task that can go on, a sleep ends, and the execution mutex
\* is fair to those who wait for it.  Forwarding a status supposes a client
\* that reads what it is sent, or disconnects (networking.rs:289).
TimedFairness ==
  /\ SF_timedVars(TimedScheduler) /\ SF_timedVars(TimedPoller) /\ WF_timedVars(Tick)
  /\ WF_systemVars(OfProofs(Processor))
  /\ \A w \in Watchers : WF_systemVars(OfProofs(ForwardStatus(w)))

FairTimedSpec == TimedSpec /\ TimedFairness
-----------------------------------------------------------------------------
(* The poller misses no end and no start, as long as the internal channel  *)
(* has not been full: a contest ends only while it watches for the end,    *)
(* and the next one starts only after it has copied the ended one.  The    *)
(* code has nothing but ten seconds against a tenth of one for that        *)
(* (main.rs:397, 417, 452-474).                                            *)
EndsAreSeen ==
  [][~crowded =>
       /\ contest.status = "Live" /\ contest'.status = "Ended"
            => poller.pc \in {"watch", "dead"}
       /\ contest.status = "Ended" /\ contest'.status = "Live"
            => poller.pc \in {"send", "waitLive", "dead"}]_timedVars

(* While somebody watches the proof statuses, process_proof always lets go *)
(* of the execution mutex again, so that contest after contest is held, or *)
(* the scheduler has died on storing one (main.rs:384-444, 539-548).       *)
ContestsAreHeld ==
  Watched => <>(\/ contest.id = MaxContest /\ contest.status = "Ended"
                \/ scheduler.pc = "dead")
=============================================================================
