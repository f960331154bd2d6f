--------------------------- MODULE VerifierLives ---------------------------
(***************************************************************************)
(* The contests of a verifier with Redis over several lives of its         *)
(* process.  A crash ends every task, channel and RPC call at once; the    *)
(* next start begins with the default contest, whose successor has id 0,   *)
(* and finds the contests and profiles in the storage as they were left    *)
(* (verifier/src/main.rs: start, start_new_contest, RedisStorage).         *)
(***************************************************************************)
EXTENDS ContestCycle

CONSTANT MaxLives   \* bound on the number of times the verifier is started

ASSUME MaxLivesAssumption == MaxLives \in Nat \ {0}

VARIABLES
  life,        \* the number of the current life
  base,        \* history: how many contests were stored before it
  told,        \* history: the replies bidders got in earlier lives
  unrecorded   \* history: a contest with a winner could not be stored

history == <<life, base, told, unrecorded>>

LivesInit == Init /\ life = 1 /\ base = 0 /\ told = {} /\ unrecorded = FALSE

\* A step of a task or a call, within a life.
Run ==
  /\ Next
  /\ unrecorded' = (unrecorded \/ (StoreWinner /\ UNCHANGED stored))
  /\ UNCHANGED <<life, base, told>>

\* Calls under way fail, the others may still be made.  get_contest_count is
\* not called: the ids start again.
Restart ==
  /\ life < MaxLives /\ life' = life + 1
  /\ base' = Len(stored)
  /\ told' = told \cup {[bid |-> handler[h].bid, reply |-> handler[h].reply] : h \in Replied}
  /\ contest' = DefaultContest
  /\ scheduler' = [pc |-> "loop", copy |-> None]
  /\ listener' = [pc |-> "recv", bid |-> None, profile |-> None]
  /\ poller' = [pc |-> "watch", copy |-> None]
  /\ completion' = [pc |-> "recv", contest |-> None]
  /\ bidQ' = <<>> /\ internalQ' = <<>> /\ contestQ' = <<>>
  /\ handler' = [h \in Handlers |-> IF handler[h].pc = "idle" THEN handler[h]
                                    ELSE [pc |-> "failed", bid |-> None, reply |-> None]]
  /\ waiters' = <<>>
  /\ UNCHANGED <<storage, unrecorded>>

LivesNext == Run \/ Restart

LivesSpec == LivesInit /\ [][LivesNext]_<<vars, history>>
-----------------------------------------------------------------------------
(* A bidder is told no outcome that a crash can undo: the contest is on    *)
(* record, with the winner the verdict was about, before the verdict goes  *)
(* out, unless storing it failed and was only logged (main.rs:487-490,     *)
(* 503-508, networking.rs:174-203).                                        *)
VerdictsOutliveCrashes ==
  unrecorded \/ \A t \in told : \E c \in Range(stored) :
    /\ c.id = t.reply.contest /\ c.winner # None
    /\ t.reply.verdict = "won" <=> c.winner.addr = t.bid.addr

(* The ids of the contests in the storage do not identify them: each life  *)
(* counts from 0 again, and nothing in a record tells the lives apart.     *)
(* What remains, whatever fails and wherever a life ends: the records of   *)
(* the current life are in order, and before each record of a contest      *)
(* k > 0, by either task, comes that of k - 1 without a winner.  Between   *)
(* the two no older contest is stored without a winner, and none at all if *)
(* the record has no winner itself: no outcome is on record ahead of the   *)
(* contests before its own (main.rs:407-434, 485-508).                     *)
RecordsFollowOn ==
  /\ InOrderFrom(base + 1)
  /\ \A j \in DOMAIN stored : stored[j].id > 0 =>
       \E i \in 1..(j - 1) :
         /\ Undecided(stored[i]) /\ stored[i].id = stored[j].id - 1
         /\ \A k \in (i + 1)..(j - 1) : Undecided(stored[k]) =>
              ~Undecided(stored[j]) /\ stored[k].id >= stored[j].id
=============================================================================
