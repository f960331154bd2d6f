# Formal models of the verifier network

TLA+ models of the proving-contest verifier in this repository, the TLC runs
that check them, and proofs of the main safety properties for every value of
the constants. Line references are to the files of the repository, `main.rs`,
`networking.rs` and `execution.rs` being those of `verifier/src`,
`data_structure.rs` that of `primitives/src`, and `client.rs` that of
`prover/src`, whose `main.rs` is written `prover/src/main.rs`.

## 1. The system

A verifier runs contests, one after the other: 10 s in which provers bid, then
10 s in which the winner proves. Provers reach it over JSON-RPC. Inside, four
tokio tasks and one task per RPC call share one executor behind a mutex, a
storage, and five channels of capacity 100.

```
 client        RPC handlers             channels            tasks                  shared
 bid   ---->   submit_bid      --bidQ-->            listen_and_process_bids --+
                                                    start_new_contest       --+--> execution mutex
                  ^                                 poller -----------------+ |    (current_contest)
                  |                                   | internalQ           | |
                  +------------contestQ-------------  process_contest_completion
 proof ---->   submit_proof    --proofQ-->          process_proof ------------+
 watch <----   watch_proof_status <--statusQ--------  |
 register ->   register_prover ------------------------------------------------> storage
```

| component | state | operations | meets |
|---|---|---|---|
| winner selection (`data_structure.rs`) | none | `get_winner` | called by the completion task on its clone of the contest |
| contest and executor (`execution.rs`, `data_structure.rs`) | `current_contest`: id, status, bids | `start_contest`, `end_contest`, `add_bid`, `is_live`, `verify_proof` | everything, through the execution mutex |
| scheduler (`main.rs:380`) | its place in the loop, the contest to store | NotStarted -> Live -> Ended -> store -> Live ... | executor, storage |
| bid listener (`main.rs:339`) | the bid received, the profile it updates | check the status; add the bid or list it as rejected | bid channel, executor, storage |
| completion (`main.rs:447`) | poller: the clone it sends; loop: the contest it completes | poll for Ended, pass on, select, store, announce | executor, internal and contest channel, storage |
| proof processing (`main.rs:510`) | proof, clone of the contest, profile | check the window, slash, verify, credit, report | proof and status channel, executor, storage |
| RPC server (`networking.rs`) | one handler per call, two receivers behind mutexes | `submit_bid`, `submit_proof`, `register_prover`, `watch_proof_status`, getters | channels, storage |
| storage (`main.rs:89-325`) | profiles by name, list of contests | get, insert, push | listener, scheduler, completion, process_proof, RPC |
| prover client and CLI (`prover/src`) | account, sockets, background tasks | register, bid, prove, watch | RPC |
| zkVM guest (`utils/src`) | none | converts chain data to a program input | files |

What is hard here:

* **Interleaving.** Every task locks the executor for single accesses and
  acts on what it read under the next lock, or on a clone. Profiles are read,
  changed and written back by four kinds of task without a lock.
* **Ordering and delivery.** One contest channel serves all bidders; each
  handler takes one message.
* **Timing.** The poller must see each contest ended and the next one live by
  looking every 100 ms, while the scheduler waits for it no longer than its
  sleeps of 10 s and `process_proof` may keep the mutex both need for longer.
* **Failure.** `?` inside a task's loop ends the task for the life of the
  process. Panics end a task and drop its channel ends. Redis accesses fail.
* **Crashes.** The verifier and the provers may be stopped at any moment and
  started again; with Redis they find what they have stored, and nothing else.
* **Numbers.** `get_winner` raises u64 amounts to a random power, divides and
  takes a remainder; credits are subtracted.

What makes each component correct:

* *Winner selection*: always elects a bidder; whom, is a function of the
  bids and the draw.
* *Executor and listener*: one bid per address and contest, a bid counts in
  one contest, bids while live only (but for one late bid), the
  listener survives (violated).
* *Scheduler and completion*: every ended contest goes through the pipeline
  at most once, in order, and not before it ended; the poller misses none while its
  channel has room, and every one it sees with bids is concluded (violated by the
  panic, holds otherwise).
* *submit_bid*: a contest reaches one handler; the winner is told (violated);
  everybody gets an answer once the completion task is gone.
* *Whole verifier*: the profiles stay sound although four kinds of task write
  them; proofs do not stop the contests (violated without a watcher), nor hide
  one from the poller.
* *Prover client and CLI*: an account outlives the program; the verifier knows
  the prover by a key it has; commands come to an end, but for an unanswered bid and a
  watch that is running; its proofs pass the check of the verifier (violated).
* *Storage*: each contest is stored once without and at most once with a
  winner, in order; what bidders are told is on record, also after a crash.
* *Proofs*: verdicts in order, accepted only if valid, credits are those of
  verdicts, none lost (violated), contests go on whoever watches (violated
  without a watcher).

## 2. The modules

| module | models | role |
|---|---|---|
| `U64` | the amounts and credits | modulus of the arithmetic |
| `WinnerSelection` | `Contest::get_winner` | pure operators, used by `ContestCycle` |
| `Profiles`, `Channels` | the stored profiles, `register_prover`; the capacity of the channels | shared by the next two |
| `ContestCycle` | scheduler, listener, poller, completion, `submit_bid` | the core |
| `ProofCycle` | `submit_proof`, `process_proof`, `watch_proof_status` | the proofs |
| `Auction` | what bidders are promised | abstract specification, implemented by `ContestCycle` and `VerifierSystem` |
| `VerifierLives` | `ContestCycle` over crashes and restarts | fault model |
| `VerifierSystem` | `ContestCycle` and `ProofCycle` together | composition |
| `VerifierClock` | `VerifierSystem` with the sleeps of scheduler and poller | timing |
| `ProverClient` | prover client, CLI, the check of its proofs | the other side |
| `WinnerSelectionProofs` | | theorems about `get_winner` on every list of bids |
| `ContestCycleProofs`, `BidProofs` | | theorems about `ContestCycle`: types and order, bids and records |
| `AuctionProofs` | | theorem that `ContestCycle` implements `Auction` |
| `VerifierLivesProofs`, `ProofCycleProofs`, `ProverClientProofs` | | theorems about these modules |
| `VerifierSystemProofs` | | theorems about `VerifierSystem` and `VerifierClock` |
| `MCWinnerSelection` | calls of `get_winner` | closed form of the winners, run |
| `MCContestCycle`, `MCProofCycle`, `MCVerifierLives`, `MCVerifierSystem`, `MCProverClient` | | constants and symmetry for the runs |

An operator whose name ends in `_` and a word (`PollLive_WithoutWaiting`) is the
definition before that suffix with a plausible bug. It is used by no specification:
replacing the definition by it shows that a property notices.

### Profiles

`profiles` maps each name to its stored profile. Whoever changes a profile gets it,
changes its copy and stores the whole copy, and each of the two calls is a step.
A profile has the rejected bids, the credits and the proofs (as the set of the calls
they came in with); team and name are left out, since the name is a function of the
account. With `StorageFails` (Redis) a call may fail before or after Redis has
executed it. A profile at the start belongs to an account that uses its name, as the
client registers it.

### WinnerSelection

`Elects(bids, k, b)`: a call that draws `k` may return `b`. A bid's weight is
`WrappingPow(amount, k)`, the total `SumOf` the weights; `Power` and `SumOf` are recursive
functions, so that proofs can speak of them. u64 arithmetic is modulo the constant `Modulus`, as
in the release build that README.md:180 and the Dockerfile describe. The
shares are integer divisions, `SortedBidders` is the stable sort on them,
`IndexWinner` the remainders, `IsFirstOfName` the final lookup. `Panics` is the
remainder by an exponent of 0. With a total of 0, any bid may be returned.

### ContestCycle

A step runs from one lock, await or storage access to the next. The pc of a
task says where it stands; a task that has returned or panicked is `"dead"`.

| variable | code |
|---|---|
| `contest` | `execution_interface.current_contest` (id, status, bids, winner; the reward is in `ProofCycle`, the times are abstracted) |
| `scheduler` | `start_new_contest` with `contest_to_store` |
| `listener` | `listen_and_process_bids` with the bid, or the profile it is about to write |
| `poller`, `completion` | the task spawned by `process_contest_completion`, and its receive loop |
| `bidQ`, `internalQ`, `contestQ` | the channels |
| `stored`, `profiles` | the storage |
| `handler`, `waiters` | the `submit_bid` calls, and their queue on the mutex of the contest receiver |

| action | code |
|---|---|
| `StartFirst`, `EndContest`, `CopyEnded`, `StoreEnded`, `StoreEndedFails`, `StartNext` | `main.rs:384-444` |
| `ReceiveBid`, `AddBid`, `ReadProfile`, `WriteProfile` | `main.rs:342-375`, `execution.rs:48-60` |
| `PollEnded`, `PollerSend`, `PollLive` | `main.rs:452-475` |
| `CompleteWithoutBids`, `SelectWinner`, `SelectionPanics`, `StoreWinner`, `SendContest` | `main.rs:479-508` |
| `Register` | `networking.rs:221-237` |
| `SubmitBid`, `SubmitBidFails`, `AwaitContest`, `TakeContest`, `ContestsClosed` | `networking.rs:138-219` |

Abstractions: an account stands for its address; sleeps are the freedom to take
a step later (`VerifierClock` measures them); a poll that finds nothing is no step; the
payload of a reply is its verdict, the contest is kept as history; the status
of a bid is implied by where it is (contest or profile); `by` in a bid is
history and is compared by nothing in the code.

### ProofCycle

`processor` is `process_proof`: receive, then (if outside the window) read,
write and send for the rejection, then verify, then read, write and send for
the acceptance. The guard of the execution mutex is a temporary of the
`match` scrutinee (`main.rs:539`) and lives through the `Ok` arm: `LockHeld`
says that the verdict is `"Accepted"`. Of the contests only the status remains
(`phase`), changed by `ContestStep` while the mutex is free; each status change
in the code is made under it. `ReceiveProof` clones the contest: its reward is 0
before the first contest. Verification is a fixed but arbitrary verdict on each
proof, and so is lateness, which depends on a timestamp the sender chooses;
`SubmitFails` is a refused signature. `watcher` and `receivers` are the
`watch_proof_status` handlers: one holds the receiver, the others queue.

`VerdictsInOrder`, `CreditsAreEarned` and `ValidProofsAreAnswered` are about this module;
what it shares with the contests is in `VerifierSystem`.

### Auction

The contests without tasks, channels and locks: one auction at a time takes bids, it
closes in its turn, once, is decided for one of its bids or dropped for want of any,
and its outcome is told to one caller, who may have bid in another auction. A bid
joins at most one auction, with at most one bid per address, or is turned away.
`ContestCycle!Abstract` maps the code's state to it:

| Auction | ContestCycle |
|---|---|
| `auction` | id and bids of `contest` (id -1 before the first) |
| `entry` | the bid of each handler |
| `pending` | bids in `bidQ` and in the listener |
| `closed` | clones in `internalQ` and in the poller |
| `decided` | contests in `contestQ` and in the completion task |
| `halted` | the completion task is dead |
| `answer` | the replies of the handlers |

`StartContest`, `PollEnded`, `AddBid`, `SelectWinner`, `CompleteWithoutBids`,
`SelectionPanics`, `SubmitBid` and `TakeContest` map to `Open`, `Close`, `Join` (or
`TurnAway` for a second bid), `Decide`, `Drop`, `Halt`, `Submit` and `Tell`; what the
listener does with a late bid maps to `TurnAway`, also when the listener dies, the
rest to stutters. `Close` may happen while the auction still takes one late bid, which
then does not count: this is what the code does.

### VerifierLives

A crash can happen between any two steps (`Restart`): tasks, channels and calls are
gone, the storage stays, the contest is the default one, so that its successor has id
0 again (`main.rs:434`; `get_contest_count` is never called). History variables keep
what bidders were told in earlier lives, where the records of this life begin, and
whether storing a winner has failed, which `store_contest_in_redis` only logs.

### VerifierSystem

`VerifierSystem` extends both modules, which share `profiles`. A step of the contests
(`OfContests`) leaves the other variables of `ProofCycle` alone and gives its `phase` the
status of the contest; a step of the proofs (`OfProofs`) leaves those of `ContestCycle` alone.
The steps of scheduler, poller and listener that lock the execution mutex wait while
`process_proof` holds it (`LockHeld`); their storage accesses and sends do not. The
other tasks never lock it. The definitions of `ProofCycle` and `VerifierSystem` have names of
their own (`ProofSpec`, `SystemSpec`) so that one module, and its proofs, can speak of all three.
`ProofCycle` on its own has `ContestStep` for the scheduler and more freedom: its
contest need not wait for the storage or the pipeline. `ContestCycle` on its own never
waits for `process_proof`, so what its liveness run says supposes that the mutex is let
go of, and it does not have the credits and proofs in the profiles it writes back;
`VerifierSystem` has both.

### VerifierClock

The same steps, with three clock variables. The unit is the poll interval of 100 ms.

| variable | meaning |
|---|---|
| `alarm` | what is left of the scheduler's sleep (`main.rs:397`, `main.rs:417`); set to `Sleep` (100 in the code) by the step that leads to a sleep |
| `overdue` | for how long of this sleep the poller could have taken its next step, up to `Delay + 1` |
| `crowded` | history: the internal channel was full when the poller last had a contest to send |

`Tick` lets an interval pass while the scheduler sleeps; time outside its sleeps need not
be counted, since nothing is compared with it. The scheduler's next step waits for its
alarm. The poller has no lower bound: it may find the status it waits for at once. Its
upper bound is in `PollerIsFirst`: the execution mutex is FIFO, so a poller that has been
due for longer than `Delay` asked for it before a scheduler that wakes only now, and gets
it before, whoever else keeps it meanwhile. `Delay` is the poller's own sleep of one
interval and what tokio adds to it; the assumption `Sleep > Delay` is the only one. tokio
promises no bound, so this is a condition, not a fact about the code: the model shows that
anything below ten seconds is soon enough.

### ProverClient

| variable | code |
|---|---|
| `cli` | what the main task is about to do: start, register, prompt, a command |
| `account` | the stored `ProverAccount` (an account stands for its key) |
| `mutex`, `watch` | the mutex of the client with its queue; the background tasks |
| `ws`, `rpc` | `ws_client`, which is reconnected, and `client`, which is not |
| `profile`, `verdicts` | of the verifier: whom it has under the prover's name, what it answered to proofs |

Registration is three steps (read, store, request; `client.rs:194-228`), and each may
fail or be the last before the program is killed (`Stop`). Commands hold the mutex from
`Command` to `Done`. A background watch locks the mutex when tokio first polls it and
never lets go; `StopWatching` aborts it. `SignedProof` is what of a `ProofData`
counts for `sanity_check`: the lengths, what the signature is over, whose it is.

## 3. The runs

Bounds common to the runs: channels have capacity 1 instead of 100, so that
full channels are common; `Modulus` is 16 or 64 instead of 2^64.

| run | properties | instance |
|---|---|---|
| `WinnerSelection` | `AlwaysDecided`, `ElectsReference` | up to 3 bids, 3 names, of one or of several bids, amounts 0..4: every draw up to exponent 2, weights that wrap (4^2 is 0 modulo 16), ties, sums of 0 |
| `ContestCycle_safety` | `PipelineOrdered`, `PipelineBehind`, `OneTakerPerContest`, `EnoughWaiters`, `OneBidPerAddress`, `BidCountsOnce`, `BidHasOneFate`, `RepliesAreOnRecord`, `StoredInOrder`, `AtMostOneLateBid`, `ImplementsAuction`; deadlock | 2 accounts, 3 bids, contests 0 and 1, storage in memory, registrations at any time, no assumption on timing |
| `VerifierLives` | `TypeOK`, `PipelineOrdered`, `RecordsFollowOn`, `VerdictsOutliveCrashes`, `BidHasOneFate` | two lives, Redis that fails before or after it executes a command, two accounts under one name that has no profile at first, 2 bids, contests 0 and 1 in each life |
| `ContestCycle_liveness` | `BidsAreDealtWith`, `AuctionsConclude`, `AnnouncementsAreTaken`, `DeathAnswersAll` | fair tasks, no assumption on timing, storage failures, one name without a profile, 2 bids, 2 contests |
| `ProofCycle_safety` | `ProofTypeOK`, `VerdictsInOrder`, `CreditsAreEarned`, `ValidProofsAreAnswered` | 2 submissions, each of a valid proof in time, unless a contest is live, or of an invalid late one, a name without a profile at first that registers at any time and again, a watcher that may leave, storage failures, fair tasks |
| `VerifierSystem` | `SystemTypeOK`, `ProfilesAreSound`, `EndsAreSeen`, `ContestsAreHeld` | 1 account that bids once, proves once and may register again, a watcher, 2 contests, fair tasks, `Sleep` 2, `Delay` 1 |
| `ProverClient_account` | `TypeOK`, `VerifierKnowsTheKey`, `BiddersAreRegistered`, `AccountLasts`, `CommandsReturn` | Redis that fails, connections that break, 3 keys, 2 background watches, any number of starts |

Why these sizes: the contest pipeline has five places (poller, internal
channel, completion task, contest channel, handlers) and a contest needs a bid
of its own handler to be announced; two contests under way at once, in any two
places, with a third bid in flight cover the orders in which contests can meet,
and the proofs below cover the rest. A bid of amount 0 makes any bidder a
possible winner, and keeps the panic (two bids, exponent 0) and the sole bidder.
For profiles, two writers and a registration are the smallest number that loses
updates in every way. In `ProofCycle_safety` a valid proof is rejected only while a
contest is live, and accepted after that all the same, an invalid one is rejected in
each phase; a valid proof with a late timestamp is, for `process_proof`, one received
during a contest. `Sleep` 2 and `Delay` 1 are the closest numbers the clock allows to
each other with a `Delay` that is not 0; the proof covers the others. Two lives are a crash and what comes after it; a
third would find the storage in no new kind of state. Two watches of the prover are
one that holds the mutex and one that waits, three keys are two that are lost.

`MCContestCycle` adds `LastContest`, a step that changes nothing, where the
bound `MaxContest` stops the scheduler: deadlock is checked in `ContestCycle_safety`. In
the runs with storage failures, and in the others once their submissions, bids and
contests are used up, the tasks may really stop, and deadlock is not checked.

### What the properties say

* `PipelineOrdered`, `PipelineBehind`, `OneTakerPerContest`: a clone of the
  contest enters the pipeline once, its id larger than every id ahead of it, not
  before its contest has ended; two bidders never get answers about the same
  contest. The poller's second loop (wait for Live) is what this hangs on.
* `EnoughWaiters`: the contest channel never holds more contests than there are
  handlers left to take one, so an announcement is never stuck.
* `OneBidPerAddress`, `BidCountsOnce`, `AtMostOneLateBid`: what the two separate
  lock acquisitions of the listener can and cannot do to a contest, in every
  clone and record of it.
* `ImplementsAuction`: all steps of all tasks together are an auction; see above.
* `BidHasOneFate`: a bid takes part in a contest or is listed as rejected, and once.
* `RepliesAreOnRecord`, `StoredInOrder`: the two tasks that store each contest,
  against the answers given and against each other.
* `RecordsFollowOn`, `VerdictsOutliveCrashes`: what a crash leaves in Redis. Ids are not
  unique there and nothing in a record tells the lives apart, but no outcome is on record
  ahead of the contests before its own, also when stores fail, and no bidder was
  told an outcome that is not on record, unless storing it had failed.
* `BidsAreDealtWith`, `AuctionsConclude`, `AnnouncementsAreTaken`, `DeathAnswersAll`:
  progress with and without a panic or a failed store. `AuctionsConclude` begins where the
  poller has seen the end of a contest: that it sees it is `EndsAreSeen`.
* `VerdictsInOrder`, `CreditsAreEarned`: no verdict twice, none after an
  acceptance; lost updates lose whole verdicts but never make up credits.
* `ValidProofsAreAnswered`: with a watcher in the queue for good, each valid proof is
  answered, and one that is not rejected before its verification is accepted, unless
  `process_proof` has died of a storage call.
* `ProfilesAreSound`, `ContestsAreHeld`: the same across the border of the two halves: stale
  copies of profiles, and the execution mutex that `process_proof` keeps while it sends.
* `EndsAreSeen`: unless the internal channel was full, a contest ends only while the poller
  waits for an end, and the next starts only after the poller has copied the ended one.
* `AccountLasts`, `VerifierKnowsTheKey`, `BiddersAreRegistered`: the registration in three
  steps. Each names the mishaps after which it does not hold: a failed read that passes
  for "no account" (`client.rs:204`), a request that never got through (`client.rs:224`), a
  restarted verifier without Redis. After one of these the client bids without a
  profile of its own, since every later start returns early.
* `CommandsReturn`: a command comes back to the prompt, unless it waits for the answer to a
  bid on a connection that stands, or for a mutex that a running watch holds; watches that
  were aborted or have failed keep nobody waiting.

### Fairness and timing

Weak fairness of each task and of each handler that has begun: tokio polls a
task that can go on, and sleeps end. Nothing is assumed of clients that have not begun:
bids, registrations, watchers and their departures need not happen. `ContestStep` of
`ProofCycle`, and scheduler and poller in `VerifierClock`, are strongly fair,
because the tokio mutex is FIFO: a task that waits for it gets it after the holders
before it.

Forwarding a status is fair too. This does assume something of a client: that one which is
connected reads what it is sent, or disconnects, since `sink.send` waits for room in the
connection's buffer (`networking.rs:289`). A connected client that never reads is as bad as no
watcher: what `ProofCycle_freeze` shows then follows, and `ValidProofsAreAnswered` and
`ContestsAreHeld` do not.

Of the prover's main task it is assumed that a request ends (its timeout is 120 s) and
that SP1 returns. That a bid is answered is not assumed, and not true: each contest sends
one message to one of the handlers that wait, so a loser can wait as long as the
verifier lives, and `subscription.next()` has no timeout (`client.rs:251`). Nothing is assumed
of the user.

The steps of `ContestCycle`, `VerifierLives` and `ProofCycle`, and the safety properties of
`VerifierSystem`, rest on no timing at all. What rests on it is that the poller misses no
contest, and `VerifierClock` says on how much: on a `Delay` below `Sleep`. It makes no
assumption on how long `process_proof` keeps the mutex, nor on Redis or the completion
task: a completion task that is slow enough fills the internal channel, with 100 contests
in it, and a poller that waits to send may then miss an end; `crowded` marks these times,
and `EndsAreSeen` says nothing about them.

### Divergences found

Each of these runs ends with a counterexample to what a document or a comment
of the repository says.

| run | property | what happens |
|---|---|---|
| `ContestCycle_panic` | `WinnerIsSelected` | `range % 0` when the exponent drawn is 0 and there are two bids; the completion task is gone for good (`data_structure.rs:246`; README.md:81). The run has one contest, so that the poller cannot miss it |
| `ContestCycle_misdelivery` | `WinnerIsTold` | the contest goes to the first handler in the queue, a loser or a bidder of another contest (`networking.rs:167`; README.md:82) |
| `ProofCycle_freeze` | `ContestsGoOn` | without a watcher the status channel fills, `process_proof` waits with the execution mutex (`main.rs:539-548`; README.md:237-238). The shipped client does not drain it either: it listens to a method name without calling it (`client.rs:285`). The run has a channel of 1 and two proofs; with 100 it takes 101 statuses |
| `ProofCycle_lostcredit` | `VerdictsAreCredited` | `submit_proof` writes back a profile read before the credit (`networking.rs:117-126`; README.md:84). The run submits no proof before the first contest (`ContestFirst`), since the reward is 0 until then and nothing would be lost |
| `ProverClient_check` | `ProofsPassTheCheck` | `generate_proof` sends its signature and address as hex text, signed over the bare proof bytes; `sanity_check` takes 65 and 20 bytes and a prefixed JSON text, so every proof is refused (`client.rs:404-411`, `data_structure.rs:43-56`; README.md:83-84) |

More divergences need no run of their own, since properties that hold are as strong
as the code allows, or since nothing moves:

* A bid checked while the contest was live is added after its end (`main.rs:349-360`,
  against README.md:73-74); `AtMostOneLateBid` says that no more than this one can be late.
* A proof rejected as outside the window is verified and rewarded after all
  (`main.rs:539`, against the comments at `main.rs:519-525`); `VerdictsInOrder` allows
  exactly this sequence of verdicts.
* A late bid of a name without a profile ends the listener for good (`main.rs:370`,
  against README.md:237-240 "automatically ... Processes bids and proofs"). `BidsAreDealtWith` therefore
  excepts a dead listener. The client bids after a failed registration too
  (`prover/src/main.rs:201-204` "Continue anyway"), against README.md:288 "automatically
  registers"; `BiddersAreRegistered` says when.
* A slash below 1000 credits wraps to nearly 2^64 (`main.rs:529`, against
  `data_structure.rs:10` "1000 credits per invalid proof"); `CreditsAreEarned` counts modulo 2^64.
* After `watch-proof` the next `bid` or `get-provers` waits for a mutex that is never
  free, and the loop that would read `stop-watching` (README.md:272-276) waits with it
  (`prover/src/main.rs:82,309`). `CommandsReturn` therefore excepts a watch that is running.
* `watch_current_contest` sends one default contest (`networking.rs:246`), and the client
  does not call it, nor `watch_proof_status`: it listens to notifications of that name
  (`client.rs:285,305`).
* `Instant::now().elapsed()` is about 0 whenever it is read, and `end_time` adds
  milliseconds to seconds (`execution.rs:34-35`, `client.rs:408`): for the shipped client
  the window never closes by the timestamp.

`ElectsReference` holds but will surprise a bidder: shares truncate to 0 unless one bid holds
all the weight, so with two staked bids the first bid received wins, whatever the amounts;
and the lookup is by name, so that of several bids under one name the first wins in
place of the others.

## 4. The proofs

Eight modules prove every safety invariant the runs check, the action properties
of the client and of the clock, and that `ContestCycle` and the whole verifier implement `Auction`, for every value
of the constants: any number of provers, names, calls, watchers, contests and lives, bids in a
contest, any amounts, reward, slash and modulus, any capacity of the channels. The assumptions are
those named in the modules: accounts have names and amounts, rewards and slashes are u64
(`Profiles`, `ContestCycle`, `ProofCycle`), the capacity is positive, `None` is none of the values it
is told apart from, `Modulus` exceeds 1 (`U64`), `Sleep` exceeds `Delay` (`VerifierClock`), the bounds of `MCWinnerSelection` are numbers. The
runs evaluate them.

| module | theorem | statement |
|---|---|---|
| `WinnerSelectionProofs` | `WinnersAreFound`, `WinnersAreThoseOfReference` | `AlwaysDecided`, `ElectsReference` always hold |
| `ContestCycleProofs` | `TypeCorrect` | `Spec => [](TypeOK /\ WaitersWait)` |
| | `ContestsInOrder`, `OutcomesAfterTheEnd`, `OneTaker` | `PipelineOrdered`, `PipelineBehind`, `OneTakerPerContest` always hold |
| `BidProofs` | `BidsAreDistinct`, `BidsCountOnce`, `BidsHaveOneFate`, `LateBidsAreRare` | `OneBidPerAddress`, `BidCountsOnce`, `BidHasOneFate`, `AtMostOneLateBid` always hold |
| | `NoOutcomeIsStuck` | `EnoughWaiters` always holds, if the calls are finitely many |
| | `VerdictsAgreeWithRecords` | `RepliesAreOnRecord` always holds, if `StorageFails = FALSE` |
| | `RecordsAreInOrder` | `StoredInOrder` always holds |
| `AuctionProofs` | `AuctionIsImplemented` | `Spec => ImplementsAuction` |
| `VerifierLivesProofs` | `LivesTypeCorrect`, `LivesInOrder`, `RecordsHaveTheirPredecessor`, `VerdictsSurvive`, `FatesSurvive` | under `LivesSpec`, `TypeOK`, `PipelineOrdered`, `RecordsFollowOn`, `VerdictsOutliveCrashes`, `BidHasOneFate` always hold |
| `ProofCycleProofs` | `ProofTypeCorrect`, `VerdictsAreOrdered`, `NoCreditIsMadeUp` | under `ProofSpec`, `ProofTypeOK`, `VerdictsInOrder`, `CreditsAreEarned` always hold |
| `VerifierSystemProofs` | `SystemTypeCorrect`, `ProfilesStaySound` | under `SystemSpec`, `SystemTypeOK` and `ProfilesAreSound` always hold |
| | `PartsKeepTheirOrder` | under `SystemSpec`, `PipelineOrdered`, `PipelineBehind`, `OneTakerPerContest` and `VerdictsInOrder` always hold |
| | `RecordsStaySound` | under `SystemSpec`, `OneBidPerAddress`, `BidCountsOnce`, `AtMostOneLateBid` and `StoredInOrder` always hold |
| | `VerdictsStayOnRecord` | under `SystemSpec`, `RepliesAreOnRecord` always holds, if `StorageFails = FALSE` |
| | `OutcomesAreStillTaken` | under `SystemSpec`, `EnoughWaiters` always holds, if the calls are finitely many |
| | `VerifierImplementsAuction` | `SystemSpec => ImplementsAuction` |
| | `NoContestIsMissed` | `TimedSpec => EndsAreSeen` |
| `ProverClientProofs` | `MutexIsSound`, `KeysAreKept`, `BidsAreBacked` | `TypeOK`, `VerifierKnowsTheKey`, `BiddersAreRegistered` always hold |
| | `AccountsLast` | `Spec => AccountLasts` |

The theorems with a hypothesis (two, each for `ContestCycle` and for the whole verifier) need it: a finite set of calls, because
`EnoughWaiters` counts them; a storage that does not fail, because
`store_contest_in_redis` only logs a failure and the contest is announced all the same.
All others hold with and without storage failures. `NoContestIsMissed` needs `Sleep > Delay`; none of
the others depends on a clock.

### WinnerSelection

The theorems are about the behaviours of `MCWinnerSelection`, with `Names`, `MaxAmount` and `MaxBids`
arbitrary: a list of any length over any names and amounts, and any exponent a call can draw.

*Induction.* The total is a recursion over the list, and the weights one over the exponent. The
library's induction theorems have an operator for a parameter, which the provers cannot
instantiate, so the induction is made here over sets: `LeastNumber` finds the least element of a set of
numbers, because finite sets are well-founded under inclusion (`FS_StrictSubsetOrderingWellFounded`),
`Induct` is induction over the set of the numbers for which something holds, `Recurrence` the
existence of a recursive function. From these `PowerSteps` and `SumSteps` prove the recursive
equations of `Power` and `SumOf`, and `PowerFacts` and `SumFacts` what is used of them: a positive
base has positive powers, and a sum is at least each of its terms and the sum of any two.

*The sort.* `SortedBidders` chooses, for each place, a bid of that rank. `RankOrder` says that
`Rank` follows the share and then the position, hence is injective; a finite set has no injection
into a smaller one, so every place has its bid (`SortIsAPermutation`). This makes the indexing
sound, also where the amounts wrap, and `FirstOfName` makes the lookup succeed: `AlwaysDecided`.

*Who wins.* If nothing wraps, a share `w \div total` is 0 or 1 (`Shares`), and 1 only for a bid that
holds the whole total. With two staked bids all shares are 0 and the stable sort is the
identity (`FlatSort`); with one, its bid goes to the last place and the others keep their
order (`OneShareSort`), and `1 % k` picks the first or the second place; the lookup by name then
returns the first bid of that name (`LookupFindsFirstNamesake`).

### ContestCycle

*Types.* `TypeOK` alone is not inductive: `TakeContest` reads the bid of the handler
at the head of `waiters`, which has one only because the queue holds handlers that
wait, each once. `WaitersWait` says so. There is one lemma per task.

*Order.* Neither `PipelineOrdered` nor `OneTakerPerContest` is inductive. A clone
enters in order because its id exceeds every id in the pipeline, which is
`PipelineBehind`; that holds across `PollEnded` because the poller stops watching,
and across `PollLive` because the contest has a new, larger id by then. `PipelineInv`
is the conjunction of the first two, on top of the types; `Inv` adds `OneTakerPerContest`,
which follows from `Before(Taken, Ids(contestQ))` at each `TakeContest`. `StageIdsAreNat`
makes the ids comparable, `IdsAppend` and `IdsTail` move a contest from one place to the next.

*Bids.* `OneBidPerAddress` is inductive over the set of all contests held anywhere:
`AddBidSound` covers the one step that adds a bid, `BidsStep` that every other
contest after a step is one from before the step, a new one, or one with a winner
from its own bids. For the fate of a bid the inductive invariant is `BidsInv`: a bid is
at hand (in the channel or with the listener), counted, or listed in a profile, and in
one of these only (`Apart`), once in the channel and once in each version of a profile,
the listener's copy included. That a new bid is in none of them follows from `Authentic`:
what is under way is what its call submitted, and a call submits once.

*Late bids.* `EndedInv` says that a clone or record has ended and is strictly older than a
contest that has not. `LateInv` is what makes the one late bid unique: while the listener is
between its two lock acquisitions and the contest has ended, every clone of this contest still
has the same bids as the contest itself.

*Waiters.* `EnoughWaiters` compares two counts that no step changes together, and a contest is
taken by any handler, not by one that bid in it. The invariant `WaitersInv` therefore keeps a
witness: a set of handlers, as many as contests were sent, taken or are with the completion
task, each with a bid in one of them (`PaidBy`). `SelectWinner` adds the winner's handler, which
is not in it, since its bid counts in no other contest (`BidCountsOnce`, `OneTakerPerContest`).

*Records.* `WinnersInv` says which contests have a winner: those behind the selection and no
others. `RepliesInv` adds to `RepliesAreOnRecord` the contest at `SendContest`. `SeriesInv(b)` is about
the records from place `b` on: those with a winner are of contests settled, hence older than
what is in the pipeline; the last one without a winner is that of the contest
before the current one, or of the current one from its store to its successor (`Latest`).

*Refinement.* `AuctionProofs` maps each step under `AuctionInv`, the conjunction of the invariants
above and two facts about tasks: `start_new_contest` stores and follows up contests that have
ended, and a dead completion task has left its channel empty. `Clones` and `Winning` are
concatenations of places; moving a contest from one place to the next leaves
them as they are, entering and leaving them is `Append` and `Tail` of the mapped sequence. Each
lemma treats the steps of one task; `Close` needs `PipelineBehind` (an auction closes once), `Join`
needs `Apart` (a bid joins once), `Decide` the winner's membership from `SelectWinner`, `Tell` that a
handler with a reply is never asked again.

### VerifierLives

A step of a life is a step of `ContestCycle`, so the step lemmas of the other modules apply, if the
invariants do not speak of what a crash changes. Two are therefore stated with a parameter: `SeriesInv(base)` of
the records since the last restart, `BidsInv(D)` of the calls that are not in the set `D`, which a
crash has ended: their bids may still be in a stored contest or profile, without a handler
that knows them. `LivesInv` says that there is such a `D` and that calls in it stay
`"failed"`. A restart puts `base` at the end of the records and every call but the idle ones into `D`. A record
below `base` never changes, since the storage only appends (`RecordsStay`), which carries
`VerdictsOutliveCrashes` over the crash. For `RecordsFollowOn`, `Follow` is the predecessor of every
record, and `AllBefore` makes a new record find its own: the contests older than the one the
pipeline or the scheduler is about to store have their records without a winner. A restart
asks for none, since the ids begin at 0 again.

### ProofCycle

*Verdicts.* `VerdictsInv` follows a submission from the channel through `process_proof` to the history: it is
in one place, except that a rejected one goes on to the verification and may get the
second verdict. *Credits.* `CreditsInv` is about every copy of a profile, stored or in the hands of a
task: its credits are `Reward * i - Slash * j`, modulo `Modulus`, for some `i` and `j` that do not
exceed the accepted and rejected verdicts on that prover; for the copy `process_proof` is about to
store, the verdict it has not sent yet counts too (`Updated`). A stale copy that overwrites a
newer one is as fair as it was when it was read, since verdicts only become more: lost
updates need no case of their own. `Remainder` is the arithmetic of the wrapping u64.

### VerifierSystem

`StepsOfParts` splits a step of the whole into one of the contests, which is a step of `ContestCycle`,
and one of the proofs, which is a step of `ProofCycle`. The invariants of either part hold across its own
steps by the lemmas above. Across the steps of the other part they are kept by what these leave
alone, except where profiles are concerned: there `SystemInv` adds what each part has to know of
the other's copies. `CopiesApart` says that what a copy of `process_proof` or `submit_proof` lists as
rejected has been submitted, is listed once in it, and neither waits for the listener nor counts in a
contest, so that storing the copy cannot give a bid a second fate. `ListenerFair` says that the
listener's copy has credits that verdicts add up to, so that storing it makes up no credits.
`RecordsInv`, `RepliesInv` and `WaitersInv` are the invariants of `BidProofs` for the records and the
waiters; they speak of nothing a step of the proofs changes (`StepOfContests`).
None of this needs the execution mutex: what depends on it is liveness, and the clock.

*The clock.* `EndsAreSeen` is about one step, but why it holds goes back to when the scheduler went to
sleep. `Unseen` says that the poller has a status to find that it has not seen, `DueSinceSleep` that
it has then been due for the whole of the sleep so far: `overdue` and what is left of the
sleep add up to at least `Sleep`. When the alarm has run down, `overdue` therefore exceeds `Delay`,
the poller is first at the mutex, and the scheduler's step is not possible. A channel
that is not full is what keeps a poller that sends due (`ClockInv`); the other tasks only ever
take from it (`OthersLeaveClock`). `TimedStepIsStep` carries `SystemInv` over to the clock.

### ProverClient

`Queue` is `TypeOK` and says that the mutex is a queue of distinct owners: `Joins` and `Leaves` are
the two ways it changes. `AccountInv` relates the stored account, the key the program is about to store or
register, and the verifier's profile, each relation excepted by the mishap that breaks it.

### What is only model-checked

* Liveness under fairness: `BidsAreDealtWith`, `AuctionsConclude`, `AnnouncementsAreTaken`,
  `DeathAnswersAll`, `ValidProofsAreAnswered`, `ContestsAreHeld`, `CommandsReturn`. It is out of the prover's
  reach.
* The absence of deadlock in `ContestCycle_safety`: that some step is always possible is a matter
  of `ENABLED`.

The properties the runs with a counterexample check do not hold, and have nothing to prove.

## 5. Not modelled

* `get_provers`, `get_all_contests`, `watch_current_contest`: change no state and pass on
  what the storage, or a constant, holds.
* Restarts of a verifier while it handles proofs: `VerifierLives` has the contests only.
  The profiles survive in whatever state `CreditsAreEarned` allows.
* SP1 proving and verification: arbitrary verdicts. For the verifier, any client may
  submit any proof and pass the signature check or not.
* The spinning `watch_proof_status` after the death of `process_proof`
  (`networking.rs:280-281`) and the spinning prompt at the end of the input
  (`prover/src/main.rs:236`): loops without an effect.
* Provers that share a Redis, and with it the one key `my_prover_account`.
* The guest program in `utils`, logging, argument parsing, banners, artifacts.
* Time, but for the sleeps of scheduler and poller in `VerifierClock`: elsewhere it is the order of
  events. For the timestamps of contests and proofs see the divergences.

## 6. Plan

What is modelled is complete as far as it changes state, and every safety invariant of a
run is proved. Possible next steps:

1. Safety properties over crashes for the proofs: `VerifierLives` has the contests only. The
   invariant of `ProofCycleProofs` would need a set of ended calls, as `BidsInv` has one.
2. The 100 places of the internal channel against Redis and the handlers: for how long a
   completion task may be slow before `EndsAreSeen` says nothing any more.

To repeat the checks: `tlc -config ContestCycle_safety.cfg MCContestCycle` and so on for
each `.cfg` and the `MC` module it is named after, and `tlapm ContestCycleProofs.tla` and so on for
each module whose name ends in `Proofs`.
