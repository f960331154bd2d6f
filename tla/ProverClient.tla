---------------------------- MODULE ProverClient ----------------------------
(***************************************************************************)
(* One prover: its account, its client and the command loop of its CLI     *)
(* (prover/src/client.rs, main.rs), over several starts of the program.    *)
(*                                                                         *)
(* The ProverClient is behind one (FIFO) mutex.  The main task holds it    *)
(* for the whole of a command, a background watch task for ever; while the *)
(* main task waits for it, it reads no commands.  The client has two       *)
(* connections: ws_client for subscriptions, reconnected when it is down,  *)
(* and client for requests, which never is.                                *)
(*                                                                         *)
(* Of the verifier there is what this client can see: the profile under    *)
(* the prover's name, and its answers.                                     *)
(***************************************************************************)
EXTENDS Integers, Sequences, FiniteSets

CONSTANTS
  Keys,         \* signing keys, each with its address; one makes an account
  Watches,      \* the watch commands given, one background task each
  Main,         \* the main task, as a holder of the mutex
  Redis,        \* TRUE: the account is in Redis; FALSE: in memory
  StorageFails, \* TRUE: accesses to the account may fail
  None

ASSUME ConstantsAssumption ==
  /\ Main \notin Watches /\ None \notin Keys
  /\ Redis \in BOOLEAN /\ StorageFails \in BOOLEAN
  /\ StorageFails => Redis

VARIABLES
  cli,      \* what the main task is about to do, the key it registers
  account,  \* the stored ProverAccount
  used,     \* history: the keys drawn
  mutex,    \* who holds the mutex of the client (first), who waits for it
  watch,    \* the background tasks
  ws, rpc,  \* whether ws_client and client are connected
  proof,    \* the ProofData to be submitted
  profile,  \* external: the account registered under the prover's name
  verdicts, \* external: the answers to submit_proof
  mishaps   \* history: what can leave the prover with the wrong profile

tasks    == <<mutex, watch>>
verifier == <<profile, verdicts>>
vars == <<cli, account, used, tasks, ws, rpc, proof, verifier, mishaps>>

At(pc)   == cli.pc = pc
Goto(pc) == cli' = [cli EXCEPT !.pc = pc]
Idle(pc) == cli' = [pc |-> pc, key |-> None]

\* RedisStorage: each access opens a connection; either may fail, a store
\* also after Redis has executed it.
AccessMayFail == StorageFails

\* What is left of the account when the program stops.
Kept == IF Redis THEN account ELSE None

Init ==
  /\ cli = [pc |-> "down", key |-> None]
  /\ account = None /\ used = {}
  /\ mutex = <<>> /\ watch = [t \in Watches |-> "none"]
  /\ ws = FALSE /\ rpc = FALSE
  /\ proof = None
  /\ profile = None /\ verdicts = {} /\ mishaps = {}
-----------------------------------------------------------------------------
(* main: ProverClient::new, then register_prover.  The tasks that compete  *)
(* for the mutex come later.                                               *)
Start ==
  /\ At("down") /\ Goto("register")
  /\ ws' = TRUE /\ rpc' = TRUE
  /\ UNCHANGED <<account, used, tasks, proof, verifier, mishaps>>

FindAccount_AlwaysDraws ==
  /\ At("register")
  /\ \E k \in Keys \ used : cli' = [pc |-> "store", key |-> k] /\ used' = used \cup {k}
  /\ UNCHANGED <<account, tasks, ws, rpc, proof, verifier, mishaps>>

FindAccount_RequestsAnyway ==
  /\ At("register")
  /\ \E k \in Keys \ used : /\ cli' = [pc |-> IF account = None THEN "store" ELSE "request", key |-> k]
                           /\ used' = used \cup {k}
  /\ UNCHANGED <<account, tasks, ws, rpc, proof, verifier, mishaps>>

\* An account found ends the registration, and so does a storage that is not
\* connected; a read that fails passes for no account.
FindAccount ==
  /\ At("register")
  /\ \/ /\ account # None \/ AccessMayFail
        /\ Idle("prompt")
        /\ UNCHANGED <<used, mishaps>>
     \/ /\ account = None \/ AccessMayFail
        /\ \E k \in Keys \ used : cli' = [pc |-> "store", key |-> k] /\ used' = used \cup {k}
        /\ mishaps' = IF account = None THEN mishaps ELSE mishaps \cup {"misread"}
  /\ UNCHANGED <<account, tasks, ws, rpc, proof, verifier>>

StoreAccount_IgnoresError ==
  /\ At("store") /\ Goto("request")
  /\ \/ account' = cli.key
     \/ AccessMayFail /\ UNCHANGED account
  /\ UNCHANGED <<used, tasks, ws, rpc, proof, verifier, mishaps>>

\* The account is stored before the verifier is asked.
StoreAccount ==
  /\ At("store")
  /\ \/ account' = cli.key /\ Goto("request") /\ UNCHANGED mishaps
     \/ /\ AccessMayFail /\ Idle("prompt")
        /\ \/ account' = cli.key /\ mishaps' = mishaps \cup {"unsent"}
           \/ UNCHANGED <<account, mishaps>>
  /\ UNCHANGED <<used, tasks, ws, rpc, proof, verifier>>

\* register_prover of the verifier; an error is printed and ignored.
RequestRegistration ==
  /\ At("request") /\ Idle("prompt")
  /\ \/ rpc /\ profile' = cli.key /\ UNCHANGED mishaps
     \/ UNCHANGED profile /\ mishaps' = mishaps \cup {"unsent"}
  /\ UNCHANGED <<account, used, tasks, ws, rpc, proof, verdicts>>
-----------------------------------------------------------------------------
(* The command loop.  Help, status and errors change nothing.              *)

\* bid and get-provers lock the client.
Command ==
  /\ At("prompt")
  /\ \E c \in {"bid", "getProvers"} : Goto(c)
  /\ mutex' = Append(mutex, Main)
  /\ UNCHANGED <<account, used, watch, ws, rpc, proof, verifier, mishaps>>

\* watch-proof and watch-contest spawn a task, which is polled later.
SpawnWatch(t) ==
  /\ At("prompt") /\ watch[t] = "none"
  /\ watch' = [watch EXCEPT ![t] = "spawned"]
  /\ UNCHANGED <<cli, account, used, mutex, ws, rpc, proof, verifier, mishaps>>

Aborted == [t \in Watches |-> IF watch[t] = "none" THEN "none" ELSE "ended"]

StopWatching_Detaches ==
  /\ At("prompt")
  /\ watch' = Aborted
  /\ UNCHANGED <<cli, account, used, mutex, ws, rpc, proof, verifier, mishaps>>

\* stop-watching aborts the tasks; what they hold or wait for is released.
\* At the prompt nobody else is on the mutex.
StopWatching ==
  /\ At("prompt")
  /\ watch' = Aborted /\ mutex' = <<>>
  /\ UNCHANGED <<cli, account, used, ws, rpc, proof, verifier, mishaps>>

\* quit, or the program is killed: Redis keeps the account, the verifier the
\* profile, perhaps before the answer to register_prover.
Stop ==
  /\ ~At("down") /\ Idle("down")
  /\ account' = Kept
  /\ mutex' = <<>> /\ watch' = [t \in Watches |-> "none"]
  /\ ws' = FALSE /\ rpc' = FALSE /\ proof' = None
  /\ IF At("request")
     THEN \/ profile' = cli.key /\ UNCHANGED mishaps
          \/ UNCHANGED profile /\ mishaps' = mishaps \cup {"unsent"}
     ELSE UNCHANGED <<profile, mishaps>>
  /\ UNCHANGED <<used, verdicts>>

\* At the end of the input read_line returns 0 bytes for ever.
EndOfInput ==
  /\ At("prompt") /\ Goto("spin")
  /\ UNCHANGED <<account, used, tasks, ws, rpc, proof, verifier, mishaps>>
-----------------------------------------------------------------------------
(* The commands, with the mutex in hand.                                   *)
Holds(owner) == mutex # <<>> /\ Head(mutex) = owner

Done == Goto("prompt") /\ mutex' = Tail(mutex)

GetProvers ==
  /\ At("getProvers") /\ Holds(Main)
  /\ Done
  /\ UNCHANGED <<account, used, watch, ws, rpc, proof, verifier, mishaps>>

\* submit_bid_and_proof.  The reconnection, like each of the steps after it,
\* may fail, which ends the command.
Connect ==
  /\ At("bid") /\ Holds(Main)
  /\ \/ ws' = TRUE /\ Goto("subscribe") /\ UNCHANGED mutex
     \/ ~ws /\ UNCHANGED ws /\ Done
  /\ UNCHANGED <<account, used, watch, rpc, proof, verifier, mishaps>>

\* Read the account and send the bid made under it.
Subscribe ==
  /\ At("subscribe")
  /\ \/ ws /\ account # None /\ Goto("await") /\ UNCHANGED mutex
     \/ Done
  /\ UNCHANGED <<account, used, watch, ws, rpc, proof, verifier, mishaps>>

\* The answer: won, or lost, an error or the end of the subscription.
ReceiveReply ==
  /\ At("await")
  /\ \/ ws /\ Goto("prove") /\ UNCHANGED mutex
     \/ Done
  /\ UNCHANGED <<account, used, watch, ws, rpc, proof, verifier, mishaps>>

\* What counts for sanity_check: the lengths of the signature and of the
\* address in bytes, what the signature is over, whose they are.
SignedProof(k) ==
  [signature |-> [length |-> 132, over |-> "proof bytes", key |-> k],  \* hex text
   address   |-> [length |-> 42, key |-> k]]                           \* hex text

\* SP1 and the storage may fail.
GenerateProof ==
  /\ At("prove")
  /\ \/ account # None /\ proof' = SignedProof(account) /\ Goto("submit") /\ UNCHANGED mutex
     \/ UNCHANGED proof /\ Done
  /\ UNCHANGED <<account, used, watch, ws, rpc, verifier, mishaps>>

\* ProofData::sanity_check: Signature::try_from takes 65 bytes, and
\* Address::from_slice panics unless it is given 20.
SanityCheck(data) ==
  IF data.signature.length # 65 THEN "Invalid signature"
  ELSE IF data.address.length # 20 THEN "panic"
  ELSE IF /\ data.signature.over = "prefixed JSON of the proof"
          /\ data.signature.key = data.address.key
       THEN "passed" ELSE "Invalid signature"

SubmitProof ==
  /\ At("submit") /\ Done
  /\ verdicts' = IF rpc THEN verdicts \cup {SanityCheck(proof)} ELSE verdicts
  /\ proof' = None
  /\ UNCHANGED <<account, used, watch, ws, rpc, profile, mishaps>>

MainStep == \/ FindAccount \/ StoreAccount \/ RequestRegistration \/ GetProvers
            \/ Connect \/ Subscribe \/ ReceiveReply \/ GenerateProof \/ SubmitProof
-----------------------------------------------------------------------------
(* A background task: watch_proof_status or watch_current_contest, which   *)
(* have nothing to change but the connection and never return.             *)
LockWatch(t) ==
  /\ watch[t] = "spawned"
  /\ watch' = [watch EXCEPT ![t] = "waiting"]
  /\ mutex' = Append(mutex, t)
  /\ UNCHANGED <<cli, account, used, ws, rpc, proof, verifier, mishaps>>

BeginWatch_KeepsMutex(t) ==
  /\ watch[t] = "waiting" /\ Holds(t)
  /\ \/ ws' = TRUE /\ watch' = [watch EXCEPT ![t] = "watching"]
     \/ ws' \in {ws, TRUE} /\ watch' = [watch EXCEPT ![t] = "ended"]
  /\ UNCHANGED <<cli, account, used, mutex, rpc, proof, verifier, mishaps>>

\* A failed reconnection or subscription ends the task.
BeginWatch(t) ==
  /\ watch[t] = "waiting" /\ Holds(t)
  /\ \/ ws' = TRUE /\ watch' = [watch EXCEPT ![t] = "watching"] /\ UNCHANGED mutex
     \/ ws' \in {ws, TRUE} /\ watch' = [watch EXCEPT ![t] = "ended"] /\ mutex' = Tail(mutex)
  /\ UNCHANGED <<cli, account, used, rpc, proof, verifier, mishaps>>

\* External: connections break; a restarted verifier may have no profile.
Disconnect ==
  /\ ws' \in {FALSE, ws} /\ rpc' \in {FALSE, rpc}
  /\ \/ UNCHANGED <<profile, mishaps>>
     \/ ~ws' /\ ~rpc' /\ profile' = None /\ mishaps' = mishaps \cup {"forgotten"}
  /\ UNCHANGED <<cli, account, used, tasks, proof, verdicts>>

Next == \/ Start \/ MainStep \/ Command \/ StopWatching \/ Stop \/ EndOfInput \/ Disconnect
        \/ \E t \in Watches : SpawnWatch(t) \/ LockWatch(t) \/ BeginWatch(t)

Spec == Init /\ [][Next]_vars

\* A request ends within its 120 s, a proof is generated some day, and a
\* subscription ends with its connection.  Nothing makes the verifier answer a
\* bid: subscription.next() has no timeout (client.rs:251).
Fairness == /\ WF_vars(MainStep /\ (At("await") => ~ws))
            /\ \A t \in Watches : WF_vars(LockWatch(t)) /\ WF_vars(BeginWatch(t))

FairSpec == Spec /\ Fairness
-----------------------------------------------------------------------------
MainPcs == {"down", "register", "store", "request", "prompt", "spin"}
Locking == {"bid", "getProvers", "subscribe", "await", "prove", "submit"}

(* Types; and who is on the mutex: the main task exactly during a command  *)
(* that locks it, each background task exactly while it waits or watches,  *)
(* each once, and nobody but the holder uses the client.                   *)
TypeOK ==
  /\ cli \in [pc : MainPcs \cup Locking, key : Keys \cup {None}]
  /\ account \in Keys \cup {None} /\ profile \in Keys \cup {None} /\ used \subseteq Keys
  /\ watch \in [Watches -> {"none", "spawned", "waiting", "watching", "ended"}]
  /\ mutex \in Seq(Watches \cup {Main})
  /\ \A i, j \in DOMAIN mutex : mutex[i] = mutex[j] => i = j
  /\ (\E i \in DOMAIN mutex : mutex[i] = Main) <=> cli.pc \in Locking
  /\ \A t \in Watches :
       (\E i \in DOMAIN mutex : mutex[i] = t) <=> watch[t] \in {"waiting", "watching"}
  /\ cli.pc \in Locking \ {"bid", "getProvers"} => Holds(Main)
  /\ \A t \in Watches : watch[t] = "watching" => Holds(t)
  /\ ws \in BOOLEAN /\ rpc \in BOOLEAN

(* With Redis an account lasts: whenever the program stops, however often  *)
(* it is started, the account changes only if reading it fails between the *)
(* check of the connection and the early return (client.rs:199-206).       *)
AccountLasts ==
  [][Redis /\ account # None => account' = account \/ "misread" \in mishaps]_vars

(* The verifier never knows the prover by an address whose key is lost:    *)
(* the account is in Redis before the verifier hears of it, also when the  *)
(* program stops between the two, unless a read has failed                 *)
(* (client.rs:208-226).                                                    *)
VerifierKnowsTheKey ==
  Redis /\ "misread" \notin mishaps => profile \in {None, account}

(* A bid comes from the account the verifier has under the prover's name,  *)
(* but for three mishaps after which it never will again: the account is   *)
(* stored but register_prover never got through, a failed read has made a  *)
(* new account, the verifier has forgotten the profile.  A bid without a   *)
(* profile ends the verifier's listener (client.rs:194-242).               *)
BiddersAreRegistered ==
  cli.pc \in {"await", "prove", "submit"} /\ mishaps = {} => profile = account

(* The command loop comes back to its prompt, but for two ways to wait for *)
(* ever: for the answer to a bid, while the connection stands ("This       *)
(* function runs indefinitely", prover/src/main.rs:78), and for a mutex a  *)
(* running watch holds.  A watch that stop-watching has aborted, or that   *)
(* has failed, and a broken connection keep nobody waiting                 *)
(* (prover/src/main.rs:71-88, 244-252, 299-339, client.rs:250-276).        *)
CommandsReturn ==
  \/ []<>(cli.pc \notin Locking)
  \/ <>[](At("await") /\ ws)
  \/ \E t \in Watches : <>[](watch[t] = "watching")
-----------------------------------------------------------------------------
(* README.md:83-84: the "Winner generates proof and submits it", the       *)
(* "Verifier validates the proof and awards credits".  The proofs of this  *)
(* client pass the check the verifier starts with.                         *)
ProofsPassTheCheck == verdicts \subseteq {"passed"}
=============================================================================
