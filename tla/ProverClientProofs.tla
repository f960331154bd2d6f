------------------------- MODULE ProverClientProofs -------------------------
(***************************************************************************)
(* What holds of ProverClient for any set of keys and of watch commands,   *)
(* with the account in Redis or in memory and whichever accesses fail.     *)
(***************************************************************************)
EXTENDS ProverClient, TLAPS

(* The mutex is a queue of owners: it grows by one owner that is not on it,*)
(* or loses its holder.                                                    *)

On(o) == \E i \in DOMAIN mutex : mutex[i] = o

Distinct == \A i, j \in DOMAIN mutex : mutex[i] = mutex[j] => i = j

Owners == Watches \cup {Main}

LEMMA Joins ==
  ASSUME mutex \in Seq(Owners), Distinct, NEW o \in Owners, ~On(o),
         mutex' = Append(mutex, o)
  PROVE  /\ mutex' \in Seq(Owners) /\ Distinct'
         /\ \A p \in Owners : On(p)' <=> On(p) \/ p = o
         /\ \A p \in Owners : Holds(p) => Holds(p)'
  <1>1. /\ mutex' \in Seq(Owners)
        /\ DOMAIN mutex' = DOMAIN mutex \cup {Len(mutex) + 1}
        /\ \A i \in DOMAIN mutex : mutex'[i] = mutex[i]
        /\ mutex'[Len(mutex) + 1] = o
        /\ mutex # <<>> => Head(mutex') = Head(mutex)
        /\ mutex' # <<>>
    OBVIOUS
  <1>2. Distinct'
    BY <1>1 DEF Distinct, On
  <1>3. \A p \in Owners : On(p)' <=> On(p) \/ p = o
    BY <1>1 DEF On
  <1> QED BY <1>1, <1>2, <1>3 DEF Holds

LEMMA Leaves ==
  ASSUME mutex \in Seq(Owners), Distinct, NEW o \in Owners, Holds(o),
         mutex' = Tail(mutex)
  PROVE  /\ mutex' \in Seq(Owners) /\ Distinct'
         /\ \A p \in Owners : On(p)' <=> On(p) /\ p # o
  <1>1. /\ mutex # <<>> /\ 1 \in DOMAIN mutex /\ mutex[1] = o
        /\ mutex' \in Seq(Owners)
        /\ \A i \in DOMAIN mutex' : i \in Int /\ i + 1 \in DOMAIN mutex /\ mutex'[i] = mutex[i + 1]
                                    /\ i + 1 # 1
        /\ \A i \in DOMAIN mutex : i = 1 \/ (i - 1 \in DOMAIN mutex' /\ mutex'[i - 1] = mutex[i])
    BY DEF Holds
  <1>2. Distinct'
    <2> SUFFICES ASSUME NEW i \in DOMAIN mutex', NEW j \in DOMAIN mutex', mutex'[i] = mutex'[j]
                 PROVE  i = j
        BY DEF Distinct
    <2>1. i + 1 = j + 1
      BY <1>1 DEF Distinct
    <2> QED BY <1>1, <2>1
  <1>3. ~On(o)'
    BY <1>1 DEF Distinct, On
  <1>4. ASSUME NEW p \in Owners, On(p)' PROVE On(p)
    BY <1>1, <1>4 DEF On
  <1>5. ASSUME NEW p \in Owners, On(p), p # o PROVE On(p)'
    <2>1. PICK i \in DOMAIN mutex : mutex[i] = p
      BY <1>5 DEF On
    <2>2. i - 1 \in DOMAIN mutex' /\ mutex'[i - 1] = p
      BY <1>1, <1>5, <2>1
    <2> QED BY <2>2 DEF On
  <1> QED BY <1>1, <1>2, <1>3, <1>4, <1>5

\* The holder is on the mutex, and nobody else holds it.
LEMMA HolderIsOn ==
  ASSUME mutex \in Seq(Owners), NEW o \in Owners, Holds(o)
  PROVE  On(o) /\ \A p \in Owners : Holds(p) => p = o
  BY DEF Holds, On
-----------------------------------------------------------------------------
(* Types, and who is on the mutex.                                         *)

Queue ==
  /\ mutex \in Seq(Owners) /\ Distinct
  /\ On(Main) <=> cli.pc \in Locking
  /\ \A t \in Watches : On(t) <=> watch[t] \in {"waiting", "watching"}
  /\ cli.pc \in Locking \ {"bid", "getProvers"} => Holds(Main)
  /\ \A t \in Watches : watch[t] = "watching" => Holds(t)

Data ==
  /\ cli \in [pc : MainPcs \cup Locking, key : Keys \cup {None}]
  /\ account \in Keys \cup {None} /\ profile \in Keys \cup {None} /\ used \subseteq Keys
  /\ watch \in [Watches -> {"none", "spawned", "waiting", "watching", "ended"}]
  /\ ws \in BOOLEAN /\ rpc \in BOOLEAN

LEMMA TypeParts == TypeOK <=> Queue /\ Data
  BY DEF TypeOK, Queue, Data, Owners, Distinct, On

LEMMA DataStep == Data /\ [Next]_vars => Data'
  <1> SUFFICES ASSUME Data, [Next]_vars PROVE Data'
      OBVIOUS
  <1> USE DEF Data, At, Goto, Idle, Done, Kept, MainPcs, Locking, tasks, verifier
  <1>1. CASE Start \/ Command \/ EndOfInput \/ GetProvers
    BY <1>1 DEF Start, Command, EndOfInput, GetProvers
  <1>2. CASE FindAccount
    BY <1>2 DEF FindAccount
  <1>3. CASE StoreAccount
    BY <1>3 DEF StoreAccount
  <1>4. CASE RequestRegistration
    BY <1>4 DEF RequestRegistration
  <1>5. CASE Connect
    BY <1>5 DEF Connect
  <1>6. CASE Subscribe \/ ReceiveReply
    BY <1>6 DEF Subscribe, ReceiveReply
  <1>7. CASE GenerateProof \/ SubmitProof
    BY <1>7 DEF GenerateProof, SubmitProof
  <1>8. CASE StopWatching
    BY <1>8 DEF StopWatching, Aborted
  <1>9. CASE Stop
    BY <1>9 DEF Stop
  <1>10. CASE Disconnect
    BY <1>10 DEF Disconnect
  <1>11. ASSUME NEW t \in Watches, SpawnWatch(t) \/ LockWatch(t) \/ BeginWatch(t) PROVE Data'
    BY <1>11 DEF SpawnWatch, LockWatch, BeginWatch
  <1>12. CASE UNCHANGED vars
    BY <1>12 DEF vars
  <1> QED BY <1>1, <1>2, <1>3, <1>4, <1>5, <1>6, <1>7, <1>8, <1>9, <1>10, <1>11, <1>12
          DEF Next, MainStep

LEMMA QueueStep == Queue /\ Data /\ [Next]_vars => Queue'
  <1> SUFFICES ASSUME Queue, Data, [Next]_vars PROVE Queue'
      OBVIOUS
  <1> USE DEF At, tasks
  <1>0. /\ mutex \in Seq(Owners) /\ Distinct /\ Main \in Owners /\ Watches \subseteq Owners
        /\ Main \notin Watches
        /\ cli \in [pc : MainPcs \cup Locking, key : Keys \cup {None}]
        /\ watch \in [Watches -> {"none", "spawned", "waiting", "watching", "ended"}]
    BY ConstantsAssumption DEF Queue, Data, Owners
  <1>1. \A pc \in MainPcs \cup Locking : Goto(pc) => cli'.pc = pc
    BY <1>0 DEF Goto
  <1>2. \A pc : Idle(pc) => cli'.pc = pc
    BY DEF Idle
  \* A step of the main task that is not about the mutex.
  <1>3. ASSUME UNCHANGED <<mutex, watch>>, cli'.pc \in Locking <=> cli.pc \in Locking,
               cli'.pc \in Locking \ {"bid", "getProvers"} => Holds(Main)
        PROVE  Queue'
    BY <1>3 DEF Queue, On, Holds, Distinct
  \* A command that ends.
  <1>4. ASSUME Holds(Main), Done, watch' = watch PROVE Queue'
    <2>1. cli'.pc = "prompt" /\ mutex' = Tail(mutex)
      BY <1>1, <1>4 DEF Done, MainPcs
    <2>2. /\ mutex' \in Seq(Owners) /\ Distinct'
          /\ \A p \in Owners : On(p)' <=> On(p) /\ p # Main
      BY <1>0, <1>4, <2>1, Leaves
    <2>3. \A t \in Watches : ~Holds(t)
      BY <1>0, <1>4, HolderIsOn
    <2>4. \A t \in Watches : watch[t] # "watching"
      BY <2>3 DEF Queue
    <2> QED BY <1>0, <1>4, <2>1, <2>2, <2>4 DEF Queue, Locking
  <1>5. CASE Start \/ FindAccount \/ StoreAccount \/ RequestRegistration \/ EndOfInput
    <2>1. /\ UNCHANGED <<mutex, watch>> /\ cli.pc \in MainPcs /\ cli'.pc \in MainPcs
      BY <1>1, <1>2, <1>5
         DEF Start, FindAccount, StoreAccount, RequestRegistration, EndOfInput, MainPcs
    <2> QED BY <1>3, <2>1 DEF MainPcs, Locking
  <1>6. CASE Command
    <2>1. /\ cli.pc = "prompt" /\ cli'.pc \in {"bid", "getProvers"} /\ watch' = watch
          /\ mutex' = Append(mutex, Main)
      BY <1>1, <1>6 DEF Command, Locking
    <2>2. ~On(Main)
      BY <2>1 DEF Queue, Locking
    <2>3. /\ mutex' \in Seq(Owners) /\ Distinct'
          /\ \A p \in Owners : On(p)' <=> On(p) \/ p = Main
          /\ \A p \in Owners : Holds(p) => Holds(p)'
      BY <1>0, <2>1, <2>2, Joins
    <2> QED BY <1>0, <2>1, <2>3 DEF Queue, Locking
  <1>7. CASE StopWatching
    <2>1. mutex' = <<>> /\ cli' = cli /\ cli.pc = "prompt"
      BY <1>7 DEF StopWatching
    <2>2. \A t \in Watches : watch'[t] \in {"none", "ended"}
      BY <1>7 DEF StopWatching, Aborted
    <2> QED BY <2>1, <2>2 DEF Queue, Distinct, On, Locking
  <1>8. CASE Stop
    <2>1. mutex' = <<>> /\ cli'.pc = "down"
      BY <1>2, <1>8 DEF Stop
    <2>2. \A t \in Watches : watch'[t] = "none"
      BY <1>8 DEF Stop
    <2> QED BY <2>1, <2>2 DEF Queue, Distinct, On, Locking
  <1>9. CASE Disconnect
    <2>1. UNCHANGED <<mutex, watch, cli>>
      BY <1>9 DEF Disconnect
    <2> QED BY <1>3, <2>1 DEF Queue
  <1>10. CASE GetProvers
    BY <1>4, <1>10 DEF GetProvers
  <1>11. CASE Connect \/ Subscribe \/ ReceiveReply \/ GenerateProof
    <2>1. Holds(Main) /\ cli.pc \in Locking /\ watch' = watch
      BY <1>11 DEF Connect, Subscribe, ReceiveReply, GenerateProof, Queue, Locking
    <2>2. Done \/ (cli'.pc \in Locking /\ mutex' = mutex)
      BY <1>1, <1>11 DEF Connect, Subscribe, ReceiveReply, GenerateProof, Locking
    <2> QED BY <1>3, <1>4, <2>1, <2>2
  <1>12. CASE SubmitProof
    <2>1. Holds(Main)
      BY <1>12 DEF SubmitProof, Queue, Locking
    <2> QED BY <1>4, <1>12, <2>1 DEF SubmitProof
  <1>13. ASSUME NEW t \in Watches, SpawnWatch(t) PROVE Queue'
    <2>1. UNCHANGED <<mutex, cli>> /\ watch[t] = "none" /\ watch' = [watch EXCEPT ![t] = "spawned"]
      BY <1>13 DEF SpawnWatch
    <2> QED BY <1>0, <2>1 DEF Queue, Distinct, On, Holds
  <1>14. ASSUME NEW t \in Watches, LockWatch(t) PROVE Queue'
    <2>1. /\ cli' = cli /\ watch[t] = "spawned" /\ watch' = [watch EXCEPT ![t] = "waiting"]
          /\ mutex' = Append(mutex, t)
      BY <1>14 DEF LockWatch
    <2>2. ~On(t)
      BY <2>1 DEF Queue
    <2>3. /\ mutex' \in Seq(Owners) /\ Distinct'
          /\ \A p \in Owners : On(p)' <=> On(p) \/ p = t
          /\ \A p \in Owners : Holds(p) => Holds(p)'
      BY <1>0, <2>1, <2>2, Joins
    <2> QED BY <1>0, <2>1, <2>3 DEF Queue
  <1>15. ASSUME NEW t \in Watches, BeginWatch(t) PROVE Queue'
    <2>1. cli' = cli /\ Holds(t) /\ watch[t] = "waiting"
      BY <1>15 DEF BeginWatch
    <2>2. ~Holds(Main) /\ \A u \in Watches : Holds(u) => u = t
      BY <1>0, <2>1, HolderIsOn
    <2>3. CASE mutex' = mutex /\ watch' = [watch EXCEPT ![t] = "watching"]
      BY <1>0, <2>1, <2>3 DEF Queue, Distinct, On, Holds
    <2>4. CASE mutex' = Tail(mutex) /\ watch' = [watch EXCEPT ![t] = "ended"]
      <3>1. /\ mutex' \in Seq(Owners) /\ Distinct'
            /\ \A p \in Owners : On(p)' <=> On(p) /\ p # t
        BY <1>0, <2>1, <2>4, Leaves
      <3>2. \A u \in Watches : watch'[u] # "watching"
        BY <1>0, <2>1, <2>2, <2>4 DEF Queue
      <3>3. cli.pc \notin Locking \ {"bid", "getProvers"}
        BY <2>2 DEF Queue
      <3> QED BY <1>0, <2>1, <2>4, <3>1, <3>2, <3>3 DEF Queue
    <2> QED BY <1>15, <2>3, <2>4 DEF BeginWatch
  <1>16. CASE UNCHANGED vars
    <2>1. UNCHANGED <<mutex, watch, cli>>
      BY <1>16 DEF vars
    <2> QED BY <1>3, <2>1 DEF Queue
  <1> QED BY <1>5, <1>6, <1>7, <1>8, <1>9, <1>10, <1>11, <1>12, <1>13, <1>14, <1>15, <1>16
          DEF Next, MainStep

LEMMA InitType == Init => Queue /\ Data
  <1> SUFFICES ASSUME Init PROVE Queue /\ Data
      OBVIOUS
  <1>1. mutex = <<>> /\ cli.pc = "down" /\ mutex \in Seq(Owners)
    BY DEF Init
  <1>2. \A t \in Watches : watch[t] = "none"
    BY DEF Init
  <1>3. Queue
    BY <1>1, <1>2 DEF Queue, Distinct, On, Locking
  <1>4. Data
    BY DEF Init, Data, MainPcs
  <1> QED BY <1>3, <1>4

LEMMA TypeHolds == Spec => [](Queue /\ Data)
  BY InitType, DataStep, QueueStep, PTL DEF Spec

(* The main task is on the mutex exactly during a command that locks it,   *)
(* a background task exactly while it waits or watches, each once, and     *)
(* nobody but the holder uses the client (main.rs:71-80, 244-252, 299-339).*)
THEOREM MutexIsSound == Spec => []TypeOK
  BY TypeHolds, TypeParts, PTL
-----------------------------------------------------------------------------
(* The account, and what the verifier knows of it.  What goes wrong for    *)
(* good leaves a mishap.                                                   *)

AccountInv ==
  /\ cli.pc \in {"store", "request"} => cli.key \in Keys
  /\ cli.pc = "store" => account = None \/ "misread" \in mishaps
  /\ cli.pc = "request" => account = cli.key
  /\ cli.pc \in {"await", "prove", "submit"} => account # None
  /\ Redis /\ "misread" \notin mishaps => profile \in {None, account}
  /\ mishaps = {} /\ account # None /\ cli.pc # "request" => profile = account

LEMMA AccountStep == Data /\ AccountInv /\ [Next]_vars => AccountInv'
  <1> SUFFICES ASSUME Data, AccountInv, [Next]_vars PROVE AccountInv'
      OBVIOUS
  <1> USE DEF At, verifier
  <1>0. /\ cli \in [pc : MainPcs \cup Locking, key : Keys \cup {None}] /\ None \notin Keys
        /\ account \in Keys \cup {None} /\ profile \in Keys \cup {None}
    BY ConstantsAssumption DEF Data
  <1>1. \A pc \in MainPcs \cup Locking : Goto(pc) => cli'.pc = pc /\ cli'.key = cli.key
    BY <1>0 DEF Goto
  <1>2. \A pc : Idle(pc) => cli'.pc = pc
    BY DEF Idle
  <1>3. "misread" \in mishaps \cup {"misread"} /\ "unsent" \in mishaps \cup {"unsent"}
        /\ "forgotten" \in mishaps \cup {"forgotten"}
    OBVIOUS
  \* A step to a place in the loop where nothing is asked of the account.
  <1>4. ASSUME UNCHANGED <<account, profile, mishaps>>, cli.pc # "request",
               cli'.pc \notin {"store", "request", "await", "prove", "submit"}
        PROVE  AccountInv'
    BY <1>4 DEF AccountInv
  \* ... and within the loop.
  <1>5. ASSUME UNCHANGED <<account, profile, mishaps>>, cli.pc \in Locking,
               cli'.pc \in {"prompt", "subscribe", "await", "prove", "submit"},
               cli'.pc \in {"prompt", "subscribe"} \/ account # None
        PROVE  AccountInv'
    BY <1>5 DEF AccountInv, Locking
  <1>6. CASE Start \/ Command \/ EndOfInput \/ GetProvers \/ SubmitProof
    <2>1. /\ UNCHANGED <<account, profile, mishaps>> /\ cli.pc # "request"
          /\ cli'.pc \notin {"store", "request", "await", "prove", "submit"}
      BY <1>1, <1>6 DEF Start, Command, EndOfInput, GetProvers, SubmitProof, Done, MainPcs, Locking
    <2> QED BY <1>4, <2>1
  <1>7. CASE FindAccount
    <2>1. CASE Idle("prompt") /\ UNCHANGED mishaps
      BY <1>2, <1>4, <1>7, <2>1 DEF FindAccount
    <2>2. CASE ~(Idle("prompt") /\ UNCHANGED mishaps)
      <3>1. PICK k \in Keys : cli' = [pc |-> "store", key |-> k]
        BY <1>7, <2>2 DEF FindAccount
      <3>2. /\ UNCHANGED <<account, profile>>
            /\ mishaps' = IF account = None THEN mishaps ELSE mishaps \cup {"misread"}
        BY <1>7, <2>2 DEF FindAccount
      <3> QED BY <1>3, <1>7, <3>1, <3>2 DEF AccountInv, FindAccount
    <2> QED BY <2>1, <2>2
  <1>8. CASE StoreAccount
    <2>1. cli.pc = "store" /\ profile' = profile /\ cli.key \in Keys
      BY <1>8 DEF StoreAccount, AccountInv
    <2>2. CASE account' = cli.key /\ Goto("request") /\ UNCHANGED mishaps
      <3>1. cli'.pc = "request" /\ cli'.key = cli.key
        BY <1>1, <2>2 DEF MainPcs
      <3> QED BY <1>0, <2>1, <2>2, <3>1 DEF AccountInv
    <2>3. CASE Idle("prompt") /\ account' = cli.key /\ mishaps' = mishaps \cup {"unsent"}
      <3>1. cli'.pc = "prompt" /\ mishaps' # {}
        BY <1>2, <1>3, <2>3
      <3> QED BY <2>1, <2>3, <3>1 DEF AccountInv
    <2>4. CASE Idle("prompt") /\ UNCHANGED <<account, mishaps>>
      BY <1>2, <1>4, <2>1, <2>4
    <2> QED BY <1>8, <2>2, <2>3, <2>4 DEF StoreAccount
  <1>9. CASE RequestRegistration
    BY <1>2, <1>9 DEF RequestRegistration, AccountInv
  <1>10. CASE Connect \/ Subscribe \/ ReceiveReply \/ GenerateProof
    <2>1. UNCHANGED <<account, profile, mishaps>> /\ cli.pc \in Locking
      BY <1>10 DEF Connect, Subscribe, ReceiveReply, GenerateProof, Locking
    <2>2. /\ cli'.pc \in {"prompt", "subscribe", "await", "prove", "submit"}
          /\ cli'.pc \in {"prompt", "subscribe"} \/ account # None
      BY <1>1, <1>10
         DEF Connect, Subscribe, ReceiveReply, GenerateProof, Done, AccountInv, MainPcs, Locking
    <2> QED BY <1>5, <2>1, <2>2
  <1>11. CASE Stop
    <2>1. /\ cli'.pc = "down" /\ account' \in {account, None} /\ (Redis => account' = account)
      BY <1>2, <1>11 DEF Stop, Kept
    <2>2. CASE cli.pc = "request"
      BY <1>3, <1>11, <2>1, <2>2 DEF Stop, AccountInv
    <2>3. CASE cli.pc # "request"
      <3>1. UNCHANGED <<profile, mishaps>>
        BY <1>11, <2>3 DEF Stop
      <3> QED BY <2>1, <2>3, <3>1 DEF AccountInv
    <2> QED BY <2>2, <2>3
  <1>12. CASE Disconnect
    BY <1>12 DEF Disconnect, AccountInv
  <1>13. CASE UNCHANGED <<cli, account, profile, mishaps>>
    BY <1>13 DEF AccountInv
  <1>14. CASE StopWatching \/ \E t \in Watches : SpawnWatch(t) \/ LockWatch(t) \/ BeginWatch(t)
    BY <1>13, <1>14 DEF StopWatching, SpawnWatch, LockWatch, BeginWatch
  <1>15. CASE UNCHANGED vars
    BY <1>13, <1>15 DEF vars
  <1> QED BY <1>6, <1>7, <1>8, <1>9, <1>10, <1>11, <1>12, <1>14, <1>15 DEF Next, MainStep

LEMMA AccountHolds == Spec => [](Data /\ AccountInv)
  <1>1. Init => AccountInv
    BY DEF Init, AccountInv
  <1> QED BY <1>1, InitType, DataStep, AccountStep, PTL DEF Spec

(* The verifier never knows the prover by an address whose key is lost,    *)
(* however often the program stops and starts: the account is in Redis     *)
(* before the verifier hears of it (client.rs:208-226).                    *)
THEOREM KeysAreKept == Spec => []VerifierKnowsTheKey
  BY AccountHolds, PTL DEF AccountInv, VerifierKnowsTheKey

(* A bid comes from the account the verifier has under the prover's name,  *)
(* but for the three mishaps (client.rs:194-242).                          *)
THEOREM BidsAreBacked == Spec => []BiddersAreRegistered
  <1>1. AccountInv => BiddersAreRegistered
    BY DEF AccountInv, BiddersAreRegistered
  <1> QED BY <1>1, AccountHolds, PTL

(* With Redis the account changes only after a failed read of it           *)
(* (client.rs:199-206).                                                    *)
THEOREM AccountsLast == Spec => AccountLasts
  <1>1. ASSUME Data, AccountInv, [Next]_vars, Redis, account # None,
               account' # account
        PROVE  "misread" \in mishaps
    <2>1. CASE StoreAccount
      BY <1>1, <2>1 DEF StoreAccount, At, AccountInv
    <2>2. CASE Stop
      BY <1>1, <2>2 DEF Stop, Kept
    <2>3. CASE Start \/ Command \/ StopWatching \/ EndOfInput \/ Disconnect \/ UNCHANGED vars
      BY <1>1, <2>3 DEF Start, Command, StopWatching, EndOfInput, Disconnect, vars
    <2>4. CASE \/ FindAccount \/ RequestRegistration \/ GetProvers \/ Connect \/ Subscribe
               \/ ReceiveReply \/ GenerateProof \/ SubmitProof
      BY <1>1, <2>4 DEF FindAccount, RequestRegistration, GetProvers, Connect, Subscribe,
                        ReceiveReply, GenerateProof, SubmitProof
    <2>5. CASE \E t \in Watches : SpawnWatch(t) \/ LockWatch(t) \/ BeginWatch(t)
      BY <1>1, <2>5 DEF SpawnWatch, LockWatch, BeginWatch
    <2> QED BY <1>1, <2>1, <2>2, <2>3, <2>4, <2>5 DEF Next, MainStep
  <1>2. Data /\ AccountInv /\ [Next]_vars =>
          [Redis /\ account # None => account' = account \/ "misread" \in mishaps]_vars
    BY <1>1
  <1> QED BY <1>2, AccountHolds, PTL DEF AccountLasts, Spec
=============================================================================
