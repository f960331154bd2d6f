------------------------------ MODULE Profiles ------------------------------
(***************************************************************************)
(* The stored profiles of the provers: the storage calls on them, and the  *)
(* register_prover RPC (verifier/src/main.rs, networking.rs).  They are    *)
(* where the tasks that run contests and those that handle proofs meet:    *)
(* each gets a profile, changes its copy and stores the whole copy.        *)
(***************************************************************************)
EXTENDS U64, Sequences

CONSTANTS
  Provers,       \* prover accounts; an account stands for its unique address
  Names,         \* prover names, the keys of the stored profiles
  NameOf,        \* the name each account registers, bids and proves under
  Registrants,   \* the accounts that call register_prover, any number of times
  Persisted,     \* names with a profile in the storage when the verifier starts
  Amounts,       \* the amounts bid
  Handlers,      \* calls of submit_bid, one handler each
  Submissions,   \* calls of submit_proof, one handler each
  StorageFails,  \* TRUE: Redis, whose accesses may fail; FALSE: in memory
  None           \* Option::None

ASSUME ProfilesAssumption ==
  /\ NameOf \in [Provers -> Names]
  /\ Registrants \subseteq Provers /\ Persisted \subseteq Names
  /\ Amounts \subseteq U64Values
  /\ StorageFails \in BOOLEAN

\* BidRequest.  `by` is history: the submit_bid call the bid came in with.
Bid == [name : Names, addr : Provers, amount : Amounts, by : Handlers]

\* ProverProfile.  bids holds rejected bids only; of a proof in proofs only
\* the submission it came in with is kept.
Profile == [addr : Provers, credits : U64Values, bids : Seq(Bid), proofs : SUBSET Submissions]

NewProfile(p) == [addr |-> p, credits |-> 0, bids |-> <<>>, proofs |-> {}]

VARIABLE profiles   \* the stored profiles, by name

\* A profile found at the start belongs to an account that uses its name.
InitProfiles ==
  profiles \in {f \in [Names -> {NewProfile(p) : p \in Provers} \cup {None}] :
                  \A n \in Names : IF n \in Persisted THEN f[n] # None /\ NameOf[f[n].addr] = n
                                                      ELSE f[n] = None}

(* Each call is one step: the in-memory maps are locked for the call,      *)
(* Redis executes one command.                                             *)

\* get_prover_profile: None when the name has none, which is an error.
GetProfile(n) == profiles[n]

\* store_prover_profile and update_prover_profile: an insert under the name.
StoreProfile(p) == profiles' = [profiles EXCEPT ![NameOf[p.addr]] = p]

\* A Redis call opens a connection first; either may fail, the command also
\* after Redis has executed it.
AccessMayFail == StorageFails

\* register_prover: a fresh profile replaces whatever the name had.  A call
\* that changes nothing is not a step.
Registration(p) ==
  /\ GetProfile(NameOf[p]) # NewProfile(p)
  /\ StoreProfile(NewProfile(p))
=============================================================================
