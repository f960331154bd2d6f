----------------------------- MODULE ProofCycle -----------------------------
(***************************************************************************)
(* The proofs of the verifier: the submit_proof RPC handlers, the task     *)
(* process_proof, and the watch_proof_status handlers that pass its        *)
(* verdicts on (verifier/src/main.rs, networking.rs).                      *)
(*                                                                         *)
(*   submit_proof handlers --proofQ--> process_proof --statusQ--> watchers *)
(*             \----- read, write -----> profiles <------/                 *)
(*                                                                         *)
(* process_proof keeps the execution mutex through the whole Ok branch of  *)
(* its match on verify_proof(): the guard is a temporary of the scrutinee. *)
(* Of the contests only the status is modelled here, as start_new_contest  *)
(* changes it under that mutex; ContestCycle has the rest.                 *)
(***************************************************************************)
EXTENDS Profiles, Channels, FiniteSets

CONSTANTS
  Proofs,        \* the proofs clients submit
  Watchers,      \* calls of watch_proof_status, one handler each
  WatchersLeave, \* TRUE: the client of a watcher may disconnect
  Reward,        \* CONTEST_REWARD
  Slash          \* CREDIT_SLASH

\* ProofData.  valid: SP1 accepts the proof; late: proof_timestamp is past
\* end_time + PROOF_DURATION.  Both are up to the client that sends it.
Proof == [name : Names, valid : BOOLEAN, late : BOOLEAN]

ASSUME ProofsAssumption ==
  /\ Proofs \subseteq Proof
  /\ WatchersLeave \in BOOLEAN
  /\ Reward \in U64Values /\ Slash \in U64Values

\* A proof under way with the call it came in with, and a verdict on one.
Submitted == [proof : Proof, by : Submissions]
Verdict   == {"Rejected", "Accepted"}
Status    == [status : Verdict, name : Names, by : Submissions]

ASSUME ProofNoneAssumption == None \notin Profile \cup Submitted \cup Verdict

VARIABLES
  phase,      \* the status of the current contest
  submitter,  \* submit_proof: pc, the proof, the profile being updated
  processor,  \* process_proof: pc, the proof, its verdict, the contest's
              \* reward, the profile being updated
  proofQ, statusQ,  \* the channels, oldest message first
  watcher,    \* watch_proof_status: idle, watching, left (the client) or done
  receivers,  \* watchers queued on the (FIFO) mutex of the status receiver
  sent        \* history: every status sent, oldest first

submitters == <<submitter, proofQ>>
watching   == <<watcher, receivers>>
proofVars == <<phase, profiles, submitters, processor, statusQ, watching, sent>>

Waiting == [pc |-> "recv", job |-> None, verdict |-> None, reward |-> 0, profile |-> None]

ProofInit ==
  /\ phase = "NotStarted"
  /\ InitProfiles
  /\ submitter = [h \in Submissions |-> [pc |-> "idle", proof |-> None, profile |-> None]]
  /\ processor = Waiting
  /\ proofQ = <<>> /\ statusQ = <<>>
  /\ watcher = [w \in Watchers |-> "idle"] /\ receivers = <<>>
  /\ sent = <<>>
-----------------------------------------------------------------------------
(* The contests, while the execution mutex is free.                        *)
\* The Ok branch of the match: from the verification to the status sent.
LockHeld == processor.verdict = "Accepted"

ContestStep ==
  /\ ~LockHeld
  /\ phase' = IF phase = "Live" THEN "Ended" ELSE "Live"
  /\ UNCHANGED <<profiles, submitters, processor, statusQ, watching, sent>>

(* submit_proof.                                                           *)

\* sanity_check passes; a full channel delays the send.
SubmitProof(h) ==
  /\ submitter[h].pc = "idle"
  /\ processor.pc # "dead" /\ Len(proofQ) < Capacity
  /\ \E p \in Proofs :
       /\ submitter' = [submitter EXCEPT ![h].pc = "read", ![h].proof = p]
       /\ proofQ' = Append(proofQ, [proof |-> p, by |-> h])
  /\ UNCHANGED <<phase, profiles, processor, statusQ, watching, sent>>

\* sanity_check refuses the signature, or the receiver is gone.
SubmitFails(h) ==
  /\ submitter[h].pc = "idle"
  /\ submitter' = [submitter EXCEPT ![h].pc = "failed"]
  /\ UNCHANGED <<phase, profiles, proofQ, processor, statusQ, watching, sent>>

\* Only after the send: get the profile and push the proof on the copy.
ReadForProof(h) ==
  /\ submitter[h].pc = "read"
  /\ LET p == GetProfile(submitter[h].proof.name)
     IN  \/ /\ p # None
            /\ submitter' = [submitter EXCEPT ![h].pc = "write",
                               ![h].profile = [p EXCEPT !.proofs = @ \cup {h}]]
         \/ /\ p = None \/ AccessMayFail
            /\ submitter' = [submitter EXCEPT ![h].pc = "failed"]
  /\ UNCHANGED <<phase, profiles, proofQ, processor, statusQ, watching, sent>>

WriteForProof(h) ==
  /\ submitter[h].pc = "write"
  /\ \/ /\ StoreProfile(submitter[h].profile)
        /\ submitter' = [submitter EXCEPT ![h].pc = "done", ![h].profile = None]
     \/ /\ AccessMayFail
        /\ StoreProfile(submitter[h].profile) \/ UNCHANGED profiles
        /\ submitter' = [submitter EXCEPT ![h].pc = "failed", ![h].profile = None]
  /\ UNCHANGED <<phase, proofQ, processor, statusQ, watching, sent>>

ProverRegisters(p) ==
  /\ Registration(p)
  /\ UNCHANGED <<phase, submitters, processor, statusQ, watching, sent>>
-----------------------------------------------------------------------------
(* process_proof.                                                          *)

OutsideWindow(p) == phase = "Live" \/ p.late

\* Receive a proof and clone the contest, whose reward is 0 before the first.
ReceiveProof ==
  /\ processor.pc = "recv" /\ proofQ # <<>>
  /\ LET job == Head(proofQ)
         out == OutsideWindow(job.proof)
     IN  processor' = [pc      |-> IF out THEN "read" ELSE "verify",
                       job     |-> job,
                       verdict |-> IF out THEN "Rejected" ELSE None,
                       reward  |-> IF phase = "NotStarted" THEN 0 ELSE Reward,
                       profile |-> None]
  /\ proofQ' = Tail(proofQ)
  /\ UNCHANGED <<phase, profiles, submitter, statusQ, watching, sent>>

\* u64, built with --release: the subtraction and the addition wrap.
Credited_Twice(credits) ==
  IF processor.verdict = "Accepted" THEN (credits + 2 * processor.reward) % Modulus
                                    ELSE (credits - Slash) % Modulus

Credited(credits) ==
  IF processor.verdict = "Accepted" THEN (credits + processor.reward) % Modulus
                                    ELSE (credits - Slash) % Modulus

ProcessorDies_KeepsGuard ==
  /\ processor' = [processor EXCEPT !.pc = "dead"]
  /\ proofQ' = <<>>

\* The task returns an error and drops its receiver, its sender, its guard.
ProcessorDies ==
  /\ processor' = [Waiting EXCEPT !.pc = "dead"]
  /\ proofQ' = <<>>

ReadForCredits ==
  /\ processor.pc = "read"
  /\ LET p == GetProfile(processor.job.proof.name)
     IN  \/ /\ p # None
            /\ processor' = [processor EXCEPT !.pc = "write",
                               !.profile = [p EXCEPT !.credits = Credited(@)]]
            /\ UNCHANGED proofQ
         \/ (p = None \/ AccessMayFail) /\ ProcessorDies
  /\ UNCHANGED <<phase, profiles, submitter, statusQ, watching, sent>>

WriteCredits ==
  /\ processor.pc = "write"
  /\ \/ /\ StoreProfile(processor.profile)
        /\ processor' = [processor EXCEPT !.pc = "send", !.profile = None]
        /\ UNCHANGED proofQ
     \/ /\ AccessMayFail /\ ProcessorDies
        /\ StoreProfile(processor.profile) \/ UNCHANGED profiles
  /\ UNCHANGED <<phase, submitter, statusQ, watching, sent>>

AfterStatus_VerifiesAgain == [processor EXCEPT !.pc = "verify", !.verdict = None]

AfterStatus_KeepsGuard == IF processor.verdict = "Rejected"
                          THEN [processor EXCEPT !.pc = "verify", !.verdict = None]
                          ELSE [Waiting EXCEPT !.verdict = "Accepted"]

\* After a rejection the task goes on to verify the proof all the same.
AfterStatus == IF processor.verdict = "Rejected"
               THEN [processor EXCEPT !.pc = "verify", !.verdict = None]
               ELSE Waiting

SendStatus_DropsWhenFull ==
  /\ processor.pc = "send"
  /\ LET s == [status |-> processor.verdict,
               name   |-> processor.job.proof.name,
               by     |-> processor.job.by]
     IN  IF Len(statusQ) < Capacity
         THEN statusQ' = Append(statusQ, s) /\ sent' = Append(sent, s)
         ELSE UNCHANGED <<statusQ, sent>>
  /\ processor' = AfterStatus
  /\ UNCHANGED <<phase, profiles, submitters, watching>>

\* proof_status_sender.send().await: it waits while the channel is full.
SendStatus ==
  /\ processor.pc = "send"
  /\ Len(statusQ) < Capacity
  /\ LET s == [status |-> processor.verdict,
               name   |-> processor.job.proof.name,
               by     |-> processor.job.by]
     IN  statusQ' = Append(statusQ, s) /\ sent' = Append(sent, s)
  /\ processor' = AfterStatus
  /\ UNCHANGED <<phase, profiles, submitters, watching>>

\* The match on lock().await.verify_proof().
VerifyProof ==
  /\ processor.pc = "verify"
  /\ processor' = IF processor.job.proof.valid
                  THEN [processor EXCEPT !.pc = "read", !.verdict = "Accepted"]
                  ELSE Waiting
  /\ UNCHANGED <<phase, profiles, submitters, statusQ, watching, sent>>

Processor == \/ ReceiveProof \/ ReadForCredits \/ WriteCredits
             \/ SendStatus \/ VerifyProof
-----------------------------------------------------------------------------
(* watch_proof_status: the handler keeps the receiver's mutex for as long  *)
(* as it runs; the others wait for it.                                     *)

Watch(w) ==
  /\ watcher[w] = "idle"
  /\ watcher' = [watcher EXCEPT ![w] = "watching"]
  /\ receivers' = Append(receivers, w)
  /\ UNCHANGED <<phase, profiles, submitters, processor, statusQ, sent>>

\* The client disconnects; the handler does not notice before its next send.
Leave(w) ==
  /\ WatchersLeave
  /\ watcher[w] = "watching"
  /\ watcher' = [watcher EXCEPT ![w] = "left"]
  /\ UNCHANGED <<phase, profiles, submitters, processor, statusQ, receivers, sent>>

\* A status received for a client that has left is lost with the handler.
ForwardStatus(w) ==
  /\ receivers # <<>> /\ Head(receivers) = w
  /\ statusQ # <<>>
  /\ statusQ' = Tail(statusQ)
  /\ IF watcher[w] = "left"
     THEN watcher' = [watcher EXCEPT ![w] = "done"] /\ receivers' = Tail(receivers)
     ELSE UNCHANGED watching
  /\ UNCHANGED <<phase, profiles, submitters, processor, sent>>
-----------------------------------------------------------------------------
Submitter(h) == ReadForProof(h) \/ WriteForProof(h)

ProofNext ==
  \/ ContestStep \/ Processor
  \/ \E p \in Registrants : ProverRegisters(p)
  \/ \E h \in Submissions : SubmitProof(h) \/ SubmitFails(h) \/ Submitter(h)
  \/ \E w \in Watchers : Watch(w) \/ Leave(w) \/ ForwardStatus(w)

ProofSpec == ProofInit /\ [][ProofNext]_proofVars

\* tokio polls every task that can go on, also the handlers of calls begun;
\* the mutex is fair, so process_proof does not keep the scheduler out.
ProofFairness ==
  /\ SF_proofVars(ContestStep) /\ WF_proofVars(Processor)
  /\ \A h \in Submissions : WF_proofVars(Submitter(h))
  /\ \A w \in Watchers : WF_proofVars(ForwardStatus(w))

FairProofSpec == ProofSpec /\ ProofFairness
-----------------------------------------------------------------------------
SubmitterType ==
       [pc : {"idle"}, proof : {None}, profile : {None}]
  \cup [pc : {"read", "done"}, proof : Proof, profile : {None}]
  \cup [pc : {"failed"}, proof : Proof \cup {None}, profile : {None}]
  \cup [pc : {"write"}, proof : Proof, profile : Profile]

ProcessorType ==
       [pc : {"recv", "dead"}, job : {None}, verdict : {None}, reward : {0}, profile : {None}]
  \cup [pc : {"verify"}, job : Submitted, verdict : {None}, reward : {0, Reward}, profile : {None}]
  \cup [pc : {"read", "send"}, job : Submitted, verdict : Verdict, reward : {0, Reward},
        profile : {None}]
  \cup [pc : {"write"}, job : Submitted, verdict : Verdict, reward : {0, Reward},
        profile : Profile]

(* Types: every variable in its set; a task that has died, or waits for    *)
(* its next proof, holds neither a profile nor the execution mutex.        *)
ProofTypeOK ==
  /\ phase \in {"NotStarted", "Live", "Ended"}
  /\ profiles \in [Names -> Profile \cup {None}]
  /\ submitter \in [Submissions -> SubmitterType]
  /\ processor \in ProcessorType
  /\ proofQ \in Seq(Submitted) /\ statusQ \in Seq(Status) /\ sent \in Seq(Status)
  /\ watcher \in [Watchers -> {"idle", "watching", "left", "done"}]
  /\ receivers \in Seq(Watchers)

(* A submitted proof gets at most one verdict of each kind, a rejection    *)
(* never after an acceptance, and an acceptance only if SP1 verifies it,   *)
(* also when storage failures end the task (main.rs:513-557).              *)
VerdictsInOrder ==
  /\ \A i, j \in DOMAIN sent :
       i < j /\ sent[i].by = sent[j].by => sent[i].status = "Rejected" /\ sent[j].status = "Accepted"
  /\ \A i \in DOMAIN sent : sent[i].status = "Accepted" => submitter[sent[i].by].proof.valid

\* How often the profile of n has been credited (v = "Accepted") or slashed.
\* A dead task may have written once more, before the access failed.
Written(n, v) ==
    Cardinality({i \in DOMAIN sent : sent[i].name = n /\ sent[i].status = v})
  + IF \/ processor.pc = "send" /\ processor.verdict = v /\ processor.job.proof.name = n
       \/ processor.pc = "dead"
    THEN 1 ELSE 0

(* However the read-modify-write cycles of process_proof, submit_proof and *)
(* register_prover interleave, whole updates may be lost but none is made  *)
(* up: the credits are those of some of the verdicts on the prover         *)
(* (main.rs:528-530, 543-545, networking.rs:117-129, 221-237).             *)
CreditsAreEarned ==
  \A n \in Names : profiles[n] # None =>
    \E a \in 0..Written(n, "Accepted"), r \in 0..Written(n, "Rejected") :
       profiles[n].credits = (Reward * a - Slash * r) % Modulus

Watched == <>[](receivers # <<>>)

(* While somebody is queued to watch, clients that leave included, a valid *)
(* proof is answered, whichever way: process_proof drops neither a proof   *)
(* nor a status, and the status channel does not block it for good.  And a *)
(* valid proof received inside the proving window, that is one that goes   *)
(* straight to the verification, is accepted (main.rs:513-557,             *)
(* networking.rs:275-293).                                                 *)
ValidProofIsAnswered(h) ==
  Watched =>
    /\ (submitter[h].pc = "read" /\ submitter[h].proof.valid)
         ~> (processor.pc = "dead" \/ \E i \in DOMAIN sent : sent[i].by = h)
    /\ (/\ processor.pc = "verify" /\ processor.job.by = h /\ processor.job.proof.valid
        /\ \A i \in DOMAIN sent : sent[i].by # h)
         ~> \/ processor.pc = "dead"
            \/ \E i \in DOMAIN sent : sent[i].by = h /\ sent[i].status = "Accepted"
-----------------------------------------------------------------------------
(* What the documentation says and the code does not do.                   *)

(* README.md:238: the running verifier automatically starts new contests.  *)
ContestsGoOn == []<>(phase = "Live")

(* README.md:84: the verifier validates the proof and awards credits.  The *)
(* credits of a prover are what its verdicts add up to, when nobody is at  *)
(* work on its profile.                                                    *)
VerdictsAreCredited ==
  (processor.pc = "recv" /\ \A h \in Submissions : submitter[h].pc \notin {"read", "write"}) =>
    \A n \in Names : profiles[n] # None =>
      profiles[n].credits =
        (Reward * Written(n, "Accepted") - Slash * Written(n, "Rejected")) % Modulus
=============================================================================
