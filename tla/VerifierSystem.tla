--------------------------- MODULE VerifierSystem ---------------------------
(***************************************************************************)
(* The whole verifier: the tasks and calls around the contests             *)
(* (ContestCycle) and around the proofs (ProofCycle), as MainOrchestrator  *)
(* ::start puts them together (verifier/src/main.rs).  They meet at        *)
(*                                                                         *)
(*   - the contest behind the execution mutex: process_proof reads it, and *)
(*     keeps the mutex from the verification of a proof until its status   *)
(*     is sent;                                                            *)
(*   - the stored profiles, which four kinds of task read and write back   *)
(*     whole: the bid listener, process_proof, submit_proof and            *)
(*     register_prover.                                                    *)
(***************************************************************************)
EXTENDS ContestCycle, ProofCycle

contestOnly == <<contest, scheduler, listener, poller, completion, channels, stored, rpc>>
provingOnly == <<submitters, processor, statusQ, watching, sent>>

systemVars == <<contestOnly, provingOnly, profiles, phase>>

SystemInit == Init /\ ProofInit

\* A step of the contests: the phase of ProofCycle is the contest's status.
OfContests(Step) == Step /\ phase' = contest'.status /\ UNCHANGED provingOnly

\* A step of the proofs.
OfProofs(Step) == Step /\ UNCHANGED contestOnly

\* The steps of these three tasks but one lock the execution mutex.
LockingScheduler == (scheduler.pc # "store" => ~LockHeld) /\ OfContests(Scheduler)

LockingPoller == (poller.pc # "send" => ~LockHeld) /\ OfContests(Poller)

LockingListener == (listener.pc \in {"recv", "add"} => ~LockHeld) /\ OfContests(Listener)

\* What is neither the scheduler nor the poller, the two tasks that sleep;
\* the completion task and the calls never lock the execution mutex.
Others ==
  \/ LockingListener \/ OfContests(Completion) \/ OfProofs(Processor)
  \/ \E p \in Registrants : OfContests(Register(p))
  \/ \E h \in Handlers : OfContests(Rpc(h))
  \/ \E h \in Submissions : OfProofs(SubmitProof(h) \/ SubmitFails(h) \/ Submitter(h))
  \/ \E w \in Watchers : OfProofs(Watch(w) \/ Leave(w) \/ ForwardStatus(w))

SystemNext == LockingScheduler \/ LockingPoller \/ Others

SystemSpec == SystemInit /\ [][SystemNext]_systemVars
-----------------------------------------------------------------------------
(* Types: those of the two modules.                                        *)
SystemTypeOK == TypeOK /\ ProofTypeOK

(* The credits of a prover stay those of some of its verdicts, and a bid   *)
(* is never both in a contest and listed as rejected, or listed twice,     *)
(* although the listener, process_proof and submit_proof write back whole  *)
(* profiles they have read earlier, over each other's changes              *)
(* (main.rs:366-375, 528-530, 543-545, networking.rs:117-129).             *)
ProfilesAreSound == CreditsAreEarned /\ BidHasOneFate
=============================================================================
