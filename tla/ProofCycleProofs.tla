-------------------------- MODULE ProofCycleProofs --------------------------
(***************************************************************************)
(* What holds of ProofCycle for any number of provers, submissions and     *)
(* watchers, any capacity of the channels and any reward and slash, also   *)
(* when storage accesses fail.                                             *)
(***************************************************************************)
EXTENDS ProofCycle, FiniteSetTheorems, TLAPS

(* Arithmetic on the u64.                                                  *)

LEMMA Multiples ==
  ASSUME NEW m \in Nat \ {0}, NEW k \in Int, NEW e \in Int, m * k = e, -m < e, e < m
  PROVE  k = 0
  OBVIOUS

LEMMA Remainder ==
  ASSUME NEW m \in Nat \ {0}, NEW x \in Int
  PROVE  /\ x % m \in 0..(m - 1) /\ x \div m \in Int
         /\ x = m * (x \div m) + (x % m)
  OBVIOUS

LEMMA RemainderIsUnique ==
  ASSUME NEW m \in Nat \ {0}, NEW x \in Int, NEW q \in Int, NEW r \in 0..(m - 1),
         x = m * q + r
  PROVE  x % m = r
  <1> DEFINE d == x \div m
             s == x % m
  <1>1. s \in 0..(m - 1) /\ d \in Int /\ x = m * d + s
    BY Remainder
  <1> HIDE DEF d, s
  <1>2. m * (d - q) = r - s
    BY <1>1
  <1>3. d - q = 0
    <2>1. d - q \in Int /\ r - s \in Int /\ -m < r - s /\ r - s < m
      BY <1>1
    <2> HIDE DEF d, s
    <2> QED BY <1>2, <2>1, Multiples
  <1>4. r - s = 0
    BY <1>1, <1>2, <1>3
  <1>5. r = s
    BY <1>1, <1>4
  <1> QED BY <1>5 DEF s

\* Wrapping a sum once is enough.
LEMMA WrapOnce ==
  ASSUME NEW m \in Nat \ {0}, NEW x \in Int, NEW y \in Int
  PROVE  ((x % m) + y) % m = (x + y) % m
  <1> DEFINE q == x \div m
             r == x % m
             p == (r + y) \div m
             s == (r + y) % m
  <1>1. r \in 0..(m - 1) /\ q \in Int /\ x = m * q + r
    BY Remainder
  <1>2. s \in 0..(m - 1) /\ p \in Int /\ r + y = m * p + s
    <2>1. r + y \in Int
      BY <1>1
    <2> QED BY <2>1, Remainder
  <1> HIDE DEF q, r, p, s
  <1>3. x + y = m * (q + p) + s /\ q + p \in Int
    BY <1>1, <1>2
  <1>4. (x + y) % m = s
    <2>1. x + y \in Int
      OBVIOUS
    <2> QED BY <1>2, <1>3, <2>1, RemainderIsUnique
  <1> QED BY <1>4 DEF s, r

LEMMA U64Sum ==
  ASSUME NEW x \in Int
  PROVE  x % Modulus \in U64Values
  BY Remainder, ModulusAssumption DEF U64Values
-----------------------------------------------------------------------------
(* Types.                                                                  *)

LEMMA Dequeued ==
  ASSUME NEW S, NEW s \in Seq(S), s # <<>>
  PROVE  Head(s) \in S /\ Tail(s) \in Seq(S)
  OBVIOUS

LEMMA Enqueued ==
  ASSUME NEW S, NEW s \in Seq(S), NEW e \in S
  PROVE  Append(s, e) \in Seq(S)
  OBVIOUS

LEMMA NoMessages == ASSUME NEW S PROVE <<>> \in Seq(S)
  OBVIOUS

LEMMA FreshProfileType == \A p \in Provers : NewProfile(p) \in Profile
  <1>1. 0 \in U64Values
    BY ModulusAssumption DEF U64Values
  <1> QED BY <1>1, NoMessages DEF NewProfile, Profile

LEMMA CreditedType ==
  ASSUME ProofTypeOK, NEW c \in U64Values
  PROVE  Credited(c) \in U64Values
  <1>1. c \in Int /\ Slash \in Int /\ Reward \in Int
    BY ProofsAssumption, ModulusAssumption DEF U64Values
  <1>2. processor.reward \in {0, Reward}
    BY DEF ProofTypeOK, ProcessorType
  <1>3. c + processor.reward \in Int /\ c - Slash \in Int
    BY <1>1, <1>2
  <1> QED BY <1>3, U64Sum DEF Credited

LEMMA StoreType ==
  ASSUME profiles \in [Names -> Profile \cup {None}], NEW p \in Profile, StoreProfile(p)
  PROVE  profiles' \in [Names -> Profile \cup {None}]
  BY DEF StoreProfile

LEMMA ReadType ==
  ASSUME ProofTypeOK, NEW n \in Names, GetProfile(n) # None
  PROVE  GetProfile(n) \in Profile
  BY DEF ProofTypeOK, GetProfile

LEMMA ProcessorTypeStep ==
  ASSUME ProofTypeOK, Processor
  PROVE  ProofTypeOK'
  <1> USE DEF submitters, watching
  <1>0. /\ processor \in ProcessorType /\ proofQ \in Seq(Submitted)
        /\ statusQ \in Seq(Status) /\ sent \in Seq(Status)
        /\ profiles \in [Names -> Profile \cup {None}]
        /\ \A s \in Submitted : s.proof \in Proof /\ s.proof.name \in Names /\ s.by \in Submissions
    BY DEF ProofTypeOK, Submitted, Proof
  <1>1. ProcessorDies => processor' \in ProcessorType /\ proofQ' \in Seq(Submitted)
    BY NoMessages DEF ProcessorDies, Waiting, ProcessorType
  <1>2. Waiting \in ProcessorType
    BY DEF Waiting, ProcessorType
  <1>3. CASE ReceiveProof
    <2>1. Head(proofQ) \in Submitted /\ proofQ' \in Seq(Submitted)
      BY <1>0, <1>3, Dequeued DEF ReceiveProof
    <2>2. processor' \in ProcessorType
      BY <1>3, <2>1 DEF ReceiveProof, ProcessorType, Verdict
    <2> QED BY <1>3, <2>1, <2>2 DEF ReceiveProof, ProofTypeOK
  <1>4. CASE ReadForCredits
    <2> DEFINE p == GetProfile(processor.job.proof.name)
               q == [p EXCEPT !.credits = Credited(@)]
    <2>1. /\ processor.pc = "read" /\ processor.job \in Submitted /\ processor.verdict \in Verdict
          /\ processor.reward \in {0, Reward}
          /\ processor = [pc |-> "read", job |-> processor.job, verdict |-> processor.verdict,
                          reward |-> processor.reward, profile |-> None]
      BY <1>0, <1>4 DEF ReadForCredits, ProcessorType
    <2>2. CASE ProcessorDies
      BY <1>1, <1>4, <2>2 DEF ReadForCredits, ProofTypeOK
    <2>3. CASE ~ProcessorDies
      <3>1. p # None /\ proofQ' = proofQ
            /\ processor' = [processor EXCEPT !.pc = "write", !.profile = q]
        BY <1>4, <2>3 DEF ReadForCredits
      <3>2. p \in Profile
        BY <1>0, <2>1, <3>1, ReadType
      <3>3. q \in Profile
        BY <3>2, CreditedType DEF Profile
      <3> HIDE DEF q
      <3>4. processor' \in ProcessorType
        BY <2>1, <3>1, <3>3 DEF ProcessorType
      <3> QED BY <1>4, <3>1, <3>4 DEF ReadForCredits, ProofTypeOK
    <2> QED BY <2>2, <2>3
  <1>5. CASE WriteCredits
    <2>1. /\ processor.pc = "write" /\ processor.job \in Submitted /\ processor.verdict \in Verdict
          /\ processor.profile \in Profile
          /\ processor \in [pc : {"write"}, job : Submitted, verdict : Verdict, reward : {0, Reward},
                            profile : Profile]
      BY <1>0, <1>5 DEF WriteCredits, ProcessorType
    <2>2. profiles' \in [Names -> Profile \cup {None}]
      BY <1>0, <1>5, <2>1, StoreType DEF WriteCredits
    <2>3. processor' \in ProcessorType /\ proofQ' \in Seq(Submitted)
      <3>1. CASE ProcessorDies
        BY <1>1, <3>1
      <3>2. CASE ~ProcessorDies
        <4>1. processor' = [processor EXCEPT !.pc = "send", !.profile = None] /\ proofQ' = proofQ
          BY <1>5, <3>2 DEF WriteCredits
        <4> QED BY <1>0, <2>1, <4>1 DEF ProcessorType
      <3> QED BY <3>1, <3>2
    <2> QED BY <1>5, <2>2, <2>3 DEF WriteCredits, ProofTypeOK
  <1>6. CASE SendStatus
    <2>1. processor \in [pc : {"read", "send"}, job : Submitted, verdict : Verdict,
                         reward : {0, Reward}, profile : {None}]
      BY <1>0, <1>6 DEF SendStatus, ProcessorType
    <2> DEFINE s == [status |-> processor.verdict, name |-> processor.job.proof.name,
                     by |-> processor.job.by]
    <2>2. s \in Status
      BY <1>0, <2>1 DEF Status
    <2>3. statusQ' = Append(statusQ, s) /\ sent' = Append(sent, s)
      BY <1>6 DEF SendStatus
    <2> HIDE DEF s
    <2>4. statusQ' \in Seq(Status) /\ sent' \in Seq(Status)
      BY <1>0, <2>2, <2>3, Enqueued
    <2>5. processor' \in ProcessorType
      BY <1>2, <1>6, <2>1 DEF SendStatus, AfterStatus, ProcessorType
    <2> QED BY <1>6, <2>4, <2>5 DEF SendStatus, ProofTypeOK
  <1>7. CASE VerifyProof
    <2>1. processor \in [pc : {"verify"}, job : Submitted, verdict : {None}, reward : {0, Reward},
                         profile : {None}]
      BY <1>0, <1>7 DEF VerifyProof, ProcessorType
    <2>2. processor' \in ProcessorType
      BY <1>2, <1>7, <2>1 DEF VerifyProof, ProcessorType, Verdict
    <2> QED BY <1>7, <2>2 DEF VerifyProof, ProofTypeOK
  <1> QED BY <1>3, <1>4, <1>5, <1>6, <1>7 DEF Processor

LEMMA SubmitterTypeStep ==
  ASSUME ProofTypeOK, NEW h \in Submissions, SubmitProof(h) \/ SubmitFails(h) \/ Submitter(h)
  PROVE  ProofTypeOK'
  <1> USE DEF submitters, watching
  <1>0. /\ proofQ \in Seq(Submitted) /\ submitter \in [Submissions -> SubmitterType]
        /\ submitter[h] \in SubmitterType
        /\ profiles \in [Names -> Profile \cup {None}]
        /\ \A p \in Proof : p.name \in Names
    BY DEF ProofTypeOK, Proof
  <1>1. ASSUME NEW r \in SubmitterType, submitter' = [submitter EXCEPT ![h] = r]
        PROVE  submitter' \in [Submissions -> SubmitterType]
    BY <1>0, <1>1
  <1>2. CASE SubmitProof(h)
    <2>1. PICK p \in Proofs :
            /\ submitter' = [submitter EXCEPT ![h].pc = "read", ![h].proof = p]
            /\ proofQ' = Append(proofQ, [proof |-> p, by |-> h])
      BY <1>2 DEF SubmitProof
    <2>2. p \in Proof /\ [proof |-> p, by |-> h] \in Submitted
      BY ProofsAssumption DEF Submitted
    <2>3. proofQ' \in Seq(Submitted)
      BY <1>0, <2>1, <2>2, Enqueued
    <2>4. [submitter[h] EXCEPT !.pc = "read", !.proof = p] \in SubmitterType
      BY <1>0, <1>2, <2>2 DEF SubmitProof, SubmitterType
    <2>5. submitter' \in [Submissions -> SubmitterType]
      BY <1>0, <2>1, <2>4
    <2> QED BY <1>2, <2>3, <2>5 DEF SubmitProof, ProofTypeOK
  <1>3. CASE SubmitFails(h)
    <2>1. [submitter[h] EXCEPT !.pc = "failed"] \in SubmitterType
      BY <1>0, <1>3 DEF SubmitFails, SubmitterType
    <2>2. submitter' \in [Submissions -> SubmitterType]
      BY <1>0, <1>3, <2>1 DEF SubmitFails
    <2> QED BY <1>3, <2>2 DEF SubmitFails, ProofTypeOK
  <1>4. CASE ReadForProof(h)
    <2> DEFINE p == GetProfile(submitter[h].proof.name)
               q == [p EXCEPT !.proofs = @ \cup {h}]
    <2>1. /\ submitter[h].pc = "read" /\ submitter[h].proof \in Proof
          /\ submitter[h] \in [pc : {"read", "done"}, proof : Proof, profile : {None}]
      BY <1>0, <1>4 DEF ReadForProof, SubmitterType
    <2>2. CASE p # None /\ submitter' = [submitter EXCEPT ![h].pc = "write", ![h].profile = q]
      <3>1. p \in Profile
        BY <1>0, <2>1, <2>2, ReadType
      <3>2. q \in Profile
        BY <3>1 DEF Profile
      <3> HIDE DEF q
      <3>3. [submitter[h] EXCEPT !.pc = "write", !.profile = q] \in SubmitterType
        BY <2>1, <3>2 DEF SubmitterType
      <3>4. submitter' \in [Submissions -> SubmitterType]
        BY <1>0, <2>2, <3>3
      <3> QED BY <1>4, <3>4 DEF ReadForProof, ProofTypeOK
    <2>3. CASE submitter' = [submitter EXCEPT ![h].pc = "failed"]
      <3>1. [submitter[h] EXCEPT !.pc = "failed"] \in SubmitterType
        BY <2>1 DEF SubmitterType
      <3>2. submitter' \in [Submissions -> SubmitterType]
        BY <1>0, <2>3, <3>1
      <3> QED BY <1>4, <3>2 DEF ReadForProof, ProofTypeOK
    <2> QED BY <1>4, <2>2, <2>3 DEF ReadForProof
  <1>5. CASE WriteForProof(h)
    <2>1. /\ submitter[h] \in [pc : {"write"}, proof : Proof, profile : Profile]
          /\ submitter[h].profile \in Profile
      BY <1>0, <1>5 DEF WriteForProof, SubmitterType
    <2>2. profiles' \in [Names -> Profile \cup {None}]
      BY <1>0, <1>5, <2>1, StoreType DEF WriteForProof
    <2>3. ASSUME NEW pc \in {"done", "failed"},
                 submitter' = [submitter EXCEPT ![h].pc = pc, ![h].profile = None]
          PROVE  submitter' \in [Submissions -> SubmitterType]
      <3>1. [submitter[h] EXCEPT !.pc = pc, !.profile = None] \in SubmitterType
        BY <2>1 DEF SubmitterType
      <3> QED BY <1>0, <2>3, <3>1
    <2> QED BY <1>5, <2>2, <2>3 DEF WriteForProof, ProofTypeOK
  <1> QED BY <1>2, <1>3, <1>4, <1>5 DEF Submitter

LEMMA TypeStep == ProofTypeOK /\ [ProofNext]_proofVars => ProofTypeOK'
  <1> SUFFICES ASSUME ProofTypeOK, [ProofNext]_proofVars PROVE ProofTypeOK'
      OBVIOUS
  <1> USE DEF submitters, watching
  <1>1. CASE ContestStep
    BY <1>1 DEF ContestStep, ProofTypeOK
  <1>2. ASSUME NEW p \in Registrants, ProverRegisters(p) PROVE ProofTypeOK'
    <2>1. NewProfile(p) \in Profile
      BY FreshProfileType, ProfilesAssumption
    <2>2. profiles' \in [Names -> Profile \cup {None}]
      BY <1>2, <2>1, StoreType DEF ProverRegisters, Registration, ProofTypeOK
    <2> QED BY <1>2, <2>2 DEF ProverRegisters, ProofTypeOK
  <1>3. ASSUME NEW w \in Watchers, Watch(w) \/ Leave(w) \/ ForwardStatus(w) PROVE ProofTypeOK'
    <2>1. CASE Watch(w)
      BY <1>3, <2>1, Enqueued DEF Watch, ProofTypeOK
    <2>2. CASE Leave(w)
      BY <1>3, <2>2 DEF Leave, ProofTypeOK
    <2>3. CASE ForwardStatus(w)
      <3>1. statusQ' \in Seq(Status)
        BY <2>3, Dequeued DEF ForwardStatus, ProofTypeOK
      <3>2. receivers' \in Seq(Watchers)
        <4>1. receivers \in Seq(Watchers) /\ receivers # <<>> /\ receivers' \in {receivers, Tail(receivers)}
          BY <2>3 DEF ForwardStatus, ProofTypeOK
        <4> QED BY <4>1, Dequeued
      <3>3. watcher' \in [Watchers -> {"idle", "watching", "left", "done"}]
        BY <2>3 DEF ForwardStatus, ProofTypeOK
      <3> QED BY <2>3, <3>1, <3>2, <3>3 DEF ForwardStatus, ProofTypeOK
    <2> QED BY <1>3, <2>1, <2>2, <2>3
  <1>4. CASE UNCHANGED proofVars
    BY <1>4 DEF proofVars, ProofTypeOK
  <1> QED BY <1>1, <1>2, <1>3, <1>4, ProcessorTypeStep, SubmitterTypeStep DEF ProofNext

LEMMA InitType == ProofInit => ProofTypeOK
  <1> SUFFICES ASSUME ProofInit PROVE ProofTypeOK
      OBVIOUS
  <1>1. profiles \in [Names -> Profile \cup {None}]
    <2>1. {NewProfile(p) : p \in Provers} \subseteq Profile
      BY FreshProfileType
    <2> QED BY <2>1 DEF ProofInit, InitProfiles
  <1>2. submitter \in [Submissions -> SubmitterType] /\ processor \in ProcessorType
    BY DEF ProofInit, SubmitterType, Waiting, ProcessorType
  <1> QED BY <1>1, <1>2, NoMessages DEF ProofInit, ProofTypeOK

LEMMA TypeHolds == ProofSpec => []ProofTypeOK
  BY InitType, TypeStep, PTL DEF ProofSpec

(* Every variable stays in its type: a task that has died, or waits for    *)
(* its next proof, holds neither a profile nor the execution mutex         *)
(* (main.rs:513-557).                                                      *)
THEOREM ProofTypeCorrect == ProofSpec => []ProofTypeOK
  BY TypeHolds, PTL
-----------------------------------------------------------------------------
(* The verdicts.  A submission is in one place, on its way from the        *)
(* channel through process_proof to the history of verdicts; only a        *)
(* rejected one is in two, while process_proof goes on to verify it.       *)

\* What is under way, or was, is what the call has submitted.
Genuine(s) == submitter[s.by].pc # "idle" /\ s.proof = submitter[s.by].proof

QueuedInv ==
  /\ \A i \in DOMAIN proofQ : Genuine(proofQ[i])
  /\ \A i, j \in DOMAIN proofQ : proofQ[i].by = proofQ[j].by => i = j
  /\ \A i \in DOMAIN proofQ, j \in DOMAIN sent : proofQ[i].by # sent[j].by
  /\ \A i \in DOMAIN sent : submitter[sent[i].by].pc # "idle"

JobInv ==
  processor.job # None =>
    /\ Genuine(processor.job)
    /\ processor.verdict = "Accepted" => processor.job.proof.valid
    /\ \A i \in DOMAIN proofQ : proofQ[i].by # processor.job.by
    /\ \A i \in DOMAIN sent : sent[i].by = processor.job.by =>
         sent[i].status = "Rejected" /\ processor.verdict # "Rejected"

VerdictsInv == QueuedInv /\ JobInv /\ VerdictsInOrder

\* A step after which what was submitted still is.
LEMMA GenuineKept ==
  ASSUME ProofTypeOK, VerdictsInv, UNCHANGED <<proofQ, processor, sent>>,
         \A h \in Submissions : submitter[h].pc # "idle" =>
           submitter'[h].pc # "idle" /\ submitter'[h].proof = submitter[h].proof
  PROVE  VerdictsInv'
  <1>1. /\ \A i \in DOMAIN proofQ : proofQ[i].by \in Submissions
        /\ \A i \in DOMAIN sent : sent[i].by \in Submissions
        /\ processor.job # None => processor.job.by \in Submissions
    <2>1. /\ \A s \in Submitted \cup Status : s.by \in Submissions
      BY DEF Submitted, Status
    <2>2. /\ \A i \in DOMAIN proofQ : proofQ[i] \in Submitted
          /\ \A i \in DOMAIN sent : sent[i] \in Status
          /\ processor.job # None => processor.job \in Submitted
      BY DEF ProofTypeOK, ProcessorType
    <2> QED BY <2>1, <2>2
  <1>2. QueuedInv'
    BY <1>1 DEF VerdictsInv, QueuedInv, Genuine
  <1>3. JobInv'
    BY <1>1 DEF VerdictsInv, JobInv, Genuine
  <1>4. VerdictsInOrder'
    BY <1>1 DEF VerdictsInv, VerdictsInOrder, QueuedInv
  <1> QED BY <1>2, <1>3, <1>4 DEF VerdictsInv

\* A step within the handling of one proof.
LEMMA SameJob ==
  ASSUME VerdictsInv, UNCHANGED <<submitter, sent>>, proofQ' \in {proofQ, <<>>},
         \/ processor'.job = None
         \/ /\ processor'.job = processor.job
            /\ \/ processor'.verdict = processor.verdict
               \/ processor'.verdict = "Accepted" /\ processor.job.proof.valid
  PROVE  VerdictsInv'
  <1>1. QueuedInv'
    BY DEF VerdictsInv, QueuedInv, Genuine
  <1>2. JobInv'
    BY DEF VerdictsInv, JobInv, Genuine
  <1>3. VerdictsInOrder'
    BY DEF VerdictsInv, VerdictsInOrder
  <1> QED BY <1>1, <1>2, <1>3 DEF VerdictsInv

LEMMA ReceiveVerdicts ==
  ASSUME ProofTypeOK, VerdictsInv, ReceiveProof
  PROVE  VerdictsInv'
  <1>0. PICK job : job = Head(proofQ)
    OBVIOUS
  <1>1. /\ 1 \in DOMAIN proofQ /\ proofQ[1] = job
        /\ proofQ' = Tail(proofQ)
        /\ \A i \in DOMAIN proofQ' : i \in Nat /\ i + 1 \in DOMAIN proofQ
                                     /\ proofQ'[i] = proofQ[i + 1] /\ i + 1 # 1
    BY <1>0 DEF ReceiveProof, ProofTypeOK
  <1>2. /\ processor'.job = job /\ processor'.verdict \in {None, "Rejected"}
        /\ UNCHANGED <<submitter, sent>>
    BY <1>0 DEF ReceiveProof
  <1>3. QueuedInv'
    <2>1. \A i, j \in DOMAIN proofQ' : proofQ'[i].by = proofQ'[j].by => i + 1 = j + 1
      BY <1>1 DEF VerdictsInv, QueuedInv
    <2>2. \A i, j \in DOMAIN proofQ' : proofQ'[i].by = proofQ'[j].by => i = j
      BY <1>1, <2>1
    <2> QED BY <1>1, <1>2, <2>2 DEF VerdictsInv, QueuedInv, Genuine
  <1>4. JobInv'
    <2>1. Genuine(job)' /\ \A i \in DOMAIN proofQ' : proofQ'[i].by # job.by
      BY <1>1, <1>2 DEF VerdictsInv, QueuedInv, Genuine
    <2>2. \A i \in DOMAIN sent : sent[i].by # job.by
      BY <1>1 DEF VerdictsInv, QueuedInv
    <2>3. processor'.verdict # "Accepted"
      BY <1>2, ProofNoneAssumption DEF Verdict
    <2> QED BY <1>2, <2>1, <2>2, <2>3 DEF JobInv
  <1>5. VerdictsInOrder'
    BY <1>2 DEF VerdictsInv, VerdictsInOrder
  <1> QED BY <1>3, <1>4, <1>5 DEF VerdictsInv

LEMMA SendVerdicts ==
  ASSUME ProofTypeOK, VerdictsInv, SendStatus
  PROVE  VerdictsInv'
  <1> DEFINE s == [status |-> processor.verdict, name |-> processor.job.proof.name,
                   by |-> processor.job.by]
  <1>1. /\ processor.job \in Submitted /\ processor.verdict \in Verdict
        /\ processor \in [pc : {"read", "send"}, job : Submitted, verdict : Verdict,
                          reward : {0, Reward}, profile : {None}]
    BY DEF ProofTypeOK, ProcessorType, SendStatus
  <1>2. processor.job # None /\ sent' = Append(sent, s) /\ UNCHANGED <<submitter, proofQ>>
    BY <1>1, ProofNoneAssumption DEF SendStatus, submitters
  <1>3. /\ DOMAIN sent' = DOMAIN sent \cup {Len(sent) + 1}
        /\ \A i \in DOMAIN sent : sent'[i] = sent[i] /\ i < Len(sent) + 1
        /\ sent'[Len(sent) + 1] = s /\ s.by = processor.job.by /\ s.status = processor.verdict
        /\ \A i \in DOMAIN sent : ~(Len(sent) + 1 < i)
        /\ ~(Len(sent) + 1 < Len(sent) + 1)
    BY <1>2 DEF ProofTypeOK
  <1> HIDE DEF s
  <1>4. QueuedInv'
    BY <1>2, <1>3 DEF VerdictsInv, QueuedInv, JobInv, Genuine
  <1>5. JobInv'
    <2>1. CASE processor.verdict = "Rejected"
      <3>1. processor'.job = processor.job /\ processor'.verdict = None
        BY <1>1, <2>1 DEF SendStatus, AfterStatus
      <3>2. None # "Rejected" /\ None # "Accepted"
        BY ProofNoneAssumption DEF Verdict
      <3> QED BY <1>2, <1>3, <2>1, <3>1, <3>2 DEF VerdictsInv, JobInv, Genuine
    <2>2. CASE processor.verdict # "Rejected"
      BY <2>2 DEF SendStatus, AfterStatus, Waiting, JobInv
    <2> QED BY <2>1, <2>2
  <1>6. VerdictsInOrder'
    <2>1. \A i \in DOMAIN sent : sent[i].by = s.by => sent[i].status = "Rejected" /\ s.status = "Accepted"
      BY <1>1, <1>2, <1>3 DEF VerdictsInv, JobInv, Verdict
    <2>2. s.status = "Accepted" => submitter[s.by].proof.valid
      BY <1>2, <1>3 DEF VerdictsInv, JobInv, Genuine
    <2> QED BY <1>2, <1>3, <2>1, <2>2 DEF VerdictsInv, VerdictsInOrder
  <1> QED BY <1>4, <1>5, <1>6 DEF VerdictsInv

LEMMA SubmitVerdicts ==
  ASSUME ProofTypeOK, VerdictsInv, NEW h \in Submissions, SubmitProof(h)
  PROVE  VerdictsInv'
  <1>1. PICK p \in Proofs :
          /\ submitter' = [submitter EXCEPT ![h].pc = "read", ![h].proof = p]
          /\ proofQ' = Append(proofQ, [proof |-> p, by |-> h])
    BY DEF SubmitProof
  <1>2. submitter[h].pc = "idle" /\ UNCHANGED <<processor, sent>>
    BY DEF SubmitProof
  <1>3. PICK s : s = [proof |-> p, by |-> h]
    OBVIOUS
  <1>4. /\ DOMAIN proofQ' = DOMAIN proofQ \cup {Len(proofQ) + 1}
        /\ \A i \in DOMAIN proofQ : proofQ'[i] = proofQ[i]
        /\ proofQ'[Len(proofQ) + 1] = s
        /\ s.by = h /\ s.proof = p
    BY <1>1, <1>3 DEF ProofTypeOK
  <1>5. /\ submitter'[h].pc = "read" /\ submitter'[h].proof = p
        /\ \A g \in Submissions : g # h => submitter'[g] = submitter[g]
    <2>1. submitter \in [Submissions -> SubmitterType] /\ {"pc", "proof"} \subseteq DOMAIN submitter[h]
      BY DEF ProofTypeOK, SubmitterType
    <2> QED BY <1>1, <2>1
  <1>6. /\ \A i \in DOMAIN proofQ : proofQ[i].by \in Submissions
        /\ \A i \in DOMAIN sent : sent[i].by \in Submissions
        /\ processor.job # None => processor.job.by \in Submissions
    <2>1. /\ \A e \in Submitted \cup Status : e.by \in Submissions
      BY DEF Submitted, Status
    <2>2. /\ \A i \in DOMAIN proofQ : proofQ[i] \in Submitted
          /\ \A i \in DOMAIN sent : sent[i] \in Status
          /\ processor.job # None => processor.job \in Submitted
      BY DEF ProofTypeOK, ProcessorType
    <2> QED BY <2>1, <2>2
  \* Nothing there is of h yet.
  <1>7. /\ \A i \in DOMAIN proofQ : proofQ[i].by # h
        /\ \A i \in DOMAIN sent : sent[i].by # h
        /\ processor.job # None => processor.job.by # h
    BY <1>2 DEF VerdictsInv, QueuedInv, JobInv, Genuine
  <1>8. QueuedInv'
    <2>1. (\A i \in DOMAIN proofQ : Genuine(proofQ[i]))'
      BY <1>4, <1>5, <1>6, <1>7 DEF VerdictsInv, QueuedInv, Genuine
    <2>2. \A i, j \in DOMAIN proofQ' : proofQ'[i].by = proofQ'[j].by => i = j
      BY <1>4, <1>7 DEF VerdictsInv, QueuedInv
    <2>3. \A i \in DOMAIN proofQ', j \in DOMAIN sent' : proofQ'[i].by # sent'[j].by
      BY <1>2, <1>4, <1>7 DEF VerdictsInv, QueuedInv
    <2>4. \A i \in DOMAIN sent' : submitter'[sent'[i].by].pc # "idle"
      BY <1>2, <1>5, <1>6, <1>7 DEF VerdictsInv, QueuedInv
    <2> QED BY <2>1, <2>2, <2>3, <2>4 DEF QueuedInv
  <1>9. JobInv'
    BY <1>2, <1>4, <1>5, <1>6, <1>7 DEF VerdictsInv, JobInv, Genuine
  <1>10. VerdictsInOrder'
    BY <1>2, <1>5, <1>6, <1>7 DEF VerdictsInv, VerdictsInOrder
  <1> QED BY <1>8, <1>9, <1>10 DEF VerdictsInv

LEMMA VerdictsStep == ProofTypeOK /\ VerdictsInv /\ [ProofNext]_proofVars => VerdictsInv'
  <1> SUFFICES ASSUME ProofTypeOK, VerdictsInv, [ProofNext]_proofVars PROVE VerdictsInv'
      OBVIOUS
  <1> USE DEF submitters, watching
  <1>1. CASE UNCHANGED <<proofQ, processor, sent, submitter>>
    BY <1>1, GenuineKept
  <1>2. CASE \/ ContestStep
             \/ \E p \in Registrants : ProverRegisters(p)
             \/ \E w \in Watchers : Watch(w) \/ Leave(w) \/ ForwardStatus(w)
             \/ UNCHANGED proofVars
    BY <1>1, <1>2 DEF ContestStep, ProverRegisters, Watch, Leave, ForwardStatus, proofVars
  <1>3. CASE ReadForCredits
    <2>1. /\ UNCHANGED <<submitter, sent>> /\ proofQ' \in {proofQ, <<>>}
          /\ \/ processor'.job = None
             \/ processor'.job = processor.job /\ processor'.verdict = processor.verdict
      <3>1. CASE ProcessorDies
        BY <1>3, <3>1 DEF ReadForCredits, ProcessorDies, Waiting
      <3>2. CASE ~ProcessorDies
        <4>1. PICK x : processor' = [processor EXCEPT !.pc = "write", !.profile = x]
          BY <1>3, <3>2, Zenon DEF ReadForCredits
        <4> QED BY <1>3, <3>2, <4>1 DEF ReadForCredits, ProofTypeOK, ProcessorType
      <3> QED BY <3>1, <3>2
    <2> QED BY <2>1, SameJob
  <1>4. CASE WriteCredits
    <2>1. /\ UNCHANGED <<submitter, sent>> /\ proofQ' \in {proofQ, <<>>}
          /\ \/ processor'.job = None
             \/ processor'.job = processor.job /\ processor'.verdict = processor.verdict
      BY <1>4 DEF WriteCredits, ProcessorDies, Waiting, ProofTypeOK, ProcessorType
    <2> QED BY <2>1, SameJob
  <1>5. CASE VerifyProof
    <2>1. /\ UNCHANGED <<submitter, sent>> /\ proofQ' = proofQ
          /\ \/ processor'.job = None
             \/ /\ processor'.job = processor.job
                /\ processor'.verdict = "Accepted" /\ processor.job.proof.valid
      BY <1>5 DEF VerifyProof, Waiting, ProofTypeOK, ProcessorType
    <2> QED BY <2>1, SameJob
  <1>6. ASSUME NEW h \in Submissions, SubmitFails(h) \/ ReadForProof(h) \/ WriteForProof(h)
        PROVE  VerdictsInv'
    <2>1. /\ UNCHANGED <<proofQ, processor, sent>>
          /\ \A g \in Submissions : g # h => submitter'[g] = submitter[g]
      BY <1>6 DEF SubmitFails, ReadForProof, WriteForProof, ProofTypeOK
    <2>2. submitter[h].pc # "idle" =>
            submitter'[h].pc # "idle" /\ submitter'[h].proof = submitter[h].proof
      <3>1. /\ submitter \in [Submissions -> SubmitterType]
            /\ {"pc", "proof"} \subseteq DOMAIN submitter[h]
        BY DEF ProofTypeOK, SubmitterType
      <3>2. CASE SubmitFails(h)
        BY <3>2 DEF SubmitFails
      <3>3. CASE ReadForProof(h)
        <4>1. \/ \E x : submitter' = [submitter EXCEPT ![h].pc = "write", ![h].profile = x]
              \/ submitter' = [submitter EXCEPT ![h].pc = "failed"]
          BY <3>3, Zenon DEF ReadForProof
        <4> QED BY <3>1, <4>1
      <3>4. CASE WriteForProof(h)
        BY <3>1, <3>4 DEF WriteForProof
      <3> QED BY <1>6, <3>2, <3>3, <3>4
    <2> QED BY <2>1, <2>2, GenuineKept
  <1> QED BY <1>2, <1>3, <1>4, <1>5, <1>6, ReceiveVerdicts, SendVerdicts, SubmitVerdicts
          DEF ProofNext, Processor, Submitter

LEMMA InitVerdicts == ProofInit => VerdictsInv
  BY DEF ProofInit, Waiting, VerdictsInv, QueuedInv, JobInv, VerdictsInOrder

(* A submission gets at most one verdict of each kind, a rejection never   *)
(* after an acceptance, and an acceptance only if SP1 verifies the proof,  *)
(* whichever storage accesses fail (main.rs:513-557).                      *)
THEOREM VerdictsAreOrdered == ProofSpec => []VerdictsInOrder
  <1>1. ProofSpec => []VerdictsInv
    BY InitVerdicts, VerdictsStep, TypeHolds, PTL DEF ProofSpec
  <1> QED BY <1>1, PTL DEF VerdictsInv
-----------------------------------------------------------------------------
(* The credits.  Every copy of a profile, stored or in the hands of a      *)
(* task, has credits that verdicts on its prover add up to; the copy that  *)
(* process_proof is about to store may count the verdict it is at.         *)

Earned(c, a, r) ==
  \E i \in 0..a, j \in 0..r : c = (Reward * i - Slash * j) % Modulus

Fair(p) == Earned(p.credits, Written(NameOf[p.addr], "Accepted"), Written(NameOf[p.addr], "Rejected"))

\* How often the prover will have been credited or slashed after the store.
Due(n, v) ==
    Cardinality({i \in DOMAIN sent : sent[i].name = n /\ sent[i].status = v})
  + IF processor.verdict = v /\ processor.job.proof.name = n THEN 1 ELSE 0

Updated(p) == Earned(p.credits, Due(NameOf[p.addr], "Accepted"), Due(NameOf[p.addr], "Rejected"))

ProfilesFair ==
  \A n \in Names : profiles[n] # None => NameOf[profiles[n].addr] = n /\ Fair(profiles[n])

CreditsInv ==
  /\ ProfilesFair
  /\ \A h \in Submissions : submitter[h].pc = "write" => Fair(submitter[h].profile)
  /\ processor.pc = "write" =>
       NameOf[processor.profile.addr] = processor.job.proof.name /\ Updated(processor.profile)

LEMMA EarnedMore ==
  ASSUME NEW c, NEW a \in Nat, NEW r \in Nat, NEW b \in Nat, NEW s \in Nat,
         a <= b, r <= s, Earned(c, a, r)
  PROVE  Earned(c, b, s)
  <1>1. PICK i \in 0..a, j \in 0..r : c = (Reward * i - Slash * j) % Modulus
    BY DEF Earned
  <1>2. i \in 0..b /\ j \in 0..s
    OBVIOUS
  <1> QED BY <1>1, <1>2 DEF Earned

LEMMA EarnedNothing ==
  ASSUME NEW a \in Nat, NEW r \in Nat
  PROVE  Earned(0, a, r)
  <1>1. Reward * 0 - Slash * 0 = 0
    BY ProofsAssumption DEF U64Values
  <1>2. 0 % Modulus = 0
    BY ModulusAssumption
  <1>3. 0 \in 0..a /\ 0 \in 0..r
    OBVIOUS
  <1> QED BY <1>1, <1>2, <1>3 DEF Earned

LEMMA CreditOrSlash ==
  ASSUME NEW c, NEW a \in Nat, NEW r \in Nat, Earned(c, a, r)
  PROVE  /\ Earned((c + Reward) % Modulus, a + 1, r)
         /\ Earned((c + 0) % Modulus, a, r)
         /\ Earned((c - Slash) % Modulus, a, r + 1)
  <1>0. /\ Reward \in Int /\ Slash \in Int /\ Modulus \in Nat \ {0}
    BY ProofsAssumption, ModulusAssumption DEF U64Values
  <1>1. PICK i \in 0..a, j \in 0..r : c = (Reward * i - Slash * j) % Modulus
    BY DEF Earned
  <1> DEFINE x == Reward * i - Slash * j
  <1>2. x \in Int /\ c = x % Modulus /\ -Slash \in Int /\ 0 \in Int
    BY <1>0, <1>1
  <1>3. /\ x + Reward = Reward * (i + 1) - Slash * j
        /\ x + (-Slash) = Reward * i - Slash * (j + 1)
        /\ x + 0 = Reward * i - Slash * j
    BY <1>0
  <1> HIDE DEF x
  <1>4. /\ (c + Reward) % Modulus = (x + Reward) % Modulus
        /\ (c + (-Slash)) % Modulus = (x + (-Slash)) % Modulus
        /\ (c + 0) % Modulus = (x + 0) % Modulus
    BY <1>0, <1>2, WrapOnce
  <1>5. c - Slash = c + (-Slash)
    <2>1. c \in Int
      BY <1>0, <1>2, Remainder
    <2> QED BY <1>0, <2>1
  <1>6. i + 1 \in 0..(a + 1) /\ j + 1 \in 0..(r + 1)
    OBVIOUS
  <1>7. Earned((c + Reward) % Modulus, a + 1, r)
    BY <1>3, <1>4, <1>6 DEF Earned
  <1>8. Earned((c - Slash) % Modulus, a, r + 1)
    BY <1>3, <1>4, <1>5, <1>6 DEF Earned
  <1>9. Earned((c + 0) % Modulus, a, r)
    BY <1>3, <1>4 DEF Earned
  <1> QED BY <1>7, <1>8, <1>9

\* The verdicts of a kind on a prover that have been sent.
Sent(n, v) == {i \in DOMAIN sent : sent[i].name = n /\ sent[i].status = v}

LEMMA FinitePart ==
  ASSUME NEW S, NEW s \in Seq(S), NEW T \in SUBSET DOMAIN s
  PROVE  IsFiniteSet(T) /\ Cardinality(T) \in Nat
  <1>1. DOMAIN s = 1..Len(s) /\ Len(s) \in Int
    OBVIOUS
  <1>2. IsFiniteSet(1..Len(s))
    BY <1>1, FS_Interval
  <1> QED BY <1>1, <1>2, FS_Subset, FS_CardinalityType

LEMMA WrittenStep ==
  ASSUME ProofTypeOK, [ProofNext]_proofVars, NEW n, NEW v
  PROVE  /\ Written(n, v) \in Nat /\ Written(n, v)' \in Nat /\ Due(n, v) \in Nat
         /\ Written(n, v) <= Written(n, v)'
         /\ processor.pc = "write" /\ processor'.pc \in {"send", "dead"} => Due(n, v) <= Written(n, v)'
  <1> USE DEF submitters, watching
  <1>0. ProofTypeOK'
    BY TypeStep
  <1> DEFINE k == Cardinality(Sent(n, v))
  <1>1. /\ Written(n, v) = k + IF \/ processor.pc = "send" /\ processor.verdict = v
                                      /\ processor.job.proof.name = n
                                  \/ processor.pc = "dead"
                               THEN 1 ELSE 0
        /\ Due(n, v) = k + IF processor.verdict = v /\ processor.job.proof.name = n THEN 1 ELSE 0
        /\ Written(n, v)' = k' + IF \/ processor'.pc = "send" /\ processor'.verdict = v
                                       /\ processor'.job.proof.name = n
                                    \/ processor'.pc = "dead"
                                 THEN 1 ELSE 0
    BY DEF Written, Due, Sent
  <1>2. IsFiniteSet(Sent(n, v)) /\ k \in Nat /\ k' \in Nat
    <2>1. sent \in Seq(Status) /\ sent' \in Seq(Status)
      BY <1>0 DEF ProofTypeOK
    <2>2. Sent(n, v) \subseteq DOMAIN sent /\ Sent(n, v)' \subseteq DOMAIN sent'
      BY DEF Sent
    <2> QED BY <2>1, <2>2, FinitePart
  <1>3. sent' = sent => k' = k
    BY DEF Sent
  <1> HIDE DEF k
  <1>4. CASE SendStatus
    <2> DEFINE s == [status |-> processor.verdict, name |-> processor.job.proof.name,
                     by |-> processor.job.by]
    <2>1. processor.pc = "send" /\ sent' = Append(sent, s)
      BY <1>4 DEF SendStatus
    <2>2. /\ DOMAIN sent' = DOMAIN sent \cup {Len(sent) + 1}
          /\ \A i \in DOMAIN sent : sent'[i] = sent[i]
          /\ sent'[Len(sent) + 1] = s /\ Len(sent) + 1 \notin DOMAIN sent
          /\ s.name = processor.job.proof.name /\ s.status = processor.verdict
      BY <2>1 DEF ProofTypeOK
    <2> HIDE DEF s
    <2>3. processor'.pc \in {"verify", "recv"}
      BY <1>4, <2>1 DEF SendStatus, AfterStatus, Waiting, ProofTypeOK, ProcessorType
    <2>4. CASE processor.verdict = v /\ processor.job.proof.name = n
      <3>1. Sent(n, v)' = Sent(n, v) \cup {Len(sent) + 1} /\ Len(sent) + 1 \notin Sent(n, v)
        BY <2>2, <2>4 DEF Sent
      <3>2. k' = k + 1
        BY <1>2, <3>1, FS_AddElement DEF k
      <3> QED BY <1>1, <1>2, <2>1, <2>3, <2>4, <3>2
    <2>5. CASE ~(processor.verdict = v /\ processor.job.proof.name = n)
      <3>1. Sent(n, v)' = Sent(n, v)
        BY <2>2, <2>5 DEF Sent
      <3>2. k' = k
        BY <3>1 DEF k
      <3> QED BY <1>1, <1>2, <2>1, <2>3, <2>5, <3>2
    <2> QED BY <2>4, <2>5
  <1>5. CASE sent' = sent /\ processor' = processor
    BY <1>1, <1>2, <1>3, <1>5
  <1>6. CASE /\ sent' = sent /\ processor.pc \in {"recv", "verify", "read", "write"}
             /\ processor'.pc = "dead" \/ processor'.job = processor.job \/ processor.pc # "write"
             /\ processor'.pc = "dead" \/ processor'.verdict = processor.verdict \/ processor.pc # "write"
    BY <1>1, <1>2, <1>3, <1>6
  <1>7. CASE ReceiveProof \/ VerifyProof
    <2>1. sent' = sent /\ processor.pc \in {"recv", "verify"}
      BY <1>7 DEF ReceiveProof, VerifyProof
    <2> QED BY <1>6, <2>1
  <1>8. CASE ReadForCredits
    <2>1. sent' = sent /\ processor.pc = "read"
      BY <1>8 DEF ReadForCredits
    <2> QED BY <1>6, <2>1
  <1>9. CASE WriteCredits
    <2>1. /\ sent' = sent /\ processor.pc = "write"
          /\ \/ processor'.pc = "dead"
             \/ processor'.job = processor.job /\ processor'.verdict = processor.verdict
      BY <1>9 DEF WriteCredits, ProcessorDies, Waiting, ProofTypeOK, ProcessorType
    <2> QED BY <1>6, <2>1
  <1>10. CASE ~Processor
    <2>1. sent' = sent /\ processor' = processor
      BY <1>10 DEF ProofNext, ContestStep, ProverRegisters, SubmitProof, SubmitFails, Submitter, ReadForProof,
                   WriteForProof, Watch, Leave, ForwardStatus, proofVars
    <2> QED BY <1>5, <2>1
  <1> QED BY <1>4, <1>7, <1>8, <1>9, <1>10 DEF Processor

\* What verdicts add up to, they still do after a step.
LEMMA FairKept ==
  ASSUME ProofTypeOK, [ProofNext]_proofVars, NEW p, Fair(p)
  PROVE  Fair(p)'
  BY WrittenStep, EarnedMore DEF Fair

\* The credits process_proof is about to store.
LEMMA ReadIsFair ==
  ASSUME ProofTypeOK, CreditsInv, ReadForCredits, ~ProcessorDies
  PROVE  /\ processor'.job = processor.job
         /\ NameOf[processor'.profile.addr] = processor.job.proof.name
         /\ Updated(processor.profile)'
  <1> DEFINE n == processor.job.proof.name
             p == GetProfile(n)
             q == [p EXCEPT !.credits = Credited(@)]
             k(v) == Cardinality(Sent(n, v))
  <1>1. /\ processor.pc = "read" /\ processor.job \in Submitted /\ processor.verdict \in Verdict
        /\ processor.reward \in {0, Reward} /\ n \in Names
        /\ processor \in [pc : {"read", "send"}, job : Submitted, verdict : Verdict,
                          reward : {0, Reward}, profile : {None}]
    BY DEF ReadForCredits, ProofTypeOK, ProcessorType, Submitted, Proof
  <1>2. /\ p # None /\ sent' = sent
        /\ processor' = [processor EXCEPT !.pc = "write", !.profile = q]
    BY DEF ReadForCredits
  <1>3. p \in Profile /\ NameOf[p.addr] = n /\ Fair(p)
    BY <1>1, <1>2, ReadType DEF CreditsInv, ProfilesFair, GetProfile
  <1>4. q.addr = p.addr /\ q.credits = Credited(p.credits)
    BY <1>3 DEF Profile
  <1> HIDE DEF q
  <1>5. /\ processor'.profile = q /\ processor'.job = processor.job
        /\ processor'.verdict = processor.verdict
    BY <1>1, <1>2
  <1>6. \A v : k(v) \in Nat
    <2>1. \A v : Sent(n, v) \in SUBSET DOMAIN sent
      BY DEF Sent
    <2> QED BY <2>1, FinitePart DEF ProofTypeOK
  <1>7. \A v \in Verdict : Written(n, v) = k(v)
    <2>1. \A v \in Verdict : Written(n, v) = k(v) + 0
      BY <1>1 DEF Written, Sent
    <2> QED BY <1>6, <2>1
  <1>8. \A v \in Verdict : Due(n, v)' = k(v) + IF processor.verdict = v THEN 1 ELSE 0
    BY <1>2, <1>5 DEF Due, Sent
  <1> HIDE DEF n, k
  <1>9. Earned(p.credits, k("Accepted"), k("Rejected"))
    BY <1>3, <1>7 DEF Fair, Verdict
  <1>10. Earned(q.credits, Due(n, "Accepted")', Due(n, "Rejected")')
    <2>1. /\ Earned((p.credits + Reward) % Modulus, k("Accepted") + 1, k("Rejected"))
          /\ Earned((p.credits + 0) % Modulus, k("Accepted"), k("Rejected"))
          /\ Earned((p.credits - Slash) % Modulus, k("Accepted"), k("Rejected") + 1)
      BY <1>6, <1>9, CreditOrSlash
    <2>2. CASE processor.verdict = "Accepted"
      <3>1. Due(n, "Accepted")' = k("Accepted") + 1 /\ Due(n, "Rejected")' = k("Rejected")
        BY <1>6, <1>8, <2>2 DEF Verdict
      <3>2. Earned((p.credits + 0) % Modulus, k("Accepted") + 1, k("Rejected"))
        BY <1>6, <2>1, EarnedMore
      <3>3. q.credits = (p.credits + processor.reward) % Modulus
        BY <1>4, <2>2 DEF Credited
      <3>4. CASE processor.reward = Reward
        BY <2>1, <3>1, <3>3, <3>4
      <3>5. CASE processor.reward = 0
        BY <3>1, <3>2, <3>3, <3>5
      <3> QED BY <1>1, <3>4, <3>5
    <2>3. CASE processor.verdict = "Rejected"
      <3>1. Due(n, "Accepted")' = k("Accepted") /\ Due(n, "Rejected")' = k("Rejected") + 1
        BY <1>6, <1>8, <2>3 DEF Verdict
      <3>2. q.credits = (p.credits - Slash) % Modulus
        BY <1>4, <2>3 DEF Credited
      <3> QED BY <2>1, <3>1, <3>2
    <2> QED BY <1>1, <2>2, <2>3 DEF Verdict
  <1>11. NameOf[q.addr] = n
    BY <1>3, <1>4
  <1> QED BY <1>5, <1>10, <1>11 DEF Updated, n

LEMMA ProfilesFairKept ==
  ASSUME ProofTypeOK, [ProofNext]_proofVars, ProfilesFair,
         \/ profiles' = profiles
         \/ \E p \in Profile : StoreProfile(p) /\ Fair(p)'
  PROVE  ProfilesFair'
  <1>1. \A n \in Names : profiles[n] # None => NameOf[profiles[n].addr] = n /\ Fair(profiles[n])
    BY DEF ProfilesFair
  <1>2. ASSUME NEW n \in Names, NEW p, p = profiles[n], p # None PROVE NameOf[p.addr] = n /\ Fair(p)'
    <2>1. NameOf[p.addr] = n /\ Fair(p)
      BY <1>1, <1>2
    <2> QED BY <2>1, FairKept
  <1>3. ASSUME NEW n \in Names, profiles'[n] # None
        PROVE  NameOf[profiles'[n].addr] = n /\ (Fair(profiles[n]))'
    <2>1. PICK p : p = profiles'[n]
      OBVIOUS
    <2>2. CASE p = profiles[n]
      BY <1>2, <1>3, <2>1, <2>2 DEF Fair
    <2>3. CASE p # profiles[n]
      <3>1. PICK q \in Profile : StoreProfile(q) /\ Fair(q)'
        BY <2>1, <2>3
      <3>2. p = q /\ NameOf[q.addr] = n
        BY <1>3, <2>1, <2>3, <3>1 DEF StoreProfile, ProofTypeOK
      <3> QED BY <2>1, <3>1, <3>2 DEF Fair
    <2> QED BY <2>2, <2>3
  <1> QED BY <1>3 DEF ProfilesFair

LEMMA CreditsStep == ProofTypeOK /\ CreditsInv /\ [ProofNext]_proofVars => CreditsInv'
  <1> SUFFICES ASSUME ProofTypeOK, CreditsInv, [ProofNext]_proofVars PROVE CreditsInv'
      OBVIOUS
  <1> USE DEF submitters, watching
  <1>0. /\ ProofTypeOK' /\ ProfilesFair
        /\ \A h \in Submissions : submitter[h].pc = "write" => submitter[h].profile \in Profile
    BY TypeStep DEF CreditsInv, ProofTypeOK, SubmitterType
  <1>1. ASSUME UNCHANGED submitter \/ \E h \in Submissions : submitter'[h].pc # "write" /\
                 \A g \in Submissions : g # h => submitter'[g] = submitter[g]
        PROVE  \A h \in Submissions : submitter'[h].pc = "write" => (Fair(submitter[h].profile))'
    <2> SUFFICES ASSUME NEW h \in Submissions, submitter'[h].pc = "write"
                 PROVE  (Fair(submitter[h].profile))'
        OBVIOUS
    <2>1. PICK p : p = submitter[h].profile
      OBVIOUS
    <2>2. submitter'[h] = submitter[h]
      BY <1>1
    <2>3. Fair(p)
      BY <2>1, <2>2 DEF CreditsInv
    <2>4. Fair(p)'
      BY <2>3, FairKept
    <2> QED BY <2>1, <2>2, <2>4 DEF Fair
  <1>2. ASSUME processor' = processor /\ sent' = sent
        PROVE  processor'.pc = "write" =>
                 /\ NameOf[processor'.profile.addr] = processor'.job.proof.name
                 /\ Updated(processor.profile)'
    BY <1>2 DEF CreditsInv, Updated, Due
  <1>3. CASE Processor
    <2>1. submitter' = submitter
      BY <1>3 DEF Processor, ReceiveProof, ReadForCredits, WriteCredits, SendStatus, VerifyProof
    <2>2. CASE WriteCredits
      <3>1. processor'.pc \in {"send", "dead"} /\ processor.pc = "write"
        BY <2>2 DEF WriteCredits, ProcessorDies, Waiting, ProofTypeOK, ProcessorType
      <3>2. PICK p : p = processor.profile
        OBVIOUS
      <3>3. p \in Profile /\ Updated(p)
        BY <3>1, <3>2 DEF CreditsInv, ProofTypeOK, ProcessorType
      <3>4. Fair(p)'
        BY <3>1, <3>3, WrittenStep, EarnedMore DEF Fair, Updated
      <3>5. profiles' = profiles \/ StoreProfile(p)
        BY <2>2, <3>2 DEF WriteCredits
      <3>6. ProfilesFair'
        BY <1>0, <3>3, <3>4, <3>5, ProfilesFairKept
      <3> QED BY <1>1, <2>1, <3>1, <3>6 DEF CreditsInv
    <2>3. CASE ~WriteCredits
      <3>1. ProfilesFair'
        <4>1. profiles' = profiles
          BY <1>3, <2>3 DEF Processor, ReceiveProof, ReadForCredits, SendStatus, VerifyProof
        <4> QED BY <1>0, <4>1, ProfilesFairKept
      <3>2. CASE ReadForCredits /\ ~ProcessorDies
        BY <1>1, <2>1, <3>1, <3>2, ReadIsFair DEF CreditsInv
      <3>3. CASE ~(ReadForCredits /\ ~ProcessorDies)
        <4>1. CASE ReceiveProof
          <5>1. PICK job : job = Head(proofQ)
            OBVIOUS
          <5>2. processor'.pc \in {"read", "verify"}
            BY <4>1 DEF ReceiveProof
          <5> QED BY <1>1, <2>1, <3>1, <5>2 DEF CreditsInv
        <4>2. CASE ReadForCredits
          <5>1. processor'.pc = "dead"
            BY <3>3, <4>2 DEF ReadForCredits, ProcessorDies, Waiting
          <5> QED BY <1>1, <2>1, <3>1, <5>1 DEF CreditsInv
        <4>3. CASE SendStatus
          <5>1. processor' \in {Waiting, [processor EXCEPT !.pc = "verify", !.verdict = None]}
            BY <4>3, Zenon DEF SendStatus, AfterStatus
          <5>2. {"pc", "verdict"} \subseteq DOMAIN processor
            BY DEF ProofTypeOK, ProcessorType
          <5>3. Waiting.pc = "recv"
            BY DEF Waiting
          <5>4. processor'.pc # "write"
            BY <5>1, <5>2, <5>3
          <5> QED BY <1>1, <2>1, <3>1, <5>4 DEF CreditsInv
        <4>4. CASE VerifyProof
          <5>1. processor' \in {Waiting, [processor EXCEPT !.pc = "read", !.verdict = "Accepted"]}
            BY <4>4, Zenon DEF VerifyProof
          <5>2. {"pc", "verdict"} \subseteq DOMAIN processor
            BY DEF ProofTypeOK, ProcessorType
          <5>3. Waiting.pc = "recv"
            BY DEF Waiting
          <5>4. processor'.pc # "write"
            BY <5>1, <5>2, <5>3
          <5> QED BY <1>1, <2>1, <3>1, <5>4 DEF CreditsInv
        <4> QED BY <1>3, <2>3, <4>1, <4>2, <4>3, <4>4 DEF Processor
      <3> QED BY <3>2, <3>3
    <2> QED BY <2>2, <2>3
  <1>4. CASE ContestStep \/ (\E w \in Watchers : Watch(w) \/ Leave(w) \/ ForwardStatus(w))
             \/ UNCHANGED proofVars
    <2>1. UNCHANGED <<submitter, processor, sent, profiles>>
      BY <1>4 DEF ContestStep, Watch, Leave, ForwardStatus, proofVars
    <2>2. ProfilesFair'
      BY <1>0, <2>1, ProfilesFairKept
    <2> QED BY <1>1, <1>2, <2>1, <2>2 DEF CreditsInv
  <1>5. ASSUME NEW p \in Registrants, ProverRegisters(p) PROVE CreditsInv'
    <2>1. UNCHANGED <<submitter, processor, sent>> /\ StoreProfile(NewProfile(p))
      BY <1>5 DEF ProverRegisters, Registration
    <2>2. NewProfile(p) \in Profile /\ NewProfile(p).credits = 0
      BY FreshProfileType, ProfilesAssumption DEF NewProfile
    <2>3. \A n, v : Written(n, v)' \in Nat
      BY WrittenStep
    <2>4. Fair(NewProfile(p))'
      BY <2>2, <2>3, EarnedNothing DEF Fair, NewProfile
    <2>5. ProfilesFair'
      BY <1>0, <2>1, <2>2, <2>4, ProfilesFairKept
    <2> QED BY <1>1, <1>2, <2>1, <2>5 DEF CreditsInv
  <1>6. ASSUME NEW h \in Submissions, SubmitProof(h) \/ SubmitFails(h) \/ Submitter(h)
        PROVE  CreditsInv'
    <2>1. UNCHANGED <<processor, sent>> /\ \A g \in Submissions : g # h => submitter'[g] = submitter[g]
      BY <1>6 DEF SubmitProof, SubmitFails, Submitter, ReadForProof, WriteForProof, ProofTypeOK
    <2>2. CASE profiles' = profiles /\ submitter'[h].pc # "write"
      <3>1. ProfilesFair'
        BY <1>0, <2>2, ProfilesFairKept
      <3> QED BY <1>1, <1>2, <2>1, <2>2, <3>1 DEF CreditsInv
    <2>3. submitter[h] \in SubmitterType /\ {"pc", "proof", "profile"} \subseteq DOMAIN submitter[h]
          /\ submitter \in [Submissions -> SubmitterType]
      BY DEF ProofTypeOK, SubmitterType
    <2>4. CASE SubmitProof(h) \/ SubmitFails(h)
      <3>1. profiles' = profiles /\ submitter'[h].pc # "write"
        BY <2>3, <2>4 DEF SubmitProof, SubmitFails
      <3> QED BY <2>2, <3>1
    <2>5. CASE WriteForProof(h)
      <3>1. submitter[h].pc = "write" /\ submitter'[h].pc # "write"
        BY <2>3, <2>5 DEF WriteForProof
      <3>2. PICK p : p = submitter[h].profile
        OBVIOUS
      <3>3. p \in Profile /\ Fair(p)
        BY <1>0, <3>1, <3>2 DEF CreditsInv
      <3>4. Fair(p)'
        BY <3>3, FairKept
      <3>5. profiles' = profiles \/ StoreProfile(p)
        BY <2>5, <3>2 DEF WriteForProof
      <3>6. ProfilesFair'
        BY <1>0, <3>3, <3>4, <3>5, ProfilesFairKept
      <3> QED BY <1>1, <1>2, <2>1, <3>1, <3>6 DEF CreditsInv
    <2>6. CASE ReadForProof(h)
      <3> DEFINE n == submitter[h].proof.name
                 q == [GetProfile(n) EXCEPT !.proofs = @ \cup {h}]
      <3>1. CASE submitter' = [submitter EXCEPT ![h].pc = "failed"]
        <4>1. profiles' = profiles /\ submitter'[h].pc # "write"
          BY <2>3, <2>6, <3>1 DEF ReadForProof
        <4> QED BY <2>2, <4>1
      <3>2. CASE GetProfile(n) # None /\ submitter' = [submitter EXCEPT ![h].pc = "write", ![h].profile = q]
        <4>1. n \in Names
          BY <2>3, <2>6 DEF ReadForProof, SubmitterType, Proof
        <4>2. PICK p : p = GetProfile(n)
          OBVIOUS
        <4>3. p \in Profile /\ Fair(p)
          BY <3>2, <4>1, <4>2, ReadType DEF CreditsInv, ProfilesFair, GetProfile
        <4>4. q.addr = p.addr /\ q.credits = p.credits
          BY <4>2, <4>3 DEF Profile
        <4> HIDE DEF q, n
        <4>5. submitter'[h].profile = q
          BY <2>3, <3>2
        <4>6. Fair(p)'
          BY <4>3, FairKept
        <4>7. (Fair(submitter[h].profile))'
          BY <4>4, <4>5, <4>6 DEF Fair
        <4>8. ASSUME NEW g \in Submissions, g # h, submitter'[g].pc = "write"
              PROVE  (Fair(submitter[g].profile))'
          <5>1. PICK r : r = submitter[g].profile
            OBVIOUS
          <5>2. Fair(r) /\ submitter'[g] = submitter[g]
            BY <2>1, <4>8, <5>1 DEF CreditsInv
          <5>3. Fair(r)'
            BY <5>2, FairKept
          <5> QED BY <5>1, <5>2, <5>3 DEF Fair
        <4>9. \A g \in Submissions : submitter'[g].pc = "write" => (Fair(submitter[g].profile))'
          BY <4>7, <4>8
        <4>10. ProfilesFair'
          BY <1>0, <2>6, ProfilesFairKept DEF ReadForProof
        <4> QED BY <1>2, <2>1, <4>9, <4>10 DEF CreditsInv
      <3> QED BY <2>6, <3>1, <3>2 DEF ReadForProof
    <2> QED BY <1>6, <2>4, <2>5, <2>6 DEF Submitter
  <1> QED BY <1>3, <1>4, <1>5, <1>6 DEF ProofNext

LEMMA InitCredits == ProofInit => CreditsInv
  <1> SUFFICES ASSUME ProofInit PROVE CreditsInv
      OBVIOUS
  <1>1. \A n, v : Written(n, v) \in Nat
    <2> SUFFICES ASSUME NEW n, NEW v PROVE Written(n, v) \in Nat
        OBVIOUS
    <2>1. Sent(n, v) = {}
      BY DEF ProofInit, Sent
    <2>2. Cardinality(Sent(n, v)) \in Nat
      BY <2>1, FS_EmptySet
    <2> QED BY <2>2 DEF Written, Sent
  <1>2. ASSUME NEW n \in Names, profiles[n] # None
        PROVE  NameOf[profiles[n].addr] = n /\ Fair(profiles[n])
    <2>1. NameOf[profiles[n].addr] = n /\ profiles[n].credits = 0
      BY <1>2 DEF ProofInit, InitProfiles, NewProfile
    <2> QED BY <1>1, <2>1, EarnedNothing DEF Fair
  <1> QED BY <1>2 DEF ProofInit, Waiting, CreditsInv, ProfilesFair

LEMMA CreditsAreFair == CreditsInv => CreditsAreEarned
  BY DEF CreditsInv, ProfilesFair, Fair, Earned, CreditsAreEarned

(* However the read-modify-write cycles on a profile interleave, and       *)
(* whichever accesses fail, no update is made up: the credits are those of *)
(* some of the verdicts on the prover, for any reward and slash, also      *)
(* where the u64 wraps (main.rs:528-530, 543-545, networking.rs:117-129).  *)
THEOREM NoCreditIsMadeUp == ProofSpec => []CreditsAreEarned
  <1>1. ProofSpec => []CreditsInv
    BY InitCredits, CreditsStep, TypeHolds, PTL DEF ProofSpec
  <1> QED BY <1>1, CreditsAreFair, PTL
=============================================================================
