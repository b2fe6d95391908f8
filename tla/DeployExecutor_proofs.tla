------------------------ MODULE DeployExecutor_proofs ------------------------
(***************************************************************************)
(* Proofs about the deploy executor for every set of plans and any number  *)
(* of candidates, and about SitePublication for every set of runs, sites   *)
(* and counts.                                                             *)
(***************************************************************************)
EXTENDS DeployExecutor, SitePublication, FiniteSetTheorems, FunctionTheorems, SequenceTheorems, TLAPS

(* The labels at which the cleanup state names the current instance. *)
HoldingLabels ==
    {"ports", "attest", "unlock", "runtime", "guestDomain", "setup",
     "configure", "verify", "register", "attach", "returned"}

(* The attempt in progress is one of the plan's. *)
Progress ==
    /\ pc # "failed" => cand \in 1..plan.candidates
    /\ attempt <= rootfsDependencyRetryLimit(plan)

(* What activeItemHash is at every label. *)
ActiveIsCurrent ==
    /\ active = NoInstance \/ active = current
    /\ pc \in HoldingLabels => active = current
    /\ pc \in {"create", "inspect", "failed"} => active = NoInstance

(* An instance is given up only when its candidate is left for good. *)
CleanedAreBehind ==
    /\ pc # "failed" => \A i \in cleaned : i[1] < cand
    /\ forgetSent \subseteq cleaned

(* While the run holds the instance, Aleph keeps it. *)
HeldIsProcessed == active # NoInstance => aleph[current] = "processed"

IInv ==
    /\ TypeOK
    /\ Progress
    /\ ActiveIsCurrent
    /\ CleanedAreBehind
    /\ HeldIsProcessed
    /\ OneUnaccountedInstance

-----------------------------------------------------------------------------
(* The labels, attempts and statuses stay in their sets; the run never     *)
(* leaves the candidates of its plan.                                      *)
LEMMA TypeOK_Init == Init => TypeOK
<1> SUFFICES ASSUME Init PROVE TypeOK
  OBVIOUS
<1>1. plan \in Plans /\ cand \in 1..(MaxCandidates + 1) /\ attempt \in 1..3
  BY PlansAssumption DEF Init
<1>2. pc \in Labels
  BY DEF Init, Labels
<1>3. aleph \in [Instances -> AlephStatus]
  BY DEF Init, AlephStatus
<1>4. QED
  BY <1>1, <1>2, <1>3 DEF Init, TypeOK

LEMMA IInv_Init == Init => IInv
<1>1. Init => TypeOK
  BY TypeOK_Init
<1>2. Init => Progress
  BY PlansAssumption DEF Init, Progress, PlanType, rootfsDependencyRetryLimit
<1>3. QED
  BY <1>1, <1>2 DEF Init, IInv, ActiveIsCurrent, CleanedAreBehind, HeldIsProcessed,
     OneUnaccountedInstance, HoldingLabels

(* Facts every action's proof starts from: the plan's numbers and, while   *)
(* the run is not over, the current attempt is one of the instances.       *)
LEMMA PlanFacts ==
  ASSUME TypeOK
  PROVE  /\ plan.candidates \in 0..MaxCandidates
         /\ plan.maxCrnAttempts \in Nat
         /\ MaxCandidates \in Nat
         /\ rootfsDependencyRetryLimit(plan) \in 1..3
BY PlansAssumption DEF TypeOK, PlanType, rootfsDependencyRetryLimit

LEMMA CurrentIsInstance ==
  ASSUME TypeOK, Progress, pc # "failed"
  PROVE  current \in Instances
BY PlanFacts DEF TypeOK, Progress, current, Instances

(* A step that touches neither the attempt in progress, nor activeItemHash,*)
(* nor Aleph's messages only has to keep the label and activeItemHash in   *)
(* line.                                                                   *)
LEMMA QuietStep ==
  ASSUME IInv, TypeOK', ActiveIsCurrent', pc # "failed",
         UNCHANGED <<plan, cand, attempt, active, aleph, cleaned, forgetSent>>
  PROVE  IInv'
<1>1. Progress'
  BY DEF IInv, Progress, rootfsDependencyRetryLimit
<1>2. CleanedAreBehind'
  BY DEF IInv, CleanedAreBehind
<1>3. HeldIsProcessed' /\ OneUnaccountedInstance'
  BY DEF IInv, HeldIsProcessed, OneUnaccountedInstance, current
<1>4. QED
  BY <1>1, <1>2, <1>3 DEF IInv

(* The quiet steps of the run: everything between the confirmation of an   *)
(* instance and its result or its forget.                                  *)
LEMMA QuietSteps ==
  ASSUME IInv,
         \/ InspectTimeout \/ InspectThrows
         \/ PublishPorts \/ Attest \/ Unlock \/ AwaitRuntime
         \/ AttachGuestDomain \/ AwaitSetup \/ Configure
         \/ VerifyReachability \/ Register \/ AttachDomain
  PROVE  IInv'
<1> USE DEF Throw, ForgetAndContinue, attachInstanceCustomDomain, runVars, alephVars
<1>1. /\ UNCHANGED <<plan, cand, attempt, active, aleph, cleaned, forgetSent>>
      /\ pc \in {"inspect"} \cup (HoldingLabels \ {"returned"})
  BY DEF InspectTimeout, InspectThrows, PublishPorts, Attest, Unlock, AwaitRuntime,
     AttachGuestDomain, AwaitSetup, Configure, VerifyReachability, Register,
     AttachDomain, HoldingLabels
<1>2. current \in Instances
  BY <1>1, CurrentIsInstance DEF IInv, HoldingLabels
<1>3. /\ pc' \in (HoldingLabels \ {"inspect"}) \cup {"forget", "failed"}
      /\ pc = "inspect" => pc' \in {"forget", "failed"}
      /\ pc' = "failed" => active = NoInstance
      /\ resume' \in {resume, "next", "throw"}
  BY DEF InspectTimeout, InspectThrows, PublishPorts, Attest, Unlock, AwaitRuntime,
     AttachGuestDomain, AwaitSetup, Configure, VerifyReachability, Register,
     AttachDomain, HoldingLabels
<1>4. TypeOK'
  <2>1. attached' \in BOOLEAN /\ verified' \in BOOLEAN
    BY DEF IInv, TypeOK, InspectTimeout, InspectThrows, PublishPorts, Attest, Unlock,
       AwaitRuntime, AttachGuestDomain, AwaitSetup, Configure, VerifyReachability,
       Register, AttachDomain
  <2>2. /\ domain' \in {domain, current}
        /\ registered' \subseteq registered \cup {current}
        /\ guest' \in {guest, [guest EXCEPT ![current] = "configured"]}
        /\ attested' \subseteq attested \cup {current}
        /\ unlocked' \subseteq unlocked \cup {current}
    BY DEF InspectTimeout, InspectThrows, PublishPorts, Attest, Unlock,
       AwaitRuntime, AttachGuestDomain, AwaitSetup, Configure, VerifyReachability,
       Register, AttachDomain
  <2>3. pc' \in Labels
    BY <1>3 DEF HoldingLabels, Labels
  <2>4. QED
    BY <1>1, <1>2, <1>3, <2>1, <2>2, <2>3 DEF IInv, TypeOK
<1>5. ActiveIsCurrent'
  BY <1>1, <1>3 DEF IInv, ActiveIsCurrent, HoldingLabels, current
<1>6. QED
  BY <1>1, <1>4, <1>5, QuietStep DEF HoldingLabels

-----------------------------------------------------------------------------
(* The steps that move on to another attempt, and Aleph's own.             *)

LEMMA BroadcastStep == ASSUME IInv, Broadcast PROVE IInv'
<1> USE DEF Broadcast, Throw
<1>1. current \in Instances /\ active = NoInstance
  BY CurrentIsInstance DEF IInv, ActiveIsCurrent
<1>2. /\ aleph' \in {aleph, [aleph EXCEPT ![current] = "pending"]}
      /\ pc' \in {"inspect", "failed"}
      /\ resume' \in {resume, "throw"}
  BY <1>1
<1>3. TypeOK'
  BY <1>1, <1>2 DEF IInv, TypeOK, Labels, AlephStatus
<1>4. Progress' /\ ActiveIsCurrent' /\ CleanedAreBehind' /\ HeldIsProcessed'
  BY <1>1, <1>2 DEF IInv, Progress, ActiveIsCurrent, CleanedAreBehind,
     HeldIsProcessed, HoldingLabels, rootfsDependencyRetryLimit, current
<1>5. OneUnaccountedInstance'
  <2>1. \A i \in Instances : i # current => aleph'[i] = aleph[i]
    BY <1>2 DEF IInv, TypeOK
  <2>2. QED
    BY <2>1 DEF IInv, OneUnaccountedInstance, current
<1>6. QED
  BY <1>3, <1>4, <1>5 DEF IInv

LEMMA InspectProcessedStep == ASSUME IInv, InspectProcessed PROVE IInv'
<1> USE DEF InspectProcessed, alephVars
<1>1. current \in Instances
  BY CurrentIsInstance DEF IInv
<1>2. TypeOK'
  BY <1>1 DEF IInv, TypeOK, Labels
<1>3. Progress' /\ ActiveIsCurrent' /\ CleanedAreBehind' /\ HeldIsProcessed'
  BY DEF IInv, Progress, ActiveIsCurrent, CleanedAreBehind, HeldIsProcessed,
     HoldingLabels, rootfsDependencyRetryLimit, current
<1>4. OneUnaccountedInstance'
  BY DEF IInv, OneUnaccountedInstance, current
<1>5. QED
  BY <1>2, <1>3, <1>4 DEF IInv

LEMMA InspectRetryStep == ASSUME IInv, InspectRetry PROVE IInv'
<1> USE DEF InspectRetry, isRetryableRootfsDependencyRejection, alephVars
<1>1. active = NoInstance
  BY DEF IInv, ActiveIsCurrent
<1>2. attempt' \in 1..3 /\ attempt' <= rootfsDependencyRetryLimit(plan)
  BY PlanFacts DEF IInv, TypeOK
<1>3. TypeOK'
  BY <1>2 DEF IInv, TypeOK, Labels
<1>4. Progress' /\ ActiveIsCurrent' /\ CleanedAreBehind' /\ HeldIsProcessed'
  BY <1>1, <1>2 DEF IInv, Progress, ActiveIsCurrent, CleanedAreBehind,
     HeldIsProcessed, HoldingLabels, rootfsDependencyRetryLimit
<1>5. OneUnaccountedInstance'
  BY DEF IInv, OneUnaccountedInstance
<1>6. QED
  BY <1>3, <1>4, <1>5 DEF IInv

(* NextCandidate stays within the plan, or fails the run.                  *)
LEMMA NextCandidateFacts ==
  ASSUME IInv, pc # "failed", NextCandidate, UNCHANGED plan
  PROVE  /\ pc' \in {"create", "failed"}
         /\ cand' \in 1..(MaxCandidates + 1)
         /\ attempt' \in 1..3
         /\ pc' = "create" => cand' = cand + 1
         /\ Progress'
<1>1. cand \in 1..plan.candidates /\ attempt \in 1..3
  BY DEF IInv, TypeOK, Progress
<1>2. attempt <= rootfsDependencyRetryLimit(plan)
  BY DEF IInv, Progress
<1>3. rootfsDependencyRetryLimit(plan)' = rootfsDependencyRetryLimit(plan)
  BY DEF rootfsDependencyRetryLimit
<1>4. QED
  BY <1>1, <1>2, <1>3, PlanFacts DEF IInv, NextCandidate, Progress

LEMMA InspectRejectedStep == ASSUME IInv, InspectRejected PROVE IInv'
<1> USE DEF InspectRejected, alephVars
<1>1. active = NoInstance /\ pc = "inspect"
  BY DEF IInv, ActiveIsCurrent
<1>2. /\ pc' \in {"create", "failed"}
      /\ cand' \in 1..(MaxCandidates + 1)
      /\ attempt' \in 1..3
      /\ pc' = "create" => cand' = cand + 1
      /\ Progress'
  BY <1>1, NextCandidateFacts
<1>3. TypeOK'
  BY <1>2 DEF IInv, TypeOK, Labels
<1>4. ActiveIsCurrent' /\ HeldIsProcessed'
  BY <1>1, <1>2 DEF ActiveIsCurrent, HeldIsProcessed, HoldingLabels
<1>5. CleanedAreBehind'
  <2>1. cand \in Nat /\ \A i \in cleaned : i[1] \in Nat /\ i[1] < cand
    BY <1>1 DEF IInv, TypeOK, CleanedAreBehind, Instances
  <2>2. QED
    BY <1>2, <2>1 DEF IInv, CleanedAreBehind
<1>6. OneUnaccountedInstance'
  BY DEF IInv, OneUnaccountedInstance
<1>7. QED
  BY <1>2, <1>3, <1>4, <1>5, <1>6 DEF IInv

LEMMA ForgetStep == ASSUME IInv, Forget PROVE IInv'
<1> USE DEF Forget
<1>1. current \in Instances /\ pc = "forget" /\ active' = NoInstance
  BY CurrentIsInstance DEF IInv, ActiveIsCurrent
<1>2. /\ pc' \in {"create", "failed"}
      /\ cand' \in 1..(MaxCandidates + 1)
      /\ attempt' \in 1..3
      /\ pc' = "create" => cand' = cand + 1
      /\ Progress'
  <2>1. CASE resume = "next"
    BY <2>1, <1>1, NextCandidateFacts
  <2>2. CASE resume # "next"
    <3>1. pc' = "failed" /\ UNCHANGED <<plan, cand, attempt>>
      BY <2>2
    <3>2. QED
      BY <3>1 DEF IInv, TypeOK, Progress, rootfsDependencyRetryLimit
  <2>3. QED
    BY <2>1, <2>2
<1>3. /\ cleaned' = cleaned \cup {current}
      /\ forgetSent' \subseteq forgetSent \cup {current}
  OBVIOUS
<1>4. TypeOK'
  BY <1>1, <1>2, <1>3 DEF IInv, TypeOK, Labels
<1>5. ActiveIsCurrent' /\ HeldIsProcessed'
  BY <1>1, <1>2 DEF ActiveIsCurrent, HeldIsProcessed, HoldingLabels
<1>6. CleanedAreBehind'
  <2>1. cand \in Nat /\ \A i \in cleaned : i[1] \in Nat /\ i[1] < cand
    BY <1>1 DEF IInv, TypeOK, CleanedAreBehind, Instances
  <2>2. pc' # "failed" => \A i \in cleaned' : i[1] < cand'
    BY <1>2, <1>3, <2>1 DEF current
  <2>3. QED
    BY <1>3, <2>2 DEF IInv, CleanedAreBehind
<1>7. OneUnaccountedInstance'
  BY <1>3 DEF IInv, OneUnaccountedInstance
<1>8. QED
  BY <1>2, <1>4, <1>5, <1>6, <1>7 DEF IInv

(* Aleph processes pending messages and forgets only what a FORGET named:  *)
(* neither touches the instance the run holds.                             *)
LEMMA AlephStepInv == ASSUME IInv, AlephStep PROVE IInv'
<1>1. PICK i \in Instances : AlephProcesses(i) \/ AlephForgets(i)
  BY DEF AlephStep
<1>2. /\ UNCHANGED <<runVars, pc, cleaned, forgetSent, domain, registered,
                     guest, attested, unlocked>>
      /\ \E s \in {"processed", "rejected", "rejectedRootfs", "forgotten"} :
           aleph' = [aleph EXCEPT ![i] = s]
      /\ aleph[i] \in {"pending", "processed"}
  BY <1>1 DEF AlephProcesses, AlephForgets
<1>3. TypeOK'
  BY <1>2 DEF IInv, TypeOK, AlephStatus, runVars
<1>4. Progress' /\ ActiveIsCurrent' /\ CleanedAreBehind'
  BY <1>2 DEF IInv, Progress, ActiveIsCurrent, CleanedAreBehind, runVars, current,
     rootfsDependencyRetryLimit
<1>5. HeldIsProcessed'
  <2> SUFFICES ASSUME active # NoInstance PROVE aleph'[current] = "processed"
    BY <1>2 DEF HeldIsProcessed, runVars, current
  <2>1. aleph[current] = "processed" /\ pc # "failed"
    BY DEF IInv, HeldIsProcessed, ActiveIsCurrent
  <2>2. i # current
    <3>1. AlephProcesses(i) => i # current
      BY <2>1 DEF AlephProcesses
    <3>2. AlephForgets(i) => i # current
      <4>1. i \in forgetSent => i[1] < cand /\ cand \in Nat
        BY <2>1 DEF IInv, CleanedAreBehind, TypeOK
      <4>2. QED
        BY <4>1 DEF AlephForgets, current
    <3>3. QED
      BY <1>1, <3>1, <3>2
  <2>3. QED
    BY <1>2, <2>1, <2>2 DEF IInv, TypeOK
<1>6. OneUnaccountedInstance'
  <2>1. \A j \in Instances : j # i => aleph'[j] = aleph[j]
    BY <1>2 DEF IInv, TypeOK
  <2>2. QED
    BY <1>2, <2>1 DEF IInv, OneUnaccountedInstance, runVars, current
<1>7. QED
  BY <1>3, <1>4, <1>5, <1>6 DEF IInv

(* A guest that registers itself moves nothing else.                       *)
LEMMA GuestStepInv == ASSUME IInv, GuestStep PROVE IInv'
<1>1. PICK i \in Instances : GuestRegisters(i)
  BY DEF GuestStep
<1>2. /\ UNCHANGED <<plan, pc, cand, attempt, active, resume, attached, verified, aleph,
                     cleaned, forgetSent, domain, registered, attested, unlocked>>
      /\ guest' = [guest EXCEPT ![i] = "announced"]
  BY <1>1 DEF GuestRegisters, runVars
<1>3. TypeOK'
  BY <1>2 DEF IInv, TypeOK
<1>4. QED
  BY <1>2, <1>3 DEF IInv, Progress, ActiveIsCurrent, CleanedAreBehind, HeldIsProcessed,
     OneUnaccountedInstance, current, rootfsDependencyRetryLimit

LEMMA StutterInv == ASSUME IInv, UNCHANGED vars PROVE IInv'
BY DEF vars, runVars, alephVars, IInv, TypeOK, Progress, ActiveIsCurrent,
   CleanedAreBehind, HeldIsProcessed, OneUnaccountedInstance, current,
   rootfsDependencyRetryLimit

(* The inductive invariant of the executor is an invariant.                *)
THEOREM Inductive == Spec => []IInv
<1>1. ASSUME IInv, [Next]_vars PROVE IInv'
  <2>1. ASSUME ExecutorStep PROVE IInv'
    BY <1>1, <2>1, QuietSteps, BroadcastStep, InspectProcessedStep,
       InspectRetryStep, InspectRejectedStep, ForgetStep DEF ExecutorStep
  <2>2. QED
    BY <1>1, <2>1, AlephStepInv, GuestStepInv, StutterInv DEF Next, Terminated
<1>2. QED
  BY <1>1, IInv_Init, PTL DEF Spec

(* TypeOK for every set of plans and any number of candidates. *)
THEOREM TypeCorrect == Spec => []TypeOK
<1>1. IInv => TypeOK
  BY DEF IInv
<1>2. QED
  BY <1>1, Inductive, PTL

(* Only the instance of the last broadcast can escape forgetDeployment,    *)
(* however many candidates and rebroadcasts the plan allows.               *)
THEOREM AtMostOneUnaccounted == Spec => []OneUnaccountedInstance
<1>1. IInv => OneUnaccountedInstance
  BY DEF IInv
<1>2. QED
  BY <1>1, Inductive, PTL

-----------------------------------------------------------------------------
(* What the run has done for the instance it is working on, label by label.*)

(* instanceDomain # null means the aggregate names the current instance.   *)
DomainFollows ==
    /\ pc \in HoldingLabels /\ attached => domain = current
    /\ pc = "returned" /\ plan.customDomain => attached

(* attestAndUnlock comes before everything that uses the guest. *)
UnlockFollows ==
    /\ unlocked \subseteq attested
    /\ pc = "unlock" => current \in attested
    /\ plan.confidential /\ pc \in HoldingLabels \ {"ports", "attest", "unlock"}
          => current \in unlocked

(* A relay that got its configuration is the last instance of the run: from*)
(* then on the run returns it, or throws. Its own post comes after that,   *)
(* and only the custom domain may still throw.                             *)
ConfiguredLabels == {"verify", "register", "attach", "returned", "failed"}

RegistrationFollows ==
    /\ \A i \in Instances :
          supportsRelayBootstrapProfile(plan.profile) /\ guest[i] # "blank" =>
              /\ i = current
              /\ pc \in ConfiguredLabels \/ (pc = "forget" /\ resume = "throw")
    /\ \A i \in Instances :
          guest[i] = "announced" => supportsRelayBootstrapProfile(plan.profile)
    /\ pc \in {"verify", "register"} => guest[current] # "blank"
    /\ \A i \in registered :
          supportsRelayBootstrapProfile(plan.profile) /\ guest[i] # "blank"
    /\ registered # {} =>
          \/ pc \in {"attach", "returned"}
          \/ pc \in {"forget", "failed"} /\ plan.customDomain

Trail == DomainFollows /\ UnlockFollows /\ RegistrationFollows

LEMMA DomainStep == ASSUME IInv, DomainFollows, ExecutorStep PROVE DomainFollows'
<1> USE DEF DomainFollows, HoldingLabels, Throw, ForgetAndContinue, NextCandidate, alephVars
<1>1. CASE Broadcast
  BY <1>1, CurrentIsInstance DEF Broadcast, IInv, ActiveIsCurrent
<1>2. CASE InspectProcessed \/ InspectRetry \/ InspectRejected
  BY <1>2 DEF InspectProcessed, InspectRetry, InspectRejected
<1>3. CASE InspectTimeout \/ InspectThrows
  BY <1>3 DEF InspectTimeout, InspectThrows, IInv, ActiveIsCurrent
<1>4. CASE PublishPorts \/ Attest \/ Unlock \/ AwaitRuntime
  BY <1>4 DEF PublishPorts, Attest, Unlock, AwaitRuntime, current
<1>5. CASE AttachGuestDomain \/ AttachDomain
  <2> USE DEF attachInstanceCustomDomain, AttachGuestDomain, AttachDomain
  <2>1. active = current /\ current' = current /\ UNCHANGED plan
    BY <1>5 DEF IInv, ActiveIsCurrent, current
  <2>2. \/ pc' \in {"forget", "failed"}
        \/ domain' = current /\ attached' = TRUE
        \/ (~plan.customDomain \/ attached) /\ UNCHANGED <<attached, domain>>
    BY <1>5
  <2>3. pc \in HoldingLabels
    BY <1>5
  <2>4. QED
    BY <2>1, <2>2, <2>3
<1>6. CASE AwaitSetup \/ Configure \/ VerifyReachability
  <2>1. /\ UNCHANGED <<cand, attempt, attached, domain>>
        /\ pc \in HoldingLabels /\ pc' # "returned"
    BY <1>6 DEF AwaitSetup, Configure, VerifyReachability
  <2>2. QED
    BY <2>1 DEF current
<1>7. CASE Register
  BY <1>7 DEF Register, runVars, current
<1>8. CASE Forget
  BY <1>8 DEF Forget
<1>9. QED
  BY <1>1, <1>2, <1>3, <1>4, <1>5, <1>6, <1>7, <1>8 DEF ExecutorStep

LEMMA UnlockStep == ASSUME IInv, UnlockFollows, ExecutorStep PROVE UnlockFollows'
<1> USE DEF UnlockFollows, HoldingLabels, Throw, ForgetAndContinue, NextCandidate, alephVars
<1>1. CASE Broadcast
  BY <1>1 DEF Broadcast, IInv, ActiveIsCurrent
<1>2. CASE InspectProcessed \/ InspectRetry \/ InspectRejected
  BY <1>2 DEF InspectProcessed, InspectRetry, InspectRejected
<1>3. CASE InspectTimeout \/ InspectThrows
  BY <1>3 DEF InspectTimeout, InspectThrows
<1>4. CASE PublishPorts \/ AwaitRuntime
  BY <1>4 DEF PublishPorts, AwaitRuntime, current
<1>5. CASE Attest
  BY <1>5 DEF Attest, current
<1>6. CASE Unlock
  BY <1>6 DEF Unlock, current
<1>7. CASE AttachGuestDomain \/ AttachDomain
  BY <1>7 DEF attachInstanceCustomDomain, AttachGuestDomain, AttachDomain, current
<1>8. CASE AwaitSetup \/ Configure \/ VerifyReachability
  BY <1>8 DEF AwaitSetup, Configure, VerifyReachability, current
<1>9. CASE Register
  BY <1>9 DEF Register, runVars, current
<1>10. CASE Forget
  BY <1>10 DEF Forget
<1>11. QED
  BY <1>1, <1>2, <1>3, <1>4, <1>5, <1>6, <1>7, <1>8, <1>9, <1>10 DEF ExecutorStep

(* A step that leaves the guests and the posts alone keeps them in line if *)
(* it stays on the last instance's way, or no relay is configured yet.     *)
LEMMA RegistrationQuiet ==
  ASSUME IInv, RegistrationFollows, UNCHANGED <<plan, guest, registered>>,
         \/ pc \notin ConfiguredLabels \cup {"forget"} /\ pc' \notin {"verify", "register"}
         \/ /\ UNCHANGED <<cand, attempt>>
            /\ \/ pc' = "register" /\ pc = "verify"
               \/ pc' \in {"attach", "returned"} /\ pc \in {"register", "attach"}
               \/ /\ pc' = "forget" /\ resume' = "throw" /\ pc \in ConfiguredLabels
                  /\ registered # {} => plan.customDomain
               \/ pc' = "failed" /\ pc = "forget"
  PROVE  RegistrationFollows'
<1>1. CASE pc \notin ConfiguredLabels \cup {"forget"} /\ pc' \notin {"verify", "register"}
  <2>1. \A i \in Instances :
          supportsRelayBootstrapProfile(plan.profile) => guest[i] = "blank"
    BY <1>1 DEF RegistrationFollows
  <2>2. registered = {}
    <3>1. \A i \in registered : i \in Instances
      BY DEF IInv, TypeOK
    <3>2. QED
      BY <2>1, <3>1 DEF RegistrationFollows
  <2>3. QED
    BY <1>1, <2>1, <2>2 DEF RegistrationFollows
<1>2. CASE UNCHANGED <<cand, attempt>>
  BY <1>2 DEF RegistrationFollows, current, ConfiguredLabels
<1>3. QED
  BY <1>1, <1>2

LEMMA ConfigureFollows ==
  ASSUME IInv, RegistrationFollows, Configure PROVE RegistrationFollows'
<1>1. /\ pc = "configure" /\ UNCHANGED <<plan, cand, attempt, registered>>
      /\ guest' \in {guest, [guest EXCEPT ![current] = "configured"]}
      /\ \/ pc' = "verify" /\ guest' = [guest EXCEPT ![current] = "configured"]
         \/ pc' = "forget" /\ resume' = "throw"
  <2>1. active # NoInstance
    BY CurrentIsInstance, ExecutorNoInstance DEF Configure, IInv, ActiveIsCurrent, HoldingLabels
  <2>2. QED
    BY <2>1 DEF Configure, Throw
<1>2. /\ current \in Instances /\ current' = current
      /\ guest \in [Instances -> {"blank", "configured", "announced"}]
  BY <1>1, CurrentIsInstance DEF IInv, TypeOK, current
<1>3. registered = {}
  BY <1>1 DEF RegistrationFollows
<1>4. \A i \in Instances \ {current} : guest'[i] = guest[i]
  BY <1>1, <1>2
<1>5. /\ guest'[current] \in {guest[current], "configured"}
      /\ pc' = "verify" => guest'[current] = "configured"
  BY <1>1, <1>2
<1>6. \A i \in Instances :
        supportsRelayBootstrapProfile(plan.profile) => guest[i] = "blank"
  BY <1>1 DEF RegistrationFollows, ConfiguredLabels
<1>7. pc' \in {"verify", "forget"} /\ (pc' = "forget" => resume' = "throw")
  BY <1>1
<1>8. QED
  BY <1>1, <1>2, <1>3, <1>4, <1>5, <1>6, <1>7 DEF RegistrationFollows, ConfiguredLabels

LEMMA RegistrationStep ==
  ASSUME IInv, IInv', RegistrationFollows, ExecutorStep
  PROVE  RegistrationFollows'
<1> USE DEF Throw, ForgetAndContinue, alephVars, ConfiguredLabels
<1>1. CASE Broadcast \/ InspectProcessed \/ InspectRetry \/ InspectRejected
  <2>1. /\ UNCHANGED <<plan, guest, registered>> /\ pc \in {"create", "inspect"}
        /\ pc' \notin {"verify", "register"}
    BY <1>1 DEF Broadcast, InspectProcessed, InspectRetry, InspectRejected, NextCandidate
  <2>2. QED
    BY <2>1, RegistrationQuiet
<1>2. CASE InspectTimeout \/ InspectThrows \/ PublishPorts \/ Attest \/ Unlock
           \/ AwaitRuntime \/ AttachGuestDomain \/ AwaitSetup
  <2>1. /\ UNCHANGED <<plan, guest, registered>>
        /\ pc \in {"inspect", "ports", "attest", "unlock", "runtime", "guestDomain", "setup"}
        /\ pc' \notin {"verify", "register"}
    BY <1>2 DEF InspectTimeout, InspectThrows, PublishPorts, Attest, Unlock, AwaitRuntime,
       AttachGuestDomain, AwaitSetup, attachInstanceCustomDomain
  <2>2. QED
    BY <2>1, RegistrationQuiet
<1>3. CASE Configure
  BY <1>3, ConfigureFollows
<1>4. CASE VerifyReachability
  <2>1. /\ UNCHANGED <<plan, guest, registered, cand, attempt>> /\ pc = "verify"
        /\ pc' = "register" \/ (pc' = "forget" /\ plan.profile = "ucan-store")
    BY <1>4 DEF VerifyReachability
  <2>2. CASE pc' = "register"
    BY <2>1, <2>2, RegistrationQuiet
  <2>3. CASE pc' = "forget" /\ plan.profile = "ucan-store"
    <3>1. ~supportsRelayBootstrapProfile(plan.profile)
      BY <2>3 DEF supportsRelayBootstrapProfile
    <3>2. registered = {}
      BY <3>1 DEF RegistrationFollows
    <3>3. QED
      BY <2>1, <2>3, <3>1, <3>2 DEF RegistrationFollows
  <2>4. QED
    BY <2>1, <2>2, <2>3
<1>5. CASE Register
  <2>1. /\ registered' \subseteq registered \cup {current}
        /\ current \in registered' \ registered => supportsRelayBootstrapProfile(plan.profile)
        /\ pc = "register" /\ pc' = "attach" /\ UNCHANGED <<plan, cand, attempt, guest>>
    BY <1>5 DEF Register, runVars
  <2>2. current' = current /\ guest[current] # "blank"
    BY <2>1 DEF RegistrationFollows, current
  <2>3. QED
    BY <2>1, <2>2 DEF RegistrationFollows
<1>6. CASE AttachDomain
  <2>1. /\ UNCHANGED <<plan, guest, registered, cand, attempt>> /\ pc = "attach"
        /\ \/ pc' = "returned"
           \/ pc' = "forget" /\ resume' = "throw" /\ plan.customDomain
    <3>1. active # NoInstance
      BY <1>6, CurrentIsInstance, ExecutorNoInstance
         DEF AttachDomain, IInv, ActiveIsCurrent, HoldingLabels
    <3>2. QED
      BY <1>6, <3>1 DEF AttachDomain, attachInstanceCustomDomain
  <2>2. QED
    BY <2>1, RegistrationQuiet
<1>7. CASE Forget
  <2>1. UNCHANGED <<plan, guest, registered>> /\ pc = "forget"
    BY <1>7 DEF Forget
  <2>2. CASE resume = "throw"
    <3>1. pc' = "failed" /\ UNCHANGED <<cand, attempt>>
      BY <1>7, <2>2 DEF Forget
    <3>2. QED
      BY <2>1, <3>1, RegistrationQuiet
  <2>3. CASE resume # "throw"
    <3>1. /\ \A i \in Instances :
               supportsRelayBootstrapProfile(plan.profile) => guest[i] = "blank"
          /\ registered = {}
      <4>1. \A i \in Instances :
              supportsRelayBootstrapProfile(plan.profile) => guest[i] = "blank"
        BY <2>1, <2>3 DEF RegistrationFollows
      <4>2. registered \subseteq Instances
        BY DEF IInv, TypeOK
      <4>3. QED
        BY <4>1, <4>2 DEF RegistrationFollows
    <3>2. pc' \in {"create", "failed"}
      BY <1>7 DEF Forget, NextCandidate
    <3>3. QED
      BY <2>1, <3>1, <3>2 DEF RegistrationFollows
  <2>4. QED
    BY <2>2, <2>3
<1>8. QED
  BY <1>1, <1>2, <1>3, <1>4, <1>5, <1>6, <1>7 DEF ExecutorStep

(* The guest registers itself once it is configured, whatever the run does.*)
LEMMA GuestRegistrationStep ==
  ASSUME IInv, RegistrationFollows, GuestStep PROVE RegistrationFollows'
<1>1. PICK i \in Instances : GuestRegisters(i)
  BY DEF GuestStep
<1>2. /\ UNCHANGED <<plan, pc, resume, cand, attempt, registered>>
      /\ supportsRelayBootstrapProfile(plan.profile)
      /\ guest[i] = "configured" /\ guest' = [guest EXCEPT ![i] = "announced"]
  BY <1>1 DEF GuestRegisters, runVars
<1>3. /\ current' = current
      /\ \A j \in Instances : guest'[j] # "blank" <=> guest[j] # "blank"
  BY <1>2 DEF IInv, TypeOK, current
<1>4. i = current /\ (pc \in ConfiguredLabels \/ (pc = "forget" /\ resume = "throw"))
  BY <1>2 DEF RegistrationFollows
<1>5. pc \in {"verify", "register"} => guest'[current] # "blank"
  <2>1. pc \in {"verify", "register"} => current \in Instances
    BY CurrentIsInstance DEF IInv
  <2>2. QED
    BY <1>3, <2>1 DEF RegistrationFollows
<1>6. \A j \in registered : guest'[j] # "blank"
  BY <1>3 DEF RegistrationFollows, IInv, TypeOK
<1>7. QED
  BY <1>2, <1>3, <1>5, <1>6 DEF RegistrationFollows

(* So is the trail an attempt leaves: what must have happened before each  *)
(* of its labels.                                                          *)
THEOREM TrailHolds == Spec => [](IInv /\ Trail)
<1>1. Init => Trail
  BY DEF Init, Trail, DomainFollows, UnlockFollows, RegistrationFollows, HoldingLabels
<1>2. ASSUME IInv, IInv', Trail, [Next]_vars PROVE Trail'
  <2>1. CASE ExecutorStep
    BY <1>2, <2>1, DomainStep, UnlockStep, RegistrationStep DEF Trail
  <2>2. CASE AlephStep
    <3>1. UNCHANGED <<runVars, pc, cleaned, forgetSent, domain, registered, guest,
                     attested, unlocked>>
      BY <2>2 DEF AlephStep, AlephProcesses, AlephForgets
    <3>2. QED
      BY <1>2, <3>1 DEF Trail, DomainFollows, UnlockFollows, RegistrationFollows,
         runVars, current
  <2>3. CASE GuestStep
    <3>1. UNCHANGED <<runVars, pc, domain, attested, unlocked>>
      BY <2>3 DEF GuestStep, GuestRegisters
    <3>2. DomainFollows' /\ UnlockFollows'
      BY <1>2, <3>1 DEF Trail, DomainFollows, UnlockFollows, runVars, current
    <3>3. QED
      BY <1>2, <2>3, <3>2, GuestRegistrationStep DEF Trail
  <2>4. CASE UNCHANGED vars
    BY <1>2, <2>4 DEF Trail, DomainFollows, UnlockFollows, RegistrationFollows, vars,
       runVars, alephVars, current
  <2>5. QED
    BY <1>2, <2>1, <2>2, <2>3, <2>4 DEF Next, Terminated
<1>3. QED
  BY <1>1, <1>2, Inductive, PTL DEF Spec

(* The result is processed, no FORGET names it, and the custom domain is   *)
(* its own.                                                                *)
THEOREM ResultLive == Spec => []ResultIsLive
<1>1. IInv /\ Trail => ResultIsLive
  <2> SUFFICES ASSUME IInv, Trail, pc = "returned" PROVE ResultIsLive
    BY DEF ResultIsLive
  <2>1. active = current /\ current \in Instances
    BY CurrentIsInstance DEF IInv, ActiveIsCurrent, HoldingLabels
  <2>2. aleph[current] = "processed"
    BY <2>1, ExecutorNoInstance DEF IInv, HeldIsProcessed
  <2>3. current \notin forgetSent
    BY DEF IInv, TypeOK, CleanedAreBehind, current
  <2>4. plan.customDomain => domain = current
    BY DEF Trail, DomainFollows, HoldingLabels
  <2>5. QED
    BY <2>2, <2>3, <2>4 DEF ResultIsLive
<1>2. QED
  BY <1>1, TrailHolds, PTL

(* The passphrase goes only to guests whose attestation verified.          *)
THEOREM PassphraseSafe == Spec => []PassphraseOnlyAfterAttestation
<1>1. Trail => PassphraseOnlyAfterAttestation
  BY DEF Trail, UnlockFollows, PassphraseOnlyAfterAttestation, HoldingLabels
<1>2. QED
  BY <1>1, TrailHolds, PTL

(* Only the last instance of a run gets into the registry, by whomever; an *)
(* orphan means that the run failed, and one with the run's own post that  *)
(* it has a custom domain.                                                 *)
THEOREM OrphanRegistrations == Spec => []RegisteredIsLast
<1>1. IInv /\ Trail => RegisteredIsLast
  <2> SUFFICES ASSUME IInv, Trail,
                      NEW i \in registered \cup {j \in Instances : guest[j] = "announced"}
               PROVE  /\ i = current
                      /\ i \in cleaned => pc = "failed"
                      /\ i \in registered \cap cleaned => plan.customDomain
    BY DEF RegisteredIsLast
  <2>1. i \in Instances /\ guest[i] # "blank" /\ supportsRelayBootstrapProfile(plan.profile)
    BY DEF IInv, TypeOK, Trail, RegistrationFollows
  <2>2. i = current
    BY <2>1 DEF Trail, RegistrationFollows
  <2>3. i \in cleaned => pc = "failed"
    <3>1. pc # "failed" => \A k \in cleaned : k[1] < cand /\ cand \in Nat
      BY DEF IInv, CleanedAreBehind, TypeOK
    <3>2. QED
      BY <2>2, <3>1 DEF current
  <2>4. i \in registered \cap cleaned => plan.customDomain
    BY <2>3 DEF Trail, RegistrationFollows
  <2>5. QED
    BY <2>2, <2>3, <2>4
<1>2. QED
  BY <1>1, TrailHolds, PTL

-----------------------------------------------------------------------------
(* The executor implements InstanceOwnership.                              *)

LEMMA OwnershipInit == Init => Ownership!Init
BY DEF Init, Ownership!Init

(* A step that keeps activeItemHash and the forgotten instances, and ends  *)
(* the run at most without holding anything, is a stutter or a Fail.       *)
LEMMA OwnershipQuiet ==
  ASSUME UNCHANGED <<active, cleaned>>, pc \notin {"returned", "failed"},
         pc' # "returned", pc' = "failed" => active = NoInstance
  PROVE  [Ownership!Next]_(Ownership!ownershipVars)
<1>1. CASE pc' = "failed"
  BY <1>1 DEF Ownership!Next, Ownership!Fail
<1>2. CASE pc' # "failed"
  BY <1>2 DEF Ownership!ownershipVars
<1>3. QED
  BY <1>1, <1>2

LEMMA OwnershipStep ==
  ASSUME IInv, ExecutorStep
  PROVE  [Ownership!Next]_(Ownership!ownershipVars)
<1> USE DEF Throw, ForgetAndContinue, NextCandidate, alephVars
<1>1. CASE Broadcast
  BY <1>1, OwnershipQuiet DEF Broadcast
<1>2. CASE InspectProcessed
  <2>1. current \in Instances /\ current \notin cleaned /\ active = NoInstance
    BY <1>2, CurrentIsInstance
    DEF InspectProcessed, IInv, TypeOK, ActiveIsCurrent, CleanedAreBehind, current
  <2>2. Ownership!Take(current)
    BY <1>2, <2>1 DEF InspectProcessed, Ownership!Take
  <2>3. QED
    BY <2>1, <2>2 DEF Ownership!Next
<1>3. CASE InspectRetry \/ InspectRejected \/ InspectTimeout \/ InspectThrows
  BY <1>3, OwnershipQuiet
  DEF InspectRetry, InspectRejected, InspectTimeout, InspectThrows, IInv, ActiveIsCurrent
<1>4. CASE PublishPorts \/ Attest \/ Unlock \/ AwaitRuntime
  BY <1>4, OwnershipQuiet DEF PublishPorts, Attest, Unlock, AwaitRuntime
<1>5. CASE AttachGuestDomain \/ AwaitSetup \/ Configure
  BY <1>5, OwnershipQuiet
  DEF AttachGuestDomain, AwaitSetup, Configure, attachInstanceCustomDomain
<1>6. CASE VerifyReachability
  BY <1>6, OwnershipQuiet DEF VerifyReachability
<1>7. CASE Register
  BY <1>7, OwnershipQuiet DEF Register, runVars
<1>8. CASE AttachDomain
  <2>1. /\ pc = "attach" /\ active = current /\ active # NoInstance
        /\ UNCHANGED <<active, cleaned>>
    BY <1>8, CurrentIsInstance, ExecutorNoInstance
    DEF AttachDomain, IInv, ActiveIsCurrent, HoldingLabels
  <2>2. CASE pc' = "returned"
    BY <2>1, <2>2 DEF Ownership!Next, Ownership!Return
  <2>3. CASE pc' # "returned"
    BY <1>8, <2>1, <2>3, OwnershipQuiet DEF AttachDomain, attachInstanceCustomDomain
  <2>4. QED
    BY <2>2, <2>3
<1>9. CASE Forget
  <2>1. /\ pc = "forget" /\ pc' \in {"create", "failed"}
        /\ cleaned' = cleaned \cup {current}
        /\ active' = NoInstance
        /\ active = NoInstance \/ active = current
    BY <1>9 DEF Forget, IInv, ActiveIsCurrent
  <2>2. CASE active = NoInstance
    <3>1. current \in Instances /\ current \notin cleaned
      BY <2>1, CurrentIsInstance DEF IInv, TypeOK, CleanedAreBehind, current
    <3>2. Ownership!Discard(current)
      BY <2>1, <2>2, <3>1 DEF Ownership!Discard
    <3>3. QED
      BY <3>1, <3>2 DEF Ownership!Next
  <2>3. CASE active # NoInstance
    BY <2>1, <2>3 DEF Ownership!Next, Ownership!Release
  <2>4. QED
    BY <2>2, <2>3
<1>10. QED
  BY <1>1, <1>2, <1>3, <1>4, <1>5, <1>6, <1>7, <1>8, <1>9 DEF ExecutorStep

(* For any plans, a run answers for one confirmed instance at a time, fails*)
(* holding none, and never returns one it forgot.                          *)
THEOREM Refinement == Spec => ImplementsOwnership
<1>1. ASSUME IInv, [Next]_vars PROVE [Ownership!Next]_(Ownership!ownershipVars)
  <2>1. CASE ExecutorStep
    BY <1>1, <2>1, OwnershipStep
  <2>2. CASE AlephStep \/ GuestStep \/ UNCHANGED vars
    <3>1. UNCHANGED <<active, cleaned, pc>>
      BY <2>2 DEF AlephStep, GuestStep, AlephProcesses, AlephForgets, GuestRegisters, vars,
         runVars, alephVars
    <3>2. QED
      BY <3>1 DEF Ownership!ownershipVars
  <2>3. QED
    BY <1>1, <2>1, <2>2 DEF Next, Terminated
<1>2. QED
  BY <1>1, OwnershipInit, Inductive, PTL DEF Spec, ImplementsOwnership, Ownership!Spec

-----------------------------------------------------------------------------
(***************************************************************************)
(* SitePublication: the uploads a site keeps                               *)
(*                                                                         *)
(* A history that reads and overlapping runs may cut short stays in the    *)
(* order of the records (InOrder), so what it has keepCount versions of    *)
(* above it is that old among the records too (RoomAbove, OlderAreAged);   *)
(* a whole history misses none (NoGaps, AgedAreOlder).                     *)
(***************************************************************************)

(* How many uploads of a site are recorded. *)
Last(s) == Len(recorded[s])

Past(r) == run[r].pc \notin {"idle", "store", "verify", "website", "record"}
Retaining(r) == run[r].pc \in {"linked?", "stored?", "forget"}

(* Upload i of site s is older than its newest keepCount. *)
Aged(s, i) == keepCount >= 1 /\ i + keepCount <= Last(s)

(* The history of an entry is in the order of the records h, before record *)
(* n.                                                                      *)
InOrder(h, entry, n) ==
    /\ \A v \in DOMAIN entry.history : v < entry.version
    /\ \A v \in DOMAIN entry.history :
          \E i \in DOMAIN h : i < n /\ h[i] = entry.history[v]
    /\ \A v, w \in DOMAIN entry.history : v < w =>
          \A i, j \in DOMAIN h :
              h[i] = entry.history[v] /\ h[j] = entry.history[w] => i < j

-----------------------------------------------------------------------------
(* Counting *)

(* A strictly increasing map to 1..n leaves room above every value.        *)
LEMMA RoomAbove ==
    ASSUME NEW D \in SUBSET Nat, NEW n \in Nat, NEW p \in [D -> 1..n],
           \A v, w \in D : v < w => p[v] < p[w],
           NEW u \in D
    PROVE  /\ IsFiniteSet({x \in D : x > u})
           /\ Cardinality({x \in D : x > u}) \in Nat
           /\ Cardinality({x \in D : x > u}) <= n - p[u]
<1>1. /\ u \in Nat /\ p[u] \in 1..n
      /\ \A x \in D : x \in Nat /\ p[x] \in 1..n
  OBVIOUS
<1> DEFINE A == {x \in D : x > u}
           B == (p[u] + 1)..n
           f == [x \in A |-> p[x]]
<1>2. ASSUME NEW x \in A PROVE p[x] \in B
  <2>1. u < x /\ x \in D
    BY <1>1
  <2>2. p[u] < p[x]
    BY <2>1
  <2>3. QED
    BY <1>1, <2>1, <2>2
<1>3. ASSUME NEW x \in A, NEW y \in A, f[x] = f[y] PROVE x = y
  <2>1. x \in Nat /\ y \in Nat /\ p[x] = p[y] /\ p[x] \in Nat
    BY <1>3, <1>1
  <2>2. ~(x < y) /\ ~(y < x)
    BY <2>1
  <2>3. QED
    BY <2>1, <2>2
<1>4. f \in Injection(A, B)
  BY <1>2, <1>3 DEF Injection, IsInjective
<1>5. IsFiniteSet(B) /\ Cardinality(B) = n - p[u]
  <2>1. PICK k \in 1..n : k = p[u]
    BY <1>1
  <2>2. IsFiniteSet((k + 1)..n) /\ Cardinality((k + 1)..n) = n - k
    BY FS_Interval
  <2>3. QED
    BY <2>1, <2>2
<1>6. IsFiniteSet(A) /\ Cardinality(A) <= Cardinality(B)
  BY <1>4, <1>5, FS_Injection
<1>7. QED
  BY <1>5, <1>6, FS_CardinalityType

(* If it takes n values it takes all of them, and the room is full.        *)
LEMMA NoGaps ==
    ASSUME NEW D \in SUBSET Nat, NEW n \in Nat, NEW p \in [D -> 1..n],
           \A v, w \in D : v < w => p[v] < p[w],
           Cardinality(D) = n, NEW i \in 1..n
    PROVE  \E v \in D : p[v] = i /\ Cardinality({x \in D : x > v}) = n - i
<1>1. ASSUME NEW x \in D, NEW y \in D, p[x] = p[y] PROVE x = y
  <2>1. x \in Nat /\ y \in Nat /\ p[x] \in Nat
    OBVIOUS
  <2>2. ~(x < y) /\ ~(y < x)
    BY <1>1, <2>1
  <2>3. QED
    BY <2>1, <2>2
<1>2. p \in Injection(D, 1..n)
  BY <1>1 DEF Injection, IsInjective
<1>3. IsFiniteSet(1..n) /\ Cardinality(1..n) = n
  BY FS_Interval
<1>4. p \in Surjection(D, 1..n)
  BY <1>2, <1>3, FS_Injection
<1>5. PICK v \in D : p[v] = i
  BY <1>4 DEF Surjection
<1> DEFINE A == {x \in D : x > v}
           B == (i + 1)..n
           f == [x \in A |-> p[x]]
<1>6. f \in [A -> B]
  <2>1. ASSUME NEW x \in A PROVE p[x] \in B
    <3>1. v < x /\ x \in D /\ p[x] \in 1..n
      BY <2>1
    <3>2. p[v] < p[x]
      BY <3>1
    <3>3. QED
      BY <1>5, <3>1, <3>2
  <2>2. QED
    BY <2>1
<1>7. f \in Injection(A, B)
  BY <1>1, <1>6 DEF Injection, IsInjective
<1>8. ASSUME NEW j \in B PROVE \E x \in A : f[x] = j
  <2>1. PICK x \in D : p[x] = j
    BY <1>4, <1>8 DEF Surjection
  <2>2. x \in Nat /\ v \in Nat /\ j > i
    BY <1>8
  <2>3. ~(x < v) /\ x # v
    BY <1>5, <2>1, <2>2
  <2>4. QED
    BY <2>1, <2>2, <2>3
<1>9. f \in Surjection(A, B)
  BY <1>6, <1>8 DEF Surjection
<1>10. IsFiniteSet(B) /\ Cardinality(B) = n - i
  BY FS_Interval
<1>11. Cardinality(A) = Cardinality(B)
  BY <1>7, <1>9, <1>10, FS_Injection
<1>12. QED
  BY <1>5, <1>10, <1>11

-----------------------------------------------------------------------------
(* What retention picks, in the order of the records. *)

LEMMA EntryFacts ==
    ASSUME NEW e \in Entry
    PROVE  /\ e.version \in Nat /\ e.volume \in Runs
           /\ DOMAIN e.history \in SUBSET Nat /\ DOMAIN e.history = 1..(e.version - 1)
           /\ \A v \in DOMAIN e.history : e.history[v] \in Runs
<1>1. /\ e.version \in Nat /\ e.volume \in Runs /\ e.history \in Seq(Runs)
      /\ e.version = Len(e.history) + 1
  BY DEF Entry
<1>2. DOMAIN e.history = 1..Len(e.history) /\ Len(e.history) = e.version - 1
  BY <1>1
<1>3. QED
  BY <1>1, <1>2

(* Where the uploads of a history were recorded. *)
positions(s, e, n) ==
    [v \in DOMAIN e.history |->
        CHOOSE i \in DOMAIN recorded[s] : i < n /\ recorded[s][i] = e.history[v]]

LEMMA PositionFacts ==
    ASSUME NEW s \in Sites, recorded[s] \in Seq(Runs), NEW e \in Entry,
           NEW m \in Nat, InOrder(recorded[s], e, m + 1)
    PROVE  /\ positions(s, e, m + 1) \in [DOMAIN e.history -> 1..m]
           /\ \A v \in DOMAIN e.history :
                 /\ positions(s, e, m + 1)[v] \in DOMAIN recorded[s]
                 /\ recorded[s][positions(s, e, m + 1)[v]] = e.history[v]
           /\ \A v, w \in DOMAIN e.history :
                 v < w => positions(s, e, m + 1)[v] < positions(s, e, m + 1)[w]
<1> DEFINE D == DOMAIN e.history
           p == positions(s, e, m + 1)
<1>1. DOMAIN recorded[s] = 1..Len(recorded[s]) /\ Len(recorded[s]) \in Nat
  OBVIOUS
<1>2. ASSUME NEW v \in D
      PROVE  /\ p[v] \in DOMAIN recorded[s] /\ p[v] < m + 1
             /\ recorded[s][p[v]] = e.history[v]
  <2>1. \E i \in DOMAIN recorded[s] : i < m + 1 /\ recorded[s][i] = e.history[v]
    BY DEF InOrder
  <2>2. p[v] = CHOOSE i \in DOMAIN recorded[s] : i < m + 1 /\ recorded[s][i] = e.history[v]
    BY DEF positions
  <2>3. QED
    BY <2>1, <2>2
<1>3. \A v \in D : p[v] \in 1..m
  BY <1>1, <1>2
<1>4. p \in [D -> 1..m]
  BY <1>3 DEF positions
<1>5. \A v, w \in D : v < w => p[v] < p[w]
  BY <1>2 DEF InOrder
<1>6. QED
  BY <1>2, <1>4, <1>5

(* What is older than the newest keepCount of the history is so among the  *)
(* records.                                                                *)
LEMMA OlderAreAged ==
    ASSUME NEW s \in Sites, recorded[s] \in Seq(Runs), NEW e \in Entry,
           InOrder(recorded[s], e, Last(s)), keepCount >= 1, NEW u \in older(e)
    PROVE  u \in Runs /\ \E i \in DOMAIN recorded[s] : recorded[s][i] = u /\ Aged(s, i)
<1> DEFINE D == DOMAIN e.history
<1>1. PICK v \in D : /\ u = e.history[v]
                     /\ 1 + Cardinality({x \in D : x > v}) >= keepCount
  BY DEF older
<1>2. DOMAIN recorded[s] = 1..Last(s) /\ Last(s) \in Nat
  BY DEF Last
<1>3. \E i \in DOMAIN recorded[s] : i < Last(s)
  BY <1>1 DEF InOrder
<1>4. PICK m \in Nat : Last(s) = m + 1
  <2>1. Last(s) - 1 \in Nat /\ Last(s) = (Last(s) - 1) + 1
    BY <1>2, <1>3
  <2>2. QED
    BY <2>1
<1>5. InOrder(recorded[s], e, m + 1)
  BY <1>4
<1> DEFINE p == positions(s, e, m + 1)
<1>6. /\ p \in [D -> 1..m] /\ p[v] \in DOMAIN recorded[s]
      /\ recorded[s][p[v]] = e.history[v]
      /\ \A x, w \in D : x < w => p[x] < p[w]
  BY <1>1, <1>5, PositionFacts
<1>7. D \in SUBSET Nat
  BY EntryFacts
<1> HIDE DEF p
<1>8. /\ Cardinality({x \in D : x > v}) \in Nat
      /\ Cardinality({x \in D : x > v}) <= m - p[v]
  BY <1>1, <1>6, <1>7, RoomAbove
<1>9. p[v] \in 1..m
  BY <1>1, <1>6
<1>10. Aged(s, p[v])
  <2>1. PICK c : c = Cardinality({x \in D : x > v})
    OBVIOUS
  <2>2. c \in Nat /\ c <= m - p[v] /\ 1 + c >= keepCount
    BY <1>1, <1>8, <2>1
  <2>3. keepCount \in Nat
    BY SiteAssumption
  <2>4. QED
    BY <1>4, <1>9, <2>2, <2>3 DEF Aged
<1>11. QED
  BY <1>1, <1>6, <1>10, EntryFacts

(* A history that lacks none of the records before record n has every one  *)
(* that is keepCount behind it among its older.                            *)
LEMMA AgedAreOlder ==
    ASSUME NEW s \in Sites, recorded[s] \in Seq(Runs), NEW e \in Entry,
           NEW n \in DOMAIN recorded[s], InOrder(recorded[s], e, n),
           Cardinality(DOMAIN e.history) = n - 1,
           NEW i \in DOMAIN recorded[s], keepCount >= 1, i + keepCount <= n
    PROVE  recorded[s][i] \in older(e)
<1> DEFINE D == DOMAIN e.history
<1>1. n \in Nat /\ i \in Nat /\ n >= 1 /\ i >= 1 /\ keepCount \in Nat
  BY SiteAssumption
<1>2. PICK m \in Nat : n = m + 1 /\ i \in 1..m
  <2>1. n - 1 \in Nat /\ n = (n - 1) + 1 /\ i \in 1..(n - 1)
    BY <1>1
  <2>2. QED
    BY <2>1
<1>3. InOrder(recorded[s], e, m + 1) /\ Cardinality(D) = m
  BY <1>2
<1> DEFINE p == positions(s, e, m + 1)
<1>4. /\ p \in [D -> 1..m]
      /\ \A v \in D : recorded[s][p[v]] = e.history[v]
      /\ \A x, w \in D : x < w => p[x] < p[w]
  BY <1>3, PositionFacts
<1>5. D \in SUBSET Nat
  BY EntryFacts
<1> HIDE DEF p
<1>6. PICK v \in D : p[v] = i /\ Cardinality({x \in D : x > v}) = m - i
  BY <1>2, <1>3, <1>4, <1>5, NoGaps
<1>7. recorded[s][i] = e.history[v]
  BY <1>4, <1>6
<1>8. 1 + (m - i) >= keepCount
  BY <1>1, <1>2
<1>9. 1 + Cardinality({x \in D : x > v}) >= keepCount
  BY <1>6, <1>8
<1>10. QED
  BY <1>7, <1>9 DEF older

-----------------------------------------------------------------------------
(* The inductive invariant *)

StoreStatus == {"none", "pending", "processed", "rejected", "forgotten"}

Stages ==
    {"idle", "store", "verify", "website", "record", "linked?", "stored?", "forget",
     "await", "attach"} \cup Outcomes

SiteRun ==
    [pc: Stages, entry: Entry \cup {None}, forget: SUBSET Runs, stopped: BOOLEAN, host: Nat]

SiteTypeOK ==
    /\ store \in [Runs -> StoreStatus]
    /\ websites \in [Sites -> Entry \cup {None}]
    /\ domains \in [Sites -> Runs \cup {None}]
    /\ records \in [Sites -> Seq(Entry)]
    /\ links \in [Sites -> Seq(Runs)]
    /\ forgets \in SUBSET (SUBSET Runs)
    /\ run \in [Runs -> SiteRun]
    /\ recorded \in [Sites -> Seq(Runs)]
    /\ unsure \in SUBSET Sites
    /\ late \in SUBSET (Runs \X Runs)
    /\ failures \in Nat

(* An upload is recorded once, *)
RecordedOnce ==
    \A s \in Sites : \A i, j \in DOMAIN recorded[s] : recorded[s][i] = recorded[s][j] => i = j

(* by a run of the site, and forgotten only when it is old. *)
RecordedFit ==
    \A s \in Sites : \A i \in DOMAIN recorded[s] :
        /\ site[recorded[s][i]] = s
        /\ Past(recorded[s][i])
        /\ \/ store[recorded[s][i]] = "processed"
           \/ store[recorded[s][i]] = "forgotten" /\ Aged(s, i)

(* The entries of a site that are in force or may come into force. *)
Live(s) ==
    {e \in {websites[s]} : e # None} \cup {records[s][i] : i \in DOMAIN records[s]}

(* Each was recorded, and its history before it. *)
WebsitesFit ==
    \A s \in Sites : \A e \in Live(s) :
        /\ e \in Entry
        /\ \E k \in DOMAIN recorded[s] :
              recorded[s][k] = e.volume /\ InOrder(recorded[s], e, k)

(* The entry of a run that is about to be the next record, or is one. *)
EntriesFit ==
    \A r \in Runs :
        /\ at(r, "record") => /\ run[r].entry \in Entry
                              /\ InOrder(recorded[site[r]], run[r].entry, Last(site[r]) + 1)
                              /\ run[r].entry.volume = r
        /\ Retaining(r) => /\ run[r].entry \in Entry
                           /\ InOrder(recorded[site[r]], run[r].entry, Last(site[r]))
                           /\ keepCount >= 1

StoresFit ==
    \A r \in Runs :
        /\ at(r, "idle") => store[r] = "none"
        /\ run[r].pc \in {"verify", "website", "record"} => store[r] = "processed"

(* Only what is old is about to be forgotten. *)
ForgetsFit ==
    \A r \in Runs : \A u \in run[r].forget :
        /\ run[r].pc \in {"stored?", "forget"}
        /\ \E i \in DOMAIN recorded[site[r]] : recorded[site[r]][i] = u /\ Aged(site[r], i)

InTurn == \A s \in Sites \ Overlap : \A q, r \in running(s) : q = r

(* What a FORGET names that is not applied yet is old, and noted as late. *)
FlightFit ==
    \A b \in forgets :
        /\ \E r \in Runs : \A u \in b : <<r, u>> \in late
        /\ \A u \in b : \E s \in Sites : \E i \in DOMAIN recorded[s] :
              recorded[s][i] = u /\ Aged(s, i)

past(e) == {e.history[v] : v \in DOMAIN e.history}

(* An entry that is not in force yet is no other's, *)
QueuedOnce ==
    \A s \in Sites : \A i \in DOMAIN records[s] :
        /\ websites[s] # None => records[s][i].volume # websites[s].volume
        /\ \A j \in DOMAIN records[s] :
              records[s][i].volume = records[s][j].volume => i = j

(* and in nobody's history, *)
QueuedIsNew ==
    \A s \in Sites : \A i \in DOMAIN records[s] :
        /\ \A e \in Live(s) : records[s][i].volume \notin past(e)
        /\ \A q \in Runs : site[q] = s /\ (at(q, "record") \/ Retaining(q)) =>
              records[s][i].volume \notin past(run[q].entry)

(* so no retention names what is or may come into force. *)
LiveStays ==
    \A s \in Sites : \A e \in Live(s) :
        /\ store[e.volume] = "processed"
        /\ \A q \in Runs : e.volume \notin run[q].forget
        /\ \A b \in forgets : e.volume \notin b

(* Where runs come in turn, a linked upload that no late message names is  *)
(* stored and no run is about to forget it.                                *)
DomainsFit ==
    \A s \in Sites : domains[s] # None =>
        /\ site[domains[s]] = s
        /\ s \notin Overlap /\ ~isLate(domains[s]) =>
              /\ store[domains[s]] = "processed"
              /\ \A q \in Runs : domains[s] \notin run[q].forget

LateLinksFit ==
    \A s \in Sites : \A i \in DOMAIN links[s] :
        site[links[s][i]] = s /\ isLate(links[s][i])

AttachFits ==
    \A r \in Runs :
        at(r, "attach") /\ site[r] \notin Overlap /\ ~isLate(r) => store[r] = "processed"

(* Where nothing was late the last record is in force. *)
QuietFit ==
    \A s \in Sites \ unsure :
        /\ records[s] = <<>> /\ links[s] = <<>>
        /\ Last(s) # 0 => websites[s] # None /\ websites[s].volume = recorded[s][Last(s)]

(* A history that was never cut short lacks only the newest upload. *)
HistoryWhole ==
    \A r \in Runs : Retaining(r) =>
        \E j \in DOMAIN recorded[site[r]] :
            /\ recorded[site[r]][j] = r
            /\ InOrder(recorded[site[r]], run[r].entry, j)
            /\ site[r] \notin unsure => Cardinality(DOMAIN run[r].entry.history) = j - 1

(* What a sweep has left out so far is forgotten, linked to the domain or  *)
(* about to be forgotten.                                                  *)
SweepFits ==
    \A r \in Runs : site[r] \notin Overlap \cup unsure /\ run[r].pc \in {"stored?", "forget"} =>
        \A u \in older(run[r].entry) :
            \/ u \in run[r].forget \/ store[u] = "forgotten" \/ u = domains[site[r]]
            \/ <<r, u>> \in late

RecordsFit ==
    RecordedOnce /\ RecordedFit /\ WebsitesFit /\ EntriesFit /\ StoresFit /\ ForgetsFit /\ FlightFit

QueuesFit == QueuedOnce /\ QueuedIsNew /\ LiveStays

LinksFit == InTurn /\ DomainsFit /\ LateLinksFit /\ AttachFits

SweepsFit == QuietFit /\ HistoryWhole /\ SweepFits

SiteInv == SiteTypeOK /\ RecordsFit /\ QueuesFit /\ LinksFit /\ SweepsFit

-----------------------------------------------------------------------------
(* The steps of a run *)

LEMMA GoesFacts ==
    ASSUME SiteTypeOK, NEW r \in Runs, NEW p \in Stages
    PROVE  /\ goes(r, p) \in [Runs -> SiteRun]
           /\ goes(r, p)[r].pc = p
           /\ goes(r, p)[r].entry = run[r].entry
           /\ goes(r, p)[r].forget = run[r].forget
           /\ goes(r, p)[r].stopped = run[r].stopped
           /\ \A q \in Runs : q # r => goes(r, p)[q] = run[q]
<1>1. PICK o \in SiteRun : o = run[r]
  BY DEF SiteTypeOK
<1> DEFINE x == [o EXCEPT !.pc = p]
<1>2. /\ x \in SiteRun /\ x.pc = p /\ x.entry = o.entry /\ x.forget = o.forget
      /\ x.stopped = o.stopped
  BY DEF SiteRun
<1>3. goes(r, p) = [run EXCEPT ![r] = x]
  BY <1>1 DEF goes
<1> HIDE DEF x
<1>4. QED
  BY <1>1, <1>2, <1>3 DEF SiteTypeOK

LEMMA StageFacts ==
    /\ {"idle", "store", "verify", "website", "record", "linked?", "stored?", "forget",
        "await", "attach", "done", "failed", "linkFailed", "linked"} \subseteq Stages
  BY DEF Stages, Outcomes

(* A read of the entry *)
withEntry(r, e) == [run EXCEPT ![r].pc = "record", ![r].entry = e]

LEMMA WithEntryFacts ==
    ASSUME SiteTypeOK, NEW r \in Runs, NEW e \in Entry
    PROVE  /\ withEntry(r, e) \in [Runs -> SiteRun]
           /\ withEntry(r, e)[r].pc = "record"
           /\ withEntry(r, e)[r].entry = e
           /\ withEntry(r, e)[r].forget = run[r].forget
           /\ \A q \in Runs : q # r => withEntry(r, e)[q] = run[q]
<1>1. PICK o \in SiteRun : o = run[r]
  BY DEF SiteTypeOK
<1> DEFINE x == [o EXCEPT !.pc = "record", !.entry = e]
<1>2. /\ x \in SiteRun /\ x.pc = "record" /\ x.entry = e /\ x.forget = o.forget
  <2>1. "record" \in Stages /\ e \in Entry \cup {None}
    BY DEF Stages
  <2>2. QED
    BY <2>1 DEF SiteRun
<1>3. withEntry(r, e) = [run EXCEPT ![r] = x]
  BY <1>1 DEF withEntry
<1> HIDE DEF x
<1>4. QED
  BY <1>1, <1>2, <1>3 DEF SiteTypeOK

(* A step of retention *)
withForget(r, p, f) == [run EXCEPT ![r].pc = p, ![r].forget = f]

LEMMA WithForgetFacts ==
    ASSUME SiteTypeOK, NEW r \in Runs, NEW p \in Stages, NEW f \in SUBSET Runs
    PROVE  /\ withForget(r, p, f) \in [Runs -> SiteRun]
           /\ withForget(r, p, f)[r].pc = p
           /\ withForget(r, p, f)[r].entry = run[r].entry
           /\ withForget(r, p, f)[r].forget = f
           /\ withForget(r, p, f)[r].stopped = run[r].stopped
           /\ \A q \in Runs : q # r => withForget(r, p, f)[q] = run[q]
<1>1. PICK o \in SiteRun : o = run[r]
  BY DEF SiteTypeOK
<1> DEFINE x == [o EXCEPT !.pc = p, !.forget = f]
<1>2. /\ x \in SiteRun /\ x.pc = p /\ x.entry = o.entry /\ x.forget = f
      /\ x.stopped = o.stopped
  BY DEF SiteRun
<1>3. withForget(r, p, f) = [run EXCEPT ![r] = x]
  BY <1>1 DEF withForget
<1> HIDE DEF x
<1>4. QED
  BY <1>1, <1>2, <1>3 DEF SiteTypeOK

(* Retention stops *)
LEMMA StopFacts ==
    ASSUME SiteTypeOK, NEW r \in Runs,
           run' = [run EXCEPT ![r].pc = "done", ![r].forget = {}, ![r].stopped = TRUE]
    PROVE  /\ run' \in [Runs -> SiteRun]
           /\ run'[r].pc = "done" /\ run'[r].forget = {} /\ run'[r].stopped = TRUE
           /\ run'[r].entry = run[r].entry
           /\ \A q \in Runs : q # r => run'[q] = run[q]
<1>0. run \in [Runs -> SiteRun]
  BY DEF SiteTypeOK
<1>1. PICK o \in SiteRun : o = run[r]
  BY <1>0
<1> DEFINE x == [o EXCEPT !.pc = "done", !.forget = {}, !.stopped = TRUE]
<1>2. /\ x \in SiteRun /\ x.pc = "done" /\ x.entry = o.entry /\ x.forget = {} /\ x.stopped = TRUE
  <2>1. "done" \in Stages /\ {} \in SUBSET Runs /\ TRUE \in BOOLEAN
    BY DEF Stages, Outcomes
  <2>2. QED
    BY <2>1 DEF SiteRun
<1>3. run' = [run EXCEPT ![r] = x]
  BY <1>1
<1> HIDE DEF x
<1>4. run'[r] = x /\ run' \in [Runs -> SiteRun] /\ \A q \in Runs : q # r => run'[q] = run[q]
  BY <1>0, <1>2, <1>3
<1>5. QED
  BY <1>1, <1>2, <1>4

(* A link job tries a host *)
LEMMA HostFacts ==
    ASSUME SiteTypeOK, NEW r \in Runs, NEW h \in Nat,
           run' = [run EXCEPT ![r].pc = "await", ![r].host = h]
    PROVE  /\ run' \in [Runs -> SiteRun]
           /\ run'[r].pc = "await" /\ run'[r].forget = run[r].forget
           /\ run'[r].entry = run[r].entry
           /\ \A q \in Runs : q # r => run'[q] = run[q]
<1>0. run \in [Runs -> SiteRun]
  BY DEF SiteTypeOK
<1>1. PICK o \in SiteRun : o = run[r]
  BY <1>0
<1> DEFINE x == [o EXCEPT !.pc = "await", !.host = h]
<1>2. /\ x \in SiteRun /\ x.pc = "await" /\ x.entry = o.entry /\ x.forget = o.forget
  <2>1. "await" \in Stages
    BY DEF Stages
  <2>2. QED
    BY <2>1 DEF SiteRun
<1>3. run' = [run EXCEPT ![r] = x]
  BY <1>1
<1> HIDE DEF x
<1>4. QED
  BY <1>0, <1>1, <1>2, <1>3

(* What the steps of run r do, field by field *)

SameEntry(r) == run'[r].entry = run[r].entry /\ run'[r].forget = run[r].forget

SameLedger == websites' = websites /\ records' = records /\ recorded' = recorded /\ unsure' = unsure

SameDomains == domains' = domains /\ links' = links

SameForgets == forgets' = forgets /\ late' = late

Alone(r) == site[r] \in Overlap \/ running(site[r]) = {}

Uploads(r) ==
    /\ run[r].pc = "idle" /\ Alone(r)
    /\ run'[r].pc \in {"store", "failed"} /\ SameEntry(r)
    /\ store' = [store EXCEPT ![r] = "none"] \/ store' = [store EXCEPT ![r] = "pending"]
    /\ SameLedger /\ SameDomains /\ SameForgets

Decided(r) ==
    /\ run' = run
    /\ store[r] = "pending"
    /\ store' = [store EXCEPT ![r] = "processed"] \/ store' = [store EXCEPT ![r] = "rejected"]
    /\ SameLedger /\ SameDomains /\ SameForgets

Waits(r) ==
    /\ \/ /\ run[r].pc = "store"
          /\ run'[r].pc \in {"done", "failed"} \/ (run'[r].pc = "verify" /\ store[r] = "processed")
       \/ run[r].pc = "verify" /\ run'[r].pc \in {"website", "failed"}
    /\ SameEntry(r) /\ store' = store /\ SameLedger /\ SameDomains /\ SameForgets

Reads(r) ==
    /\ run[r].pc = "website" /\ run'[r].pc = "record"
    /\ \/ run'[r].entry = FirstVersion(r)
       \/ /\ websites[site[r]] # None
          /\ run'[r].entry = NextVersion(r, websites[site[r]])
    /\ run'[r].entry \in Entry
    /\ run'[r].forget = run[r].forget
    /\ store' = store /\ SameLedger /\ SameDomains /\ SameForgets

Records(r) ==
    /\ run[r].pc = "record"
    /\ run'[r].pc \in {"done", "failed"} \/ (run'[r].pc = "linked?" /\ keepCount >= 1)
    /\ SameEntry(r) /\ store' = store /\ SameDomains /\ SameForgets
    /\ \/ \E applied \in BOOLEAN : Recording(site[r], r, applied)
       \/ SameLedger /\ run'[r].pc = "failed"

Picks(r) ==
    /\ run[r].pc = "linked?"
    /\ \/ older(run[r].entry) = {} /\ run'[r].pc = "done" /\ run'[r].forget = run[r].forget
       \/ run'[r].pc = "stored?" /\ run'[r].forget = older(run[r].entry) \ linked
    /\ run'[r].entry = run[r].entry
    /\ store' = store /\ SameLedger /\ SameDomains /\ SameForgets

Looks(r) ==
    /\ run[r].pc = "stored?" /\ run'[r].pc = "forget"
    /\ run'[r].forget = {u \in run[r].forget : store[u] \notin {"none", "forgotten"}}
    /\ run'[r].entry = run[r].entry
    /\ store' = store /\ SameLedger /\ SameDomains /\ SameForgets

Forgets(r) ==
    /\ run[r].pc = "forget"
    /\ \/ /\ run[r].forget = {} /\ run'[r].pc = "done" /\ run'[r].forget = {}
          /\ store' = store /\ SameForgets
       \/ /\ run'[r].pc = "forget" /\ run'[r].forget = run[r].forget \ batch(r)
          /\ \E applied \in BOOLEAN : Forgetting(r, applied)
    /\ run'[r].entry = run[r].entry
    /\ SameLedger /\ SameDomains

Stops(r) ==
    /\ Retaining(r)
    /\ run'[r].pc = "done" /\ run'[r].forget = {} /\ run'[r].stopped = TRUE
    /\ \/ store' = store /\ SameForgets
       \/ run[r].pc = "forget" /\ \E applied \in BOOLEAN : Forgetting(r, applied)
    /\ run'[r].entry = run[r].entry
    /\ SameLedger /\ SameDomains

Links(r) ==
    /\ \/ /\ run[r].pc \in {"done", "linkFailed"} /\ Alone(r) /\ run'[r].pc = "await"
          /\ SameDomains /\ late' = late /\ unsure' = unsure
       \/ /\ run[r].pc = "await"
          /\ \/ run'[r].pc \in {"await", "linkFailed"}
             \/ run'[r].pc = "attach" /\ store[r] = "processed"
          /\ SameDomains /\ late' = late /\ unsure' = unsure
       \/ /\ run[r].pc = "attach" /\ run'[r].pc \in {"await", "linkFailed", "linked"}
          /\ \/ SameDomains /\ late' = late /\ unsure' = unsure
             \/ \E applied \in BOOLEAN : Linking(site[r], r, applied)
    /\ SameEntry(r) /\ store' = store /\ forgets' = forgets
    /\ websites' = websites /\ records' = records /\ recorded' = recorded

(* Aleph applies what it took; no run moves. *)
Applies ==
    /\ run' = run /\ recorded' = recorded /\ unsure' = unsure /\ late' = late
    /\ \/ /\ \E s \in Sites : \E i \in DOMAIN records[s] :
                /\ websites' = [websites EXCEPT ![s] = records[s][i]]
                /\ records' = [records EXCEPT ![s] = SubSeq(@, i + 1, Len(@))]
          /\ store' = store /\ forgets' = forgets /\ SameDomains
       \/ /\ \E s \in Sites : \E i \in DOMAIN links[s] :
                /\ domains' = [domains EXCEPT ![s] = links[s][i]]
                /\ links' = [links EXCEPT ![s] = SubSeq(@, i + 1, Len(@))]
          /\ store' = store /\ forgets' = forgets /\ websites' = websites /\ records' = records
       \/ /\ \E b \in forgets : store' = forgetting(b) /\ forgets' = forgets \ {b}
          /\ websites' = websites /\ records' = records /\ SameDomains

Moves(r) ==
    \/ Uploads(r) \/ Waits(r) \/ Reads(r) \/ Records(r) \/ Picks(r) \/ Looks(r)
    \/ Forgets(r) \/ Stops(r) \/ Links(r) \/ Decided(r) \/ Applies

Effect(r) ==
    /\ run' \in [Runs -> SiteRun]
    /\ \A q \in Runs : q # r => run'[q] = run[q]
    /\ Moves(r)
    /\ failures' \in Nat

LEMMA FirstVersionType == ASSUME NEW r \in Runs PROVE FirstVersion(r) \in Entry
<1>1. <<>> \in Seq(Runs) /\ Len(<<>>) = 0
  OBVIOUS
<1>2. PICK h \in Seq(Runs) : h = <<>> /\ Len(h) = 0
  BY <1>1
<1>3. FirstVersion(r) = [version |-> 1, volume |-> r, history |-> h]
  BY <1>2 DEF FirstVersion
<1>4. QED
  BY <1>2, <1>3 DEF Entry

LEMMA NextVersionFacts ==
    ASSUME NEW r \in Runs, NEW e \in Entry
    PROVE  /\ NextVersion(r, e) \in Entry
           /\ NextVersion(r, e).version = e.version + 1
           /\ NextVersion(r, e).volume = r
           /\ DOMAIN NextVersion(r, e).history = DOMAIN e.history \cup {e.version}
           /\ \A v \in DOMAIN NextVersion(r, e).history :
                 NextVersion(r, e).history[v] = IF v = e.version THEN e.volume ELSE e.history[v]
<1> DEFINE D == DOMAIN e.history \cup {e.version}
           h == [v \in D |-> IF v = e.version THEN e.volume ELSE e.history[v]]
<1>1. /\ e.version \in Nat \ {0} /\ DOMAIN e.history = 1..(e.version - 1)
      /\ \A v \in D : (IF v = e.version THEN e.volume ELSE e.history[v]) \in Runs
  BY EntryFacts DEF Entry
<1>2. D = 1..e.version
  BY <1>1
<1>3. h \in [1..e.version -> Runs]
  BY <1>1, <1>2
<1>4. DOMAIN h = D /\ \A v \in D : h[v] = IF v = e.version THEN e.volume ELSE e.history[v]
  OBVIOUS
<1>5. NextVersion(r, e) = [version |-> e.version + 1, volume |-> r, history |-> h]
  BY DEF NextVersion
<1> HIDE DEF h
<1>6. h \in Seq(Runs) /\ Len(h) = e.version
  BY <1>1, <1>3
<1>7. /\ NextVersion(r, e) \in [version: Nat, volume: Runs, history: Seq(Runs)]
      /\ NextVersion(r, e).version = e.version + 1
      /\ NextVersion(r, e).volume = r
      /\ NextVersion(r, e).history = h
  BY <1>1, <1>5, <1>6
<1>8. NextVersion(r, e) \in Entry
  BY <1>6, <1>7 DEF Entry
<1>9. QED
  BY <1>4, <1>7, <1>8

LEMMA FirstVersionFacts ==
    ASSUME NEW r \in Runs
    PROVE  /\ FirstVersion(r) \in Entry
           /\ FirstVersion(r).version = 1 /\ FirstVersion(r).volume = r
           /\ DOMAIN FirstVersion(r).history = {}
  BY FirstVersionType DEF FirstVersion

LEMMA OlderType == ASSUME NEW e \in Entry PROVE older(e) \in SUBSET Runs
  BY EntryFacts DEF older

LEMMA NextHostFacts ==
    ASSUME SiteTypeOK, NEW r \in Runs, run' = nextHost(r)
    PROVE  /\ run' \in [Runs -> SiteRun]
           /\ \A q \in Runs : q # r => run'[q] = run[q]
           /\ run'[r].pc \in {"await", "linkFailed"} /\ SameEntry(r)
<1>1. run[r].host + 1 \in Nat
  <2>1. PICK o \in SiteRun : o = run[r]
    BY DEF SiteTypeOK
  <2>2. QED
    BY <2>1 DEF SiteRun
<1>2. CASE run[r].host < ApiHosts
  <2>1. PICK h \in Nat : h = run[r].host + 1
    BY <1>1
  <2>2. run' = [run EXCEPT ![r].pc = "await", ![r].host = h]
    BY <1>2, <2>1 DEF nextHost, SiteTypeOK
  <2>3. QED
    BY <2>2, HostFacts DEF SameEntry
<1>3. CASE ~(run[r].host < ApiHosts)
  <2>1. run' = goes(r, "linkFailed")
    BY <1>3 DEF nextHost
  <2>2. QED
    BY <2>1, GoesFacts, StageFacts DEF SameEntry
<1>4. QED
  BY <1>2, <1>3

LEMMA SteppingEffect ==
    ASSUME SiteTypeOK, EntriesFit, NEW r \in Runs, Publish(r) \/ AlephDecides(r) \/ Link(r)
    PROVE  Effect(r)
<1> USE StageFacts
<1>0. failures \in Nat /\ failures + 1 \in Nat
  BY DEF SiteTypeOK
<1>1. CASE Upload(r)
  <2>1. run' = goes(r, "store") /\ run[r].pc = "idle" /\ Alone(r)
    BY <1>1 DEF Upload, at, Alone
  <2>2. Uploads(r)
    BY <1>1, <2>1, GoesFacts DEF Upload, Uploads, SameEntry, SameLedger, SameDomains, SameForgets, ghosts, queues
  <2>3. QED
    BY <1>0, <1>1, <2>1, <2>2, GoesFacts DEF Upload, Effect, Moves
<1>2. CASE UploadFails(r)
  <2>1. run' = goes(r, "failed") /\ run[r].pc = "idle" /\ Alone(r)
    BY <1>2 DEF UploadFails, at, Alone
  <2>2. /\ store' = [store EXCEPT ![r] = "none"] \/ store' = [store EXCEPT ![r] = "pending"]
        /\ SameLedger /\ SameDomains /\ SameForgets
    BY <1>2 DEF UploadFails, SameLedger, SameDomains, SameForgets, ghosts, queues
  <2>3. Uploads(r)
    BY <2>1, <2>2, GoesFacts DEF Uploads, SameEntry
  <2>4. QED
    BY <1>0, <1>2, <2>1, <2>3, GoesFacts DEF UploadFails, Failing, Effect, Moves
<1>3. CASE AwaitStore(r)
  <2> DEFINE p == CASE store[r] = "processed" -> "verify"
                    [] store[r] = "pending" -> "done"
                    [] OTHER -> "failed"
  <2>1. run' = goes(r, p) /\ run[r].pc = "store"
    BY <1>3 DEF AwaitStore, at
  <2>2. p \in {"done", "failed"} \/ (p = "verify" /\ store[r] = "processed")
    OBVIOUS
  <2> HIDE DEF p
  <2>3. p \in Stages
    BY <2>2
  <2>4. Waits(r)
    BY <1>3, <2>1, <2>2, <2>3, GoesFacts DEF AwaitStore, account, Waits, SameEntry, SameLedger, SameDomains, SameForgets, ghosts, queues
  <2>5. QED
    BY <1>0, <1>3, <2>1, <2>3, <2>4, GoesFacts DEF AwaitStore, Effect, Moves
<1>4. CASE Verify(r)
  <2>1. PICK p \in {"website", "failed"} : run' = goes(r, p)
    BY <1>4 DEF Verify
  <2>2. Waits(r)
    BY <1>4, <2>1, GoesFacts DEF Verify, at, account, Waits, SameEntry, SameLedger, SameDomains, SameForgets, ghosts, queues
  <2>3. QED
    BY <1>0, <1>4, <2>1, <2>2, GoesFacts DEF Verify, Failing, Effect, Moves
<1>5. CASE ReadWebsite(r)
  <2>1. websites[site[r]] \in Entry \cup {None}
    BY SiteAssumption DEF SiteTypeOK
  <2>2. PICK e \in Entry : /\ run' = withEntry(r, e)
                           /\ \/ e = FirstVersion(r)
                              \/ /\ websites[site[r]] # None
                                 /\ e = NextVersion(r, websites[site[r]])
    BY <1>5, <2>1, FirstVersionFacts, NextVersionFacts DEF ReadWebsite, withEntry
  <2>3. Reads(r)
    BY <1>5, <2>2, WithEntryFacts DEF ReadWebsite, at, account, Reads, SameLedger, SameDomains, SameForgets, ghosts, queues
  <2>4. QED
    BY <1>0, <1>5, <2>2, <2>3, WithEntryFacts DEF ReadWebsite, Failing, Effect, Moves
<1>6. CASE RecordWebsite(r)
  <2> DEFINE p == IF keepCount = 0 THEN "done" ELSE "linked?"
  <2>1. run' = goes(r, p) /\ run[r].pc = "record"
    BY <1>6 DEF RecordWebsite, at
  <2>2. p = "done" \/ (p = "linked?" /\ keepCount >= 1)
    BY SiteAssumption
  <2> HIDE DEF p
  <2>3. p \in Stages
    BY <2>2
  <2>4. /\ \E applied \in BOOLEAN : Recording(site[r], r, applied)
        /\ store' = store /\ SameDomains /\ SameForgets
        /\ failures' = failures \/ failures' = failures + 1
    BY <1>6 DEF RecordWebsite, Failing, SameDomains, SameForgets
  <2>5. Records(r)
    BY <2>1, <2>2, <2>3, <2>4, GoesFacts DEF Records, SameEntry
  <2>6. QED
    BY <1>0, <2>1, <2>3, <2>4, <2>5, GoesFacts DEF Effect, Moves
<1>7. CASE RecordFails(r)
  <2>1. run' = goes(r, "failed") /\ run[r].pc = "record"
    BY <1>7 DEF RecordFails, at
  <2>2. /\ (\E applied \in BOOLEAN : Recording(site[r], r, applied)) \/ SameLedger
        /\ store' = store /\ SameDomains /\ SameForgets
        /\ failures' = failures + 1
    BY <1>7 DEF RecordFails, Failing, SameLedger, SameDomains, SameForgets
  <2>3. Records(r)
    BY <2>1, <2>2, GoesFacts DEF Records, SameEntry
  <2>4. QED
    BY <1>0, <2>1, <2>2, <2>3, GoesFacts DEF Effect, Moves
<1>8. CASE ReadLinked(r)
  <2>1. run[r].pc = "linked?" /\ run[r].entry \in Entry
    BY <1>8 DEF ReadLinked, at, EntriesFit, Retaining
  <2>2. CASE older(run[r].entry) = {}
    <3>1. run' = goes(r, "done")
      BY <1>8, <2>2 DEF ReadLinked
    <3>2. Picks(r)
      BY <1>8, <2>1, <2>2, <3>1, GoesFacts DEF ReadLinked, Picks, SameLedger, SameDomains, SameForgets, account, ghosts, queues
    <3>3. failures' = failures
      BY <1>8 DEF ReadLinked
    <3>4. QED
      BY <1>0, <3>1, <3>2, <3>3, GoesFacts DEF Effect, Moves
  <2>3. CASE older(run[r].entry) # {}
    <3> DEFINE f == older(run[r].entry) \ linked
    <3>1. run' = withForget(r, "stored?", f)
      BY <1>8, <2>3 DEF ReadLinked, withForget
    <3>2. f \in SUBSET Runs
      BY <2>1, OlderType
    <3> HIDE DEF f
    <3>3. /\ run' \in [Runs -> SiteRun] /\ run'[r].pc = "stored?" /\ run'[r].forget = f
          /\ run'[r].entry = run[r].entry
          /\ \A q \in Runs : q # r => run'[q] = run[q]
      BY <3>1, <3>2, WithForgetFacts
    <3>4. Picks(r)
      BY <1>8, <2>1, <3>3 DEF f, ReadLinked, Picks, SameLedger, SameDomains, SameForgets, account, ghosts, queues
    <3>5. QED
      BY <1>0, <1>8, <3>3, <3>4 DEF ReadLinked, Effect, Moves
  <2>4. QED
    BY <2>2, <2>3
<1>9. CASE ReadStored(r)
  <2> DEFINE f == {u \in run[r].forget : store[u] \notin {"none", "forgotten"}}
  <2>1. run' = withForget(r, "forget", f)
    <3>1. run' = [run EXCEPT ![r].pc = "forget",
                    ![r].forget = {u \in @ : store[u] \notin {"none", "forgotten"}}]
      BY <1>9 DEF ReadStored
    <3>2. PICK o \in SiteRun : o = run[r]
      BY DEF SiteTypeOK
    <3>3. [o EXCEPT !.pc = "forget"].forget = o.forget
      BY <3>2 DEF SiteRun
    <3>4. QED
      BY <3>1, <3>2, <3>3 DEF withForget, SiteTypeOK
  <2>2. f \in SUBSET Runs
    <3>1. PICK o \in SiteRun : o = run[r]
      BY DEF SiteTypeOK
    <3>2. QED
      BY <3>1 DEF SiteRun
  <2> HIDE DEF f
  <2>3. /\ run' \in [Runs -> SiteRun] /\ run'[r].pc = "forget" /\ run'[r].forget = f
        /\ run'[r].entry = run[r].entry
        /\ \A q \in Runs : q # r => run'[q] = run[q]
    BY <2>1, <2>2, WithForgetFacts
  <2>4. Looks(r)
    BY <1>9, <2>3 DEF f, ReadStored, at, Looks, SameLedger, SameDomains, SameForgets, account, ghosts, queues
  <2>5. QED
    BY <1>0, <1>9, <2>3, <2>4 DEF ReadStored, Effect, Moves
<1>10. CASE ForgetBatch(r)
  <2> DEFINE f == run[r].forget \ batch(r)
  <2>1. PICK o \in SiteRun : o = run[r]
    BY DEF SiteTypeOK
  <2> DEFINE x == [o EXCEPT !.forget = f]
  <2>2. run' = [run EXCEPT ![r] = x] /\ run[r].pc = "forget"
    BY <1>10, <2>1 DEF ForgetBatch, at, SiteTypeOK
  <2>3. f \in SUBSET Runs
    BY <2>1 DEF SiteRun
  <2> HIDE DEF f
  <2>4. x \in SiteRun /\ x.pc = o.pc /\ x.entry = o.entry /\ x.forget = f
    BY <2>1, <2>3 DEF SiteRun
  <2> HIDE DEF x
  <2>5. /\ run' \in [Runs -> SiteRun] /\ run'[r] = x
        /\ \A q \in Runs : q # r => run'[q] = run[q]
    BY <2>2, <2>4 DEF SiteTypeOK
  <2>6. /\ \E applied \in BOOLEAN : Forgetting(r, applied)
        /\ SameLedger /\ SameDomains
        /\ failures' = failures \/ failures' = failures + 1
    BY <1>10 DEF ForgetBatch, Failing, SameLedger, SameDomains
  <2>7. run'[r].pc = "forget" /\ run'[r].forget = f /\ run'[r].entry = run[r].entry
    BY <2>1, <2>2, <2>4, <2>5
  <2>8. Forgets(r)
    BY <2>2, <2>6, <2>7 DEF f, Forgets
  <2>9. QED
    BY <1>0, <2>5, <2>6, <2>8 DEF Effect, Moves
<1>18. CASE RetentionEnds(r)
  <2>1. run' = goes(r, "done") /\ run[r].pc = "forget" /\ run[r].forget = {}
    BY <1>18 DEF RetentionEnds, at
  <2>2. /\ store' = store /\ SameLedger /\ SameDomains /\ SameForgets /\ failures' = failures
    BY <1>18 DEF RetentionEnds, SameLedger, SameDomains, SameForgets, account, queues, ghosts
  <2>6. /\ goes(r, "done") \in [Runs -> SiteRun]
        /\ goes(r, "done")[r].pc = "done" /\ goes(r, "done")[r].forget = run[r].forget
        /\ goes(r, "done")[r].entry = run[r].entry
        /\ \A q \in Runs : q # r => goes(r, "done")[q] = run[q]
    BY GoesFacts
  <2>3. /\ run' \in [Runs -> SiteRun] /\ run'[r].pc = "done" /\ run'[r].forget = {}
        /\ run'[r].entry = run[r].entry
        /\ \A q \in Runs : q # r => run'[q] = run[q]
    BY <2>1, <2>6
  <2>4. Forgets(r)
    BY <2>1, <2>2, <2>3 DEF Forgets
  <2>5. QED
    BY <1>0, <2>2, <2>3, <2>4 DEF Effect, Moves
<1>11. CASE RetentionStops(r)
  <2>1. /\ run' \in [Runs -> SiteRun]
        /\ run'[r].pc = "done" /\ run'[r].forget = {} /\ run'[r].stopped = TRUE
        /\ run'[r].entry = run[r].entry
        /\ \A q \in Runs : q # r => run'[q] = run[q]
    BY <1>11, StopFacts DEF RetentionStops
  <2>2. SameLedger /\ SameDomains /\ failures' = failures + 1
    BY <1>11 DEF RetentionStops, Failing, SameLedger, SameDomains
  <2>3. \/ store' = store /\ SameForgets /\ Retaining(r)
        \/ run[r].pc = "forget" /\ \E applied \in BOOLEAN : Forgetting(r, applied)
    BY <1>11 DEF RetentionStops, at, Retaining, SameForgets
  <2>4. Stops(r)
    BY <2>1, <2>2, <2>3 DEF Retaining, Stops
  <2>5. QED
    BY <1>0, <2>1, <2>2, <2>4 DEF Effect, Moves
<1>12. CASE AlephDecides(r)
  <2>1. Decided(r)
    BY <1>12 DEF AlephDecides, Decided, SameLedger, SameDomains, SameForgets, ghosts, queues
  <2>2. QED
    BY <1>0, <1>12, <2>1 DEF AlephDecides, Effect, Moves, SiteTypeOK
<1>13. CASE StartLink(r)
  <2>1. /\ run' \in [Runs -> SiteRun]
        /\ run'[r].pc = "await" /\ run'[r].forget = run[r].forget
        /\ run'[r].entry = run[r].entry
        /\ \A q \in Runs : q # r => run'[q] = run[q]
    BY <1>13, HostFacts DEF StartLink
  <2>2. Links(r)
    BY <1>13, <2>1 DEF StartLink, Links, Alone, SameEntry, SameDomains, account, ghosts, queues
  <2>3. QED
    BY <1>0, <1>13, <2>1, <2>2 DEF StartLink, Effect, Moves
<1>14. CASE AwaitProcessed(r)
  <2>1. /\ run[r].pc = "await" /\ store' = store /\ SameDomains /\ SameForgets /\ SameLedger
        /\ failures' = failures
    BY <1>14 DEF AwaitProcessed, at, SameLedger, SameDomains, SameForgets, account, ghosts, queues
  <2>2. CASE store[r] = "processed"
    <3>1. run' = goes(r, "attach")
      BY <1>14, <2>2 DEF AwaitProcessed
    <3>2. Links(r)
      BY <2>1, <2>2, <3>1, GoesFacts DEF Links, SameEntry, SameLedger, SameForgets
    <3>3. QED
      BY <1>0, <2>1, <3>1, <3>2, GoesFacts DEF Effect, Moves
  <2>3. CASE store[r] # "processed"
    <3>1. run' = nextHost(r)
      BY <1>14, <2>3 DEF AwaitProcessed
    <3>2. Links(r)
      BY <2>1, <3>1, NextHostFacts DEF Links, SameLedger, SameForgets
    <3>3. QED
      BY <1>0, <2>1, <3>1, <3>2, NextHostFacts DEF Effect, Moves
  <2>4. QED
    BY <2>2, <2>3
<1>15. CASE Attach(r)
  <2>1. run' = goes(r, "linked") /\ run[r].pc = "attach"
    BY <1>15 DEF Attach, at
  <2>2. /\ \E applied \in BOOLEAN : Linking(site[r], r, applied)
        /\ store' = store /\ forgets' = forgets
        /\ websites' = websites /\ records' = records /\ recorded' = recorded
        /\ failures' = failures \/ failures' = failures + 1
    BY <1>15 DEF Attach, Failing
  <2>3. Links(r)
    BY <2>1, <2>2, GoesFacts DEF Links, SameEntry
  <2>4. QED
    BY <1>0, <2>1, <2>2, <2>3, GoesFacts DEF Effect, Moves
<1>16. CASE AttachFails(r)
  <2>1. run' = nextHost(r) /\ run[r].pc = "attach"
    BY <1>16 DEF AttachFails, at
  <2>2. /\ \/ \E applied \in BOOLEAN : Linking(site[r], r, applied)
           \/ SameDomains /\ late' = late /\ unsure' = unsure
        /\ store' = store /\ forgets' = forgets
        /\ websites' = websites /\ records' = records /\ recorded' = recorded
        /\ failures' = failures + 1
    BY <1>16 DEF AttachFails, Failing, SameDomains
  <2>3. Links(r)
    BY <2>1, <2>2, NextHostFacts DEF Links
  <2>4. QED
    BY <1>0, <2>1, <2>2, <2>3, NextHostFacts DEF Effect, Moves
<1>17. QED
  BY <1>1, <1>2, <1>3, <1>4, <1>5, <1>6, <1>7, <1>8, <1>9, <1>10, <1>11, <1>12, <1>13,
     <1>14, <1>15, <1>16, <1>18 DEF Publish, Link

(* A message that Aleph applies was sent by a run. *)
LEMMA ApplyingEffect ==
    ASSUME SiteInv, (\E s \in Sites : AlephRecords(s) \/ AlephLinks(s)) \/ AlephForgetsStores
    PROVE  \E r \in Runs : Effect(r)
<1>1. run \in [Runs -> SiteRun] /\ failures \in Nat
  BY DEF SiteInv, SiteTypeOK
<1>2. run' = run /\ failures' = failures
  BY DEF AlephRecords, AlephLinks, AlephForgetsStores
<1>3. Applies
  <2>1. CASE \E s \in Sites : AlephRecords(s)
    BY <2>1 DEF AlephRecords, Applies, SameDomains, ghosts
  <2>2. CASE \E s \in Sites : AlephLinks(s)
    BY <2>2 DEF AlephLinks, Applies, ghosts
  <2>3. CASE AlephForgetsStores
    BY <2>3 DEF AlephForgetsStores, Applies, SameDomains, ghosts
  <2>4. QED
    BY <2>1, <2>2, <2>3
<1>4. \E r \in Runs : TRUE
  <2>1. ASSUME NEW s \in Sites, NEW i \in DOMAIN records[s] PROVE \E r \in Runs : TRUE
    <3>1. records[s] \in Seq(Entry)
      BY DEF SiteInv, SiteTypeOK
    <3>2. records[s][i] \in Entry
      BY <2>1, <3>1
    <3>3. QED
      BY <3>2, EntryFacts
  <2>2. ASSUME NEW s \in Sites, NEW i \in DOMAIN links[s] PROVE \E r \in Runs : TRUE
    <3>1. links[s] \in Seq(Runs)
      BY DEF SiteInv, SiteTypeOK
    <3>2. QED
      BY <2>2, <3>1
  <2>3. ASSUME NEW b \in forgets PROVE \E r \in Runs : TRUE
    BY <2>3 DEF SiteInv, RecordsFit, FlightFit
  <2>4. QED
    BY <2>1, <2>2, <2>3 DEF AlephRecords, AlephLinks, AlephForgetsStores
<1>5. QED
  BY <1>1, <1>2, <1>3, <1>4 DEF Effect, Moves

-----------------------------------------------------------------------------
(* What a step leaves as it was *)

(* A run that is about to be recorded is not yet. *)
LEMMA Unrecorded ==
    ASSUME SiteInv, NEW r \in Runs, run[r].pc \in {"idle", "store", "verify", "website", "record"}
    PROVE  \A s \in Sites : \A i \in DOMAIN recorded[s] : recorded[s][i] # r
  BY DEF SiteInv, RecordsFit, RecordedFit, Past

(* Records are only added, one at a time. *)
Added(s, r) ==
    /\ s = site[r] /\ run[r].pc = "record" /\ run'[r].pc \in {"done", "failed", "linked?"}
    /\ SameEntry(r) /\ store' = store /\ SameDomains /\ SameForgets
    /\ recorded'[s] = Append(recorded[s], r)
    /\ \E applied \in BOOLEAN : Recording(s, r, applied)

LEMMA LedgerSteps ==
    ASSUME SiteInv, NEW r \in Runs, Effect(r), NEW s \in Sites
    PROVE  /\ recorded'[s] = recorded[s] \/ Added(s, r)
           /\ (records'[s] = records[s] /\ websites'[s] = websites[s])
              \/ Added(s, r) \/ Applies
           /\ unsure \subseteq unsure' /\ late \subseteq late'
<1>1. CASE Records(r) /\ ~SameLedger
  <2>1. PICK applied \in BOOLEAN : Recording(site[r], r, applied)
    BY <1>1 DEF Records
  <2>2. run[r].pc = "record" /\ run'[r].pc \in {"done", "failed", "linked?"} /\ SameEntry(r)
    BY <1>1 DEF Records
  <2>3. CASE s = site[r]
    <3>1. recorded'[s] = Append(recorded[s], r)
      BY <2>1, <2>3 DEF Recording, SiteInv, SiteTypeOK
    <3>2. Added(s, r)
      BY <1>1, <2>1, <2>2, <2>3, <3>1 DEF Added, Records
    <3>3. QED
      BY <1>1, <2>1, <3>2 DEF Records, SameForgets, Recording
  <2>4. CASE s # site[r]
    <3>1. recorded'[s] = recorded[s] /\ records'[s] = records[s] /\ websites'[s] = websites[s]
      BY <2>1, <2>4 DEF Recording, SiteInv, SiteTypeOK
    <3>2. QED
      BY <1>1, <2>1, <3>1 DEF Records, SameForgets, Recording
  <2>5. QED
    BY <2>3, <2>4
<1>2. CASE SameLedger
  <2>1. late \subseteq late'
    BY DEF Effect, Moves, Uploads, Decided, Waits, Reads, Records, Picks, Looks, Forgets, Stops,
       Links, SameForgets, Forgetting, Linking, Applies
  <2>2. QED
    BY <1>2, <2>1 DEF SameLedger
<1>3. CASE ~Records(r) /\ ~SameLedger
  <2>1. Links(r) \/ Applies
    BY <1>3 DEF Effect, Moves, Uploads, Decided, Waits, Reads, Picks, Looks, Forgets, Stops
  <2>2. CASE Links(r)
    BY <2>2 DEF Links, Linking, SameDomains
  <2>3. CASE Applies
    BY <2>3 DEF Applies
  <2>4. QED
    BY <2>1, <2>2, <2>3
<1>4. QED
  BY <1>1, <1>2, <1>3

LEMMA LateStays ==
    ASSUME SiteInv, NEW r \in Runs, Effect(r), NEW s \in Sites, NEW u, isLate(u)
    PROVE  isLate(u)'
  BY LedgerSteps DEF isLate

LEMMA AddedFacts ==
    ASSUME SiteInv, NEW r \in Runs, NEW s \in Sites, Added(s, r)
    PROVE  /\ recorded[s] \in Seq(Runs) /\ recorded'[s] \in Seq(Runs)
           /\ DOMAIN recorded[s] = 1..Last(s) /\ Last(s) \in Nat
           /\ Last(s)' = Last(s) + 1
           /\ DOMAIN recorded'[s] = 1..(Last(s) + 1)
           /\ \A i \in 1..Last(s) : recorded'[s][i] = recorded[s][i]
           /\ recorded'[s][Last(s) + 1] = r
<1>1. recorded[s] \in Seq(Runs)
  BY DEF SiteInv, SiteTypeOK
<1>2. recorded'[s] = Append(recorded[s], r)
  BY DEF Added
<1>3. QED
  BY <1>1, <1>2 DEF Last

LEMMA Growth ==
    ASSUME SiteInv, NEW r \in Runs, Effect(r), NEW s \in Sites
    PROVE  /\ recorded[s] \in Seq(Runs) /\ recorded'[s] \in Seq(Runs)
           /\ Last(s) \in Nat /\ Last(s)' \in Nat /\ Last(s) <= Last(s)'
           /\ DOMAIN recorded[s] = 1..Last(s) /\ DOMAIN recorded'[s] = 1..Last(s)'
           /\ \A i \in DOMAIN recorded[s] : /\ i \in DOMAIN recorded'[s]
                                            /\ recorded'[s][i] = recorded[s][i]
                                            /\ Aged(s, i) => Aged(s, i)'
           /\ \A i \in DOMAIN recorded'[s] :
                 i \in DOMAIN recorded[s] \/ (Added(s, r) /\ i = Last(s) + 1 /\ recorded'[s][i] = r)
<1>1. recorded[s] \in Seq(Runs) /\ keepCount \in Nat
  BY SiteAssumption DEF SiteInv, SiteTypeOK
<1>2. CASE recorded'[s] = recorded[s]
  BY <1>1, <1>2 DEF Last, Aged
<1>3. CASE Added(s, r)
  <2>1. /\ recorded'[s] \in Seq(Runs)
        /\ DOMAIN recorded[s] = 1..Last(s) /\ Last(s) \in Nat
        /\ Last(s)' = Last(s) + 1
        /\ DOMAIN recorded'[s] = 1..(Last(s) + 1)
        /\ \A i \in 1..Last(s) : recorded'[s][i] = recorded[s][i]
        /\ recorded'[s][Last(s) + 1] = r
    BY <1>3, AddedFacts
  <2>2. \A i \in 1..Last(s) : Aged(s, i) => Aged(s, i)'
    BY <1>1, <2>1 DEF Aged
  <2>3. \A i \in 1..(Last(s) + 1) : i \in 1..Last(s) \/ i = Last(s) + 1
    BY <2>1
  <2>4. \A i \in 1..Last(s) : i \in 1..(Last(s) + 1)
    BY <2>1
  <2>5. Last(s)' \in Nat /\ Last(s) <= Last(s)'
    BY <2>1
  <2>6. QED
    BY <1>1, <1>3, <2>1, <2>2, <2>3, <2>4, <2>5
<1>4. QED
  BY <1>2, <1>3, LedgerSteps

LEMMA OrderStays ==
    ASSUME SiteInv, NEW r \in Runs, Effect(r), NEW s \in Sites, NEW e, NEW n,
           InOrder(recorded[s], e, n)
    PROVE  InOrder(recorded'[s], e, n)
<1>1. CASE recorded'[s] = recorded[s]
  BY <1>1
<1>2. CASE Added(s, r)
  <2>1. \A i \in DOMAIN recorded[s] : recorded[s][i] # r
    BY <1>2, Unrecorded DEF Added
  <2>2. ASSUME NEW v \in DOMAIN e.history, NEW i \in DOMAIN recorded'[s],
               recorded'[s][i] = e.history[v]
        PROVE  i \in DOMAIN recorded[s] /\ recorded[s][i] = e.history[v]
    <3>1. \E k \in DOMAIN recorded[s] : recorded[s][k] = e.history[v]
      BY DEF InOrder
    <3>2. e.history[v] # r
      BY <2>1, <3>1
    <3>3. QED
      BY <2>2, <3>2, Growth
  <2>3. \A v \in DOMAIN e.history : v < e.version
    BY DEF InOrder
  <2>4. ASSUME NEW v \in DOMAIN e.history
        PROVE  \E i \in DOMAIN recorded'[s] : i < n /\ recorded'[s][i] = e.history[v]
    <3>1. PICK i \in DOMAIN recorded[s] : i < n /\ recorded[s][i] = e.history[v]
      BY DEF InOrder
    <3>2. QED
      BY <3>1, Growth
  <2>5. ASSUME NEW v \in DOMAIN e.history, NEW w \in DOMAIN e.history, v < w,
               NEW i \in DOMAIN recorded'[s], NEW j \in DOMAIN recorded'[s],
               recorded'[s][i] = e.history[v], recorded'[s][j] = e.history[w]
        PROVE  i < j
    BY <2>2, <2>5 DEF InOrder
  <2>6. QED
    BY <2>3, <2>4, <2>5 DEF InOrder
<1>3. QED
  BY <1>1, <1>2, LedgerSteps

(* What is forgotten is named by a retention or by a FORGET in flight. *)
Named(r, u) ==
    \/ run[r].pc = "forget" /\ u \in run[r].forget
    \/ \E b \in forgets : u \in b

(* An upload that was processed stays so unless it is forgotten, and what  *)
(* is forgotten stays forgotten.                                           *)
LEMMA StoreSteps ==
    ASSUME SiteInv, NEW r \in Runs, Effect(r), NEW u \in Runs
    PROVE  /\ store[u] = "processed" =>
                 store'[u] = "processed" \/ (store'[u] = "forgotten" /\ Named(r, u))
           /\ store[u] = "forgotten" => store'[u] = "forgotten"
           /\ store'[u] = store[u] \/ (u = r /\ run[r].pc = "idle") \/ Decided(r) \/ Named(r, u)
           /\ Decided(r) /\ u # r => store'[u] = store[u]
           /\ store'[u] \in StoreStatus
<1>1. store \in [Runs -> StoreStatus]
  BY DEF SiteInv, SiteTypeOK
<1>2. CASE store' = store
  BY <1>1, <1>2
<1>3. CASE Uploads(r)
  <2>1. store[r] = "none" /\ run[r].pc = "idle"
    BY <1>3 DEF Uploads, SiteInv, RecordsFit, StoresFit, at
  <2>2. store' = [store EXCEPT ![r] = "none"] \/ store' = [store EXCEPT ![r] = "pending"]
    BY <1>3 DEF Uploads
  <2>3. ~Decided(r)
    BY <2>1 DEF Decided
  <2>4. QED
    BY <1>1, <2>1, <2>2, <2>3 DEF StoreStatus
<1>4. CASE Decided(r)
  BY <1>1, <1>4 DEF Decided, StoreStatus
<1>5. CASE run[r].pc = "forget" /\ store' = forgetting(batch(r))
  <2>1. batch(r) \subseteq run[r].forget
    BY DEF batch
  <2>2. u \in batch(r) => Named(r, u)
    BY <1>5, <2>1 DEF Named
  <2>3. store'[u] = IF u \in batch(r) THEN "forgotten" ELSE store[u]
    BY <1>5 DEF forgetting
  <2>4. Decided(r) => store'[u] = store[u] \/ u = r
    BY <1>1 DEF Decided
  <2>5. QED
    BY <1>1, <2>2, <2>3, <2>4 DEF StoreStatus
<1>6. CASE \E b \in forgets : store' = forgetting(b)
  <2>1. PICK b \in forgets : store' = forgetting(b)
    BY <1>6
  <2>2. u \in b => Named(r, u)
    BY <2>1 DEF Named
  <2>3. store'[u] = IF u \in b THEN "forgotten" ELSE store[u]
    BY <2>1 DEF forgetting
  <2>4. Decided(r) => store'[u] = store[u] \/ u = r
    BY <1>1 DEF Decided
  <2>5. QED
    BY <1>1, <2>2, <2>3, <2>4 DEF StoreStatus
<1>7. CASE Applies
  BY <1>2, <1>6, <1>7 DEF Applies
<1>8. CASE Forgets(r) \/ Stops(r)
  BY <1>2, <1>5, <1>8 DEF Forgets, Stops, Forgetting
<1>9. QED
  BY <1>2, <1>3, <1>4, <1>7, <1>8
     DEF Effect, Moves, Waits, Reads, Records, Picks, Looks, Links

LEMMA PastStays ==
    ASSUME SiteInv, NEW r \in Runs, Effect(r), NEW q \in Runs, Past(q)
    PROVE  Past(q)'
<1>1. CASE q # r
  BY <1>1 DEF Effect, Past
<1>2. CASE q = r
  <2>1. ~Uploads(r) /\ ~Waits(r) /\ ~Reads(r) /\ ~Records(r)
    BY <1>2 DEF Past, Uploads, Waits, Reads, Records
  <2>2. CASE Decided(r) \/ Applies
    BY <1>2, <2>2 DEF Decided, Applies, Past
  <2>3. CASE Picks(r) \/ Looks(r) \/ Forgets(r) \/ Stops(r) \/ Links(r)
    <3>1. run'[r].pc \in {"done", "stored?", "forget", "await", "linkFailed", "attach", "linked"}
      BY <2>3 DEF Picks, Looks, Forgets, Stops, Links
    <3>2. QED
      BY <1>2, <3>1 DEF Past
  <2>4. QED
    BY <2>1, <2>2, <2>3 DEF Effect, Moves
<1>3. QED
  BY <1>1, <1>2

-----------------------------------------------------------------------------
(* Every part of the invariant is kept. *)

LEMMA TypeStep ==
    ASSUME SiteInv, NEW r \in Runs, Effect(r)
    PROVE  SiteTypeOK'
<1>1. site[r] \in Sites
  BY SiteAssumption
<1>2. store' \in [Runs -> StoreStatus]
  <2>1. DOMAIN store' = Runs /\ store' = [u \in Runs |-> store'[u]]
    BY DEF Effect, Moves, Uploads, Decided, Waits, Reads, Records, Picks, Looks, Forgets, Stops,
       Links, Applies, Forgetting, forgetting, SiteInv, SiteTypeOK
  <2>2. QED
    BY <2>1, StoreSteps
<1>3. domains' \in [Sites -> Runs \cup {None}] /\ links' \in [Sites -> Seq(Runs)]
  <2>1. domains \in [Sites -> Runs \cup {None}] /\ links \in [Sites -> Seq(Runs)]
    BY DEF SiteInv, SiteTypeOK
  <2>2. CASE SameDomains
    BY <2>1, <2>2 DEF SameDomains
  <2>3. CASE \E applied \in BOOLEAN : Linking(site[r], r, applied)
    <3>1. <<>> \in Seq(Runs) /\ Append(links[site[r]], r) \in Seq(Runs)
      BY <1>1, <2>1
    <3>2. QED
      BY <1>1, <2>1, <2>3, <3>1 DEF Linking
  <2>4. ASSUME NEW s \in Sites, NEW i \in DOMAIN links[s],
               domains' = [domains EXCEPT ![s] = links[s][i]],
               links' = [links EXCEPT ![s] = SubSeq(@, i + 1, Len(@))]
        PROVE  domains' \in [Sites -> Runs \cup {None}] /\ links' \in [Sites -> Seq(Runs)]
    <3>1. links[s] \in Seq(Runs) /\ i \in 1..Len(links[s])
      BY <2>1
    <3>2. links[s][i] \in Runs /\ SubSeq(links[s], i + 1, Len(links[s])) \in Seq(Runs)
      BY <3>1
    <3>3. QED
      BY <2>1, <2>4, <3>2
  <2>5. QED
    BY <2>2, <2>3, <2>4
       DEF Effect, Moves, Uploads, Decided, Waits, Reads, Records, Picks, Looks, Forgets, Stops,
           Links, Applies
<1>4. /\ websites' \in [Sites -> Entry \cup {None}] /\ records' \in [Sites -> Seq(Entry)]
      /\ recorded' \in [Sites -> Seq(Runs)] /\ unsure' \in SUBSET Sites
  <2>1. /\ websites \in [Sites -> Entry \cup {None}] /\ records \in [Sites -> Seq(Entry)]
        /\ recorded \in [Sites -> Seq(Runs)] /\ unsure \in SUBSET Sites
    BY DEF SiteInv, SiteTypeOK
  <2>2. CASE Records(r) /\ ~SameLedger
    <3>1. PICK applied \in BOOLEAN : Recording(site[r], r, applied)
      BY <2>2 DEF Records
    <3>2. run[r].entry \in Entry
      BY <2>2 DEF Records, SiteInv, RecordsFit, EntriesFit, at
    <3>3. /\ Append(recorded[site[r]], r) \in Seq(Runs)
          /\ <<>> \in Seq(Entry) /\ Append(records[site[r]], run[r].entry) \in Seq(Entry)
      BY <1>1, <2>1, <3>2
    <3>4. /\ (IF applied THEN [websites EXCEPT ![site[r]] = run[r].entry] ELSE websites)
             \in [Sites -> Entry \cup {None}]
          /\ [records EXCEPT ![site[r]] =
                 IF applied THEN <<>> ELSE Append(records[site[r]], run[r].entry)]
             \in [Sites -> Seq(Entry)]
          /\ [recorded EXCEPT ![site[r]] = Append(recorded[site[r]], r)] \in [Sites -> Seq(Runs)]
      BY <1>1, <2>1, <3>2, <3>3
    <3>5. unsure' = unsure \/ unsure' = unsure \cup {site[r]}
      BY <3>1 DEF Recording
    <3>6. QED
      BY <1>1, <2>1, <3>1, <3>4, <3>5 DEF Recording
  <2>3. CASE SameLedger
    BY <2>1, <2>3 DEF SameLedger
  <2>4. CASE Links(r)
    <3>1. unsure' = unsure \/ unsure' = unsure \cup {site[r]}
      BY <2>4 DEF Links, Linking
    <3>2. QED
      BY <1>1, <2>1, <2>4, <3>1 DEF Links
  <2>5. CASE Applies
    <3>1. ASSUME NEW s \in Sites, NEW i \in DOMAIN records[s],
                 websites' = [websites EXCEPT ![s] = records[s][i]],
                 records' = [records EXCEPT ![s] = SubSeq(@, i + 1, Len(@))]
          PROVE  websites' \in [Sites -> Entry \cup {None}] /\ records' \in [Sites -> Seq(Entry)]
      <4>1. records[s] \in Seq(Entry) /\ i \in 1..Len(records[s])
        BY <2>1
      <4>2. records[s][i] \in Entry /\ SubSeq(records[s], i + 1, Len(records[s])) \in Seq(Entry)
        BY <4>1
      <4>3. QED
        BY <2>1, <3>1, <4>2
    <3>2. QED
      BY <2>1, <2>5, <3>1 DEF Applies
  <2>6. QED
    BY <2>2, <2>3, <2>4, <2>5
       DEF Effect, Moves, Uploads, Decided, Waits, Reads, Picks, Looks, Forgets, Stops
<1>5. forgets' \in SUBSET (SUBSET Runs) /\ late' \in SUBSET (Runs \X Runs)
  <2>1. forgets \in SUBSET (SUBSET Runs) /\ late \in SUBSET (Runs \X Runs)
    BY DEF SiteInv, SiteTypeOK
  <2>2. ASSUME NEW applied \in BOOLEAN, Forgetting(r, applied)
        PROVE  forgets' \in SUBSET (SUBSET Runs) /\ late' \in SUBSET (Runs \X Runs)
    <3>1. PICK o \in SiteRun : o = run[r]
      BY DEF SiteInv, SiteTypeOK
    <3>2. batch(r) \in SUBSET Runs
      BY <3>1 DEF batch, SiteRun
    <3>3. {r} \X batch(r) \subseteq Runs \X Runs
      BY <3>2
    <3>4. QED
      BY <2>1, <2>2, <3>2, <3>3 DEF Forgetting
  <2>3. ASSUME NEW applied \in BOOLEAN, Linking(site[r], r, applied)
        PROVE  late' \in SUBSET (Runs \X Runs)
    BY <2>1, <2>3 DEF Linking
  <2>4. forgets' \in SUBSET (SUBSET Runs)
    BY <2>1, <2>2 DEF Effect, Moves, Uploads, Decided, Waits, Reads, Records, Picks, Looks, Forgets,
       Stops, Links, Applies, SameForgets
  <2>5. late' \in SUBSET (Runs \X Runs)
    BY <2>1, <2>2, <2>3 DEF Effect, Moves, Uploads, Decided, Waits, Reads, Records, Picks, Looks,
       Forgets, Stops, Links, Applies, SameForgets
  <2>6. QED
    BY <2>4, <2>5
<1>6. QED
  BY <1>2, <1>3, <1>4, <1>5 DEF Effect, SiteTypeOK

LEMMA RecordedOnceStep ==
    ASSUME SiteInv, NEW r \in Runs, Effect(r)
    PROVE  RecordedOnce'
<1> SUFFICES ASSUME NEW s \in Sites, NEW i \in DOMAIN recorded'[s], NEW j \in DOMAIN recorded'[s],
                    recorded'[s][i] = recorded'[s][j]
             PROVE  i = j
  BY DEF RecordedOnce
<1>1. CASE Added(s, r)
  <2>1. \A k \in DOMAIN recorded[s] : recorded[s][k] # r
    BY <1>1, Unrecorded DEF Added
  <2>2. QED
    BY <2>1, Growth DEF SiteInv, RecordsFit, RecordedOnce
<1>2. CASE ~Added(s, r)
  BY <1>2, Growth DEF SiteInv, RecordsFit, RecordedOnce
<1>3. QED
  BY <1>1, <1>2

(* What a run forgets was recorded for its site, and is old. *)
LEMMA ForgottenFacts ==
    ASSUME SiteInv, NEW r \in Runs, NEW u \in run[r].forget
    PROVE  /\ u \in Runs /\ site[u] = site[r] /\ Past(u)
           /\ run[r].pc \in {"stored?", "forget"}
           /\ \A s \in Sites : \A i \in DOMAIN recorded[s] :
                 recorded[s][i] = u => s = site[r] /\ Aged(s, i)
<1>1. site[r] \in Sites /\ recorded[site[r]] \in Seq(Runs)
  BY SiteAssumption DEF SiteInv, SiteTypeOK
<1>2. PICK j \in DOMAIN recorded[site[r]] : recorded[site[r]][j] = u /\ Aged(site[r], j)
  BY DEF SiteInv, RecordsFit, ForgetsFit
<1>3. u \in Runs /\ site[u] = site[r] /\ Past(u)
  BY <1>1, <1>2 DEF SiteInv, RecordsFit, RecordedFit
<1>4. run[r].pc \in {"stored?", "forget"}
  BY DEF SiteInv, RecordsFit, ForgetsFit
<1>5. ASSUME NEW s \in Sites, NEW i \in DOMAIN recorded[s], recorded[s][i] = u
      PROVE  s = site[r] /\ Aged(s, i)
  <2>1. s = site[r]
    BY <1>3, <1>5 DEF SiteInv, RecordsFit, RecordedFit
  <2>2. i = j
    BY <1>1, <1>2, <1>5, <2>1 DEF SiteInv, RecordsFit, RecordedOnce
  <2>3. QED
    BY <1>2, <2>1, <2>2
<1>6. QED
  BY <1>3, <1>4, <1>5

LEMMA FlightFacts ==
    ASSUME SiteInv, NEW b \in forgets, NEW u \in b
    PROVE  /\ u \in Runs /\ Past(u) /\ isLate(u)
           /\ \A s \in Sites : \A i \in DOMAIN recorded[s] : recorded[s][i] = u => Aged(s, i)
<1>1. isLate(u)
  BY DEF SiteInv, RecordsFit, FlightFit, isLate
<1>2. PICK t \in Sites : \E j \in DOMAIN recorded[t] : recorded[t][j] = u /\ Aged(t, j)
  BY DEF SiteInv, RecordsFit, FlightFit
<1>7. PICK j \in DOMAIN recorded[t] : recorded[t][j] = u /\ Aged(t, j)
  BY <1>2
<1>3. recorded[t] \in Seq(Runs)
  BY DEF SiteInv, SiteTypeOK
<1>4. u \in Runs /\ site[u] = t /\ Past(u)
  BY <1>7, <1>3 DEF SiteInv, RecordsFit, RecordedFit
<1>5. ASSUME NEW s \in Sites, NEW i \in DOMAIN recorded[s], recorded[s][i] = u
      PROVE  Aged(s, i)
  <2>1. s = t
    BY <1>4, <1>5 DEF SiteInv, RecordsFit, RecordedFit
  <2>2. i = j
    BY <1>7, <1>5, <2>1 DEF SiteInv, RecordsFit, RecordedOnce
  <2>3. QED
    BY <1>7, <2>1, <2>2
<1>6. QED
  BY <1>1, <1>4, <1>5

LEMMA NamedFacts ==
    ASSUME SiteInv, NEW r \in Runs, NEW u, Named(r, u)
    PROVE  /\ u \in Runs /\ Past(u)
           /\ \A s \in Sites : \A i \in DOMAIN recorded[s] : recorded[s][i] = u => Aged(s, i)
  BY ForgottenFacts, FlightFacts DEF Named

LEMMA RecordedFitStep ==
    ASSUME SiteInv, NEW r \in Runs, Effect(r)
    PROVE  RecordedFit'
<1> SUFFICES ASSUME NEW s \in Sites, NEW i \in DOMAIN recorded'[s], NEW u \in Runs,
                    u = recorded'[s][i]
             PROVE  /\ site[u] = s
                    /\ Past(u)'
                    /\ store'[u] = "processed" \/ (store'[u] = "forgotten" /\ Aged(s, i)')
  <2>1. ASSUME NEW s \in Sites, NEW i \in DOMAIN recorded'[s]
        PROVE  recorded'[s][i] \in Runs
    BY <2>1, Growth
  <2>2. QED
    BY <2>1 DEF RecordedFit, Past
<1>1. u = recorded'[s][i]
  OBVIOUS
<1>2. CASE i \in DOMAIN recorded[s]
  <2>1. u = recorded[s][i] /\ (Aged(s, i) => Aged(s, i)')
    BY <1>1, <1>2, Growth
  <2>2. /\ site[u] = s /\ Past(u)
        /\ store[u] = "processed" \/ (store[u] = "forgotten" /\ Aged(s, i))
    BY <1>2, <2>1 DEF SiteInv, RecordsFit, RecordedFit
  <2>3. Past(u)'
    BY <2>2, PastStays
  <2>4. store'[u] = "processed" \/ (store'[u] = "forgotten" /\ Aged(s, i)')
    <3>1. CASE Named(r, u)
      <4>1. Aged(s, i)
        BY <1>2, <2>1, <3>1, NamedFacts
      <4>2. QED
        BY <2>1, <2>2, <4>1, StoreSteps
    <3>2. CASE ~Named(r, u)
      BY <2>1, <2>2, <3>2, StoreSteps
    <3>3. QED
      BY <3>1, <3>2
  <2>5. QED
    BY <2>2, <2>3, <2>4
<1>3. CASE i \notin DOMAIN recorded[s]
  <2>1. Added(s, r) /\ u = r
    BY <1>1, <1>3, Growth
  <2>2. Past(r)' /\ site[r] = s /\ run[r].pc = "record"
    BY <2>1 DEF Added, Past
  <2>3. store[r] = "processed"
    BY <2>2 DEF SiteInv, RecordsFit, StoresFit
  <2>4. store'[r] = "processed"
    BY <2>1, <2>3 DEF Added
  <2>5. QED
    BY <2>1, <2>2, <2>4
<1>4. QED
  BY <1>2, <1>3

(* What may come into force was recorded before, or is the new record. *)
LEMMA AppliedFacts ==
    ASSUME SiteInv, NEW s \in Sites, NEW i \in DOMAIN records[s],
           records' = [records EXCEPT ![s] = SubSeq(@, i + 1, Len(@))]
    PROVE  /\ i \in Nat
           /\ \A j \in DOMAIN records'[s] :
                 j \in Nat /\ j + i \in DOMAIN records[s] /\ records'[s][j] = records[s][j + i]
<1>1. records \in [Sites -> Seq(Entry)]
  BY DEF SiteInv, SiteTypeOK
<1>2. PICK q \in Seq(Entry) : q = records[s]
  BY <1>1
<1>3. PICK l \in Nat : l = Len(q) /\ i \in 1..l /\ DOMAIN q = 1..l
  BY <1>2
<1>4. PICK rest : rest = SubSeq(q, i + 1, l)
  OBVIOUS
<1>5. records'[s] = rest
  BY <1>1, <1>2, <1>3, <1>4
<1>6. i + 1 \in Int /\ l \in Int /\ \A j \in (i + 1)..l : q[j] \in Entry
  BY <1>2, <1>3
<1>7. /\ rest \in Seq(Entry)
      /\ Len(rest) = (IF i + 1 <= l THEN l - (i + 1) + 1 ELSE 0)
      /\ \A j \in 1..(l - (i + 1) + 1) : rest[j] = q[(i + 1) + j - 1]
  BY <1>4, <1>6, SubSeqProperties, Z3
<1>8. DOMAIN rest = 1..(l - i)
  BY <1>3, <1>7
<1>9. ASSUME NEW j \in DOMAIN rest PROVE j \in Nat /\ j + i \in DOMAIN q /\ rest[j] = q[j + i]
  <2>1. j \in 1..(l - (i + 1) + 1) /\ (i + 1) + j - 1 = j + i /\ j + i \in 1..l /\ j \in Nat
    BY <1>3, <1>8
  <2>2. QED
    BY <1>3, <1>7, <2>1
<1>10. QED
  BY <1>2, <1>3, <1>5, <1>9

LEMMA LiveSteps ==
    ASSUME SiteInv, NEW r \in Runs, Effect(r), NEW s \in Sites, NEW e \in Live(s)'
    PROVE  e \in Live(s) \/ (Added(s, r) /\ e = run[r].entry)
<1>1. CASE records'[s] = records[s] /\ websites'[s] = websites[s]
  BY <1>1 DEF Live
<1>2. CASE Added(s, r)
  <2>1. PICK applied \in BOOLEAN : Recording(s, r, applied)
    BY <1>2 DEF Added
  <2>2. records \in [Sites -> Seq(Entry)] /\ websites \in [Sites -> Entry \cup {None}]
    BY DEF SiteInv, SiteTypeOK
  <2>3. websites'[s] = websites[s] \/ websites'[s] = run[r].entry
    BY <2>1, <2>2 DEF Recording
  <2>4. records'[s] = <<>> \/ records'[s] = Append(records[s], run[r].entry)
    BY <2>1, <2>2 DEF Recording
  <2>5. \A i \in DOMAIN records'[s] :
           records'[s][i] = run[r].entry \/ (i \in DOMAIN records[s] /\ records'[s][i] = records[s][i])
    <3>1. PICK q \in Seq(Entry) : q = records[s]
      BY <2>2
    <3>2. PICK e0 \in Entry : e0 = run[r].entry
      BY <1>2 DEF Added, SiteInv, RecordsFit, EntriesFit, at
    <3>3. DOMAIN q = 1..Len(q) /\ Len(q) \in Nat /\ DOMAIN <<>> = {}
      OBVIOUS
    <3>4. \A i \in DOMAIN Append(q, e0) :
             Append(q, e0)[i] = e0 \/ (i \in DOMAIN q /\ Append(q, e0)[i] = q[i])
      BY <3>3
    <3>5. QED
      BY <2>4, <3>1, <3>2, <3>3, <3>4
  <2>6. QED
    BY <1>2, <2>3, <2>5 DEF Live
<1>3. CASE Applies
  <2>1. records \in [Sites -> Seq(Entry)] /\ websites \in [Sites -> Entry \cup {None}]
    BY DEF SiteInv, SiteTypeOK
  <2>2. CASE records' = records /\ websites' = websites
    BY <1>1, <2>2
  <2>3. ASSUME NEW t \in Sites, NEW i \in DOMAIN records[t],
               websites' = [websites EXCEPT ![t] = records[t][i]],
               records' = [records EXCEPT ![t] = SubSeq(@, i + 1, Len(@))]
        PROVE  e \in Live(s)
    <3>1. CASE s # t
      BY <1>1, <2>1, <2>3, <3>1 DEF Live
    <3>2. CASE s = t
      <4>1. websites'[s] = records[s][i]
        BY <2>1, <2>3, <3>2
      <4>2. \A j \in DOMAIN records'[s] :
               j + i \in DOMAIN records[s] /\ records'[s][j] = records[s][j + i]
        BY <2>3, <3>2, AppliedFacts
      <4>3. QED
        BY <2>3, <3>2, <4>1, <4>2 DEF Live
    <3>3. QED
      BY <3>1, <3>2
  <2>4. QED
    BY <1>3, <2>2, <2>3 DEF Applies
<1>4. QED
  BY <1>1, <1>2, <1>3, LedgerSteps

LEMMA WebsitesFitStep ==
    ASSUME SiteInv, NEW r \in Runs, Effect(r)
    PROVE  WebsitesFit'
<1> SUFFICES ASSUME NEW s \in Sites, NEW e \in Live(s)'
             PROVE  /\ e \in Entry
                    /\ \E k \in DOMAIN recorded'[s] :
                          recorded'[s][k] = e.volume /\ InOrder(recorded'[s], e, k)
  BY DEF WebsitesFit
<1>1. CASE e \in Live(s)
  <2>1. PICK k \in DOMAIN recorded[s] :
           e \in Entry /\ recorded[s][k] = e.volume /\ InOrder(recorded[s], e, k)
    BY <1>1 DEF SiteInv, RecordsFit, WebsitesFit
  <2>2. InOrder(recorded'[s], e, k)
    BY <2>1, OrderStays
  <2>3. k \in DOMAIN recorded'[s] /\ recorded'[s][k] = recorded[s][k]
    BY <2>1, Growth
  <2>4. QED
    BY <2>1, <2>2, <2>3
<1>2. CASE Added(s, r) /\ e = run[r].entry
  <2>1. e \in Entry /\ e.volume = r /\ InOrder(recorded[s], e, Last(s) + 1)
    BY <1>2 DEF Added, SiteInv, RecordsFit, EntriesFit, at
  <2>2. InOrder(recorded'[s], e, Last(s) + 1)
    BY <2>1, OrderStays
  <2>3. Last(s) + 1 \in DOMAIN recorded'[s] /\ recorded'[s][Last(s) + 1] = r
    BY <1>2, AddedFacts
  <2>4. QED
    BY <2>1, <2>2, <2>3
<1>3. QED
  BY <1>1, <1>2, LiveSteps

(* The next version of an entry is in order, its volume being recorded. *)
LEMMA NextInOrder ==
    ASSUME SiteInv, NEW r \in Runs, NEW s \in Sites, websites[s] # None
    PROVE  /\ websites[s] \in Entry
           /\ InOrder(recorded[s], NextVersion(r, websites[s]), Last(s) + 1)
<1>1. /\ recorded[s] \in Seq(Runs) /\ Last(s) \in Nat /\ DOMAIN recorded[s] = 1..Last(s)
  BY DEF SiteInv, SiteTypeOK, Last
<1>2. websites[s] \in Live(s)
  BY DEF Live
<1>3. PICK e \in Entry : e = websites[s]
  BY <1>2 DEF SiteInv, RecordsFit, WebsitesFit
<1>4. PICK n \in DOMAIN recorded[s] : recorded[s][n] = e.volume /\ InOrder(recorded[s], e, n)
  BY <1>2, <1>3 DEF SiteInv, RecordsFit, WebsitesFit
<1>5. n \in Nat /\ n < Last(s) + 1
  BY <1>1
<1>6. PICK x \in Entry : x = NextVersion(r, e)
  BY NextVersionFacts
<1>7. /\ x.version = e.version + 1
      /\ DOMAIN x.history = DOMAIN e.history \cup {e.version}
      /\ \A v \in DOMAIN x.history :
            x.history[v] = IF v = e.version THEN e.volume ELSE e.history[v]
  BY <1>6, NextVersionFacts
<1>8. e.version \in Nat /\ DOMAIN e.history \in SUBSET Nat
  BY EntryFacts
<1>9. \A v \in DOMAIN e.history : v \in Nat /\ v < e.version /\ x.history[v] = e.history[v]
  BY <1>4, <1>7, <1>8 DEF InOrder
<1>10. x.history[e.version] = recorded[s][n]
  BY <1>4, <1>7
<1>11. \A i, j \in DOMAIN recorded[s] : recorded[s][i] = recorded[s][j] => i = j
  BY DEF SiteInv, RecordsFit, RecordedOnce
<1>12. \A v \in DOMAIN x.history : v < x.version
  BY <1>7, <1>8, <1>9
<1>13. ASSUME NEW v \in DOMAIN x.history
       PROVE  \E i \in DOMAIN recorded[s] : i < Last(s) + 1 /\ recorded[s][i] = x.history[v]
  <2>1. CASE v = e.version
    BY <1>5, <1>10, <2>1
  <2>2. CASE v \in DOMAIN e.history
    <3>1. PICK i \in DOMAIN recorded[s] : i < n /\ recorded[s][i] = e.history[v]
      BY <1>4, <2>2 DEF InOrder
    <3>2. i < Last(s) + 1 /\ recorded[s][i] = x.history[v]
      BY <1>1, <1>5, <1>9, <2>2, <3>1
    <3>3. QED
      BY <3>2
  <2>3. QED
    BY <1>7, <2>1, <2>2
<1>14. ASSUME NEW v \in DOMAIN x.history, NEW w \in DOMAIN x.history, v < w,
              NEW i \in DOMAIN recorded[s], NEW j \in DOMAIN recorded[s],
              recorded[s][i] = x.history[v], recorded[s][j] = x.history[w]
       PROVE  i < j
  <2>1. v \in DOMAIN e.history
    <3>1. \A y \in DOMAIN e.history : ~(e.version < y)
      BY <1>8, <1>9
    <3>2. ~(e.version < e.version)
      BY <1>8
    <3>3. QED
      BY <1>7, <1>14, <3>1, <3>2
  <2>2. CASE w \in DOMAIN e.history
    BY <1>4, <1>9, <1>14, <2>1, <2>2 DEF InOrder
  <2>3. CASE w = e.version
    <3>1. PICK k \in DOMAIN recorded[s] : k < n /\ recorded[s][k] = e.history[v]
      BY <1>4, <2>1 DEF InOrder
    <3>2. i = k
      BY <1>9, <1>11, <1>14, <2>1, <3>1
    <3>3. j = n
      BY <1>10, <1>11, <1>14, <2>3
    <3>4. QED
      BY <3>1, <3>2, <3>3
  <2>4. QED
    BY <1>7, <2>2, <2>3
<1>15. InOrder(recorded[s], x, Last(s) + 1)
  BY <1>12, <1>13, <1>14 DEF InOrder
<1>16. QED
  BY <1>3, <1>6, <1>15

LEMMA EntriesFitStep ==
    ASSUME SiteInv, NEW r \in Runs, Effect(r)
    PROVE  EntriesFit'
<1> SUFFICES ASSUME NEW q \in Runs, NEW s \in Sites, s = site[q], NEW e, e = run'[q].entry
             PROVE  /\ run'[q].pc = "record" => /\ e \in Entry /\ e.volume = q
                                                /\ InOrder(recorded'[s], e, Last(s)' + 1)
                    /\ Retaining(q)' => /\ e \in Entry
                                        /\ InOrder(recorded'[s], e, Last(s)')
                                        /\ keepCount >= 1
  BY SiteAssumption DEF EntriesFit, at
<1>1. /\ Last(s) \in Nat /\ Last(s)' \in Nat /\ Last(s) <= Last(s)' /\ recorded'[s] \in Seq(Runs)
      /\ recorded[s] \in Seq(Runs)
  BY Growth
<1>2. \A n \in Nat : InOrder(recorded[s], e, n) => InOrder(recorded'[s], e, n)
  BY OrderStays
<1>3. \A m, n \in Nat : m <= n /\ InOrder(recorded'[s], e, m) => InOrder(recorded'[s], e, n)
  <2> SUFFICES ASSUME NEW m \in Nat, NEW n \in Nat, m <= n, InOrder(recorded'[s], e, m)
               PROVE  InOrder(recorded'[s], e, n)
    OBVIOUS
  <2>1. \A i \in DOMAIN recorded'[s] : i \in Nat /\ (i < m => i < n)
    BY <1>1
  <2>2. QED
    BY <2>1 DEF InOrder
<1>4. /\ InOrder(recorded[s], e, Last(s) + 1) => InOrder(recorded'[s], e, Last(s)' + 1)
      /\ InOrder(recorded[s], e, Last(s)) => InOrder(recorded'[s], e, Last(s)')
  BY <1>1, <1>2, <1>3
<1>5. CASE run[q].pc = run'[q].pc /\ run[q].entry = run'[q].entry
  <2>1. /\ run[q].pc = "record" => /\ e \in Entry /\ e.volume = q
                                   /\ InOrder(recorded[s], e, Last(s) + 1)
        /\ Retaining(q) => e \in Entry /\ InOrder(recorded[s], e, Last(s)) /\ keepCount >= 1
    BY <1>5 DEF SiteInv, RecordsFit, EntriesFit, at
  <2>2. QED
    BY <1>4, <1>5, <2>1 DEF Retaining
<1>6. CASE q = r /\ Reads(r)
  <2>1. SameLedger /\ run'[q].pc = "record" /\ e \in Entry
    BY <1>6 DEF Reads
  <2>2. CASE e = FirstVersion(r)
    <3>1. DOMAIN e.history = {} /\ e.volume = q
      BY <1>6, <2>2, FirstVersionFacts
    <3>2. QED
      BY <2>1, <3>1 DEF InOrder, Retaining
  <2>3. CASE websites[s] # None /\ e = NextVersion(r, websites[s])
    <3>1. websites[s] \in Entry /\ InOrder(recorded[s], e, Last(s) + 1)
      BY <2>3, NextInOrder
    <3>2. e.volume = q
      BY <1>6, <2>3, <3>1, NextVersionFacts
    <3>3. QED
      BY <1>4, <2>1, <3>1, <3>2 DEF Retaining
  <2>4. QED
    BY <1>6, <2>2, <2>3 DEF Reads
<1>7. CASE q = r /\ Records(r) /\ Retaining(q)'
  <2>1. /\ \E applied \in BOOLEAN : Recording(s, r, applied)
        /\ keepCount >= 1 /\ run[r].pc = "record" /\ e = run[r].entry
        /\ run'[r].pc = "linked?"
    BY <1>7 DEF Records, Retaining, SameEntry
  <2>2. e \in Entry /\ InOrder(recorded[s], e, Last(s) + 1)
    BY <1>7, <2>1 DEF SiteInv, RecordsFit, EntriesFit, at
  <2>3. recorded'[s] = Append(recorded[s], r)
    BY <2>1 DEF Recording, SiteInv, SiteTypeOK
  <2>4. Last(s)' = Last(s) + 1
    BY <1>1, <2>3 DEF Last
  <2>5. InOrder(recorded'[s], e, Last(s)')
    BY <1>1, <1>2, <2>2, <2>4
  <2>6. QED
    BY <1>7, <2>1, <2>2, <2>5
<1>8. CASE q = r /\ Retaining(q) /\ Retaining(q)' /\ run'[q].entry = run[q].entry
  <2>1. e \in Entry /\ InOrder(recorded[s], e, Last(s)) /\ keepCount >= 1
    BY <1>8 DEF SiteInv, RecordsFit, EntriesFit
  <2>2. QED
    BY <1>4, <1>8, <2>1 DEF Retaining
<1>9. CASE q = r /\ run'[r].pc # "record" /\ ~Retaining(r)'
  BY <1>9 DEF Retaining
<1>10. CASE q # r
  BY <1>5, <1>10 DEF Effect
<1>11. CASE q = r /\ (Decided(r) \/ Applies)
  BY <1>5, <1>11 DEF Decided, Applies
<1>12. CASE q = r /\ (Uploads(r) \/ Waits(r) \/ Links(r) \/ Stops(r))
  <2>1. run'[r].pc \notin {"record", "linked?", "stored?", "forget"}
    BY <1>12 DEF Uploads, Waits, Links, Stops
  <2>2. QED
    BY <1>9, <1>12, <2>1 DEF Retaining
<1>13. CASE q = r /\ (Picks(r) \/ Looks(r) \/ Forgets(r))
  <2>1. /\ Retaining(q) /\ run'[q].entry = run[q].entry
        /\ run'[q].pc \in {"done", "stored?", "forget"}
    BY <1>13 DEF Picks, Looks, Forgets, Retaining
  <2>2. QED
    BY <1>8, <1>9, <1>13, <2>1 DEF Retaining
<1>14. CASE q = r /\ Records(r)
  <2>1. run'[r].pc # "record"
    BY <1>14 DEF Records
  <2>2. QED
    BY <1>7, <1>9, <1>14, <2>1
<1>15. QED
  BY <1>6, <1>10, <1>11, <1>12, <1>13, <1>14 DEF Effect, Moves

LEMMA StoresFitStep ==
    ASSUME SiteInv, NEW r \in Runs, Effect(r)
    PROVE  StoresFit'
<1> SUFFICES ASSUME NEW q \in Runs
             PROVE  /\ run'[q].pc = "idle" => store'[q] = "none"
                    /\ run'[q].pc \in {"verify", "website", "record"} => store'[q] = "processed"
  BY DEF StoresFit, at
<1>1. /\ run[q].pc = "idle" => store[q] = "none"
      /\ run[q].pc \in {"verify", "website", "record"} => store[q] = "processed"
  BY DEF SiteInv, RecordsFit, StoresFit, at
<1>2. CASE (q # r \/ Applies) /\ Past(q)
  <2>1. run'[q] = run[q]
    BY <1>2 DEF Effect, Applies
  <2>2. QED
    BY <1>2, <2>1 DEF Past
<1>3. CASE (q # r \/ Applies) /\ ~Past(q)
  <2>1. run'[q] = run[q]
    BY <1>3 DEF Effect, Applies
  <2>2. ~Named(r, q)
    BY <1>3, NamedFacts
  <2>3. store'[q] = store[q]
    <3>1. CASE q # r
      BY <2>2, <3>1, StoreSteps
    <3>2. CASE Applies
      <4>1. \A b \in forgets : q \notin b
        BY <2>2 DEF Named
      <4>2. QED
        BY <3>2, <4>1 DEF Applies, forgetting
    <3>3. QED
      BY <1>3, <3>1, <3>2
  <2>4. QED
    BY <1>1, <2>1, <2>3
<1>4. CASE q = r /\ Decided(r)
  <2>1. run'[q].pc = run[q].pc /\ store[q] = "pending"
    BY <1>4 DEF Decided
  <2>2. QED
    BY <1>1, <2>1
<1>5. CASE q = r /\ (Uploads(r) \/ Records(r) \/ Picks(r) \/ Looks(r) \/ Forgets(r) \/ Stops(r)
                     \/ Links(r))
  BY <1>5 DEF Uploads, Records, Picks, Looks, Forgets, Stops, Links
<1>6. CASE q = r /\ (Waits(r) \/ Reads(r))
  BY <1>1, <1>6 DEF Waits, Reads
<1>7. QED
  BY <1>2, <1>3, <1>4, <1>5, <1>6 DEF Effect, Moves

(* Which hashes a run may forget grows only when it has read what is linked. *)
LEMMA ForgetSteps ==
    ASSUME SiteInv, NEW r \in Runs, Effect(r), NEW q \in Runs, NEW u \in run'[q].forget
    PROVE  \/ u \in run[q].forget
           \/ /\ q = r /\ run[r].pc = "linked?" /\ run'[r].pc = "stored?"
              /\ u \in older(run[r].entry) /\ u \notin linked
  BY DEF Effect, Moves, Uploads, Decided, Waits, Reads, Records, Picks, Looks, Forgets, Stops,
     Links, SameEntry, Applies

LEMMA ForgetsFitStep ==
    ASSUME SiteInv, NEW r \in Runs, Effect(r)
    PROVE  ForgetsFit'
<1> SUFFICES ASSUME NEW q \in Runs, NEW s \in Sites, s = site[q], NEW u \in run'[q].forget
             PROVE  /\ run'[q].pc \in {"stored?", "forget"}
                    /\ \E i \in DOMAIN recorded'[s] : recorded'[s][i] = u /\ Aged(s, i)'
  BY SiteAssumption DEF ForgetsFit
<1>1. ASSUME NEW i \in DOMAIN recorded[s], recorded[s][i] = u, Aged(s, i)
      PROVE  \E j \in DOMAIN recorded'[s] : recorded'[s][j] = u /\ Aged(s, j)'
  BY <1>1, Growth
<1>2. CASE u \in run[q].forget
  <2>1. /\ run[q].pc \in {"stored?", "forget"}
        /\ \E i \in DOMAIN recorded[s] : recorded[s][i] = u /\ Aged(s, i)
    BY <1>2 DEF SiteInv, RecordsFit, ForgetsFit
  <2>2. run'[q].pc \in {"stored?", "forget"}
    <3>1. CASE q # r \/ Decided(r) \/ Applies
      BY <2>1, <3>1 DEF Effect, Decided, Applies
    <3>2. CASE q = r /\ ~Decided(r) /\ ~Applies
      <4>1. Looks(r) \/ Forgets(r) \/ Stops(r)
        BY <2>1, <3>2 DEF Effect, Moves, Uploads, Waits, Reads, Records, Picks, Links
      <4>2. run'[r].forget # {}
        BY <3>2
      <4>3. QED
        BY <3>2, <4>1, <4>2 DEF Looks, Forgets, Stops
    <3>3. QED
      BY <3>1, <3>2
  <2>3. QED
    BY <1>1, <2>1, <2>2
<1>3. CASE u \notin run[q].forget
  <2>1. /\ q = r /\ run[r].pc = "linked?" /\ run'[r].pc = "stored?"
        /\ u \in older(run[r].entry)
    BY <1>3, ForgetSteps
  <2>2. run[r].entry \in Entry /\ InOrder(recorded[s], run[r].entry, Last(s)) /\ keepCount >= 1
    BY <2>1 DEF SiteInv, RecordsFit, EntriesFit, Retaining
  <2>3. recorded[s] \in Seq(Runs)
    BY Growth
  <2>4. \E i \in DOMAIN recorded[s] : recorded[s][i] = u /\ Aged(s, i)
    BY <2>1, <2>2, <2>3, OlderAreAged
  <2>5. QED
    BY <1>1, <2>1, <2>4
<1>4. QED
  BY <1>2, <1>3

(* A FORGET that Aleph takes without applying it is one batch of a run. *)
LEMMA FlightSteps ==
    ASSUME SiteInv, NEW r \in Runs, Effect(r), NEW b \in forgets', b \notin forgets
    PROVE  b \subseteq run[r].forget /\ \A u \in b : <<r, u>> \in late'
<1>1. PICK applied \in BOOLEAN : Forgetting(r, applied)
  BY DEF Effect, Moves, Uploads, Decided, Waits, Reads, Records, Picks, Looks, Forgets, Stops,
     Links, Applies, SameForgets
<1>2. b = batch(r) /\ late' = late \cup ({r} \X batch(r))
  BY <1>1 DEF Forgetting
<1>3. QED
  BY <1>2 DEF batch

LEMMA FlightFitStep ==
    ASSUME SiteInv, NEW r \in Runs, Effect(r)
    PROVE  FlightFit'
<1> SUFFICES ASSUME NEW b \in forgets'
             PROVE  /\ \E q \in Runs : \A u \in b : <<q, u>> \in late'
                    /\ \A u \in b : \E s \in Sites : \E i \in DOMAIN recorded'[s] :
                          recorded'[s][i] = u /\ Aged(s, i)'
  BY DEF FlightFit
<1>1. ASSUME NEW u, NEW s \in Sites, NEW i \in DOMAIN recorded[s], recorded[s][i] = u, Aged(s, i)
      PROVE  \E j \in DOMAIN recorded'[s] : recorded'[s][j] = u /\ Aged(s, j)'
  BY <1>1, Growth
<1>2. CASE b \in forgets
  <2>1. PICK q \in Runs : \A u \in b : <<q, u>> \in late
    BY <1>2 DEF SiteInv, RecordsFit, FlightFit
  <2>2. late \subseteq late'
    <3>1. PICK s \in Sites : s = site[r]
      BY SiteAssumption
    <3>2. QED
      BY <3>1, LedgerSteps
  <2>3. \A u \in b : \E s \in Sites : \E i \in DOMAIN recorded[s] : recorded[s][i] = u /\ Aged(s, i)
    BY <1>2 DEF SiteInv, RecordsFit, FlightFit
  <2>4. QED
    BY <1>1, <2>1, <2>2, <2>3
<1>3. CASE b \notin forgets
  <2>1. b \subseteq run[r].forget /\ \A u \in b : <<r, u>> \in late'
    BY <1>3, FlightSteps
  <2>2. \A u \in b : \E s \in Sites : \E i \in DOMAIN recorded[s] : recorded[s][i] = u /\ Aged(s, i)
    BY <2>1, SiteAssumption DEF SiteInv, RecordsFit, ForgetsFit
  <2>3. QED
    BY <1>1, <2>1, <2>2
<1>4. QED
  BY <1>2, <1>3

-----------------------------------------------------------------------------
(* Entries that Aleph has taken and not applied *)

LEMMA LiveFacts ==
    ASSUME SiteInv, NEW s \in Sites
    PROVE  /\ websites[s] # None => websites[s] \in Live(s)
           /\ \A i \in DOMAIN records[s] : records[s][i] \in Live(s)
           /\ \A e \in Live(s) :
                 /\ e \in Entry /\ e.volume \in Runs /\ site[e.volume] = s
                 /\ \E k \in DOMAIN recorded[s] : recorded[s][k] = e.volume
                 /\ \A u \in past(e) : \E k \in DOMAIN recorded[s] : recorded[s][k] = u
<1>1. ASSUME NEW e \in Live(s)
      PROVE  /\ e \in Entry /\ e.volume \in Runs /\ site[e.volume] = s
             /\ \E k \in DOMAIN recorded[s] : recorded[s][k] = e.volume
             /\ \A u \in past(e) : \E k \in DOMAIN recorded[s] : recorded[s][k] = u
  <2>1. PICK k \in DOMAIN recorded[s] :
           e \in Entry /\ recorded[s][k] = e.volume /\ InOrder(recorded[s], e, k)
    BY <1>1 DEF SiteInv, RecordsFit, WebsitesFit
  <2>2. site[e.volume] = s
    BY <2>1 DEF SiteInv, RecordsFit, RecordedFit
  <2>3. \A u \in past(e) : \E j \in DOMAIN recorded[s] : recorded[s][j] = u
    BY <2>1 DEF InOrder, past
  <2>4. QED
    BY <2>1, <2>2, <2>3, EntryFacts
<1>2. QED
  BY <1>1 DEF Live

(* The history of a run's entry was recorded. *)
LEMMA PastRecorded ==
    ASSUME SiteInv, NEW q \in Runs, at(q, "record") \/ Retaining(q), NEW u \in past(run[q].entry)
    PROVE  \E k \in DOMAIN recorded[site[q]] : recorded[site[q]][k] = u
  BY DEF SiteInv, RecordsFit, EntriesFit, InOrder, past

(* What is queued was queued, or is the new record. *)
LEMMA QueueSteps ==
    ASSUME SiteInv, NEW r \in Runs, Effect(r), NEW s \in Sites, NEW i \in DOMAIN records'[s]
    PROVE  \/ \E j \in DOMAIN records[s] : records'[s][i] = records[s][j]
           \/ Added(s, r) /\ records'[s][i] = run[r].entry
<1>1. CASE records'[s] = records[s]
  BY <1>1
<1>2. CASE Added(s, r)
  <2>1. PICK applied \in BOOLEAN : Recording(s, r, applied)
    BY <1>2 DEF Added
  <2>2. records \in [Sites -> Seq(Entry)]
    BY DEF SiteInv, SiteTypeOK
  <2>3. records'[s] = <<>> \/ records'[s] = Append(records[s], run[r].entry)
    BY <2>1, <2>2 DEF Recording
  <2>4. PICK q \in Seq(Entry) : q = records[s]
    BY <2>2
  <2>5. PICK e \in Entry : e = run[r].entry
    BY <1>2 DEF Added, SiteInv, RecordsFit, EntriesFit, at
  <2>6. DOMAIN q = 1..Len(q) /\ Len(q) \in Nat /\ DOMAIN <<>> = {}
    OBVIOUS
  <2>7. \A k \in DOMAIN Append(q, e) :
           Append(q, e)[k] = e \/ (k \in DOMAIN q /\ Append(q, e)[k] = q[k])
    BY <2>6
  <2>8. QED
    BY <1>2, <2>3, <2>4, <2>5, <2>6, <2>7
<1>3. CASE Applies
  <2>1. CASE records' = records
    BY <1>1, <2>1
  <2>2. ASSUME NEW t \in Sites, NEW k \in DOMAIN records[t],
               records' = [records EXCEPT ![t] = SubSeq(@, k + 1, Len(@))]
        PROVE  \E j \in DOMAIN records[s] : records'[s][i] = records[s][j]
    <3>1. CASE s # t
      BY <1>1, <2>2, <3>1 DEF SiteInv, SiteTypeOK
    <3>2. CASE s = t
      BY <2>2, <3>2, AppliedFacts
    <3>3. QED
      BY <3>1, <3>2
  <2>3. QED
    BY <1>3, <2>1, <2>2 DEF Applies
<1>4. QED
  BY <1>1, <1>2, <1>3, LedgerSteps

LEMMA QueuedOnceStep ==
    ASSUME SiteInv, NEW r \in Runs, Effect(r)
    PROVE  QueuedOnce'
<1> SUFFICES ASSUME NEW s \in Sites, NEW i \in DOMAIN records'[s]
             PROVE  /\ websites'[s] # None => records'[s][i].volume # websites'[s].volume
                    /\ \A j \in DOMAIN records'[s] :
                          records'[s][i].volume = records'[s][j].volume => i = j
  BY DEF QueuedOnce
<1>0. records \in [Sites -> Seq(Entry)] /\ websites \in [Sites -> Entry \cup {None}]
  BY DEF SiteInv, SiteTypeOK
<1>1. CASE records'[s] = records[s] /\ websites'[s] = websites[s]
  BY <1>1 DEF SiteInv, QueuesFit, QueuedOnce
<1>2. CASE Added(s, r)
  <2>1. PICK applied \in BOOLEAN : Recording(s, r, applied)
    BY <1>2 DEF Added
  <2>2. applied = FALSE
    <3>1. applied => records'[s] = <<>>
      BY <1>0, <2>1 DEF Recording
    <3>2. records'[s] # <<>>
      OBVIOUS
    <3>3. QED
      BY <3>1, <3>2
  <2>3. records'[s] = Append(records[s], run[r].entry) /\ websites'[s] = websites[s]
    BY <1>0, <2>1, <2>2 DEF Recording
  <2>4. PICK e \in Entry : e = run[r].entry /\ e.volume = r
    BY <1>2 DEF Added, SiteInv, RecordsFit, EntriesFit, at
  <2>5. PICK q \in Seq(Entry) : q = records[s]
    BY <1>0
  <2>6. PICK l \in Nat : l = Len(q) /\ DOMAIN q = 1..l
    BY <2>5
  <2>7. /\ DOMAIN Append(q, e) = 1..(l + 1) /\ Append(q, e)[l + 1] = e
        /\ \A k \in 1..l : Append(q, e)[k] = q[k]
    BY <2>5, <2>6
  <2>8. \A k \in 1..l : q[k].volume # r
    <3>1. \A k \in DOMAIN recorded[s] : recorded[s][k] # r
      BY <1>2, Unrecorded DEF Added
    <3>2. QED
      BY <2>5, <2>6, <3>1, LiveFacts
  <2>9. websites[s] # None => websites[s].volume # r
    <3>1. \A k \in DOMAIN recorded[s] : recorded[s][k] # r
      BY <1>2, Unrecorded DEF Added
    <3>2. QED
      BY <3>1, LiveFacts
  <2>10. \A k \in 1..l : /\ (websites[s] # None => q[k].volume # websites[s].volume)
                          /\ \A j \in 1..l : q[k].volume = q[j].volume => k = j
    BY <2>5, <2>6 DEF SiteInv, QueuesFit, QueuedOnce
  <2>11. \A k \in 1..(l + 1) : k \in 1..l \/ k = l + 1
    BY <2>6
  <2>12. PICK z : z = Append(q, e)
    OBVIOUS
  <2>13. /\ records'[s] = z /\ websites'[s] = websites[s] /\ DOMAIN z = 1..(l + 1)
         /\ z[l + 1].volume = r /\ \A k \in 1..l : z[k] = q[k]
    BY <2>3, <2>4, <2>5, <2>7, <2>12
  <2>14. \A k \in DOMAIN z : websites[s] # None => z[k].volume # websites[s].volume
    BY <2>9, <2>10, <2>11, <2>13
  <2>15. \A j, k \in DOMAIN z : z[j].volume = z[k].volume => j = k
    BY <2>8, <2>10, <2>11, <2>13
  <2>16. QED
    BY <2>13, <2>14, <2>15
<1>3. CASE Applies
  <2>1. CASE records' = records /\ websites' = websites
    BY <1>1, <2>1
  <2>2. ASSUME NEW t \in Sites, NEW k \in DOMAIN records[t],
               websites' = [websites EXCEPT ![t] = records[t][k]],
               records' = [records EXCEPT ![t] = SubSeq(@, k + 1, Len(@))]
        PROVE  /\ websites'[s] # None => records'[s][i].volume # websites'[s].volume
               /\ \A j \in DOMAIN records'[s] :
                     records'[s][i].volume = records'[s][j].volume => i = j
    <3>1. CASE s # t
      BY <1>0, <1>1, <2>2, <3>1
    <3>2. CASE s = t
      <4>1. websites'[s] = records[s][k]
        BY <1>0, <2>2, <3>2
      <4>2. /\ k \in Nat
            /\ \A j \in DOMAIN records'[s] :
                 j \in Nat /\ j + k \in DOMAIN records[s] /\ records'[s][j] = records[s][j + k]
        BY <2>2, <3>2, AppliedFacts
      <4>3. i \in Nat /\ i >= 1
        <5>1. records[s] \in Seq(Entry)
          BY <1>0
        <5>2. PICK q : q = SubSeq(records[s], k + 1, Len(records[s]))
          OBVIOUS
        <5>3. records'[s] = q
          BY <1>0, <2>2, <3>2, <5>2
        <5>4. k + 1 \in Int /\ Len(records[s]) \in Int
              /\ \A j \in (k + 1)..Len(records[s]) : records[s][j] \in Entry
          BY <4>2, <5>1
        <5>5. q \in Seq(Entry)
          BY <5>2, <5>4, SubSeqProperties
        <5>6. QED
          BY <5>3, <5>5
      <4>4. i + k # k
        BY <4>2, <4>3
      <4>5. \A x, y \in DOMAIN records[s] : records[s][x].volume = records[s][y].volume => x = y
        BY DEF SiteInv, QueuesFit, QueuedOnce
      <4>6. records[s][i + k].volume # records[s][k].volume
        BY <2>2, <3>2, <4>2, <4>4, <4>5
      <4>7. ASSUME NEW j \in DOMAIN records'[s], records'[s][i].volume = records'[s][j].volume
            PROVE  i = j
        <5>1. i + k = j + k
          BY <4>2, <4>5, <4>7
        <5>2. QED
          BY <4>2, <4>3, <5>1
      <4>8. QED
        BY <4>1, <4>2, <4>6, <4>7
    <3>3. QED
      BY <3>1, <3>2
  <2>3. QED
    BY <1>3, <2>1, <2>2 DEF Applies
<1>4. QED
  BY <1>1, <1>2, <1>3, LedgerSteps

LEMMA QueuedIsNewStep ==
    ASSUME SiteInv, NEW r \in Runs, Effect(r)
    PROVE  QueuedIsNew'
<1> SUFFICES ASSUME NEW s \in Sites, NEW i \in DOMAIN records'[s], NEW u, u = records'[s][i].volume
             PROVE  /\ \A e \in Live(s)' : u \notin past(e)
                    /\ \A q \in Runs :
                          site[q] = s /\ (run'[q].pc = "record" \/ Retaining(q)') =>
                              u \notin past(run'[q].entry)
  BY DEF QueuedIsNew, at, past
<1>1. CASE \E j \in DOMAIN records[s] : records'[s][i] = records[s][j]
  <2>1. PICK j \in DOMAIN records[s] : u = records[s][j].volume
    BY <1>1
  <2>2. \A e \in Live(s) : u \notin past(e)
    BY <2>1 DEF SiteInv, QueuesFit, QueuedIsNew
  <2>3. \A q \in Runs : site[q] = s /\ (at(q, "record") \/ Retaining(q)) =>
           u \notin past(run[q].entry)
    BY <2>1 DEF SiteInv, QueuesFit, QueuedIsNew
  <2>4. ASSUME NEW e \in Live(s)' PROVE u \notin past(e)
    <3>1. CASE e \in Live(s)
      BY <2>2, <3>1
    <3>2. CASE Added(s, r) /\ e = run[r].entry
      BY <2>3, <3>2 DEF Added, at
    <3>3. QED
      BY <3>1, <3>2, LiveSteps
  <2>5. ASSUME NEW q \in Runs, site[q] = s, run'[q].pc = "record" \/ Retaining(q)'
        PROVE  u \notin past(run'[q].entry)
    <3>1. CASE run'[q].entry = run[q].entry /\ (at(q, "record") \/ Retaining(q))
      BY <2>3, <2>5, <3>1
    <3>2. CASE q = r /\ Reads(r)
      <4>1. CASE run'[r].entry = FirstVersion(r)
        BY <3>2, <4>1, FirstVersionFacts DEF past
      <4>2. CASE websites[s] # None /\ run'[r].entry = NextVersion(r, websites[s])
        <5>1. websites[s] \in Live(s) /\ websites[s] \in Entry
          BY <4>2, LiveFacts
        <5>2. u \notin past(websites[s])
          BY <2>2, <5>1
        <5>3. u # websites[s].volume
          BY <2>1, <4>2 DEF SiteInv, QueuesFit, QueuedOnce
        <5>4. PICK e \in Entry : e = websites[s]
          BY <5>1
        <5>5. past(NextVersion(r, e)) \subseteq past(e) \cup {e.volume}
          BY NextVersionFacts DEF past
        <5>6. QED
          BY <3>2, <4>2, <5>2, <5>3, <5>4, <5>5
      <4>3. QED
        BY <2>5, <3>2, <4>1, <4>2 DEF Reads
    <3>3. QED
      BY <2>5, <3>1, <3>2 DEF Effect, Moves, Uploads, Decided, Waits, Records, Picks, Looks,
         Forgets, Stops, Links, Applies, SameEntry, Retaining, at
  <2>6. QED
    BY <2>4, <2>5
<1>2. CASE Added(s, r) /\ records'[s][i] = run[r].entry
  <2>1. u = r /\ s = site[r] /\ at(r, "record")
    BY <1>2 DEF Added, SiteInv, RecordsFit, EntriesFit, at
  <2>2. \A k \in DOMAIN recorded[s] : recorded[s][k] # u
    BY <1>2, <2>1, Unrecorded DEF Added
  <2>3. u \notin past(run[r].entry)
    BY <2>1, <2>2, PastRecorded
  <2>4. ASSUME NEW e \in Live(s)' PROVE u \notin past(e)
    BY <2>2, <2>3, LiveSteps, LiveFacts
  <2>5. ASSUME NEW q \in Runs, site[q] = s, run'[q].pc = "record" \/ Retaining(q)'
        PROVE  u \notin past(run'[q].entry)
    <3>1. CASE q = r
      BY <1>2, <2>3, <3>1 DEF Added, SameEntry
    <3>2. CASE q # r
      <4>1. run'[q] = run[q] /\ (at(q, "record") \/ Retaining(q))
        BY <2>5, <3>2 DEF Effect, at, Retaining
      <4>2. QED
        BY <2>2, <2>5, <4>1, PastRecorded
    <3>3. QED
      BY <3>1, <3>2
  <2>6. QED
    BY <2>4, <2>5
<1>3. QED
  BY <1>1, <1>2, QueueSteps

LEMMA LiveStaysStep ==
    ASSUME SiteInv, NEW r \in Runs, Effect(r)
    PROVE  LiveStays'
<1> SUFFICES ASSUME NEW s \in Sites, NEW e \in Live(s)', NEW u, u = e.volume
             PROVE  /\ store'[u] = "processed"
                    /\ \A q \in Runs : u \notin run'[q].forget
                    /\ \A b \in forgets' : u \notin b
  BY DEF LiveStays
<1>1. CASE e \in Live(s)
  <2>1. /\ store[u] = "processed" /\ \A q \in Runs : u \notin run[q].forget
        /\ \A b \in forgets : u \notin b
    BY <1>1 DEF SiteInv, QueuesFit, LiveStays
  <2>2. u \in Runs /\ site[u] = s
    BY <1>1, LiveFacts
  <2>3. store'[u] = "processed"
    BY <2>1, <2>2, StoreSteps DEF Named
  <2>4. ASSUME NEW q \in Runs, u \in run'[q].forget PROVE FALSE
    <3>0. older(run[r].entry) \subseteq past(run[r].entry)
      BY DEF older, past
    <3>1. q = r /\ Retaining(r) /\ u \in past(run[r].entry) /\ u \notin linked
      <4>1. u \notin run[q].forget
        BY <2>1
      <4>2. /\ q = r /\ run[r].pc = "linked?"
            /\ u \in older(run[r].entry) /\ u \notin linked
        BY <2>4, <4>1, ForgetSteps
      <4>3. QED
        BY <3>0, <4>2 DEF Retaining
    <3>2. \E k \in DOMAIN recorded[site[r]] : recorded[site[r]][k] = u
      BY <3>1, PastRecorded
    <3>3. site[r] = s
      BY <2>2, <3>2, SiteAssumption DEF SiteInv, RecordsFit, RecordedFit
    <3>4. CASE websites[s] # None /\ e = websites[s]
      BY <3>1, <3>4 DEF linked
    <3>5. CASE \E i \in DOMAIN records[s] : e = records[s][i]
      BY <3>1, <3>3, <3>5 DEF SiteInv, QueuesFit, QueuedIsNew
    <3>6. QED
      BY <1>1, <3>4, <3>5 DEF Live
  <2>5. \A b \in forgets' : u \notin b
    BY <2>1, FlightSteps
  <2>6. QED
    BY <2>3, <2>4, <2>5
<1>2. CASE Added(s, r) /\ e = run[r].entry
  <2>1. u = r /\ run[r].pc = "record"
    BY <1>2 DEF Added, SiteInv, RecordsFit, EntriesFit, at
  <2>2. store'[r] = "processed"
    BY <1>2, <2>1 DEF Added, SiteInv, RecordsFit, StoresFit
  <2>3. \A q \in Runs : r \notin run[q].forget
    BY <2>1, ForgottenFacts DEF Past
  <2>4. \A q \in Runs : r \notin run'[q].forget
    BY <2>1, <2>3, ForgetSteps
  <2>5. \A b \in forgets' : r \notin b
    BY <1>2, <2>1, FlightFacts DEF Added, SameForgets, Past
  <2>6. QED
    BY <2>1, <2>2, <2>4, <2>5
<1>3. QED
  BY <1>1, <1>2, LiveSteps

-----------------------------------------------------------------------------
(* Links and sweeps *)

Running(r) == run[r].pc \notin Outcomes \cup {"idle"}

LEMMA RunningFacts ==
    ASSUME NEW s \in Sites, NEW r \in Runs
    PROVE  (r \in running(s) <=> site[r] = s /\ Running(r))
           /\ (r \in running(s)' <=> site[r] = s /\ Running(r)')
  BY DEF running, Running

LEMMA OneRunning ==
    ASSUME SiteInv, NEW q \in Runs, NEW r \in Runs, site[q] = site[r], site[r] \notin Overlap,
           Running(q), Running(r)
    PROVE  q = r
<1>1. site[r] \in Sites
  BY SiteAssumption
<1>2. QED
  BY <1>1, RunningFacts DEF SiteInv, LinksFit, InTurn

(* A run that starts finds its site idle. *)
LEMMA Starting ==
    ASSUME SiteInv, NEW r \in Runs, Effect(r), ~Running(r), Running(r)'
    PROVE  Alone(r)
<1>1. CASE Uploads(r) \/ run[r].pc \in {"done", "linkFailed"}
  BY <1>1 DEF Uploads, Running, Outcomes, Effect, Moves, Waits, Reads, Records, Picks, Looks, Forgets,
     Stops, Retaining, Links, Decided, Applies
<1>2. CASE Decided(r) \/ Applies
  BY <1>2 DEF Decided, Applies, Running
<1>3. CASE ~Uploads(r) /\ ~Decided(r) /\ ~Applies /\ run[r].pc \notin {"done", "linkFailed"}
  <2>1. run[r].pc \in {"store", "verify", "website", "record", "linked?", "stored?", "forget",
                       "await", "attach"}
    BY <1>3 DEF Effect, Moves, Waits, Reads, Records, Picks, Looks, Forgets, Stops, Retaining, Links
  <2>2. QED
    BY <2>1 DEF Running, Outcomes
<1>4. QED
  BY <1>1, <1>2, <1>3

LEMMA InTurnStep ==
    ASSUME SiteInv, NEW r \in Runs, Effect(r)
    PROVE  InTurn'
<1> SUFFICES ASSUME NEW s \in Sites \ Overlap, NEW p \in running(s)', NEW q \in running(s)'
             PROVE  p = q
  BY DEF InTurn
<1>1. p \in Runs /\ q \in Runs /\ site[p] = s /\ site[q] = s /\ Running(p)' /\ Running(q)'
  BY DEF running, Running
<1>2. \A x \in Runs : x # r /\ Running(x)' => Running(x)
  BY DEF Effect, Running
<1>3. CASE Running(r)
  BY <1>1, <1>2, <1>3, OneRunning
<1>4. CASE ~Running(r) /\ Running(r)' /\ site[r] = s
  <2>1. running(s) = {}
    BY <1>4, Starting DEF Alone
  <2>2. \A x \in Runs : site[x] = s => ~Running(x)
    BY <2>1, RunningFacts
  <2>3. QED
    BY <1>1, <1>2, <2>2
<1>5. CASE ~Running(r) /\ (~Running(r)' \/ site[r] # s)
  BY <1>1, <1>2, <1>5, OneRunning
<1>6. QED
  BY <1>3, <1>4, <1>5

(* A domain is linked by a run of its site, or by a link that was late. *)
LEMMA DomainSteps ==
    ASSUME SiteInv, NEW r \in Runs, Effect(r), NEW s \in Sites, domains'[s] # domains[s]
    PROVE  \/ /\ run[r].pc = "attach" /\ site[r] = s /\ domains'[s] = r
              /\ store' = store /\ SameEntry(r)
           \/ \E i \in DOMAIN links[s] : domains'[s] = links[s][i]
<1>1. domains \in [Sites -> Runs \cup {None}]
  BY DEF SiteInv, SiteTypeOK
<1>2. CASE Links(r)
  <2>1. run[r].pc = "attach" /\ \E applied \in BOOLEAN : Linking(site[r], r, applied)
    BY <1>2 DEF Links, SameDomains
  <2>2. QED
    BY <1>1, <1>2, <2>1 DEF Links, Linking
<1>3. CASE Applies
  BY <1>1, <1>3 DEF Applies, SameDomains
<1>4. QED
  BY <1>2, <1>3 DEF Effect, Moves, Uploads, Decided, Waits, Reads, Records, Picks, Looks, Forgets,
     Stops, SameDomains

LEMMA DomainsFitStep ==
    ASSUME SiteInv, NEW r \in Runs, Effect(r)
    PROVE  DomainsFit'
<1> SUFFICES ASSUME NEW s \in Sites, domains'[s] # None, NEW u, u = domains'[s]
             PROVE  /\ site[u] = s
                    /\ s \notin Overlap /\ ~isLate(u)' =>
                          /\ store'[u] = "processed"
                          /\ \A q \in Runs : u \notin run'[q].forget
  BY DEF DomainsFit, isLate
<1>0. isLate(u) => isLate(u)'
  BY LateStays
<1>1. CASE domains'[s] = domains[s]
  <2>1. /\ site[u] = s /\ u \in Runs /\ u \in linked
        /\ s \notin Overlap /\ ~isLate(u) =>
              store[u] = "processed" /\ \A q \in Runs : u \notin run[q].forget
    BY <1>1 DEF SiteInv, LinksFit, DomainsFit, SiteTypeOK, linked
  <2>2. \A b \in forgets : u \in b => isLate(u)
    BY FlightFacts
  <2>3. QED
    BY <1>0, <2>1, <2>2, StoreSteps, ForgetSteps DEF Named
<1>2. CASE run[r].pc = "attach" /\ site[r] = s /\ u = r /\ store' = store /\ SameEntry(r)
  <2>1. s \notin Overlap /\ ~isLate(r) => store'[r] = "processed"
    BY <1>2 DEF SiteInv, LinksFit, AttachFits, at
  <2>2. ASSUME s \notin Overlap, NEW q \in Runs, r \in run'[q].forget PROVE FALSE
    <3>1. r \in run[q].forget
      BY <1>2, <2>2, ForgetSteps
    <3>2. site[q] = site[r] /\ run[q].pc \in {"stored?", "forget"}
      BY <3>1, ForgottenFacts
    <3>3. Running(q) /\ Running(r)
      BY <1>2, <3>2 DEF Running, Outcomes
    <3>4. q = r
      BY <1>2, <2>2, <3>2, <3>3, OneRunning
    <3>5. QED
      BY <1>2, <3>2, <3>4
  <2>3. QED
    BY <1>0, <1>2, <2>1, <2>2
<1>3. CASE \E i \in DOMAIN links[s] : u = links[s][i]
  BY <1>0, <1>3 DEF SiteInv, LinksFit, LateLinksFit
<1>4. QED
  BY <1>1, <1>2, <1>3, DomainSteps

LEMMA LateLinksFitStep ==
    ASSUME SiteInv, NEW r \in Runs, Effect(r)
    PROVE  LateLinksFit'
<1> SUFFICES ASSUME NEW s \in Sites, NEW i \in DOMAIN links'[s], NEW u, u = links'[s][i]
             PROVE  site[u] = s /\ isLate(u)'
  BY DEF LateLinksFit, isLate
<1>0. links \in [Sites -> Seq(Runs)] /\ (isLate(u) => isLate(u)')
  BY LateStays DEF SiteInv, SiteTypeOK
<1>1. CASE \E j \in DOMAIN links[s] : u = links[s][j]
  BY <1>0, <1>1 DEF SiteInv, LinksFit, LateLinksFit
<1>2. CASE links' = links
  BY <1>1, <1>2
<1>3. ASSUME NEW applied \in BOOLEAN, Linking(site[r], r, applied)
      PROVE  site[u] = s /\ isLate(u)'
  <2>1. CASE s # site[r]
    BY <1>0, <1>1, <1>3, <2>1 DEF Linking
  <2>2. CASE s = site[r]
    <3>1. PICK q \in Seq(Runs) : q = links[s]
      BY <1>0
    <3>2. links'[s] = IF applied THEN <<>> ELSE Append(q, r)
      BY <1>0, <1>3, <2>2, <3>1 DEF Linking
    <3>3. DOMAIN q = 1..Len(q) /\ Len(q) \in Nat /\ DOMAIN <<>> = {}
      OBVIOUS
    <3>4. \A k \in DOMAIN Append(q, r) :
             Append(q, r)[k] = r \/ (k \in DOMAIN q /\ Append(q, r)[k] = q[k])
      BY <3>3
    <3>5. ~applied /\ (u = r \/ \E j \in DOMAIN q : u = q[j])
      BY <3>2, <3>3, <3>4
    <3>6. isLate(r)'
      BY <1>3, <3>5 DEF Linking, isLate
    <3>7. QED
      BY <1>1, <2>2, <3>1, <3>5, <3>6
  <2>3. QED
    BY <2>1, <2>2
<1>4. ASSUME NEW t \in Sites, NEW k \in DOMAIN links[t],
             links' = [links EXCEPT ![t] = SubSeq(@, k + 1, Len(@))]
      PROVE  \E j \in DOMAIN links[s] : u = links[s][j]
  <2>1. CASE s # t
    BY <1>0, <1>4, <2>1
  <2>2. CASE s = t
    <3>1. PICK q \in Seq(Runs) : q = links[s]
      BY <1>0
    <3>2. PICK l \in Nat : l = Len(q) /\ k \in 1..l /\ DOMAIN q = 1..l
      BY <2>2, <3>1
    <3>3. PICK rest : rest = SubSeq(q, k + 1, l)
      OBVIOUS
    <3>4. links'[s] = rest
      BY <1>0, <1>4, <2>2, <3>1, <3>2, <3>3
    <3>5. k + 1 \in Int /\ l \in Int /\ \A j \in (k + 1)..l : q[j] \in Runs
      BY <3>1, <3>2
    <3>6. /\ rest \in Seq(Runs)
          /\ Len(rest) = (IF k + 1 <= l THEN l - (k + 1) + 1 ELSE 0)
          /\ \A j \in 1..(l - (k + 1) + 1) : rest[j] = q[(k + 1) + j - 1]
      BY <3>3, <3>5, SubSeqProperties, Z3
    <3>7. i \in DOMAIN rest /\ DOMAIN rest = 1..(l - k)
      BY <3>2, <3>4, <3>6
    <3>8. i \in 1..(l - (k + 1) + 1) /\ (k + 1) + i - 1 = i + k /\ i + k \in 1..l
      BY <3>2, <3>7
    <3>9. QED
      BY <3>1, <3>2, <3>4, <3>6, <3>8
  <2>3. QED
    BY <2>1, <2>2
<1>5. CASE Applies
  BY <1>1, <1>2, <1>4, <1>5 DEF Applies, SameDomains
<1>6. CASE Links(r)
  BY <1>2, <1>3, <1>6 DEF Links, SameDomains
<1>7. QED
  BY <1>2, <1>5, <1>6 DEF Effect, Moves, Uploads, Decided, Waits, Reads, Records, Picks, Looks,
     Forgets, Stops, SameDomains

LEMMA AttachFitsStep ==
    ASSUME SiteInv, NEW r \in Runs, Effect(r)
    PROVE  AttachFits'
<1> SUFFICES ASSUME NEW q \in Runs, run'[q].pc = "attach", site[q] \notin Overlap, ~isLate(q)'
             PROVE  store'[q] = "processed"
  BY DEF AttachFits, at
<1>0. ~isLate(q)
  <2>1. PICK s \in Sites : s = site[q]
    BY SiteAssumption
  <2>2. QED
    BY <2>1, LateStays
<1>1. CASE run[q].pc = "attach"
  <2>1. store[q] = "processed"
    BY <1>0, <1>1 DEF SiteInv, LinksFit, AttachFits, at
  <2>2. ASSUME run[r].pc = "forget", q \in run[r].forget PROVE FALSE
    <3>1. site[q] = site[r] /\ Running(q) /\ Running(r)
      BY <1>1, <2>2, ForgottenFacts DEF Running, Outcomes
    <3>2. q = r
      BY <3>1, OneRunning
    <3>3. QED
      BY <1>1, <2>2, <3>2
  <2>3. \A b \in forgets : q \notin b
    BY <1>0, FlightFacts
  <2>4. QED
    BY <2>1, <2>2, <2>3, StoreSteps DEF Named
<1>2. CASE run[q].pc # "attach"
  <2>1. q = r /\ Links(r) /\ store[r] = "processed"
    BY <1>2 DEF Effect, Moves, Uploads, Decided, Waits, Reads, Records, Picks, Looks, Forgets,
       Stops, Links, Applies
  <2>2. QED
    BY <2>1 DEF Links
<1>3. QED
  BY <1>1, <1>2

LEMMA QuietFitStep ==
    ASSUME SiteInv, NEW r \in Runs, Effect(r)
    PROVE  QuietFit'
<1> SUFFICES ASSUME NEW s \in Sites, s \notin unsure'
             PROVE  /\ records'[s] = <<>> /\ links'[s] = <<>>
                    /\ Last(s)' # 0 =>
                          websites'[s] # None /\ websites'[s].volume = recorded'[s][Last(s)']
  BY DEF QuietFit
<1>1. /\ s \notin unsure /\ records[s] = <<>> /\ links[s] = <<>>
      /\ Last(s) # 0 => websites[s] # None /\ websites[s].volume = recorded[s][Last(s)]
  BY LedgerSteps DEF SiteInv, SweepsFit, QuietFit
<1>2. /\ records \in [Sites -> Seq(Entry)] /\ links \in [Sites -> Seq(Runs)]
      /\ websites \in [Sites -> Entry \cup {None}]
  BY DEF SiteInv, SiteTypeOK
<1>3. links'[s] = <<>>
  <2>1. CASE links' = links
    BY <1>1, <2>1
  <2>2. CASE Links(r) /\ links' # links
    <3>1. PICK applied \in BOOLEAN : Linking(site[r], r, applied)
      BY <2>2 DEF Links, SameDomains
    <3>2. CASE s # site[r]
      BY <1>1, <1>2, <3>1, <3>2 DEF Linking
    <3>3. CASE s = site[r]
      BY <1>1, <1>2, <3>1, <3>3 DEF Linking
    <3>4. QED
      BY <3>2, <3>3
  <2>3. CASE Applies
    <3>1. ASSUME NEW t \in Sites, NEW i \in DOMAIN links[t],
                 links' = [links EXCEPT ![t] = SubSeq(@, i + 1, Len(@))]
          PROVE  links'[s] = <<>>
      BY <1>1, <1>2, <3>1
    <3>2. QED
      BY <2>1, <2>3, <3>1 DEF Applies, SameDomains
  <2>4. QED
    BY <2>1, <2>2, <2>3
       DEF Effect, Moves, Uploads, Decided, Waits, Reads, Records, Picks, Looks, Forgets, Stops,
           SameDomains
<1>4. CASE Added(s, r)
  <2>1. PICK applied \in BOOLEAN : Recording(s, r, applied)
    BY <1>4 DEF Added
  <2>2. applied = TRUE
    BY <2>1 DEF Recording
  <2>3. records'[s] = <<>> /\ websites'[s] = run[r].entry
    BY <1>2, <2>1, <2>2 DEF Recording
  <2>4. PICK e \in Entry : e = run[r].entry /\ e.volume = r
    BY <1>4 DEF Added, SiteInv, RecordsFit, EntriesFit, at
  <2>5. Last(s)' = Last(s) + 1 /\ recorded'[s][Last(s) + 1] = r
    BY <1>4, AddedFacts
  <2>6. QED
    BY <1>3, <2>3, <2>4, <2>5, SiteAssumption
<1>5. CASE recorded'[s] = recorded[s] /\ records'[s] = records[s] /\ websites'[s] = websites[s]
  BY <1>1, <1>3, <1>5 DEF Last
<1>6. CASE Applies
  <2>1. recorded' = recorded
    BY <1>6 DEF Applies
  <2>2. ASSUME NEW t \in Sites, NEW i \in DOMAIN records[t],
               websites' = [websites EXCEPT ![t] = records[t][i]],
               records' = [records EXCEPT ![t] = SubSeq(@, i + 1, Len(@))]
        PROVE  records'[s] = records[s] /\ websites'[s] = websites[s]
    <3>1. s # t
      BY <1>1, <2>2
    <3>2. QED
      BY <1>2, <2>2, <3>1
  <2>3. records'[s] = records[s] /\ websites'[s] = websites[s]
    BY <1>6, <2>2 DEF Applies
  <2>4. QED
    BY <1>5, <2>1, <2>3
<1>7. QED
  BY <1>4, <1>5, <1>6, LedgerSteps

LEMMA HistoryWholeStep ==
    ASSUME SiteInv, NEW r \in Runs, Effect(r)
    PROVE  HistoryWhole'
<1> SUFFICES ASSUME NEW q \in Runs, Retaining(q)', NEW s \in Sites, s = site[q],
                    NEW e, e = run'[q].entry
             PROVE  \E j \in DOMAIN recorded'[s] :
                        /\ recorded'[s][j] = q
                        /\ InOrder(recorded'[s], e, j)
                        /\ s \notin unsure' => Cardinality(DOMAIN e.history) = j - 1
  BY SiteAssumption DEF HistoryWhole
<1>1. CASE Retaining(q) /\ run'[q].entry = run[q].entry
  <2>1. PICK j \in DOMAIN recorded[s] :
           /\ recorded[s][j] = q /\ InOrder(recorded[s], e, j)
           /\ s \notin unsure => Cardinality(DOMAIN e.history) = j - 1
    BY <1>1 DEF SiteInv, SweepsFit, HistoryWhole
  <2>2. InOrder(recorded'[s], e, j)
    BY <2>1, OrderStays
  <2>3. j \in DOMAIN recorded'[s] /\ recorded'[s][j] = q
    BY <2>1, Growth
  <2>4. s \notin unsure' => s \notin unsure
    BY LedgerSteps
  <2>5. QED
    BY <2>1, <2>2, <2>3, <2>4
<1>2. CASE q = r /\ Records(r)
  <2>1. PICK applied \in BOOLEAN : Recording(s, r, applied)
    BY <1>2 DEF Records, Retaining
  <2>2. run[r].pc = "record" /\ e = run[r].entry /\ InOrder(recorded[s], e, Last(s) + 1)
    BY <1>2 DEF Records, SameEntry, SiteInv, RecordsFit, EntriesFit, at
  <2>3. recorded[s] \in Seq(Runs) /\ recorded'[s] = Append(recorded[s], r) /\ Last(s) \in Nat
    BY <2>1 DEF Recording, SiteInv, SiteTypeOK, Last
  <2>4. Last(s) + 1 \in DOMAIN recorded'[s] /\ recorded'[s][Last(s) + 1] = r
    BY <2>3 DEF Last
  <2>5. InOrder(recorded'[s], e, Last(s) + 1)
    BY <2>2, OrderStays
  <2>6. s \notin unsure' => Cardinality(DOMAIN e.history) = (Last(s) + 1) - 1
    <3>1. s \notin unsure' => Last(s) = Cardinality(DOMAIN e.history)
      BY <2>1, <2>2 DEF Recording, Last
    <3>2. (Last(s) + 1) - 1 = Last(s)
      BY <2>3
    <3>3. QED
      BY <3>1, <3>2
  <2>7. QED
    BY <1>2, <2>4, <2>5, <2>6
<1>3. QED
  BY <1>1, <1>2 DEF Effect, Moves, Uploads, Decided, Waits, Reads, Picks, Looks, Forgets, Stops,
     Links, Applies, Retaining

(* An old upload of a site where nothing was late is linked only by the    *)
(* domain of its site.                                                     *)
LEMMA AgedIsLinkedByDomain ==
    ASSUME SiteInv, NEW s \in Sites \ unsure, NEW i \in DOMAIN recorded[s], Aged(s, i),
           recorded[s][i] \in linked
    PROVE  recorded[s][i] = domains[s]
<1>1. recorded[s] \in Seq(Runs) /\ keepCount \in Nat
  BY SiteAssumption DEF SiteInv, SiteTypeOK
<1>2. PICK u \in Runs : u = recorded[s][i]
  BY <1>1
<1>3. site[u] = s
  BY <1>2 DEF SiteInv, RecordsFit, RecordedFit
<1>4. ASSUME NEW t \in Sites, websites[t] # None, u = websites[t].volume PROVE FALSE
  <2>1. t = s
    BY <1>3, <1>4, LiveFacts
  <2>2. Last(s) \in Nat /\ DOMAIN recorded[s] = 1..Last(s) /\ Last(s) # 0
    BY <1>1 DEF Last
  <2>3. u = recorded[s][Last(s)]
    BY <1>4, <2>1, <2>2 DEF SiteInv, SweepsFit, QuietFit
  <2>4. i = Last(s)
    <3>1. \A j, k \in DOMAIN recorded[s] : recorded[s][j] = recorded[s][k] => j = k
      BY DEF SiteInv, RecordsFit, RecordedOnce
    <3>2. Last(s) \in DOMAIN recorded[s]
      BY <2>2
    <3>3. QED
      BY <1>2, <2>3, <3>1, <3>2
  <2>5. QED
    BY <1>1, <2>2, <2>4 DEF Aged
<1>5. PICK t \in Sites : domains[t] # None /\ u = domains[t]
  BY <1>2, <1>4 DEF linked
<1>6. t = s
  BY <1>3, <1>5 DEF SiteInv, LinksFit, DomainsFit
<1>7. QED
  BY <1>2, <1>5, <1>6

LEMMA SweepFitsStep ==
    ASSUME SiteInv, NEW r \in Runs, Effect(r)
    PROVE  SweepFits'
<1> SUFFICES ASSUME NEW q \in Runs, NEW s \in Sites, s = site[q], s \notin Overlap,
                    s \notin unsure', run'[q].pc \in {"stored?", "forget"},
                    NEW u \in older(run'[q].entry)
             PROVE  \/ u \in run'[q].forget \/ store'[u] = "forgotten" \/ u = domains'[s]
                    \/ <<q, u>> \in late'
  BY SiteAssumption DEF SweepFits, older
<1>0. s \notin unsure /\ late \subseteq late'
  BY LedgerSteps
<1>1. Retaining(q) /\ run'[q].entry = run[q].entry
  BY DEF Effect, Moves, Uploads, Decided, Waits, Reads, Records, Picks, Looks, Forgets, Stops,
     Links, Retaining, Applies
<1>2. /\ run[q].entry \in Entry /\ InOrder(recorded[s], run[q].entry, Last(s)) /\ keepCount >= 1
      /\ recorded[s] \in Seq(Runs)
  BY <1>1, Growth DEF SiteInv, RecordsFit, EntriesFit
<1>3. PICK i \in DOMAIN recorded[s] : u \in Runs /\ recorded[s][i] = u /\ Aged(s, i)
  BY <1>1, <1>2, OlderAreAged
<1>4. store[u] \in {"processed", "forgotten"}
  BY <1>3 DEF SiteInv, RecordsFit, RecordedFit
<1>5. domains'[s] = domains[s]
  <2>1. SUFFICES ASSUME domains'[s] # domains[s] PROVE FALSE
    OBVIOUS
  <2>2. links[s] = <<>>
    BY <1>0 DEF SiteInv, SweepsFit, QuietFit
  <2>3. run[r].pc = "attach" /\ site[r] = s
    BY <2>1, <2>2, DomainSteps
  <2>4. Running(q) /\ Running(r)
    BY <1>1, <2>3 DEF Running, Retaining, Outcomes
  <2>5. q = r
    BY <2>3, <2>4, OneRunning
  <2>6. QED
    BY <1>1, <2>3, <2>5 DEF Retaining
<1>6. CASE run[q].pc \in {"stored?", "forget"}
  <2>1. u \in run[q].forget \/ store[u] = "forgotten" \/ u = domains[s] \/ <<q, u>> \in late
    BY <1>0, <1>1, <1>6 DEF SiteInv, SweepsFit, SweepFits
  <2>2. CASE u \in run[q].forget
    <3>1. CASE q # r \/ Decided(r) \/ Applies
      BY <2>2, <3>1 DEF Effect, Decided, Applies
    <3>2. CASE q = r /\ Looks(r)
      BY <1>3, <1>4, <2>2, <3>2, StoreSteps DEF Looks
    <3>3. CASE q = r /\ Forgets(r)
      <4>1. run'[r].pc = "forget"
        BY <3>3 DEF Forgets
      <4>2. /\ run'[r].forget = run[r].forget \ batch(r)
            /\ \E applied \in BOOLEAN : Forgetting(r, applied)
        BY <3>3, <4>1, <2>2 DEF Forgets
      <4>3. u \in batch(r) => store'[u] = "forgotten" \/ <<r, u>> \in late'
        BY <1>3, <4>2 DEF Forgetting, forgetting
      <4>4. QED
        BY <2>2, <3>3, <4>2, <4>3
    <3>4. QED
      BY <1>6, <3>1, <3>2, <3>3 DEF Effect, Moves, Uploads, Waits, Reads, Records, Picks, Stops, Links
  <2>3. CASE store[u] = "forgotten"
    BY <1>3, <2>3, StoreSteps
  <2>4. QED
    BY <1>0, <1>5, <2>1, <2>2, <2>3
<1>7. CASE run[q].pc = "linked?"
  <2>1. q = r /\ Picks(r)
    BY <1>7 DEF Effect, Moves, Uploads, Decided, Waits, Reads, Records, Picks, Looks, Forgets,
       Stops, Links, Applies
  <2>2. run'[r].forget = older(run[r].entry) \ linked
    BY <2>1 DEF Picks
  <2>3. CASE u \in linked
    BY <1>0, <1>3, <1>5, <2>3, AgedIsLinkedByDomain
  <2>4. CASE u \notin linked
    BY <1>1, <2>1, <2>2, <2>4
  <2>5. QED
    BY <2>3, <2>4
<1>8. QED
  BY <1>1, <1>6, <1>7 DEF Retaining

LEMMA SiteInitInv == SiteInit => SiteInv
<1> SUFFICES ASSUME SiteInit PROVE SiteInv
  OBVIOUS
<1>1. SiteTypeOK
  <2> DEFINE o == [pc |-> "idle", entry |-> None, forget |-> {}, stopped |-> FALSE, host |-> 0]
  <2>1. "idle" \in Stages /\ "none" \in StoreStatus
    BY StageFacts DEF StoreStatus
  <2>2. o \in SiteRun
    BY <2>1 DEF SiteRun
  <2>3. run = [r \in Runs |-> o]
    BY DEF SiteInit
  <2> HIDE DEF o
  <2>4. run \in [Runs -> SiteRun]
    BY <2>2, <2>3
  <2>5. <<>> \in Seq(Runs)
    OBVIOUS
  <2>6. /\ store = [r \in Runs |-> "none"] /\ websites = [s \in Sites |-> None]
        /\ domains = [s \in Sites |-> None] /\ recorded = [s \in Sites |-> <<>>]
        /\ records = [s \in Sites |-> <<>>] /\ links = [s \in Sites |-> <<>>]
        /\ forgets = {} /\ late = {} /\ unsure = {} /\ failures = 0
    BY DEF SiteInit
  <2>8. <<>> \in Seq(Entry)
    OBVIOUS
  <2>7. QED
    BY <2>1, <2>4, <2>5, <2>6, <2>8 DEF SiteTypeOK
<1>2. /\ \A r \in Runs : run[r].pc = "idle" /\ run[r].forget = {} /\ store[r] = "none"
      /\ \A s \in Sites : /\ recorded[s] = <<>> /\ Last(s) = 0 /\ DOMAIN recorded[s] = {}
                          /\ websites[s] = None /\ domains[s] = None
                          /\ records[s] = <<>> /\ DOMAIN records[s] = {}
                          /\ links[s] = <<>> /\ DOMAIN links[s] = {}
      /\ forgets = {}
  BY DEF SiteInit, Last
<1>7. \A s \in Sites : Live(s) = {}
  BY <1>2 DEF Live
<1>3. RecordsFit
  BY <1>2, <1>7 DEF RecordsFit, RecordedOnce, RecordedFit, WebsitesFit, EntriesFit, StoresFit,
     ForgetsFit, FlightFit, at, Retaining
<1>8. QueuesFit
  BY <1>2, <1>7 DEF QueuesFit, QueuedOnce, QueuedIsNew, LiveStays
<1>4. LinksFit
  BY <1>2 DEF LinksFit, InTurn, DomainsFit, LateLinksFit, AttachFits, running, at
<1>5. SweepsFit
  BY <1>2 DEF SweepsFit, QuietFit, HistoryWhole, SweepFits, Retaining
<1>6. QED
  BY <1>1, <1>3, <1>4, <1>5, <1>8 DEF SiteInv

LEMMA SiteStepInv == ASSUME SiteInv, [SiteNext]_siteVars PROVE SiteInv'
<1>1. CASE SiteNext
  <2>1. PICK r \in Runs : Effect(r)
    <3>1. ASSUME NEW r \in Runs, Publish(r) \/ AlephDecides(r) \/ Link(r) PROVE Effect(r)
      BY <3>1, SteppingEffect DEF SiteInv, RecordsFit
    <3>2. CASE \E r \in Runs : Publish(r) \/ AlephDecides(r) \/ Link(r)
      BY <3>1, <3>2
    <3>3. CASE (\E s \in Sites : AlephRecords(s) \/ AlephLinks(s)) \/ AlephForgetsStores
      BY <3>3, ApplyingEffect
    <3>4. QED
      BY <1>1, <3>2, <3>3 DEF SiteNext
  <2>2. SiteTypeOK'
    BY <2>1, TypeStep
  <2>3. RecordsFit'
    BY <2>1, RecordedOnceStep, RecordedFitStep, WebsitesFitStep, EntriesFitStep, StoresFitStep,
       ForgetsFitStep, FlightFitStep DEF RecordsFit
  <2>4. QueuesFit'
    BY <2>1, QueuedOnceStep, QueuedIsNewStep, LiveStaysStep DEF QueuesFit
  <2>5. LinksFit'
    BY <2>1, InTurnStep, DomainsFitStep, LateLinksFitStep, AttachFitsStep DEF LinksFit
  <2>6. SweepsFit'
    BY <2>1, QuietFitStep, HistoryWholeStep, SweepFitsStep DEF SweepsFit
  <2>7. QED
    BY <2>2, <2>3, <2>4, <2>5, <2>6 DEF SiteInv
<1>2. CASE UNCHANGED siteVars
  <2>0. /\ store' = store /\ websites' = websites /\ domains' = domains /\ run' = run
        /\ records' = records /\ links' = links /\ forgets' = forgets
        /\ recorded' = recorded /\ unsure' = unsure /\ late' = late /\ failures' = failures
    BY <1>2 DEF siteVars
  <2>1. SiteTypeOK'
    BY <2>0 DEF SiteInv, SiteTypeOK
  <2>8. \A s \in Sites : Live(s)' = Live(s)
    BY <2>0 DEF Live
  <2>2. RecordsFit'
    BY <2>0, <2>8 DEF SiteInv, RecordsFit, RecordedOnce, RecordedFit, WebsitesFit, EntriesFit,
       StoresFit, ForgetsFit, FlightFit, at, Retaining, Past, Aged, Last, InOrder
  <2>3. QueuesFit'
    BY <2>0, <2>8 DEF SiteInv, QueuesFit, QueuedOnce, QueuedIsNew, LiveStays, at, Retaining, past
  <2>4. LinksFit'
    BY <2>0 DEF SiteInv, LinksFit, InTurn, DomainsFit, LateLinksFit, AttachFits, at, running, isLate
  <2>5. SweepsFit'
    <3>1. QuietFit'
      BY <2>0 DEF SiteInv, SweepsFit, QuietFit, Last
    <3>2. HistoryWhole'
      BY <2>0 DEF SiteInv, SweepsFit, HistoryWhole, Retaining, InOrder
    <3>3. SweepFits'
      <4> SUFFICES ASSUME NEW q \in Runs, site[q] \notin Overlap \cup unsure',
                           run'[q].pc \in {"stored?", "forget"},
                           NEW u \in older(run'[q].entry)
                    PROVE  \/ u \in run'[q].forget \/ store'[u] = "forgotten"
                           \/ u = domains'[site[q]] \/ <<q, u>> \in late'
        BY DEF SweepFits, older
      <4>1. QED
        BY <2>0 DEF SiteInv, SweepsFit, SweepFits
    <3>4. QED
      BY <3>1, <3>2, <3>3 DEF SweepsFit
  <2>6. QED
    BY <2>1, <2>2, <2>3, <2>4, <2>5 DEF SiteInv
<1>3. QED
  BY <1>1, <1>2

(* Uploads, entries and links keep their types, records their order, and   *)
(* retention its bounds.                                                   *)
THEOREM SiteInvariance == SiteSpec => []SiteInv
<1>1. SiteInv /\ [SiteNext]_siteVars => SiteInv'
  BY SiteStepInv
<1>2. QED
  BY SiteInitInv, <1>1, PTL DEF SiteSpec

(* The newest keepCount uploads of a site stay, whatever reads fail,       *)
(* whichever runs overlap and whenever Aleph applies what it took:         *)
(* retention never forgets one of them.                                    *)
THEOREM SiteNewestStay == SiteSpec => []NewestStay
<1>1. SiteInv => NewestStay
  <2> SUFFICES ASSUME SiteInv, NEW s \in Sites, NEW i \in DOMAIN recorded[s],
                      i + keepCount > Len(recorded[s])
               PROVE  store[recorded[s][i]] = "processed"
    BY DEF NewestStay
  <2>1. recorded[s] \in Seq(Runs) /\ keepCount \in Nat
    BY SiteAssumption DEF SiteInv, SiteTypeOK
  <2>2. ~Aged(s, i)
    BY <2>1 DEF Aged, Last
  <2>3. QED
    BY <2>2 DEF SiteInv, RecordsFit, RecordedFit
<1>2. QED
  BY SiteInvariance, <1>1, PTL

(* What a website or a domain of a site points to is stored, where the     *)
(* runs of the site come in turn and the upload's link and every FORGET    *)
(* that names it are applied by the time they are answered. An entry that  *)
(* is applied late does no harm.                                           *)
THEOREM SiteLinkedStays == SiteSpec => []LinkedStaysStored
<1>1. SiteInv => LinkedStaysStored
  <2> SUFFICES ASSUME SiteInv, NEW u \in PointedTo \ {None}, site[u] \notin Overlap, ~isLate(u)
               PROVE  store[u] = "processed"
    BY DEF LinkedStaysStored
  <2>1. CASE \E s \in Sites : u = domains[s]
    BY <2>1 DEF SiteInv, LinksFit, DomainsFit
  <2>2. CASE \E s \in Sites : websites[s] # None /\ u = websites[s].volume
    BY <2>2, LiveFacts DEF SiteInv, QueuesFit, LiveStays
  <2>3. QED
    BY <2>1, <2>2 DEF PointedTo
<1>2. QED
  BY SiteInvariance, <1>1, PTL

(* A run that gets through its retention has dealt with every upload of    *)
(* its site that is keepCount or more behind its own: it is forgotten, or  *)
(* linked, or named by a FORGET of this run that Aleph took and had not    *)
(* applied, which the next run's retention finds stored and names again    *)
(* if Aleph never does.                                                    *)
THEOREM SiteOlderAreForgotten == SiteSpec => OlderAreForgotten
<1> DEFINE Swept ==
      \A r \in Runs : run[r].pc \in {"linked?", "stored?", "forget"} /\ run'[r].pc = "done"
            /\ ~run'[r].stopped /\ site[r] \notin Overlap \cup unsure
          => \A i, j \in DOMAIN recorded[site[r]] :
                LET u == recorded[site[r]][i] IN
                recorded[site[r]][j] = r /\ i + keepCount <= j =>
                    store[u] = "forgotten" \/ u \in PointedTo \/ <<r, u>> \in late
<1>1. ASSUME SiteInv, [SiteNext]_siteVars PROVE [Swept]_siteVars
  <2> SUFFICES ASSUME SiteNext, NEW r \in Runs, run[r].pc \in {"linked?", "stored?", "forget"},
                      run'[r].pc = "done", ~run'[r].stopped, NEW s \in Sites, s = site[r],
                      s \notin Overlap, s \notin unsure,
                      NEW i \in DOMAIN recorded[s], NEW j \in DOMAIN recorded[s],
                      recorded[s][j] = r, i + keepCount <= j,
                      NEW u, u = recorded[s][i]
               PROVE  store[u] = "forgotten" \/ u \in PointedTo \/ <<r, u>> \in late
    BY <1>1, SiteAssumption
  <2>1. PICK q \in Runs : Effect(q)
    <3>1. ASSUME NEW q \in Runs, Publish(q) \/ AlephDecides(q) \/ Link(q) PROVE Effect(q)
      BY <1>1, <3>1, SteppingEffect DEF SiteInv, RecordsFit
    <3>2. CASE (\E t \in Sites : AlephRecords(t) \/ AlephLinks(t)) \/ AlephForgetsStores
      BY <1>1, <3>2, ApplyingEffect
    <3>3. QED
      BY <3>1, <3>2 DEF SiteNext
  <2>2. q = r /\ Moves(r)
    <3>1. run'[r] # run[r]
      OBVIOUS
    <3>2. QED
      BY <2>1, <3>1 DEF Effect
  <2>3. run'[r].stopped # TRUE
    OBVIOUS
  <2>4. \/ Picks(r) /\ older(run[r].entry) = {}
        \/ Forgets(r) /\ run[r].forget = {}
    BY <2>2, <2>3 DEF Moves, Uploads, Decided, Waits, Reads, Records, Picks, Looks, Forgets, Stops,
       Links, Applies
  <2>5. /\ run[r].entry \in Entry /\ keepCount >= 1 /\ recorded[s] \in Seq(Runs)
    BY <1>1 DEF SiteInv, SiteTypeOK, RecordsFit, EntriesFit, Retaining
  <2>6. PICK k \in DOMAIN recorded[s] :
           /\ recorded[s][k] = r /\ InOrder(recorded[s], run[r].entry, k)
           /\ Cardinality(DOMAIN run[r].entry.history) = k - 1
    BY <1>1 DEF SiteInv, SweepsFit, HistoryWhole, Retaining
  <2>7. k = j
    BY <1>1, <2>6 DEF SiteInv, RecordsFit, RecordedOnce
  <2>8. u \in older(run[r].entry)
    BY <2>5, <2>6, <2>7, AgedAreOlder
  <2>9. run[r].pc = "forget" /\ run[r].forget = {}
    BY <2>4, <2>8 DEF Forgets
  <2>10. store[u] = "forgotten" \/ u = domains[s] \/ <<r, u>> \in late
    BY <1>1, <2>8, <2>9 DEF SiteInv, SweepsFit, SweepFits
  <2>11. QED
    BY <2>10 DEF PointedTo
<1>2. QED
  BY SiteInvariance, <1>1, PTL DEF SiteSpec, OlderAreForgotten

=============================================================================
