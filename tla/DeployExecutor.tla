--------------------------- MODULE DeployExecutor ---------------------------
(***************************************************************************)
(* executeDeployPlan of packages/node/src/deploy-executor.ts: one run of   *)
(* the deploy action, which tries the placement candidates one after the   *)
(* other, and the part of Aleph it depends on (messages are processed,     *)
(* rejected and forgotten at Aleph's own pace, whatever the run does).     *)
(*                                                                         *)
(* An attempt is one broadcast of an INSTANCE message. Its content carries *)
(* the time, so every broadcast has an item hash of its own; the model     *)
(* names the hash by the pair <<candidate, placement attempt>>.            *)
(* Every await of the code is a step of its own, because Aleph may move    *)
(* between two of them.                                                    *)
(***************************************************************************)
EXTENDS Naturals

CONSTANTS
    MaxCandidates,  \* bound on the candidates a plan resolves to
    Plans,          \* the deploy plans considered
    NoInstance      \* activeItemHash = null

Profiles == {"uc-go-peer", "orbitdb-relay", "ucan-store", "other"}

(* The fields of DeployPlan that the control flow depends on. *)
PlanType ==
    [ profile: Profiles,
      placement: {"scheduler", "crnHash", "ranked"},
      candidates: 0..MaxCandidates,  \* Len of deploymentPlacementsForPlan
      maxCrnAttempts: Nat,
      confidential: BOOLEAN,
      publishPorts: BOOLEAN,         \* publishPortForwards, some required port
      autoConfigure: BOOLEAN,
      verify: BOOLEAN,               \* verifyReachability !== false
      customDomain: BOOLEAN,         \* instanceCustomDomain is set
      preserve: BOOLEAN ]            \* preserveFailedDeployment

(* deploymentPlacementsForPlan: the scheduler cannot be given a             *)
(* confidential instance; a named CRN may be missing from the list or be    *)
(* unable to protect it; of the ranked ones some may answer.                *)
placements(p) ==
    IF p.placement = "scheduler" /\ ~p.confidential THEN {1}
    ELSE IF p.placement = "crnHash" THEN {0, 1}
    ELSE 0..(IF p.maxCrnAttempts < 1 THEN 1 ELSE p.maxCrnAttempts)

(* rootfsDependencyRetryLimit: 1 to 3 broadcasts per candidate. *)
rootfsDependencyRetryLimit(p) ==
    IF p.maxCrnAttempts < 1 THEN 1
    ELSE IF p.maxCrnAttempts > 3 THEN 3 ELSE p.maxCrnAttempts

Instances == (1..MaxCandidates) \X (1..3)

ASSUME PlansAssumption == MaxCandidates \in Nat /\ Plans \subseteq PlanType
ASSUME PlansPlacement == \A p \in Plans : p.candidates \in placements(p)
ASSUME ExecutorNoInstance == NoInstance \notin Instances

VARIABLES
    plan,           \* the plan of this run
    pc,             \* where the run is (one label per awaited call)
    cand,           \* candidateIndex + 1
    attempt,        \* placementAttempt
    active,         \* state.activeItemHash
    resume,         \* what follows the forget in progress: "next" or "throw"
    attached,       \* instanceDomain # null for the current candidate
    verified,       \* verification?.ok !== false
    aleph,          \* status of every INSTANCE message on Aleph
    cleaned,        \* instances forgetDeployment was called for
    forgetSent,     \* instances whose FORGET message Aleph accepted
    domain,         \* target of the custom domain in the newest domains aggregate
                    \* that Aleph accepted
    registered,     \* instances the run published a relay bootstrap POST for
    guest,          \* what each guest has done with /configure
    attested,       \* instances whose attestation verified
    unlocked        \* instances the LUKS passphrase was sent to

runVars == <<plan, cand, attempt, active, resume, attached, verified>>
alephVars ==
    <<aleph, cleaned, forgetSent, domain, registered, guest, attested, unlocked>>
vars == <<runVars, pc, alephVars>>

current == <<cand, attempt>>

Labels ==
    {"create", "inspect", "ports", "attest", "unlock", "runtime",
     "guestDomain", "setup", "configure", "verify", "register", "attach",
     "forget", "returned", "failed"}

AlephStatus ==
    {"absent", "pending", "processed", "rejected", "rejectedRootfs", "forgotten"}

TypeOK ==
    /\ plan \in Plans
    /\ pc \in Labels
    /\ cand \in 1..(MaxCandidates + 1)
    /\ attempt \in 1..3
    /\ active \in Instances \cup {NoInstance}
    /\ resume \in {"next", "throw"}
    /\ attached \in BOOLEAN
    /\ verified \in BOOLEAN
    /\ aleph \in [Instances -> AlephStatus]
    /\ cleaned \subseteq Instances
    /\ forgetSent \subseteq Instances
    /\ domain \in Instances \cup {NoInstance}
    /\ registered \subseteq Instances
    /\ guest \in [Instances -> {"blank", "configured", "announced"}]
    /\ attested \subseteq Instances
    /\ unlocked \subseteq Instances

(* supportsGuestSetupProfile and supportsRelayBootstrapProfile. *)
supportsGuestSetupProfile(profile) ==
    profile \in {"uc-go-peer", "orbitdb-relay", "ucan-store"}
supportsRelayBootstrapProfile(profile) ==
    profile \in {"uc-go-peer", "orbitdb-relay"}

(* An empty candidate list throws before anything is broadcast. *)
Init ==
    /\ plan \in Plans
    /\ pc = IF plan.candidates = 0 THEN "failed" ELSE "create"
    /\ cand = 1
    /\ attempt = 1
    /\ active = NoInstance
    /\ resume = "next"
    /\ attached = FALSE
    /\ verified = TRUE
    /\ aleph = [i \in Instances |-> "absent"]
    /\ cleaned = {}
    /\ forgetSent = {}
    /\ domain = NoInstance
    /\ registered = {}
    /\ guest = [i \in Instances |-> "blank"]
    /\ attested = {}
    /\ unlocked = {}

-----------------------------------------------------------------------------
(* How a step leaves the candidate it works on. *)

(* The `catch` of executeDeployPlan: an exception forgets the instance the *)
(* cleanup state names, if it names one, and is rethrown.                  *)
Throw ==
    /\ pc' = IF active = NoInstance THEN "failed" ELSE "forget"
    /\ resume' = "throw"

(* `await forgetDeployment(...); lastError = ...; continue` *)
ForgetAndContinue ==
    /\ pc' = "forget"
    /\ resume' = "next"

(* The head of the candidate loop, and the final `throw lastError`. *)
NextCandidate ==
    IF cand < plan.candidates
    THEN /\ pc' = "create"
         /\ cand' = cand + 1
         /\ attempt' = 1
    ELSE /\ pc' = "failed"
         /\ UNCHANGED <<cand, attempt>>

-----------------------------------------------------------------------------
(* deployInstance / createConfidentialInstance. The broadcast may be       *)
(* accepted; it may throw although Aleph has the message (the answer was   *)
(* lost, or every answer was an error of the gateway); or it may throw     *)
(* because Aleph never got it.                                             *)
Broadcast ==
    /\ pc = "create"
    /\ \/ /\ aleph' = [aleph EXCEPT ![current] = "pending"]
          /\ pc' = "inspect"
          /\ UNCHANGED resume
       \/ /\ aleph' = [aleph EXCEPT ![current] = "pending"]
          /\ Throw
       \/ /\ Throw
          /\ UNCHANGED aleph
    /\ UNCHANGED <<plan, cand, attempt, active, attached, verified, cleaned,
                   forgetSent, domain, registered, guest, attested, unlocked>>

(* Mutant: instanceDomain outlives the candidate it was linked for. *)
InspectProcessed_KeepsDomain ==
    /\ pc = "inspect"
    /\ aleph[current] = "processed"
    /\ active' = current
    /\ pc' = "ports"
    /\ UNCHANGED <<plan, cand, attempt, resume, attached, verified, alephVars>>

(* waitForDeploymentResult saw the message processed: from here on the     *)
(* cleanup state names the instance.                                       *)
InspectProcessed ==
    /\ pc = "inspect"
    /\ aleph[current] = "processed"
    /\ active' = current
    /\ attached' = FALSE
    /\ pc' = "ports"
    /\ UNCHANGED <<plan, cand, attempt, resume, verified, alephVars>>

(* The rejection names the rootfs STORE (error 300 or 301) and another     *)
(* placement attempt is left: the INSTANCE is broadcast again.             *)
isRetryableRootfsDependencyRejection ==
    /\ aleph[current] = "rejectedRootfs"
    /\ attempt < rootfsDependencyRetryLimit(plan)

(* Mutant: the retry does not count. *)
InspectRetry_Uncounted ==
    /\ pc = "inspect"
    /\ isRetryableRootfsDependencyRejection
    /\ pc' = "create"
    /\ UNCHANGED <<plan, cand, attempt, active, resume, attached, verified, alephVars>>

InspectRetry ==
    /\ pc = "inspect"
    /\ isRetryableRootfsDependencyRejection
    /\ attempt' = attempt + 1
    /\ pc' = "create"
    /\ UNCHANGED <<plan, cand, active, resume, attached, verified, alephVars>>

InspectRejected ==
    /\ pc = "inspect"
    /\ aleph[current] \in {"rejected", "rejectedRootfs"}
    /\ ~isRetryableRootfsDependencyRejection
    /\ NextCandidate
    /\ UNCHANGED <<plan, active, resume, attached, verified, alephVars>>

(* Mutant: an unconfirmed message is not worth a FORGET. *)
InspectTimeout_NoForget ==
    /\ pc = "inspect"
    /\ NextCandidate
    /\ UNCHANGED <<plan, active, resume, attached, verified, alephVars>>

(* The polls ran out. The last answer may be older than Aleph's state: a   *)
(* transient lookup failure keeps the result of the poll before it.        *)
InspectTimeout ==
    /\ pc = "inspect"
    /\ ForgetAndContinue
    /\ UNCHANGED <<plan, cand, attempt, active, attached, verified, alephVars>>

(* A lookup failure that is not one of the transient statuses is thrown.   *)
InspectThrows ==
    /\ pc = "inspect"
    /\ Throw
    /\ UNCHANGED <<plan, cand, attempt, active, attached, verified, alephVars>>

(* ensureInstancePortForwards may throw; the notification of the CRN that  *)
(* follows never does (its errors are dropped).                            *)
PublishPorts ==
    /\ pc = "ports"
    /\ \/ /\ pc' = IF plan.confidential THEN "attest" ELSE "runtime"
          /\ UNCHANGED resume
       \/ /\ plan.publishPorts
          /\ Throw
    /\ UNCHANGED <<plan, cand, attempt, active, attached, verified, alephVars>>

(* Mutant: attestation.verified is not looked at. *)
Attest_Unchecked ==
    /\ pc = "attest"
    /\ attested' \in {attested, attested \cup {current}}
    /\ pc' = "unlock"
    /\ UNCHANGED <<plan, cand, attempt, active, resume, attached, verified,
                   aleph, cleaned, forgetSent, domain, registered, guest, unlocked>>

(* attestAndUnlock, first half: the attestation is verified, is read but   *)
(* does not verify, or cannot be read at all.                              *)
Attest ==
    /\ pc = "attest"
    /\ \/ /\ attested' = attested \cup {current}
          /\ pc' = "unlock"
          /\ UNCHANGED resume
       \/ /\ ForgetAndContinue
          /\ UNCHANGED attested
    /\ UNCHANGED <<plan, cand, attempt, active, attached, verified, aleph,
                   cleaned, forgetSent, domain, registered, guest, unlocked>>

(* attestAndUnlock, second half: the passphrase is sent; the call may      *)
(* still fail, before or after the guest received it.                      *)
Unlock ==
    /\ pc = "unlock"
    /\ \/ /\ unlocked' = unlocked \cup {current}
          /\ pc' = "runtime"
          /\ UNCHANGED resume
       \/ /\ unlocked' \in {unlocked, unlocked \cup {current}}
          /\ ForgetAndContinue
    /\ UNCHANGED <<plan, cand, attempt, active, attached, verified, aleph,
                   cleaned, forgetSent, domain, registered, guest, attested>>

(* Mutant: the `continue` of a missing runtime forgets nothing. *)
AwaitRuntime_NoForget ==
    /\ pc = "runtime"
    /\ \/ /\ pc' = "attach"
          /\ UNCHANGED <<cand, attempt>>
       \/ NextCandidate
    /\ UNCHANGED <<plan, active, resume, attached, verified, alephVars>>

(* waitForVmRuntime: anything but diagnostics.state = "ready" gives the    *)
(* candidate up. A ready runtime has a host IPv4 and mapped ports.         *)
AwaitRuntime ==
    /\ pc = "runtime"
    /\ \/ /\ pc' = IF plan.autoConfigure /\ supportsGuestSetupProfile(plan.profile)
                   THEN IF plan.profile = "ucan-store" /\ plan.customDomain
                        THEN "guestDomain" ELSE "setup"
                   ELSE "attach"
          /\ verified' = TRUE
          /\ UNCHANGED resume
       \/ /\ ForgetAndContinue
          /\ UNCHANGED verified
    /\ UNCHANGED <<plan, cand, attempt, active, attached, alephVars>>

(* attachInstanceCustomDomain: at most once per candidate. It throws when  *)
(* the aggregate is rejected or the broadcast fails; a lost answer leaves  *)
(* the aggregate changed all the same.                                     *)
attachInstanceCustomDomain(next) ==
    IF ~plan.customDomain \/ attached
    THEN /\ pc' = next
         /\ UNCHANGED <<resume, attached, domain>>
    ELSE \/ /\ domain' = current
            /\ attached' = TRUE
            /\ pc' = next
            /\ UNCHANGED resume
         \/ /\ domain' \in {domain, current}
            /\ Throw
            /\ UNCHANGED attached

(* ucan-store links its domain before the guest is configured. *)
AttachGuestDomain ==
    /\ pc = "guestDomain"
    /\ attachInstanceCustomDomain("setup")
    /\ UNCHANGED <<plan, cand, attempt, active, verified, aleph, cleaned,
                   forgetSent, registered, guest, attested, unlocked>>

(* No mapped port 80: the guest is left alone. Otherwise the setup         *)
(* endpoint has to answer, orbitdb-relay needs its TCP and WebSocket ports *)
(* and ucan-store a proxy URL.                                             *)
AwaitSetup ==
    /\ pc = "setup"
    /\ \/ /\ pc' \in {"attach", "configure"}
          /\ UNCHANGED resume
       \/ ForgetAndContinue
    /\ UNCHANGED <<plan, cand, attempt, active, attached, verified, alephVars>>

(* Mutant: a guest that is not ready in time is given up for the next      *)
(* candidate.                                                              *)
Configure_NextCandidate ==
    /\ pc = "configure"
    /\ guest' \in {guest, [guest EXCEPT ![current] = "configured"]}
    /\ \/ pc' = "verify" /\ UNCHANGED resume
       \/ ForgetAndContinue
    /\ UNCHANGED <<plan, cand, attempt, active, attached, verified, aleph, cleaned,
                   forgetSent, domain, registered, attested, unlocked>>

(* The POST of /configure and the polling of /metadata both throw, before  *)
(* or after the guest got its configuration.                               *)
Configure ==
    /\ pc = "configure"
    /\ \/ /\ guest' = [guest EXCEPT ![current] = "configured"]
          /\ pc' = "verify"
          /\ UNCHANGED resume
       \/ /\ guest' \in {guest, [guest EXCEPT ![current] = "configured"]}
          /\ Throw
    /\ UNCHANGED <<plan, cand, attempt, active, attached, verified, aleph, cleaned,
                   forgetSent, domain, registered, attested, unlocked>>

(* verifyUcGoPeerReachability: its verdict is recorded, not acted on. Only *)
(* a ucan-store custom domain that does not answer over HTTPS fails the    *)
(* candidate.                                                              *)
VerifyReachability ==
    /\ pc = "verify"
    /\ \/ /\ verified' \in IF plan.verify THEN BOOLEAN ELSE {TRUE}
          /\ pc' = "register"
          /\ UNCHANGED resume
       \/ /\ plan.profile = "ucan-store" /\ plan.customDomain /\ plan.verify
          /\ verified' = FALSE
          /\ ForgetAndContinue
    /\ UNCHANGED <<plan, cand, attempt, active, attached, alephVars>>

(* Publication, wait for visibility, reconcile and persisting the owner's  *)
(* authorization, inside one try: a failure at any of them is recorded in  *)
(* the result and the deployment goes on. Only relay guests report the     *)
(* peer id and addresses this needs.                                       *)
Register ==
    /\ pc = "register"
    /\ registered' \in
         IF supportsRelayBootstrapProfile(plan.profile) /\ verified
         THEN {registered, registered \cup {current}}
         ELSE {registered}
    /\ pc' = "attach"
    /\ UNCHANGED <<runVars, aleph, cleaned, forgetSent, domain, guest, attested, unlocked>>

(* The last call before the result is returned. *)
AttachDomain ==
    /\ pc = "attach"
    /\ attachInstanceCustomDomain("returned")
    /\ UNCHANGED <<plan, cand, attempt, active, verified, aleph, cleaned,
                   forgetSent, registered, guest, attested, unlocked>>

(* forgetDeployment over cleanupFailedDeploymentForPlan: skipped when the  *)
(* plan preserves failures; a FORGET that is refused or lost is not        *)
(* noticed. The cleanup state is cleared in every case.                    *)
Forget ==
    /\ pc = "forget"
    /\ cleaned' = cleaned \cup {current}
    /\ forgetSent' \in
         IF plan.preserve THEN {forgetSent}
         ELSE {forgetSent, forgetSent \cup {current}}
    /\ active' = IF active = current THEN NoInstance ELSE active
    /\ IF resume = "next"
       THEN NextCandidate
       ELSE pc' = "failed" /\ UNCHANGED <<cand, attempt>>
    /\ UNCHANGED <<plan, resume, attached, verified, aleph, domain, registered,
                   guest, attested, unlocked>>

-----------------------------------------------------------------------------
(* Aleph, at its own pace (external). *)

AlephProcesses(i) ==
    /\ aleph[i] = "pending"
    /\ \E s \in {"processed", "rejected", "rejectedRootfs"} :
         aleph' = [aleph EXCEPT ![i] = s]
    /\ UNCHANGED <<runVars, pc, cleaned, forgetSent, domain, registered,
                   guest, attested, unlocked>>

AlephForgets(i) ==
    /\ i \in forgetSent
    /\ aleph[i] = "processed"
    /\ aleph' = [aleph EXCEPT ![i] = "forgotten"]
    /\ UNCHANGED <<runVars, pc, cleaned, forgetSent, domain, registered,
                   guest, attested, unlocked>>

(* A configured relay starts its refresh service and timer and registers   *)
(* itself, at its own pace: the run, and a FORGET under way, do not stop   *)
(* it. (What its posts do afterwards is RelayRegistry's.)                  *)
GuestRegisters(i) ==
    /\ supportsRelayBootstrapProfile(plan.profile)
    /\ guest[i] = "configured"
    /\ guest' = [guest EXCEPT ![i] = "announced"]
    /\ UNCHANGED <<runVars, pc, aleph, cleaned, forgetSent, domain, registered,
                   attested, unlocked>>

-----------------------------------------------------------------------------
ExecutorStep ==
    \/ Broadcast
    \/ InspectProcessed \/ InspectRetry \/ InspectRejected
    \/ InspectTimeout \/ InspectThrows
    \/ PublishPorts \/ Attest \/ Unlock \/ AwaitRuntime
    \/ AttachGuestDomain \/ AwaitSetup \/ Configure
    \/ VerifyReachability \/ Register \/ AttachDomain
    \/ Forget

AlephStep == \E i \in Instances : AlephProcesses(i) \/ AlephForgets(i)

GuestStep == \E i \in Instances : GuestRegisters(i)

(* The run is over once it returned or threw. *)
Terminated ==
    /\ pc \in {"returned", "failed"}
    /\ UNCHANGED vars

Next == ExecutorStep \/ AlephStep \/ GuestStep \/ Terminated

Spec == Init /\ [][Next]_vars

(* Every awaited call is bounded by a timeout of its own (fetch in Node,   *)
(* AbortController, timeoutMs of the CLI), so the run always takes another *)
(* step. Nothing is assumed of Aleph.                                      *)
FairSpec == Spec /\ WF_vars(ExecutorStep)

-----------------------------------------------------------------------------
(* Properties *)

(* The run implements InstanceOwnership: activeItemHash is the instance it *)
(* holds, and every way out of a candidate (twelve `continue`s and throws) *)
(* goes through forgetDeployment once the instance was confirmed.          *)
Ownership ==
    INSTANCE InstanceOwnership
        WITH held <- active,
             released <- cleaned,
             outcome <- IF pc \in {"returned", "failed"} THEN pc ELSE "running"

ImplementsOwnership == Ownership!Spec

(* However many candidates and rebroadcasts a run goes through, at most    *)
(* one instance that Aleph runs or may still start escapes forgetDeployment*)
(* and it is the one of the last broadcast (its create or inspection threw,*)
(* or it is the result).                                                   *)
OneUnaccountedInstance ==
    \A i \in Instances :
        aleph[i] \in {"pending", "processed"} /\ i \notin cleaned => i = current

(* The instance handed back is processed, no FORGET for it was ever sent,  *)
(* and the custom domain names it and not an earlier failed attempt.       *)
ResultIsLive ==
    pc = "returned" =>
        /\ aleph[current] = "processed"
        /\ current \notin forgetSent
        /\ plan.customDomain => domain = current

(* However many candidates a run tries, only the last of its instances ever*)
(* gets into the relay registry, whether the run or the guest itself puts  *)
(* it there, and however late the guest does. It is an orphan only if the  *)
(* run failed, and one with the run's own post only if the custom domain   *)
(* could not be linked: no other call after that post may throw.           *)
RegisteredIsLast ==
    \A i \in registered \cup {j \in Instances : guest[j] = "announced"} :
        /\ i = current
        /\ i \in cleaned => pc = "failed"
        /\ i \in registered \cap cleaned => plan.customDomain

(* The LUKS passphrase reaches only guests whose attestation verified, and *)
(* a confidential instance is returned only after it was unlocked.         *)
PassphraseOnlyAfterAttestation ==
    /\ unlocked \subseteq attested
    /\ pc = "returned" /\ plan.confidential => current \in unlocked

(* The nested loops over candidates and placement attempts come to an end. *)
RunEnds == <>(pc \in {"returned", "failed"})

(* What docs/docusaurus/docs/reference/github-action.md says of failures:  *)
(* "Any deploy, confidential or not, forgets the instance of an attempt    *)
(* that fails after Aleph processed it [...] unless                        *)
(* preserve_failed_deployment is set." When the run fails, every instance  *)
(* Aleph has processed went through forgetDeployment.                      *)
FailureForgetsProcessed ==
    [][pc # "failed" /\ pc' = "failed" /\ ~plan.preserve =>
           \A i \in Instances : aleph[i] = "processed" => i \in cleaned']_vars
=============================================================================
