-------------------------- MODULE ControllerDeploy --------------------------
(***************************************************************************)
(* deploy() of SponsorRelayController (packages/ui/src/shared/             *)
(* controller.ts): a deployment started in the browser panel. It tries the *)
(* ranked CRNs one after the other; an attempt that fails is either        *)
(* recovered (the relay came up all the same) or cleaned up.               *)
(*                                                                         *)
(* An attempt broadcasts one INSTANCE message, named here by the index of  *)
(* its candidate. Between two awaits the wallet may change in MetaMask,    *)
(* the panel may refresh on its timer, and Aleph and the guest move.       *)
(***************************************************************************)
EXTENDS Naturals

CONSTANTS
    MaxCandidates,  \* bound on orderedCrns (the code cuts the list at five)
    Launches,       \* the deployments considered
    Wallets,        \* accounts of the connected wallet
    NoWallet,       \* wallet.address = null
    NoInstance,     \* attemptItemHash = null
    MaxSwitches     \* bound on the wallet changes during one deploy

LaunchType ==
    [ profile: {"uc-go-peer", "orbitdb-relay", "ucan-store", "none"},
      supportsAggregate: BOOLEAN,   \* supportsBootstrapConfigAggregate
      ports: BOOLEAN,               \* some requiredPortForwards
      confidential: BOOLEAN,
      https: BOOLEAN,               \* the page is served over HTTPS
      showInstances: BOOLEAN,
      candidates: 0..MaxCandidates ]

Instances == 1..MaxCandidates

ASSUME ControllerAssumption ==
    /\ MaxCandidates \in Nat /\ MaxSwitches \in Nat
    /\ Launches \subseteq LaunchType
    /\ NoWallet \notin Wallets
    /\ NoInstance \notin Instances

VARIABLES
    launch,         \* what this deploy launches
    pc,             \* where deploy() is (one label per awaited call)
    cand,           \* candidateIndex + 1
    item,           \* attemptItemHash
    wallet,         \* state.wallet.address
    signer,         \* walletAddress inside configureRelayBootstrapRegistration
    passphrase,     \* state.confidentialPassphrase is not empty
    busy,           \* state.busy.deploying
    regView,        \* confirmed entries of state.bootstrapRegistrations
    switches,       \* wallet changes so far
    aleph,          \* status of the INSTANCE messages
    owner,          \* their senders
    cleaned,        \* attempts whose cleanup ran to its end
    forgetSent,     \* FORGETs Aleph accepted, with their sender
    config,         \* records of the vm-bootstrap-config aggregates, by sender
    unlocked,       \* guests that received the passphrase
    configured,     \* guests that have their configuration
    registered,     \* guests with a visible bootstrap registration
    unreachable     \* guests that did not pass the reachability gate

runVars == <<launch, cand, item, signer, passphrase, busy>>
panelVars == <<wallet, regView, switches>>
messageVars == <<aleph, owner, cleaned, forgetSent>>
guestVars == <<config, unlocked, configured, registered, unreachable>>
vars == <<runVars, pc, panelVars, messageVars, guestVars>>

Labels ==
    {"create", "inspect", "ports", "notify", "unlock", "runtime", "configure",
     "setup", "push", "service", "activate", "publish", "signal", "metadata", "dialable",
     "registration", "fallback", "gate", "handoffDone", "finish", "recover",
     "recoverRefresh", "cleanupConfig", "forget", "completed", "failed"}

TypeOK ==
    /\ launch \in Launches
    /\ pc \in Labels
    /\ cand \in 1..(MaxCandidates + 1)
    /\ item \in Instances \cup {NoInstance}
    /\ wallet \in Wallets \cup {NoWallet}
    /\ signer \in Wallets \cup {NoWallet}
    /\ passphrase \in BOOLEAN
    /\ busy \in BOOLEAN
    /\ regView \subseteq Instances
    /\ switches \in 0..MaxSwitches
    /\ aleph \in [Instances -> {"absent", "pending", "processed", "rejected", "forgotten"}]
    /\ owner \in [Instances -> Wallets \cup {NoWallet}]
    /\ cleaned \subseteq Instances
    /\ forgetSent \subseteq Instances \X Wallets
    /\ config \subseteq Instances \X Wallets
    /\ unlocked \subseteq Instances
    /\ configured \subseteq Instances
    /\ registered \subseteq Instances
    /\ unreachable \subseteq Instances

(* bootstrapRelayProfileForManifest: the profiles that register. *)
relayProfile(l) == l.profile \in {"uc-go-peer", "orbitdb-relay"}

usesBootstrapConfigAggregate(l) == l.profile = "uc-go-peer" \/ l.supportsAggregate

(* The first patch of deploy(): its early returns (no wallet, no           *)
(* passphrase, no manifest) change nothing but an error text. Without a    *)
(* compatible CRN the deploy fails at once.                                *)
Init ==
    /\ launch \in Launches
    /\ pc = IF launch.candidates = 0 THEN "failed" ELSE "create"
    /\ cand = 1
    /\ item = NoInstance
    /\ wallet \in Wallets
    /\ signer = NoWallet
    /\ passphrase = (launch.confidential /\ launch.candidates > 0)
    /\ busy = (launch.candidates > 0)
    /\ regView = {}
    /\ switches = 0
    /\ aleph = [i \in Instances |-> "absent"]
    /\ owner = [i \in Instances |-> NoWallet]
    /\ cleaned = {}
    /\ forgetSent = {}
    /\ config = {}
    /\ unlocked = {}
    /\ configured = {}
    /\ registered = {}
    /\ unreachable = {}

-----------------------------------------------------------------------------
(* The end of an attempt. *)

(* An exception in an attempt: with a deployment token and a profile the   *)
(* relay may have come up all the same, which is looked for first.         *)
Fail ==
    pc' = IF usesBootstrapConfigAggregate(launch) THEN
              IF launch.profile # "none" THEN "recover" ELSE "cleanupConfig"
          ELSE "forget"

(* A guest whose IPv6 is not routable is not worth the look. *)
FailInvalidIpv6 ==
    pc' = IF usesBootstrapConfigAggregate(launch) THEN "cleanupConfig" ELSE "forget"

(* The next CRN, or the outer catch of deploy(). *)
NextCandidate ==
    IF cand < launch.candidates
    THEN /\ pc' = "create"
         /\ cand' = cand + 1
         /\ UNCHANGED <<passphrase, busy>>
    ELSE /\ pc' = "failed"
         /\ passphrase' = FALSE
         /\ busy' = FALSE
         /\ UNCHANGED cand

-----------------------------------------------------------------------------
(* What refresh() patches into bootstrapRegistrations: current posts of    *)
(* instances listed for the connected wallet. The API may answer late; a   *)
(* refresh that fails leaves the state as it was.                          *)
confirmedRegistrations ==
    IF launch.showInstances /\ relayProfile(launch) /\ wallet # NoWallet
    THEN {i \in registered : owner[i] = wallet
                             /\ aleph[i] \in {"pending", "processed", "rejected"}}
    ELSE {}

Refreshed == {regView} \cup SUBSET confirmedRegistrations

-----------------------------------------------------------------------------
(* deploySharedInstance: signed by the wallet of the moment. A broadcast   *)
(* that throws leaves no item hash, so the catch has nothing to recover or *)
(* clean up, whether Aleph has the message or not.                         *)
Broadcast ==
    /\ pc = "create"
    /\ \/ /\ wallet # NoWallet
          /\ aleph' = [aleph EXCEPT ![cand] = "pending"]
          /\ owner' = [owner EXCEPT ![cand] = wallet]
          /\ item' = cand
          /\ pc' = "inspect"
          /\ UNCHANGED <<cand, passphrase, busy>>
       \/ /\ wallet # NoWallet
          /\ aleph' = [aleph EXCEPT ![cand] = "pending"]
          /\ owner' = [owner EXCEPT ![cand] = wallet]
          /\ NextCandidate
          /\ UNCHANGED item
       \/ /\ NextCandidate
          /\ UNCHANGED <<item, aleph, owner>>
    /\ UNCHANGED <<launch, signer, panelVars, cleaned, forgetSent, guestVars>>

(* waitForDeploymentResult: anything but processed, and any lookup error,  *)
(* fails the attempt.                                                      *)
Inspect ==
    /\ pc = "inspect"
    /\ \/ aleph[item] = "processed" /\ pc' = "ports"
       \/ Fail
    /\ UNCHANGED <<runVars, panelVars, messageVars, guestVars>>

(* ensureInstancePortForwards *)
PublishPorts ==
    /\ pc = "ports"
    /\ \/ /\ ~launch.ports \/ wallet # NoWallet
          /\ pc' = "notify"
       \/ launch.ports /\ Fail
    /\ UNCHANGED <<runVars, panelVars, messageVars, guestVars>>

(* notifyCrnAllocationWithRetry: an unconfirmed allocation fails the       *)
(* attempt.                                                                *)
NotifyCrn ==
    /\ pc = "notify"
    /\ \/ pc' = IF launch.confidential THEN "unlock" ELSE "runtime"
       \/ Fail
    /\ UNCHANGED <<runVars, panelVars, messageVars, guestVars>>

(* Mutant: the passphrase is cleared by the call that fails, not by the    *)
(* one that succeeds.                                                      *)
UnlockGuest_ClearedOnError ==
    /\ pc = "unlock"
    /\ \/ /\ passphrase /\ wallet # NoWallet
          /\ unlocked' = unlocked \cup {item}
          /\ pc' = "runtime"
          /\ UNCHANGED passphrase
       \/ /\ unlocked' \in {unlocked} \cup
                 (IF passphrase /\ wallet # NoWallet THEN {unlocked \cup {item}} ELSE {})
          /\ Fail
          /\ passphrase' = FALSE
    /\ UNCHANGED <<launch, cand, item, signer, busy, panelVars, messageVars,
                   config, configured, registered, unreachable>>

(* unlockInstance: refuses an empty passphrase, attests the guest, sends   *)
(* the passphrase. The call may fail before or after the guest received    *)
(* it; only a call that succeeds clears the passphrase.                    *)
UnlockGuest ==
    /\ pc = "unlock"
    /\ \/ /\ passphrase /\ wallet # NoWallet
          /\ unlocked' = unlocked \cup {item}
          /\ passphrase' = FALSE
          /\ pc' = "runtime"
       \/ /\ unlocked' \in {unlocked} \cup
                 (IF passphrase /\ wallet # NoWallet THEN {unlocked \cup {item}} ELSE {})
          /\ Fail
          /\ UNCHANGED passphrase
    /\ UNCHANGED <<launch, cand, item, signer, busy, panelVars, messageVars,
                   config, configured, registered, unreachable>>

(* waitForVmRuntime *)
AwaitRuntime ==
    /\ pc = "runtime"
    /\ \/ pc' = "configure"
       \/ Fail
       \/ FailInvalidIpv6
    /\ UNCHANGED <<runVars, panelVars, messageVars, guestVars>>

-----------------------------------------------------------------------------
(* configureRelayBootstrapRegistration *)

(* The checks before its first await; a profile that neither registers nor *)
(* has a guest to set up is done.                                          *)
Configure ==
    /\ pc = "configure"
    /\ \/ /\ launch.profile = "none"
          /\ pc' = "finish"
          /\ busy' = FALSE
          /\ UNCHANGED signer
       \/ /\ launch.profile # "none"
          /\ wallet # NoWallet
          /\ launch.profile = "orbitdb-relay" /\ ~usesBootstrapConfigAggregate(launch)
                 => ~launch.https
          /\ signer' = wallet
          /\ pc' = IF relayProfile(launch) /\ usesBootstrapConfigAggregate(launch)
                   THEN "activate" ELSE "setup"
          /\ UNCHANGED busy
       \/ /\ launch.profile # "none"
          /\ Fail
          /\ UNCHANGED <<signer, busy>>
    /\ UNCHANGED <<launch, cand, item, passphrase, panelVars, messageVars, guestVars>>

(* The push handoff: waitForSetupEndpoint, then the POST to the guest,     *)
(* which may fail after the guest applied it.                              *)
AwaitSetup ==
    /\ pc = "setup"
    /\ pc' = "push" \/ Fail
    /\ UNCHANGED <<runVars, panelVars, messageVars, guestVars>>

Pushed(next) ==
    \/ /\ configured' = configured \cup {item}
       /\ pc' = next
    \/ /\ configured' \in {configured, configured \cup {item}}
       /\ Fail

(* configureUcanStore *)
PushService ==
    /\ pc = "push"
    /\ launch.profile = "ucan-store"
    /\ Pushed("service")
    /\ UNCHANGED <<runVars, panelVars, messageVars, config, unlocked, registered,
                   unreachable>>

(* configureOrbitdbRelaySetup: without the host ports of the relay's own   *)
(* listeners the attempt fails before the POST.                            *)
PushRelay ==
    /\ pc = "push"
    /\ relayProfile(launch)
    /\ Pushed("metadata")
    /\ UNCHANGED <<runVars, panelVars, messageVars, config, unlocked, registered,
                   unreachable>>

(* The metadata of the service has to name its DID, and it is done. *)
AwaitService ==
    /\ pc = "service"
    /\ \/ /\ pc' = "finish"
          /\ busy' = FALSE
       \/ /\ Fail
          /\ UNCHANGED busy
    /\ UNCHANGED <<launch, cand, item, signer, passphrase, panelVars, messageVars,
                   guestVars>>

(* The wait for the 2n6 route ends active or not; it fails when the CRN    *)
(* reported the execution absent four times in a row.                      *)
AwaitActivation ==
    /\ pc = "activate"
    /\ \/ pc' = "publish"
       \/ Fail
    /\ UNCHANGED <<runVars, panelVars, messageVars, guestVars>>

(* publishVmBootstrapConfig; a throw may come after Aleph applied it. *)
PublishConfig ==
    /\ pc = "publish"
    /\ \/ /\ config' = config \cup {<<item, signer>>}
          /\ pc' = "signal"
       \/ /\ config' \in {config, config \cup {<<item, signer>>}}
          /\ Fail
    /\ UNCHANGED <<runVars, panelVars, messageVars, unlocked, configured,
                   registered, unreachable>>

(* waitForVmBootstrapConfigSignal: the guest acknowledges its              *)
(* configuration, with or without its addresses. Without them only a       *)
(* uc-go-peer behind its proxy may be asked.                               *)
AwaitSignal ==
    /\ pc = "signal"
    /\ \/ item \in configured /\ pc' = "dialable"
       \/ item \in configured /\ launch.profile = "uc-go-peer" /\ pc' = "metadata"
       \/ Fail
    /\ UNCHANGED <<runVars, panelVars, messageVars, guestVars>>

(* fetchRelayMetadataForRuntime, and without an answer a refresh: a        *)
(* confirmed registration of this instance ends the function early.        *)
ReadMetadata ==
    /\ pc = "metadata"
    /\ \/ pc' = "dialable" /\ UNCHANGED <<regView, busy>>
       \/ /\ regView' \in Refreshed
          /\ IF item \in regView'
             THEN pc' = "finish" /\ busy' = FALSE
             ELSE Fail /\ UNCHANGED busy
    /\ UNCHANGED <<launch, cand, item, signer, passphrase, wallet, switches,
                   messageVars, guestVars>>

(* Some address in the metadata has to be dialable from a browser. *)
CheckDialable ==
    /\ pc = "dialable"
    /\ pc' = "registration" \/ Fail
    /\ UNCHANGED <<runVars, panelVars, messageVars, guestVars>>

(* waitForRelayBootstrapRegistration, first for the guest's own post. *)
AwaitRegistration ==
    /\ pc = "registration"
    /\ \/ item \in registered /\ pc' = "gate"
       \/ pc' = "fallback"
       \/ Fail
    /\ UNCHANGED <<runVars, panelVars, messageVars, guestVars>>

(* The browser publishes the registration itself and waits for it. *)
PublishFallback ==
    /\ pc = "fallback"
    /\ \/ /\ registered' = registered \cup {item}
          /\ pc' = "gate"
       \/ /\ registered' \in {registered, registered \cup {item}}
          /\ Fail
    /\ UNCHANGED <<runVars, panelVars, messageVars, config, unlocked, configured,
                   unreachable>>

(* The reachability gate: orbitdb-relay behind a proxy has to answer       *)
(* /health with its peer id.                                               *)
ReachabilityGate ==
    /\ pc = "gate"
    /\ \/ pc' = "handoffDone" /\ UNCHANGED unreachable
       \/ /\ launch.profile = "orbitdb-relay"
          /\ unreachable' = unreachable \cup {item}
          /\ Fail
    /\ UNCHANGED <<runVars, panelVars, messageVars, config, unlocked, configured,
                   registered>>

(* uc-go-peer: deleteVmBootstrapConfig, whose errors are dropped. *)
HandoffDone ==
    /\ pc = "handoffDone"
    /\ config' \in {config} \cup
         (IF launch.profile = "uc-go-peer" THEN {config \ {<<item, signer>>}} ELSE {})
    /\ pc' = "finish"
    /\ busy' = FALSE
    /\ UNCHANGED <<launch, cand, item, signer, passphrase, panelVars, messageVars,
                   unlocked, configured, registered, unreachable>>

(* The refresh after a deployment that succeeded. *)
Finish ==
    /\ pc = "finish"
    /\ regView' \in Refreshed
    /\ pc' = "completed"
    /\ UNCHANGED <<runVars, wallet, switches, messageVars, guestVars>>

-----------------------------------------------------------------------------
(* The catch of an attempt. *)

(* Mutant: a runtime that is ready is recovered without a registration. *)
Recover_RuntimeReady ==
    /\ pc = "recover"
    /\ \/ /\ launch.profile = "uc-go-peer"
          /\ pc' = "finish"
          /\ busy' = FALSE
       \/ /\ pc' = "recoverRefresh"
          /\ UNCHANGED busy
    /\ UNCHANGED <<launch, cand, item, signer, passphrase, panelVars, messageVars,
                   guestVars>>

(* A relay whose metadata may be read over HTTPS (uc-go-peer behind its    *)
(* proxy), whose runtime is ready and whose registration is visible has    *)
(* come up.                                                                *)
Recover ==
    /\ pc = "recover"
    /\ \/ /\ launch.profile = "uc-go-peer"
          /\ item \in registered
          /\ pc' = "finish"
          /\ busy' = FALSE
       \/ /\ pc' = "recoverRefresh"
          /\ UNCHANGED busy
    /\ UNCHANGED <<launch, cand, item, signer, passphrase, panelVars, messageVars,
                   guestVars>>

(* Mutant: the recovered deploy forgets to give the panel back. *)
RecoverRefresh_StaysBusy ==
    /\ pc = "recoverRefresh"
    /\ regView' \in Refreshed
    /\ pc' = IF item \in regView' THEN "completed" ELSE "cleanupConfig"
    /\ UNCHANGED <<launch, cand, item, signer, passphrase, busy, wallet, switches,
                   messageVars, guestVars>>

(* Otherwise the panel is refreshed, and a confirmed registration for the  *)
(* instance counts as success.                                             *)
RecoverRefresh ==
    /\ pc = "recoverRefresh"
    /\ regView' \in Refreshed
    /\ IF item \in regView'
       THEN pc' = "completed" /\ busy' = FALSE
       ELSE pc' = "cleanupConfig" /\ UNCHANGED busy
    /\ UNCHANGED <<launch, cand, item, signer, passphrase, wallet, switches,
                   messageVars, guestVars>>

(* deleteVmBootstrapConfig for the failed attempt, by the wallet of the    *)
(* moment; its errors are dropped.                                         *)
CleanupConfig ==
    /\ pc = "cleanupConfig"
    /\ config' \in {config, config \ {<<item, wallet>>}}
    /\ pc' = "forget"
    /\ UNCHANGED <<runVars, panelVars, messageVars, unlocked, configured,
                   registered, unreachable>>

(* Mutant: the next CRN does not wait for the cleanup of this attempt. *)
ForgetAttempt_Skipped ==
    /\ pc = "forget"
    /\ item' = NoInstance
    /\ NextCandidate
    /\ UNCHANGED <<launch, signer, panelVars, messageVars, guestVars>>

(* forgetAlephMessages for the failed attempt, by the wallet of the        *)
(* moment; a FORGET that fails is not noticed.                             *)
ForgetAttempt ==
    /\ pc = "forget"
    /\ forgetSent' \in {forgetSent} \cup
         (IF wallet # NoWallet THEN {forgetSent \cup {<<item, wallet>>}} ELSE {})
    /\ cleaned' = cleaned \cup {item}
    /\ item' = NoInstance
    /\ NextCandidate
    /\ UNCHANGED <<launch, signer, panelVars, aleph, owner, guestVars>>

-----------------------------------------------------------------------------
(* Around the deploy. *)

(* watchWallet and refreshWalletDerivedState: another account, or none. *)
WalletChanges ==
    /\ switches < MaxSwitches
    /\ wallet' \in (Wallets \cup {NoWallet}) \ {wallet}
    /\ switches' = switches + 1
    /\ UNCHANGED <<runVars, pc, regView, messageVars, guestVars>>

(* refresh() on the panel's timer. *)
TimerRefresh ==
    /\ regView' \in Refreshed
    /\ UNCHANGED <<runVars, pc, wallet, switches, messageVars, guestVars>>

AlephProcesses(i) ==
    /\ aleph[i] = "pending"
    /\ \E s \in {"processed", "rejected"} : aleph' = [aleph EXCEPT ![i] = s]
    /\ UNCHANGED <<runVars, pc, panelVars, owner, cleaned, forgetSent, guestVars>>

(* A FORGET counts only when it comes from the sender of the message. *)
AlephForgets(i) ==
    /\ aleph[i] = "processed"
    /\ <<i, owner[i]>> \in forgetSent
    /\ aleph' = [aleph EXCEPT ![i] = "forgotten"]
    /\ UNCHANGED <<runVars, pc, panelVars, owner, cleaned, forgetSent, guestVars>>

(* The guest (external): it boots when Aleph has processed the message and *)
(* an encrypted rootfs was unlocked, and reads its record from the         *)
(* aggregate of the owner named in its deployment token.                   *)
GuestReadsConfig(i) ==
    /\ i \notin configured
    /\ aleph[i] = "processed"
    /\ launch.confidential => i \in unlocked
    /\ <<i, owner[i]>> \in config
    /\ configured' = configured \cup {i}
    /\ UNCHANGED <<runVars, pc, panelVars, messageVars, config, unlocked,
                   registered, unreachable>>

GuestRegisters(i) ==
    /\ i \in configured \ registered
    /\ relayProfile(launch)
    /\ registered' = registered \cup {i}
    /\ UNCHANGED <<runVars, pc, panelVars, messageVars, config, unlocked,
                   configured, unreachable>>

-----------------------------------------------------------------------------
DeployStep ==
    \/ Broadcast \/ Inspect \/ PublishPorts \/ NotifyCrn \/ UnlockGuest
    \/ AwaitRuntime
    \/ Configure \/ AwaitSetup \/ PushService \/ PushRelay \/ AwaitService
    \/ AwaitActivation \/ PublishConfig
    \/ AwaitSignal \/ ReadMetadata \/ CheckDialable \/ AwaitRegistration
    \/ PublishFallback \/ ReachabilityGate \/ HandoffDone
    \/ Finish
    \/ Recover \/ RecoverRefresh \/ CleanupConfig \/ ForgetAttempt

World ==
    \/ WalletChanges
    \/ TimerRefresh
    \/ \E i \in Instances :
         \/ AlephProcesses(i) \/ AlephForgets(i)
         \/ GuestReadsConfig(i) \/ GuestRegisters(i)

Next == DeployStep \/ World

Spec == Init /\ [][Next]_vars

(* Every wait of deploy() is bounded by its attempts and every request     *)
(* ends; the person answers the signature prompts, one way or the other.   *)
FairSpec == Spec /\ WF_vars(DeployStep)

-----------------------------------------------------------------------------
(* Properties *)

(* The browser deploy keeps the same promise as the action's executor: one *)
(* instance at a time, none given up twice, and it fails only with none in *)
(* its hands. Success is decided before the last refresh.                  *)
Ownership ==
    INSTANCE InstanceOwnership
        WITH held <- item,
             released <- cleaned,
             outcome <- CASE pc = "failed" -> "failed"
                          [] pc \in {"finish", "completed"} -> "returned"
                          [] OTHER -> "running"

ImplementsOwnership == Ownership!Spec

(* Whichever of its ways a deploy succeeds (first try, metadata recovered  *)
(* from the panel, attempt recovered in the catch), what it reports as     *)
(* ready was processed, was never asked to be forgotten, and is a guest    *)
(* that has its configuration and, for a relay, a visible registration.    *)
CompletedIsServing ==
    pc = "completed" =>
        /\ aleph[item] = "processed"
        /\ \A w \in Wallets : <<item, w>> \notin forgetSent
        /\ launch.profile # "none" => item \in configured
        /\ relayProfile(launch) => item \in registered

(* A confidential deploy that succeeds has unlocked its guest, and the     *)
(* passphrase is not held in memory once the deploy is over, succeeded or  *)
(* failed; a recovered attempt is no exception.                            *)
PassphraseSpent ==
    /\ pc \in {"completed", "failed"} => ~passphrase
    /\ pc = "completed" /\ launch.confidential => item \in unlocked

(* Whatever fails, recovers or changes on the way, a deploy comes to an    *)
(* end and gives the panel back: the busy flag does not stay set.          *)
DeployEnds == <>(pc \in {"completed", "failed"} /\ ~busy)

(* "if it never reports this relay's peerId, throw so the CRN loop fails   *)
(* over to another host instead of shipping an undialable relay"           *)
(* (controller.ts, above the reachability gate): a deploy never completes  *)
(* with a relay that did not pass the gate.                                *)
CompletedIsReachable == pc = "completed" => item \notin unreachable

(* "Enter the passphrase of the encrypted rootfs to start a confidential   *)
(* VM." (the guard at the head of deploy()): no confidential INSTANCE is   *)
(* broadcast without a passphrase to unlock it with.                       *)
ConfidentialStartHasPassphrase ==
    launch.confidential /\ pc = "create" => passphrase

(* "the failed attempt is cleaned up (config aggregate, INSTANCE FORGET)"  *)
(* (docs/.../architecture/deployment-lifecycle.md): the FORGET of a failed *)
(* attempt comes from the account that owns the instance.                  *)
ForgottenByOwner ==
    \A i \in Instances, w \in Wallets : <<i, w>> \in forgetSent => w = owner[i]
=============================================================================
