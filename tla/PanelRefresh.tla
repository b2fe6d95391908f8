---------------------------- MODULE PanelRefresh ----------------------------
(***************************************************************************)
(* What the panel shows (packages/ui/src/shared/controller.ts): refresh()  *)
(* with its lookups, beside the wallet, a deploy that waits for Aleph, and *)
(* deleteInstance. refresh() has no generation counter and is called by a  *)
(* timer, by the wallet's events, and at the end of a deploy or a delete,  *)
(* so several are under way at once and each writes what it has read when  *)
(* its own lookups are done. It reads the wallet's address anew between    *)
(* two lookups.                                                            *)
(*                                                                         *)
(* Aleph and the CRNs are the environment: an instance message is          *)
(* processed, its VM gets a runtime, and a FORGET is honoured when it      *)
(* comes from the owner.                                                   *)
(***************************************************************************)
EXTENDS Naturals, FiniteSets

CONSTANTS
    Accounts,
    Kept,           \* instances that exist when the panel opens
    ownerOfKept,    \* their accounts
    running,        \* those that have a runtime when it opens
    Fresh,          \* the instance deployed from the panel
    profile,        \* profile of the manifest: "relay" or "ucan-store"
    MaxInFlight,    \* bound on refreshes under way when the timer fires
    MaxActs,        \* bound on what the user does
    MaxFaults,      \* bound on lookups that fail
    None

Instances == Kept \cup {Fresh}

ASSUME PanelAssumption ==
    /\ ownerOfKept \in [Kept -> Accounts] /\ running \subseteq Kept /\ Fresh \notin Kept
    /\ profile \in {"relay", "ucan-store"}
    /\ {MaxInFlight, MaxActs, MaxFaults} \subseteq Nat
    /\ None \notin Accounts \cup Instances

VARIABLES
    metamask,       \* the account MetaMask exposes, or None
    wallet,         \* state.wallet.address, or None
    message,        \* status of the instance messages on Aleph
    owner,          \* sender of each instance message
    runs,           \* instances whose CRN reports a runtime
    post,           \* publisher of each instance's bootstrap post, or None
    shown,          \* state.instances: the details of each instance
    listed,         \* state.bootstrapRegistrations
    progress,       \* state.deploymentProgress
    last,           \* state.lastDeploymentHash
    lastCompleted,  \* lastCompletedDeploymentHash
    remembered,     \* keys of runtimeDetailsByHash
    cooling,        \* keys of runtimeCooldownByHash that are not over
    refresh,        \* per caller: the refresh under way
    deploy,         \* where deploy() stands
    delete,         \* where deleteInstance stands
    acts,
    faults

account == <<metamask, wallet>>
aleph == <<message, owner, runs, post>>
panel == <<shown, listed, progress>>
runtimes == <<remembered, cooling>>
tasks == <<deploy, delete, last, lastCompleted>>
vars == <<account, aleph, panel, runtimes, refresh, tasks, acts, faults>>

Callers == {"timer", "wallet", "deploy", "delete"}
Statuses == {"absent", "pending", "processed", "rejected"}
Details == [Instances -> [status : Statuses, runtime : BOOLEAN]]
Absent == [status |-> "absent", runtime |-> FALSE]
Nothing == [i \in Instances |-> Absent]
Registrations == [instance : Instances, address : Accounts, confirmed : BOOLEAN]
NoDelete == [pc |-> "idle", of |-> None, sender |-> None, linked |-> FALSE]
NoRefresh == [pc |-> "none", found |-> Nothing, posts |-> {},
              details |-> Nothing, registrations |-> {}]

TypeOK ==
    /\ metamask \in Accounts \cup {None} /\ wallet \in Accounts \cup {None}
    /\ message \in [Instances -> {"none", "pending", "processed", "rejected", "forgotten"}]
    /\ owner \in [Instances -> Accounts \cup {None}] /\ post \in [Instances -> Accounts \cup {None}]
    /\ runs \subseteq Instances /\ shown \in Details /\ listed \subseteq Registrations
    /\ progress.of \in Instances \cup {None}
    /\ {last, lastCompleted} \subseteq {Fresh, None}
    /\ remembered \subseteq Instances /\ cooling \subseteq Kept
    /\ \A c \in Callers : refresh[c].details \in Details /\ refresh[c].registrations \subseteq Registrations
    /\ acts \in 0..MaxActs /\ faults \in 0..MaxFaults

stored(i) == message[i] \in Statuses
theirs(i) == stored(i) /\ owner[i] = wallet
present(details) == {i \in Instances : details[i] # Absent}
inFlight == {c \in Callers : refresh[c].pc # "none"}

Acting == acts < MaxActs /\ acts' = acts + 1
Faulting == faults < MaxFaults /\ faults' = faults + 1

-----------------------------------------------------------------------------
(* Aleph and the CRNs *)

Process(i) ==
    /\ message[i] = "pending"
    /\ \E status \in {"processed", "rejected"} : message' = [message EXCEPT ![i] = status]
    /\ UNCHANGED <<account, owner, runs, post, panel, runtimes, refresh, tasks, acts, faults>>

(* The scheduler allocates the VM, and its CRN lists the execution. *)
Allocate(i) ==
    /\ message[i] = "processed" /\ i \notin runs
    /\ runs' = runs \cup {i}
    /\ UNCHANGED <<account, message, owner, post, panel, runtimes, refresh, tasks, acts, faults>>

(* No refresh has looked at the instance for five minutes. *)
CooldownEnds(i) ==
    /\ i \in cooling
    /\ cooling' = cooling \ {i}
    /\ UNCHANGED <<account, aleph, panel, remembered, refresh, tasks, acts, faults>>

-----------------------------------------------------------------------------
(* The progress of the latest deployment *)

isForLatest ==
    \/ progress.of = last
    \/ progress.of = None /\ progress.stage \notin {"idle", "error"}

(* Mutant: only the progress itself tells that the deployment completed. *)
keepTerminalSuccess_ProgressOnly ==
    isForLatest /\ progress.stage = "completed"

keepTerminalSuccess ==
    \/ lastCompleted = last
    \/ isForLatest /\ progress.stage = "completed"

reached(d, registrations) ==
    IF d.status = "rejected" THEN "rejected"
    ELSE IF d.status # "processed" THEN "waiting"
    ELSE IF ~d.runtime THEN "confirmed"
    ELSE IF profile = "ucan-store" \/ \E entry \in registrations : entry.instance = last /\ entry.confirmed
         THEN "completed" ELSE "ready"

(* syncLatestDeploymentProgress, for what the refresh that ends has read. *)
Latest(details, registrations) ==
    IF \/ last = None \/ last \notin present(details)
       \/ isForLatest /\ progress.stage = "publishing"
       \/ reached(details[last], registrations) \in {"waiting", "confirmed"} /\ keepTerminalSuccess
    THEN progress
    ELSE [stage |-> reached(details[last], registrations), of |-> last]

-----------------------------------------------------------------------------
(* refresh() *)

at(c, pc) == refresh[c].pc = pc
Begun(c) == refresh' = [refresh EXCEPT ![c] = [NoRefresh EXCEPT !.pc = "prices"]]
idle(c) == at(c, "none")
Ended(c) == [NoRefresh EXCEPT !.pc = IF c \in {"deploy", "delete"} THEN "ended" ELSE "none"]

(* Prices, CRNs and the manifest have come; fetchInstances and             *)
(* fetchAlephBootstrapPosts are sent off together for the address of the   *)
(* moment, and answered. Without an address there is nothing to look up.   *)
Lookups(c) ==
    /\ at(c, "prices")
    /\ refresh' = [refresh EXCEPT ![c] =
           IF wallet = None THEN [NoRefresh EXCEPT !.pc = "rootfs"]
           ELSE [NoRefresh EXCEPT
               !.pc = "inspect",
               !.found = [i \in Instances |->
                   IF theirs(i) THEN [status |-> message[i], runtime |-> FALSE] ELSE Absent],
               !.posts = IF profile = "relay"
                   THEN {[instance |-> i, address |-> post[i]] : i \in {j \in Instances : post[j] # None}}
                   ELSE {}]]
    /\ UNCHANGED <<account, aleph, panel, runtimes, tasks, acts, faults>>

canSkipRuntimeRefresh(i) == i # last /\ i \in cooling

(* inspectInstanceRuntime; a lookup that fails leaves the runtime out. *)
inspected(i, d, failing) ==
    IF d.status = "rejected" \/ canSkipRuntimeRefresh(i) \/ i \in failing \/ i \notin runs
    THEN d ELSE [status |-> "processed", runtime |-> TRUE]

mergeRememberedRuntimeDetails(i, d) ==
    IF i \in remembered THEN [status |-> "processed", runtime |-> TRUE] ELSE d

(* relayBootstrapMatchesCurrentWallet *)
matches(entry, active) == entry.instance \in active \/ entry.address = wallet

(* Mutant: what the wallet published is taken for an orphan. *)
confirmed_OthersOnly(entry, active) == entry.instance \in active /\ entry.address # wallet

confirmed(entry, active) == entry.instance \in active

(* The runtimes are in; the address is read once more for the posts. *)
Inspect(c) ==
    /\ at(c, "inspect") /\ wallet # None
    /\ \E failing \in {{}} \cup {{i} : i \in present(refresh[c].found)} :
        LET active == present(refresh[c].found)
            merged == [i \in Instances |-> IF i \in active
                 THEN mergeRememberedRuntimeDetails(i, inspected(i, refresh[c].found[i], failing)) ELSE Absent]
            bare == {i \in active : ~merged[i].runtime}
        IN  /\ IF failing = {} THEN UNCHANGED faults ELSE Faulting
            /\ remembered' = remembered \cup (active \ bare)
            /\ cooling' = (cooling \ active) \cup
                   {i \in (bare \cap Kept) \ failing : merged[i].status = "processed"}
            /\ refresh' = [refresh EXCEPT ![c] = [NoRefresh EXCEPT
                   !.pc = "rootfs",
                   !.details = merged,
                   !.registrations =
                       {[instance |-> entry.instance, address |-> entry.address,
                         confirmed |-> confirmed(entry, active)] :
                            entry \in {e \in refresh[c].posts : matches(e, active)}}]]
    /\ UNCHANGED <<account, aleph, panel, tasks, acts>>

(* Mutant: with no instances read, the list stays as it is. *)
Show_KeepsTheList(c) ==
    /\ at(c, "rootfs")
    /\ shown' = IF present(refresh[c].details) = {} THEN shown ELSE refresh[c].details
    /\ listed' = refresh[c].registrations
    /\ progress' = Latest(refresh[c].details, refresh[c].registrations)
    /\ refresh' = [refresh EXCEPT ![c] = Ended(c)]
    /\ UNCHANGED <<account, aleph, runtimes, tasks, acts, faults>>

(* The rootfs has been looked up: everything read is written at once. *)
Show(c) ==
    /\ at(c, "rootfs")
    /\ shown' = refresh[c].details
    /\ listed' = refresh[c].registrations
    /\ progress' = Latest(refresh[c].details, refresh[c].registrations)
    /\ refresh' = [refresh EXCEPT ![c] = Ended(c)]
    /\ UNCHANGED <<account, aleph, runtimes, tasks, acts, faults>>

(* A lookup throws, or the address has gone when the posts are looked at;  *)
(* the caller goes on as it would after a refresh that succeeds.           *)
RefreshFails(c) ==
    /\ refresh[c].pc \in {"prices", "inspect", "rootfs"}
    /\ IF at(c, "inspect") /\ wallet = None THEN UNCHANGED faults ELSE Faulting
    /\ refresh' = [refresh EXCEPT ![c] = Ended(c)]
    /\ UNCHANGED <<account, aleph, panel, runtimes, tasks, acts>>

RefreshSteps(c) ==
    \/ Lookups(c) \/ Inspect(c) \/ Show(c) \/ RefreshFails(c)

-----------------------------------------------------------------------------
(* The timer and the wallet *)

Tick ==
    /\ idle("timer") /\ Cardinality(inFlight) < MaxInFlight
    /\ Begun("timer")
    /\ UNCHANGED <<account, aleph, panel, runtimes, tasks, acts, faults>>

(* The user picks another account in MetaMask, or locks it. *)
Switch(a) ==
    /\ Acting /\ a # metamask /\ idle("wallet") /\ (wallet = None \/ metamask = wallet)
    /\ metamask' = a
    /\ UNCHANGED <<wallet, aleph, panel, runtimes, refresh, tasks, faults>>

(* refreshWalletDerivedState: connectWallet has answered, or thrown. *)
WalletChanged ==
    /\ wallet # None /\ metamask # wallet
    /\ wallet' = metamask
    /\ IF metamask = None THEN UNCHANGED refresh ELSE Begun("wallet")
    /\ UNCHANGED <<metamask, aleph, panel, runtimes, tasks, acts, faults>>

(* connectWallet() of the panel, pressed by the user. *)
Connect ==
    /\ wallet = None /\ metamask # None /\ idle("wallet")
    /\ wallet' = metamask
    /\ Begun("wallet")
    /\ UNCHANGED <<metamask, aleph, panel, runtimes, tasks, acts, faults>>

-----------------------------------------------------------------------------
(* deploy(), from the broadcast on *)

Submit ==
    /\ deploy = "idle" /\ wallet # None /\ Acting
    /\ message' = [message EXCEPT ![Fresh] = "pending"]
    /\ owner' = [owner EXCEPT ![Fresh] = wallet]
    /\ last' = Fresh /\ lastCompleted' = None
    /\ progress' = [stage |-> "waiting", of |-> Fresh]
    /\ deploy' = "waiting"
    /\ UNCHANGED <<account, runs, post, shown, listed, runtimes, refresh, delete, faults>>

Reload ==
    /\ progress' = [stage |-> "refreshing", of |-> Fresh]
    /\ deploy' = "refreshing"
    /\ Begun("deploy")

(* The runtime is there. A relay is set up and registered next; a service  *)
(* is ready.                                                               *)
Configure ==
    /\ deploy = "waiting" /\ Fresh \in runs
    /\ IF profile = "ucan-store" THEN Reload
       ELSE /\ progress' = [stage |-> "publishing", of |-> Fresh]
            /\ deploy' = "publishing"
            /\ UNCHANGED refresh
    /\ UNCHANGED <<account, aleph, shown, listed, runtimes, delete, last, lastCompleted, acts, faults>>

Register ==
    /\ deploy = "publishing" /\ wallet # None
    /\ post' = [post EXCEPT ![Fresh] = wallet]
    /\ Reload
    /\ UNCHANGED <<account, message, owner, runs, shown, listed, runtimes, delete, last, lastCompleted, acts, faults>>

Complete ==
    /\ deploy = "refreshing" /\ at("deploy", "ended")
    /\ lastCompleted' = Fresh
    /\ progress' = [stage |-> "completed", of |-> Fresh]
    /\ deploy' = "done"
    /\ refresh' = [refresh EXCEPT !["deploy"] = NoRefresh]
    /\ UNCHANGED <<account, aleph, shown, listed, runtimes, delete, last, acts, faults>>

(* The attempt fails, and the clean-up may forget the instance. *)
DeployFails ==
    /\ deploy \in {"waiting", "publishing"}
    /\ IF message[Fresh] \in {"rejected", "forgotten"} \/ wallet = None THEN UNCHANGED faults ELSE Faulting
    /\ \/ UNCHANGED message
       \/ message' = [message EXCEPT ![Fresh] = "forgotten"]
    /\ progress' = [stage |-> "error", of |-> Fresh]
    /\ deploy' = "done"
    /\ UNCHANGED <<account, owner, runs, post, shown, listed, runtimes, refresh, delete, last, lastCompleted, acts>>

-----------------------------------------------------------------------------
(* deleteInstance *)

(* The registrations to forget with the instance are those the panel shows. *)
linked(i) == {entry \in listed : entry.instance = i /\ entry.address = wallet}

Delete(i) ==
    /\ Acting /\ delete.pc = "idle" /\ wallet # None /\ i \in present(shown)
    /\ progress' = [stage |-> "deleting", of |-> i]
    /\ delete' = [pc |-> "erase", of |-> i, sender |-> wallet, linked |-> linked(i) # {}]
    /\ UNCHANGED <<account, aleph, shown, listed, runtimes, refresh, deploy, last, lastCompleted, faults>>

(* eraseInstanceOnCrn: the CRN erases for the owner, or no CRN is found. *)
Erase ==
    /\ delete.pc = "erase"
    /\ \/ delete.sender = owner[delete.of] /\ runs' = runs \ {delete.of}
       \/ UNCHANGED runs
    /\ delete' = [delete EXCEPT !.pc = "forget"]
    /\ UNCHANGED <<account, message, owner, post, panel, runtimes, refresh, deploy, last, lastCompleted, acts, faults>>

(* One FORGET for the instance and its posts, signed for the address of    *)
(* the moment; Aleph honours what the sender owns.                         *)
Forget ==
    /\ delete.pc = "forget" /\ wallet # None
    /\ message' = IF owner[delete.of] = wallet
                  THEN [message EXCEPT ![delete.of] = "forgotten"] ELSE message
    /\ post' = IF delete.linked /\ post[delete.of] = wallet
               THEN [post EXCEPT ![delete.of] = None] ELSE post
    /\ progress' = [stage |-> "refreshing", of |-> delete.of]
    /\ delete' = [delete EXCEPT !.pc = "refreshing"]
    /\ Begun("delete")
    /\ UNCHANGED <<account, owner, runs, shown, listed, runtimes, deploy, last, lastCompleted, acts, faults>>

DeleteEnds ==
    /\ delete.pc = "refreshing" /\ at("delete", "ended")
    /\ progress' = [stage |-> "completed", of |-> delete.of]
    /\ delete' = NoDelete
    /\ refresh' = [refresh EXCEPT !["delete"] = NoRefresh]
    /\ UNCHANGED <<account, aleph, shown, listed, runtimes, deploy, last, lastCompleted, acts, faults>>

(* The CRN refuses, the user does not sign, or the broadcast fails: the    *)
(* progress stays where it was.                                            *)
DeleteFails ==
    /\ delete.pc \in {"erase", "forget"}
    /\ IF wallet = None \/ delete.sender # owner[delete.of] THEN UNCHANGED faults ELSE Faulting
    /\ delete' = NoDelete
    /\ UNCHANGED <<account, aleph, panel, runtimes, refresh, deploy, last, lastCompleted, acts>>

-----------------------------------------------------------------------------
Init ==
    /\ metamask \in {ownerOfKept[i] : i \in Kept} /\ wallet = None
    /\ message = [i \in Instances |-> IF i \in Kept THEN "processed" ELSE "none"]
    /\ owner = [i \in Instances |-> IF i \in Kept THEN ownerOfKept[i] ELSE None]
    /\ post = [i \in Instances |-> IF i \in Kept THEN ownerOfKept[i] ELSE None]
    /\ runs = running
    /\ shown = Nothing /\ listed = {} /\ progress = [stage |-> "idle", of |-> None]
    /\ last = None /\ lastCompleted = None
    /\ remembered = {} /\ cooling = {}
    /\ refresh = [c \in Callers |-> NoRefresh]
    /\ deploy = "idle" /\ delete = NoDelete
    /\ acts = 0 /\ faults = 0

Environment == \E i \in Instances : Process(i) \/ Allocate(i) \/ CooldownEnds(i)
Deploying == Submit \/ Configure \/ Register \/ Complete \/ DeployFails
Deleting == (\E i \in Instances : Delete(i)) \/ Erase \/ Forget \/ DeleteEnds \/ DeleteFails

Next ==
    \/ Environment
    \/ \E c \in Callers : RefreshSteps(c)
    \/ Tick \/ WalletChanged \/ Connect
    \/ \E a \in Accounts \cup {None} : Switch(a)
    \/ Deploying \/ Deleting

(* Requests are answered, and Aleph and the CRNs work: none of this goes   *)
(* on for ever, so that one fairness condition has each of it happen. The  *)
(* timer goes on ticking, and its refreshes end. The user need not do      *)
(* anything, and a cooldown need not end.                                  *)
Answers ==
    \/ \E i \in Instances : Process(i) \/ Allocate(i)
    \/ \E c \in Callers \ {"timer"} : RefreshSteps(c)
    \/ WalletChanged
    \/ Configure \/ Register \/ Complete \/ DeployFails
    \/ Erase \/ Forget \/ DeleteEnds \/ DeleteFails

Fairness == WF_vars(Answers) /\ WF_vars(Tick \/ RefreshSteps("timer"))

Spec == Init /\ [][Next]_vars /\ Fairness

-----------------------------------------------------------------------------
(* A deployment that has completed is never again shown as one that waits  *)
(* for Aleph or for its runtime, whatever an older refresh still brings    *)
(* and whatever else the progress has told of in the meantime.             *)
CompletedIsKept ==
    lastCompleted # None =>
        ~(progress.of = lastCompleted /\ progress.stage \in {"waiting", "confirmed"})

(* Once the user leaves the wallet alone, the panel comes to show the      *)
(* connected account's instances and no others: refreshes that began for   *)
(* another account, or before a delete, do not have the last word.         *)
ShowsTheAccount ==
    <>[](/\ present(shown) = {i \in Instances : theirs(i)}
         /\ \A entry \in listed : entry.address = wallet \/ theirs(entry.instance))

(* A completed deployment that stays on Aleph, registered and in the       *)
(* connected wallet, is in the end shown as completed, even after other    *)
(* deletes have had the progress bar for a while.                          *)
CompletedComesBack ==
    <>[](lastCompleted # None /\ theirs(Fresh) /\ Fresh \in runs
         /\ (profile = "relay" => post[Fresh] # None))
      => []<>(progress = [stage |-> "completed", of |-> Fresh])

(* An instance that runs is in the end shown with its runtime. The code    *)
(* renews the cooldown of an instance it has skipped, so this does not     *)
(* hold.                                                                   *)
RunningIsShown ==
    <>[](\A i \in Instances : theirs(i) /\ i \in runs => shown[i].runtime)

=============================================================================
