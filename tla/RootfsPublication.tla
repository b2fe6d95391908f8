------------------------- MODULE RootfsPublication -------------------------
(***************************************************************************)
(* Publishing an image (packages/node/src/rootfs-runner.ts with            *)
(* packages/rootfs/src) and what the panel makes of it                     *)
(* (packages/browser/src/rootfs.ts and the manifest half of refresh() in   *)
(* ui/src/shared/controller.ts).                                           *)
(*                                                                         *)
(* A run builds the image, gives it to IPFS by one of four drivers, has    *)
(* Aleph pin it with a STORE message, and writes the manifest that names   *)
(* the STORE. Runs share a project directory and go one after another.     *)
(* Aleph decides when it pleases, and each of its hosts may lag behind;    *)
(* any request may fail after it was taken, and a run may be cancelled.    *)
(* The panel reads a manifest, asks Aleph for the STORE and lets the user  *)
(* begin a deploy only when it takes that image for ready. The deploy reads *)
(* which image to use later, while refreshes go on.                        *)
(***************************************************************************)
EXTENDS Naturals, FiniteSets

CONSTANTS
    Runs,           \* runs of mode rootfs-publish
    Plans,          \* the inputs of a run, see PlanType
    Versions,       \* values of ALEPH_ROOTFS_VERSION
    ApiHosts,       \* number of Aleph API hosts
    AddUrls,        \* number of IPFS add endpoints
    WaitAttempts,   \* alephMessageWaitAttempts
    Sources,        \* the manifests the panel is given, by URL or pasted
    Refreshes,      \* refreshes of the panel that may be under way
    MaxFaults,      \* bound on requests, commands and writes that fail
    None

Drivers == {"ipfs-add", "api-fetch", "aleph-api-ipfs", "helia"}
Toolchains == [githubActions: BOOLEAN, docker: BOOLEAN, daemon: BOOLEAN, virtCustomize: BOOLEAN]

PlanType == [valid: BOOLEAN,            \* contract and settings parse
             version: Versions,
             assets: BOOLEAN,           \* the profile has an asset to bundle
             buildDriver: {"auto", "host", "docker"},
             toolchain: Toolchains,
             driver: Drivers,
             skipUpload: BOOLEAN,
             requireProcessed: BOOLEAN]

RootfsParameters ==
    /\ Plans \subseteq PlanType
    /\ ApiHosts \in Nat \ {0} /\ AddUrls \in Nat \ {0}
    /\ WaitAttempts \in Nat \ {0} /\ MaxFaults \in Nat
    /\ Versions \cap {"primary", "latest"} = {}
    /\ Sources \subseteq {"primary", "latest"} \cup Versions
    /\ None \notin {"host", "docker"}

ASSUME RootfsAssumption == RootfsParameters

VARIABLES
    run,        \* per run: where it stands and what it was told
    held,       \* images an IPFS endpoint keeps
    serving,    \* images the Helia node of their run provides
    store,      \* status of the STORE message of a run
    manifests,  \* the manifest files of the project directory
    panel,      \* what the panel shows
    refresh,    \* per refresh: what it has read so far
    start,      \* the deploy under way, up to the image it uses
    faults

rootfsVars == <<run, held, serving, store, manifests, panel, refresh, start, faults>>
publisher == <<run, held, serving, store, manifests>>
page == <<panel, refresh, start>>

Ended == {"done", "failed", "cancelled"}
Statuses == {"none", "pending", "processed", "rejected", "removing"}
Stored == {"processed", "removing"}
Files == {"primary", "latest"} \cup Versions

at(r, pc) == run[r].pc = pc
goes(r, pc) == [run EXCEPT ![r].pc = pc]

NotBegun == [pc |-> "idle", plan |-> None, left |-> 0, host |-> 1, attempt |-> 0,
             next |-> "failed", told |-> FALSE]

(* The process ends, and its variables with it. *)
ends(r, pc) == [run EXCEPT ![r] = [NotBegun EXCEPT !.pc = pc, !.plan = run[r].plan,
                                                   !.told = run[r].told]]

Failing == faults < MaxFaults /\ faults' = faults + 1

-----------------------------------------------------------------------------
(* Building *)

(* selectRootfsExecutionPlan. A daemon of which nothing is known counts as *)
(* running.                                                                *)
executionMode(p) ==
    LET t == p.toolchain
        docker == t.docker /\ t.daemon
        first == p.buildDriver = "docker" \/ t.githubActions \/ ~t.virtCustomize
    IN  IF docker /\ first /\ p.buildDriver # "host" THEN "docker"
        ELSE IF t.virtCustomize /\ p.buildDriver # "docker" THEN "host"
        ELSE None

(* The commands of a build: bundle the assets, build the builder, run it. *)
commands(p) ==
    (IF p.assets THEN 1 ELSE 0) + (IF executionMode(p) = "docker" THEN 2 ELSE 1)

accepts(p) == p.valid /\ executionMode(p) # None

InTurn == \A q \in Runs : run[q].pc \in Ended \cup {"idle"}

Start(r, p) ==
    /\ at(r, "idle") /\ InTurn
    /\ accepts(p)
    /\ run' = [run EXCEPT ![r] = [@ EXCEPT !.pc = "build", !.plan = p, !.left = commands(p)]]
    /\ UNCHANGED <<held, serving, store, manifests, page, faults>>

(* The inputs do not parse, or no toolchain can build the image. *)
Refuse(r, p) ==
    /\ at(r, "idle") /\ InTurn
    /\ ~accepts(p)
    /\ run' = ends(r, "failed")
    /\ UNCHANGED <<held, serving, store, manifests, page, faults>>

Build(r) ==
    /\ at(r, "build")
    /\ run' = [run EXCEPT ![r] =
                 [@ EXCEPT !.left = run[r].left - 1,
                           !.pc = CASE run[r].left > 1 -> "build"
                                    [] run[r].left = 1 /\ run[r].plan.skipUpload -> "primary"
                                    [] OTHER -> "upload"]]
    /\ UNCHANGED <<held, serving, store, manifests, page, faults>>

BuildFails(r) ==
    /\ at(r, "build")
    /\ Failing
    /\ run' = ends(r, "failed")
    /\ UNCHANGED <<held, serving, store, manifests, page>>

-----------------------------------------------------------------------------
(* Giving the image to IPFS *)

addUrls(r) == IF run[r].plan.driver = "ipfs-add" THEN AddUrls ELSE 1

(* uploadRootfsImageToIpfsWithCurl and WithFetch *)
Add(r) ==
    /\ at(r, "upload") /\ run[r].plan.driver \in {"ipfs-add", "api-fetch"}
    /\ held' = held \cup {r}
    /\ run' = [run EXCEPT ![r] = [@ EXCEPT !.pc = "gateway", !.host = 1]]
    /\ UNCHANGED <<serving, store, manifests, page, faults>>

(* The endpoint fails, or its answer cannot be read; it may have kept the *)
(* image all the same.                                                    *)
AddFails(r) ==
    /\ at(r, "upload") /\ run[r].plan.driver \in {"ipfs-add", "api-fetch"}
    /\ Failing
    /\ held' \in {held, held \cup {r}}
    /\ run' = IF run[r].host < addUrls(r) THEN [run EXCEPT ![r].host = @ + 1]
              ELSE ends(r, "failed")
    /\ UNCHANGED <<serving, store, manifests, page>>

(* uploadRootfsImageToIpfsWithHelia: a node of its own, which provides the *)
(* image until the run cleans up.                                          *)
StartNode(r) ==
    /\ at(r, "upload") /\ run[r].plan.driver = "helia"
    /\ serving' = serving \cup {r}
    /\ run' = goes(r, "provide")
    /\ UNCHANGED <<held, store, manifests, page, faults>>

Provide(r) ==
    /\ at(r, "provide")
    /\ run' = goes(r, "gateway")
    /\ UNCHANGED <<held, serving, store, manifests, page, faults>>

ProvideFails(r) ==
    /\ at(r, "provide")
    /\ Failing
    /\ serving' = serving \ {r}
    /\ run' = ends(r, "failed")
    /\ UNCHANGED <<held, store, manifests, page>>

-----------------------------------------------------------------------------
(* The STORE message. The pin path sends it once the image is to be had;   *)
(* driver aleph-api-ipfs sends it along with the image, before the block   *)
(* whose end cleans up.                                                    *)

withImage(r) == run[r].plan.driver = "aleph-api-ipfs"

available(r) == r \in held \cup serving \/ store[r] = "processed"

(* What a host of Aleph may answer: the truth, or something older. *)
answers(r) == {"unknown", "pending"} \cup ({store[r]} \ {"none"})

sent(r) == IF store[r] = "none" THEN "pending" ELSE store[r]

(* The run leaves the block, and goes on to the manifests or ends once it  *)
(* has cleaned up.                                                         *)
leaves(r, next) == [run EXCEPT ![r] = [@ EXCEPT !.pc = "cleanup", !.next = next]]

givesUp(r) == IF withImage(r) THEN ends(r, "failed") ELSE leaves(r, "failed")

(* The loop over the hosts takes the next one, with the same message. *)
nextHost(r) ==
    IF run[r].host = ApiHosts THEN givesUp(r)
    ELSE [run EXCEPT ![r] = [@ EXCEPT !.host = run[r].host + 1,
                                      !.pc = IF withImage(r) THEN "upload" ELSE "pin"]]

Gateway(r) ==
    /\ at(r, "gateway")
    /\ available(r)
    /\ run' = [run EXCEPT ![r] = [@ EXCEPT !.pc = "pin", !.host = 1]]
    /\ UNCHANGED <<held, serving, store, manifests, page, faults>>

GatewayTimesOut(r) ==
    /\ at(r, "gateway")
    /\ run' = leaves(r, "failed")
    /\ UNCHANGED <<held, serving, store, manifests, page, faults>>

(* pinRootfsCidOnAleph: a host takes the message. *)
Pin(r) ==
    /\ at(r, "pin")
    /\ store' = [store EXCEPT ![r] = sent(r)]
    /\ run' = [run EXCEPT ![r] = [@ EXCEPT !.pc = "wait", !.attempt = 1]]
    /\ UNCHANGED <<held, serving, manifests, page, faults>>

(* The host answers that the message is rejected, which ends the pin path. *)
PinRejected(r) ==
    /\ at(r, "pin")
    /\ store[r] \in {"none", "pending", "rejected"}
    /\ store' = [store EXCEPT ![r] = "rejected"]
    /\ run' = [leaves(r, "failed") EXCEPT ![r].told = TRUE]
    /\ UNCHANGED <<held, serving, manifests, page, faults>>

(* The broadcast fails, whether the host has taken the message or not. *)
PinFails(r) ==
    /\ at(r, "pin")
    /\ Failing
    /\ store' \in {store, [store EXCEPT ![r] = sent(r)]}
    /\ run' = nextHost(r)
    /\ UNCHANGED <<held, serving, manifests, page>>

(* uploadRootfsImageToIpfsWithAlephApi: image and message in one request. *)
AddFile(r) ==
    /\ at(r, "upload") /\ withImage(r)
    /\ held' = held \cup {r}
    /\ store' = [store EXCEPT ![r] = sent(r)]
    /\ run' = [run EXCEPT ![r] = [@ EXCEPT !.pc = "wait", !.attempt = 1]]
    /\ UNCHANGED <<serving, manifests, page, faults>>

AddFileFails(r) ==
    /\ at(r, "upload") /\ withImage(r)
    /\ Failing
    /\ \/ held' = held \cup {r} /\ store' = [store EXCEPT ![r] = sent(r)]
       \/ UNCHANGED <<held, store>>
    /\ run' = nextHost(r)
    /\ UNCHANGED <<serving, manifests, page>>

(* PendingAlephStorePublishError is not an error for a run that does not   *)
(* insist on a processed STORE.                                            *)
mayStayPending(r) == ~run[r].plan.requireProcessed

(* Mutant: a rejection is a failure like any other. *)
afterRejection_NextHost(r) == nextHost(r)

(* TerminalAlephStorePublishError ends the loop over the hosts, but only on *)
(* the pin path.                                                           *)
afterRejection(r) == IF withImage(r) THEN nextHost(r) ELSE leaves(r, "failed")

(* waitForAlephMessageProcessed, one lookup, and what its callers make of  *)
(* the outcome.                                                            *)
Lookup(r) ==
    /\ at(r, "wait")
    /\ \E answer \in answers(r) :
         run' = CASE answer = "processed" -> goes(r, "artifacts")
                  [] answer = "rejected" -> [afterRejection(r) EXCEPT ![r].told = TRUE]
                  [] answer \notin {"processed", "rejected"} /\ run[r].attempt < WaitAttempts ->
                       [run EXCEPT ![r].attempt = @ + 1]
                  [] OTHER -> IF mayStayPending(r) THEN goes(r, "artifacts") ELSE nextHost(r)
    /\ UNCHANGED <<held, serving, store, manifests, page, faults>>

(* A lookup fails. A passing failure is tolerated, except the last time. *)
LookupFails(r) ==
    /\ at(r, "wait")
    /\ Failing
    /\ \/ run[r].attempt < WaitAttempts /\ run' = [run EXCEPT ![r].attempt = @ + 1]
       \/ run' = nextHost(r)
    /\ UNCHANGED <<held, serving, store, manifests, page>>

-----------------------------------------------------------------------------
(* The manifests *)

(* The answers are written into the output directory, and are read from    *)
(* memory afterwards.                                                      *)
WriteArtifacts(r) ==
    /\ at(r, "artifacts")
    /\ \/ run' = leaves(r, "primary") /\ UNCHANGED faults
       \/ Failing /\ run' = leaves(r, "failed")
    /\ UNCHANGED <<held, serving, store, manifests, page>>

(* upload.cleanup, in the finally clause: the node provides the image for  *)
(* a while longer and stops.                                               *)
CleanUp(r) ==
    /\ at(r, "cleanup")
    /\ serving' = serving \ {r}
    /\ run' = IF run[r].next = "failed" THEN ends(r, "failed") ELSE goes(r, "primary")
    /\ UNCHANGED <<held, store, manifests, page, faults>>

(* finalizeRootfsBuildPipeline: without an upload there is no hash. *)
hasPublication(r) == ~run[r].plan.skipUpload

manifestOf(r) == [of |-> r, hash |-> hasPublication(r)]

(* resolveRootfsManifestOutputPaths: runs of one version share that file. *)
fileOf(r) == IF at(r, "versioned") THEN run[r].plan.version ELSE run[r].pc

(* writeRootfsManifestOutputs writes one file after another. *)
WriteManifest(r) ==
    /\ run[r].pc \in {"primary", "latest", "versioned"}
    /\ manifests' = [manifests EXCEPT ![fileOf(r)] = manifestOf(r)]
    /\ run' = CASE at(r, "primary") -> goes(r, "latest")
                 [] at(r, "latest") -> goes(r, "versioned")
                 [] at(r, "versioned") -> ends(r, "done")
    /\ UNCHANGED <<held, serving, store, page, faults>>

WriteFails(r) ==
    /\ run[r].pc \in {"primary", "latest", "versioned"}
    /\ Failing
    /\ run' = ends(r, "failed")
    /\ UNCHANGED <<held, serving, store, manifests, page>>

(* The workflow is cancelled: the process ends, and its node with it. *)
Cancel(r) ==
    /\ run[r].pc \notin Ended \cup {"idle"}
    /\ Failing
    /\ serving' = serving \ {r}
    /\ run' = ends(r, "cancelled")
    /\ UNCHANGED <<held, store, manifests, page>>

-----------------------------------------------------------------------------
(* Aleph. It pins what it can fetch, and lets go of what is no longer paid *)
(* for ("removed" follows on "removing" and is treated alike).             *)

AlephPins(r) ==
    /\ store[r] = "pending" /\ available(r)
    /\ store' = [store EXCEPT ![r] = "processed"]
    /\ UNCHANGED <<run, held, serving, manifests, page, faults>>

AlephRejects(r) ==
    /\ store[r] = "pending"
    /\ store' = [store EXCEPT ![r] = "rejected"]
    /\ UNCHANGED <<run, held, serving, manifests, page, faults>>

AlephRemoves(r) ==
    /\ store[r] = "processed"
    /\ store' = [store EXCEPT ![r] = "removing"]
    /\ UNCHANGED <<run, held, serving, manifests, page, faults>>

-----------------------------------------------------------------------------
(* The panel *)

(* validateRootfsManifest: a manifest that was not there, or has no hash. *)
validManifest(m) == m # None /\ m.hash

(* Mutant: a STORE that Aleph knows of will do. *)
rootfsHealth_PendingIsReady(m, verified, status) ==
    IF validManifest(m) /\ verified /\ status \in {"pending", "processed"} THEN "rootfs-ready"
    ELSE "rootfs-unavailable"

(* rootfsHealth, by its code; the tone is "ok" for one that is ready. *)
rootfsHealth(m, verified, status) ==
    CASE ~validManifest(m) -> "manifest-invalid"
      [] validManifest(m) /\ ~verified -> "rootfs-not-found"
      [] validManifest(m) /\ verified /\ status = "unknown" -> "rootfs-verifying"
      [] validManifest(m) /\ verified /\ status = "processed" -> "rootfs-ready"
      [] validManifest(m) /\ verified /\ status = "pending" -> "rootfs-pending"
      [] OTHER -> "rootfs-unavailable"

tone(health) == IF health = "rootfs-ready" THEN "ok" ELSE "not ok"

NotRead == [at |-> "idle", manifest |-> None, verified |-> FALSE, status |-> "unknown"]

(* resolveManifest: one of the files, or none that could be had. *)
offered == {manifests[f] : f \in Sources} \cup {None}

(* A refresh begins, on a timer or because the user gave another manifest  *)
(* (setManifestUrl, setManifestJson), and loads it.                        *)
ResolveManifest(t) ==
    /\ refresh[t].at = "idle"
    /\ \E m \in offered :
         refresh' = [refresh EXCEPT ![t] =
                       [NotRead EXCEPT !.at = IF validManifest(m) THEN "verify" ELSE "show",
                                       !.manifest = m]]
    /\ UNCHANGED <<publisher, panel, start, faults>>

(* verifyRootfsExists *)
Verify(t) ==
    /\ refresh[t].at = "verify"
    /\ \E answer \in answers(refresh[t].manifest.of) :
         refresh' = [refresh EXCEPT ![t] = [@ EXCEPT !.at = "resolve", !.verified = answer # "unknown"]]
    /\ UNCHANGED <<publisher, panel, start, faults>>

(* resolveRootfsReference *)
Resolve(t) ==
    /\ refresh[t].at = "resolve"
    /\ \E answer \in answers(refresh[t].manifest.of) :
         refresh' = [refresh EXCEPT ![t] = [@ EXCEPT !.at = "show", !.status = answer]]
    /\ UNCHANGED <<publisher, panel, start, faults>>

(* A lookup throws: the refresh shows an error and patches nothing. *)
RefreshFails(t) ==
    /\ refresh[t].at \in {"verify", "resolve"}
    /\ refresh' = [refresh EXCEPT ![t] = NotRead]
    /\ UNCHANGED <<publisher, panel, start, faults>>

Show(t) ==
    /\ refresh[t].at = "show"
    /\ panel' = [manifest |-> refresh[t].manifest,
                 health |-> rootfsHealth(refresh[t].manifest, refresh[t].verified,
                                         refresh[t].status)]
    /\ refresh' = [refresh EXCEPT ![t] = NotRead]
    /\ UNCHANGED <<publisher, start, faults>>

-----------------------------------------------------------------------------
(* deploy(), as far as the image. For the property it remembers the image   *)
(* the guard let pass, and whether the image used is that one, or one the  *)
(* panel showed as ready when it was read.                                 *)

NotStarted == [at |-> "idle", checked |-> None, image |-> None, seen |-> FALSE]

deployable == panel.manifest # None /\ tone(panel.health) = "ok"

(* The guard, which is the same for a confidential start. The form starts  *)
(* one deploy at a time.                                                   *)
Deploy ==
    /\ start.at = "idle"
    /\ deployable
    /\ start' = [NotStarted EXCEPT !.at = "preparing", !.checked = panel.manifest.of]
    /\ UNCHANGED <<publisher, panel, refresh, faults>>

(* By now the deploy has probed its candidates and, for a confidential      *)
(* start, got its measurements. A confidential start uses the image its    *)
(* site was configured with, of which nothing was asked; any other reads   *)
(* the manifest again, which refreshes may have replaced.                  *)
ReadImage ==
    /\ start.at = "preparing"
    /\ \E i \in Runs, confidential \in BOOLEAN :
         /\ ~confidential => validManifest(panel.manifest) /\ panel.manifest.of = i
         /\ start' = [NotStarted EXCEPT !.at = "deploying", !.image = i,
                        !.seen = (i = start.checked \/ (~confidential /\ deployable))]
    /\ UNCHANGED <<publisher, panel, refresh, faults>>

(* The deploy is over, or fails before it has an image: no candidate is    *)
(* there, a measurement fails, or the manifest is gone.                    *)
DeployIsOver ==
    /\ start.at # "idle"
    /\ start' = NotStarted
    /\ UNCHANGED <<publisher, panel, refresh, faults>>

-----------------------------------------------------------------------------
RootfsInit ==
    /\ run = [r \in Runs |-> NotBegun]
    /\ held = {} /\ serving = {}
    /\ store = [r \in Runs |-> "none"]
    /\ manifests = [f \in Files |-> None]
    /\ panel = [manifest |-> None, health |-> "manifest-invalid"]
    /\ refresh = [t \in Refreshes |-> NotRead]
    /\ start = NotStarted
    /\ faults = 0

RunStep(r) ==
    \/ \E p \in Plans : Start(r, p) \/ Refuse(r, p)
    \/ Build(r) \/ BuildFails(r)
    \/ Add(r) \/ AddFails(r) \/ StartNode(r) \/ Provide(r) \/ ProvideFails(r)
    \/ Gateway(r) \/ GatewayTimesOut(r)
    \/ Pin(r) \/ PinRejected(r) \/ PinFails(r) \/ AddFile(r) \/ AddFileFails(r)
    \/ Lookup(r) \/ LookupFails(r)
    \/ WriteArtifacts(r) \/ CleanUp(r) \/ WriteManifest(r) \/ WriteFails(r)
    \/ Cancel(r)

Aleph(r) == AlephPins(r) \/ AlephRejects(r) \/ AlephRemoves(r)

Page(t) == ResolveManifest(t) \/ Verify(t) \/ Resolve(t) \/ RefreshFails(t) \/ Show(t)

RootfsNext ==
    \/ \E r \in Runs : RunStep(r) \/ Aleph(r)
    \/ \E t \in Refreshes : Page(t)
    \/ Deploy \/ ReadImage \/ DeployIsOver

RootfsSpec == RootfsInit /\ [][RootfsNext]_rootfsVars

-----------------------------------------------------------------------------
(* Properties *)

RootfsTypeOK ==
    /\ run \in [Runs -> [pc: {"idle", "build", "upload", "provide", "gateway", "pin", "wait",
                              "artifacts", "cleanup", "primary", "latest", "versioned"}
                               \cup Ended,
                         plan: Plans \cup {None}, left: 0 .. 3, host: Nat, attempt: Nat,
                         next: {"primary", "failed"}, told: BOOLEAN]]
    /\ held \subseteq Runs /\ serving \subseteq Runs
    /\ store \in [Runs -> Statuses]
    /\ manifests \in [Files -> [of: Runs, hash: BOOLEAN] \cup {None}]
    /\ start \in [at: {"idle", "preparing", "deploying"}, checked: Runs \cup {None},
                  image: Runs \cup {None}, seen: BOOLEAN]
    /\ faults \in 0 .. MaxFaults

Published == {m \in {manifests[f] : f \in Files} : validManifest(m)}

(* A manifest with a hash is written only for a STORE that Aleph was given: *)
(* a processed one if the run insists on that, whichever host took it, and  *)
(* on the pin path none that the run was told is rejected. A second host    *)
(* that lags behind, a failure after the message was taken, or a wait that  *)
(* runs out must not get round that. (pinRootfsCidOnAleph and               *)
(* uploadRootfsImageToIpfsWithAlephApi with waitForAlephMessageProcessed.)  *)
PublishedIsStored ==
    \A m \in Published :
        /\ store[m.of] # "none"
        /\ run[m.of].plan.requireProcessed => store[m.of] \in Stored
        /\ ~withImage(m.of) => ~run[m.of].told

(* The image a deploy uses is one that Aleph has processed, if it is the    *)
(* image the guard let pass, or one the panel showed as ready when the      *)
(* deploy read it: though runs publish manifests of pending STOREs, though  *)
(* the file may change while a refresh looks up the hash it has read, and   *)
(* though the deploy looks nothing up itself. (rootfsHealth, refresh(),     *)
(* and deploy(), its guard and its reading of the image.)                  *)
DeployedWasStored == start.seen => store[start.image] \in Stored

(* Every image a deploy uses is one that Aleph has processed ("Manifest,    *)
(* rootfs, and pricing must be ready before deploying", says deploy()).    *)
(* It need not be: a refresh may have put another manifest into the panel  *)
(* since the guard, and a confidential start brings an image of its own.   *)
AllDeployedWereStored == start.image # None => store[start.image] \in Stored

(* A rejection ends the run, whichever the driver (rootfs-runner.test.ts:  *)
(* "does not fall back across Aleph API hosts when STORE is rejected").    *)
(* It does not for aleph-api-ipfs: the next host may lag behind.           *)
RejectionEndsTheRun == \A m \in Published : ~run[m.of].told

(* What is published can be had from somewhere until Aleph has it. It may  *)
(* not be: the Helia node stops after its keepalive, and a run that does   *)
(* not insist on a processed STORE has published by then.                  *)
PublishedIsObtainable ==
    \A m \in Published : available(m.of) \/ store[m.of] \in Stored \cup {"rejected"}
=============================================================================
