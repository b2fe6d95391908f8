# Relay Button in TLA+

A verification project for the parts of this repository that deploy,
configure, register, find, show, retain and forget virtual machines and sites
on Aleph. The TLA+ modules are translated from the code under `packages/` and
`scripts/`; TLC checks small instances of them and TLAPS proves theorems for
every instance. `PROJECT.json` lists, per definition, the source lines it
models.

Contents: [the system](#the-system), [the modules](#the-modules),
[runs](#what-the-runs-show), [bounds](#bounds), [fairness](#fairness),
[proofs](#what-is-proved), [divergences](#where-code-and-documents-disagree),
[not modelled](#what-is-not-modelled), [plan](#plan).

To repeat a check or a proof, in this directory:

    tlc -workers 2 -config MCDeployExecutor.cfg MCDeployExecutor
    tlapm DeployExecutor_proofs.tla

## The system

Relay Button starts libp2p relays (and other guests) as Aleph INSTANCEs on
compute nodes (CRNs). A deployment is a long chain of awaited calls to parties
that answer late, twice, or not at all: the Aleph API, which processes,
rejects and forgets messages at its own pace; the CRN; the guest; the wallet.
Nothing is transactional. An INSTANCE costs money until it is forgotten, so
most of the code's care goes into undoing what a failed step left behind.

| Component | State it keeps | Operations | Talks to |
| --- | --- | --- | --- |
| Node deploy executor (`node/src/deploy-executor.ts`) | plan, candidate, `activeItemHash`, domain link, verification | `executeDeployPlan`: broadcast, inspect, ports, attest and unlock, runtime, setup, configure, verify, register, attach domain; `forgetDeployment` | Aleph, CRN, guest, registry, domains aggregate |
| Retention (`core/src/retention.ts`) | ledger of successful deployments in an Aleph aggregate | `retainSuccessfulDeployments` under `withApiHostFallback` | Aleph, CRNs |
| Browser panel (`ui/src/shared/controller.ts`) | wallet, instances, registrations, progress, busy flags, passphrase | `deploy`, `refresh`, `deleteInstance`, timers, wallet events | Aleph, CRN, guest, MetaMask |
| Relay registry (`core/src/bootstrap-registration.ts`, `bootstrap-reconcile.ts`, guest scripts) | bootstrap posts of a channel | publish, wait, reconcile; guest refresh and deregistration | Aleph |
| Discovery (`aleph-bootstrap/src/index.ts`) | none | page, select, filter, verify | registry |
| Bootstrap config and port forwards (`core/src/bootstrap-config.ts`, `port-forwarding.ts`, `aggregate-publication.ts`) | two aggregates per account, signal posts | publish, delete, clean up the history, wait for the signal | Aleph, guest, CRN |
| Guest images (`rootfs/reference`) | environment and marker files, services | setup server, configure script, AutoTLS refresh, bootstrap refresh and deregistration | Aleph, deployer |
| Site publication (`node/src/site-runner.ts`, `domain-link.ts`) | websites and domains aggregates | upload, record, retain, link | Aleph, workflow |
| Short-lived machines (`scripts/aleph-github-runner.mjs`, `node/src/github-runner.ts`, `playwright/src`) | runner instances, test relays | `up`, `down`, `janitor`; a test's provisioning and clean-up | Aleph, CRN, GitHub |
| Action runner (`node/src/action-runner.ts`) | environment | deploy, retain, refresh-bootstrap, outputs | the above |
| Rootfs runner (`node/src/rootfs-runner.ts`, `rootfs/src`; read by `browser/src/rootfs.ts`) | image and manifest files, STORE messages | build, add to IPFS by one of four drivers, pin, wait, write manifests; the panel resolves a manifest and looks its STORE up | build tools, IPFS, Aleph, panel |

The hard behaviours, by component, and what has to hold:

- **Executor.** Twelve ways out of a candidate (`continue`, throw, return)
  meet Aleph's own pace. At most one instance may escape `forgetDeployment`;
  the result is processed, not forgotten, and named by the custom domain; the
  passphrase follows the attestation; the run ends.
- **Retention.** A partly failed call is repeated on the next API host with
  its own earlier effects in place; FORGETs are lost or late; two workflow
  runs overlap. No image in use is forgotten, no STORE before its instances,
  no instance before its CRN erased it, and the report is honest.
- **Panel.** An attempt may throw although its relay came up, the wallet may
  change during any await, refreshes overlap and each writes what it read when
  it is done. What is reported as ready serves, an attempt is either kept or
  cleaned up, the passphrase does not outlive the deploy, a completed
  deployment is not taken back, and the panel ends up showing the connected
  account.
- **Registry.** Two parties write about one relay under different keys. A
  relay that serves stays listed, one that is gone does not, one that comes
  back is listed again, and a run does not remove what is live.
- **Discovery.** The list moves under the pages of one scan. An empty answer
  overlooked nothing, and no replaced address comes back.
- **Aggregates** (bootstrap config, ports, domains, ledger). Read, changed and
  written without a lock, and cleaned up by forgetting old messages. What one
  deploy still needs is not taken away by another.
- **Guest.** A posted and a pulled configuration race, the script and the
  AutoTLS refresh write the same file, anything may fail, the machine may
  reboot. One configuration, an honest acknowledgement, and in the end a relay
  that announces its certificate.
- **Sites.** Upload, entry, retention and link of different runs interleave;
  what is linked stays stored, and what is too old goes.
- **Images.** The hosts of Aleph lag behind, a message that failed may have
  been taken, and the manifest file changes while a page looks up what it read.
  No manifest names a STORE that was not accepted, and no deploy uses a
  pending one that it, or the panel, had looked up.
- **Short-lived machines.** A launcher, a test or a sweep may be killed at any
  step. Every machine ends, and none that works is swept.

`PROJECT.json` lists these at their lines under `hazards`, with the property
that covers each, or a note why none does.

## The modules

| Module | Models | Role |
| --- | --- | --- |
| `InstanceOwnership` | what a deploy promises about the instances it pays for | abstract specification |
| `DeployExecutor` | `executeDeployPlan` and the Aleph it acts on | implements `InstanceOwnership` |
| `ControllerDeploy` | `deploy()` of the panel, handoff, recovery, wallet, guest | implements `InstanceOwnership` |
| `PanelRefresh` | overlapping `refresh()`es beside deploy, delete and the wallet | |
| `Retention` | `retainSuccessfulDeployments`, several runs, several hosts | |
| `RelayRegistry` | posts of guests and of the owner's runs, and their age | |
| `Discovery` | publishers, the channel, and a scan of its pages | |
| `ConfigAggregate` | the config and port aggregates under several deploys | |
| `GuestSetup` | first boot of a relay guest of either profile | |
| `SitePublication` | workflow runs that publish sites of one account | |
| `EphemeralVms` | runners and test relays, their launchers and sweeps | |
| `RootfsPublication` | runs that publish images, and the panel that reads their manifests | |
| `MC*` | constants for TLC | |
| `*_proofs` | theorems and their proofs | |

Conventions. A program counter `pc` has one label per awaited call, named
after the call; a step is the code from one await to the next, so the other
parties can act exactly where the program yields. A call that can throw has
an outcome for it, and, where the message may have reached Aleph before the
error, one with the effect and one without. Hashes are names; times, texts and
retries that only change *when* something happens are left out.

### InstanceOwnership

Three variables: the instance held, those released, and the outcome. A run
takes an instance only when it holds none, never takes one it released, fails
only with none in its hands and returns only what it holds.

### DeployExecutor

An INSTANCE is named `<<candidate, placementAttempt>>`, as each broadcast has
its own hash. `active` is `state.activeItemHash`; `resume` is what follows a
`forgetDeployment` in progress. The INSTANCE on Aleph moves from pending to
processed or rejected and, once a FORGET for it was accepted, to forgotten,
between any two steps. The retry on a missing rootfs dependency, and the
attempts of `attestAndUnlock`, are in the model. Registered relays, the
custom domain, and the attested and unlocked guests are kept as sets, to say
what survives a failed attempt. The mapping to the abstract specification is
`held <- active`, `released <- cleaned`, `outcome` from `pc`. The wait for
the activation of a proxy URL (deploy-executor.ts:958-1013) is not reached by
profiles with a guest setup, and so by none of the plans. `guest` follows the
relay after `/configure`: it starts its own refresh service and timer
(uc-go-peer-configure.sh:312-322) and registers itself when it pleases,
whatever the run does next and a FORGET under way included.

### ControllerDeploy

An attempt is named by its candidate. The handoff to the guest (either the
config aggregate and its signal, or the setup endpoint) is followed call by
call, then the two recoveries of the catch: by the runtime and metadata of
the failed attempt, and by the refreshed list of confirmed registrations.
Cleanup deletes the config record and forgets the instance. Beside it run:
the wallet, which may change `MaxSwitches` times at any await; a refresh on
the timer, one step, that may see fewer registrations than there are; Aleph,
which honours a FORGET only from the sender of the message; and the guest.
Simplifications: `state.manifest` does not change during a deploy, a second
`deploy()` does not start (the panel disables the button), and refreshes do
not overlap (they do in `PanelRefresh`).

### PanelRefresh

`refresh` holds, per caller (timer, wallet, deploy, delete), the refresh under
way and what it has read: instances and posts for the address of one moment,
runtimes and the posts' owners for that of a later one, and everything written
at once at the end. `last`, `lastCompleted` and `progress` are what
`syncLatestDeploymentProgress` decides by, `remembered` and `cooling` the
caches of runtimes and of lookups that may be skipped. `deploy()` is followed
from the broadcast on, `deleteInstance` from the click to its last refresh,
with the wallet read anew between the erase and the FORGET. One refresh per
caller is under way at most; the address is read three times in the code and
twice here, since the two lists are fetched together.

### Retention

Run `r` follows deployment `r`; it reads the ledger, merges and cuts it,
publishes it, erases the pruned instances on their CRNs (concurrently, as
`Promise.all` does), and forgets in two stages, instances and then the STOREs
only they used, each with a bulk FORGET and one per hash. A throw anywhere
moves the run to the next API host, with everything it did still done.
`Overlap` allows two workflow runs at a time. The posts a FORGET names are
forgotten by Aleph later, or never. A publication of the ledger may be
answered without being in force ("pending", "unknown", or "rejected", which
the code returns and does not look at): it waits in `queue`, and Aleph
processes it later or never. So does one whose answer was lost.

### RelayRegistry

A post is `[reg, by, age]`: a registration (relay, profile, and whether it
was made of the name alone), the run or the guest it is from, and an age in
periods of the guest's timer. `Tick` lets a period pass, once every guest that
serves had its refresh; posts older than `MaxAge` are dropped, since
`selectCurrentRelayBootstrapPosts` never selects one and nothing but a FORGET
could still name it. The owner's runs share a key and take every call apart:
publish, list and forget the previous posts, wait until visible (a deploy
only), list the instances, read each and republish it, select, forget. A guest
refreshes, skips or misses a refresh (also after Aleph has the post), answers
"unchanged" from the file in which orbitdb-relay remembers what it published
(`remembered`, an age), or stops, with or without the deregistration of its
`ExecStop`; those in `returning` may come up again.
Simplifications: one page of posts and instances; one API host (a repetition
on the next host is one more run with the same plan); all posts of a relay
carry the peer id of that relay; the guest has its registration id, as it
does after the handoff; `MayRefuse` says whose posts Aleph may answer for with
a known status and still not list.

### Discovery

A writer signs (reading the clock once or twice), then sends; Aleph lists the
post at the top of the channel and may forget it. A scan reads page after
page, adds the usable posts to `collected`, selects the newest of each
registration, filters by profile, age and dual-key proof, and returns at the
first page that leaves an address a browser can dial. A key stands for the
signatures made with it, a set of addresses for its hash. `atStart` is the
channel when the scan began, `disturbed` that a post was forgotten or of
another type between two pages.

### ConfigAggregate

An aggregate is the newest message per key. A deploy publishes its ports,
publishes its configuration under its token, waits, republishes what it
reads without its record, and cleans the history up: page by page, it
collects messages that are superseded and older than the retention time, and
forgets them. Reading, signing and broadcasting are steps of their own, and
the clock may tick between any two. A message is in force once it is in
`processed`, at once, later or never: the code goes on after HTTP 202, and
`publishVmBootstrapConfigAggregate` also after a rejection whose status is not
2xx. A FORGET waits in `forgets` likewise.

### GuestSetup

The setup server's threads (the poll loop, one per POST request) run the
configure script under a lock (uc-go-peer) or without one (orbitdb-relay); the
script's writes to the environment, to the ready marker and to the services
are separate steps; the AutoTLS unit waits for the relay's host names, writes
the announced addresses and restarts the relay. `Reboot` empties `/run` and
kills the threads. A read of the record may also fail in a way that
`_load_vm_bootstrap_record` does not catch (`PollDies`: a reset connection, an
answer cut short, one that is no aggregate), which ends the poll thread until
the next boot. The deployer posts, or publishes a record and waits for the
signal, or both. The two profiles share every action; `profile` decides where
they differ. A kind of address and the configuration it was made of stand for
an announced address. The shell script is external in the sense that only the
writes other processes look at are modelled.

### SitePublication

A run uploads a STORE, reads and rewrites its site's entry (volume, version,
history), reads what websites and domains point to and which uploads are
stored, forgets the old ones batch by batch, and in a later job looks at its
STORE and links the domain, on one API host after another. `Overlap` names
the sites whose runs are not taken in turn. `recorded` and `unsure` are
history variables: the order of uploads, and which sites lost their history to
a failed read (the code then starts it anew). An entry, a link or a FORGET
that is answered "pending" counts as done in the code; it waits in `records`,
`links` or `forgets`, and Aleph applies it later or never. `late` remembers the
uploads that a late link or FORGET names, with the run it is from.

### EphemeralVms

Per machine: its message, its age, what the guest does, its timer, and the
runner as GitHub lists it. `up` deploys, registers, injects the configuration
and waits for the runner to be online; each of its failures removes the
machine. The guest runs one job, sends its own FORGET if it has a key, and
powers off. A test deploys a relay through the panel and cleans it up through
the panel or, when that takes too long, by itself. `janitor`, `down` and the
Playwright janitor sweep the wallet. Any process may be killed and any request
may fail, `MaxFaults` times. Keys and authorizations are taken as granted.
A launcher gives up when it likes from the age `Patience` on and need not:
nothing in the code keeps the deployment and `waitForSsh` shorter than the
janitor's grace. `slow` remembers the runners that got their configuration
after it.

### RootfsPublication

Runs share a project directory and go in turn. `run[r]` is where a run stands:
the commands of its build (whose toolchain `executionMode` selects), the
upload of its driver, the wait for a gateway, `pinRootfsCidOnAleph` with its
loop over hosts, the wait for the STORE, the artifacts, the clean-up of the
`finally` clause, and the three manifest files one after another. Driver
`aleph-api-ipfs` sends image and message in one request, before the `try`
whose `finally` cleans up; driver `helia` serves the image itself
(`serving`) until the clean-up. `store` is the STORE as Aleph has it, and a
host may answer that or something older. `told` remembers that a run was
answered "rejected". The panel's refresh reads a manifest, verifies its hash
and resolves its status in three steps, and shows what came out of it.
`deploy()` is followed as far as its image: the guard, and, after other
awaits, the reading of the image from the manifest the panel has by then, or
from the site's own settings for a confidential start.
A command, request or write may fail and a run may be cancelled, `MaxFaults`
times in all. Simplifications: the status "removed" is treated as "removing"
that it follows on, stopping the Helia node succeeds, and the contents of
contract, image and manifest are left out.

## What the runs show

| Run | About |
| --- | --- |
| `deploy_executor` | Ownership and `OneUnaccountedInstance`, `ResultIsLive`, `RegisteredIsLast`, `PassphraseOnlyAfterAttestation` |
| `controller_deploy` | Ownership, `CompletedIsServing`, `PassphraseSpent`, and that the panel is given back |
| `panel_refresh` | `CompletedIsKept` by refreshes that end in any order; `ShowsTheAccount` and `CompletedComesBack` in the end |
| `retention` | `InstancesFirst`, `ErasedBeforeForgotten`, `ReportIsHonest`, `LedgerUntouched`, `NewestSurvives` |
| `registry` | `GuestKeepsListed` beside a deploy that may miss reads and be refused; `DownIsUnlisted`; `UpIsListed` for a relay that comes back |
| `registry_in_turn` | two runs in turn: `RunsKeepLiveListed`, `RunKeepsItsOwn` |
| `discovery` | `EmptyIsComplete`, `NothingSuperseded`, `PostsAreUsable` |
| `config_aggregate` | `RecordStaysReadable`, `PortsKept`, `CleanupIsComplete` |
| `guest_setup` | `OneConfiguration`, `AcknowledgedIsApplied`, `RecordIsApplied`, `CertificateIsAnnounced` |
| `site_publication` | `LinkedStaysStored`, `NewestStay`, `OlderAreForgotten` |
| `runners` | `JobsAreNotSwept`, `CleanUpFailsOnlyOnFaults`, `EveryVmEnds` |
| `rootfs_publication` | `PublishedIsStored`, `DeployedWasStored` |

What to read out of them. `OneUnaccountedInstance` is the precise form of "a
failed deploy cleans up after itself": it is true of all instances but the one
of the last broadcast. `RegisteredIsLast` is what is left of it for registrations. A
relay that was configured registers itself, so any later failure leaves a
registration behind, until its posts are too old; but it is never more than
one relay, that of the last instance of a run that failed, and the run's own
post is among them only if the custom domain failed.
`LedgerUntouched` and `NewestSurvives` are about the hash
sets retention computes: whatever an attempt on an earlier host did, nothing a
ledger entry still points to was asked to be forgotten. For the ledger that
has a condition, `AllInForce`: the run erases and forgets without waiting for a
publication that was answered "pending", and while that is so the ledger in
force still names what is forgotten. `CompletedIsServing`
covers three ways of success. `GuestKeepsListed` is why the guest's refresh
forgets by age and not by "all but mine", and it needs the post to go out
first. `RunsKeepLiveListed` holds of runs in turn with readable relays that
do not come back; with `MaxRunning = 2`, `MayMissReads = TRUE` or a relay in
`returning` TLC finds the traces that break it.
`EmptyIsComplete` is the soundness of stopping at a page that is not full, and
says under which disturbances it does not hold. `RecordStaysReadable` and
`PortsKept` need that Aleph merges messages key by key and that the clean-up
spares other keys and what is recent; they begin when Aleph has processed the
message. `RecordIsApplied` excepts a poll thread that has ended. `AcknowledgedIsApplied` and `OneConfiguration` are
about uc-go-peer, the profile with a lock; orbitdb-relay does not have them.
`JobsAreNotSwept` is about runners that were configured within their grace, and
needs that names tell machines apart. `LinkedStaysStored` needs the runs of a
site to come in turn, and the link of an upload and every FORGET that names it
to be applied by their answer; `OlderAreForgotten` says that retention leaves
nothing undone but what Aleph took and has not applied, and the next run names
that again. `PublishedIsStored` says
what a manifest with a hash is worth: of a run that insists on a processed
STORE it names one, whichever host said so, and a rejection on the pin path is
final. `DeployedWasStored` is the panel's side: manifests of pending STOREs
are published too, and the panel must not take them for ready. It covers the
image that the guard let pass and one that was shown as ready when the deploy
read it, and not the two others there are (below).

Every property of a passing run has a mutant, a definition named
`<Action>_<Change>` beside the definition it changes, under which it fails.
The type invariants are proved, for each module that describes a component.
`SitePublication` states none, its proof has one (`SiteTypeOK`).

## Bounds

| Run | Bounds | Why enough |
| --- | --- | --- |
| `deploy_executor` | 8 plans, up to 3 candidates, 3 broadcasts per candidate | 3 is the code's own limit on broadcasts (`rootfsDependencyRetryLimit`); a candidate inherits only the domain and its predecessor's registrations, so two show every interplay, and one plan has three |
| `controller_deploy` | 8 launches, 2 CRNs, 2 accounts, 1 wallet change | what an attempt leaves for the next is passphrase, registrations and config; one change of account puts it between any two steps |
| `panel_refresh` | 2 accounts, 1 instance that exists and 1 that is deployed, 2 acts of the user, 1 fault; the timer starts a refresh when none is under way | the refreshes of wallet, deploy and delete still overlap with it and with each other |
| `retention` | 3 deployments, keep 1, 2 API hosts, 6 hashes, one image shared by deployments 1 and 3, one extra hash | pruning two deep, sharing across a pruned and a retained record, one repetition; the theorems have any numbers |
| `registry` | 2 relays of different profiles, 1 run, `MaxAge` 2, `StaleAge` 1, 1 miss, 1 relay that returns | the code has 24 h, 6 h and a 6 h timer: 4, 1 and so up to 3 misses; the theorem has them all |
| `registry_in_turn` | 2 relays, 2 runs (a deploy of one relay, a refresh of the other), 1 at a time | each run meets the posts of the other |
| `discovery` | 3 posts, 2 units of time with an age limit of 1, pages of 1 and 2, up to 3 pages, 2 addresses left by the cut | a page that moves by one post while the next is read; a post expires during a scan |
| `config_aggregate` | 2 deploys (symmetric), 2 ports and SSH, records live 1, history 2, time to 2, 1 message not in force, 2 pages of 2 messages | one deploy cleans up while the other reads, signs and broadcasts; four of up to six messages fit the pages; one message at a time is pending |
| `guest_setup` | both profiles, 2 configurations, the poll thread and 1 request, 1 failure, 1 reboot, 2 attempts of the wait | two threads meet at the lock; a failure and a reboot at every step; the theorems have any number |
| `site_publication` | 4 runs of one site in turn, 2 kept, batches of 1, 2 API hosts, 2 failures or late effects | two uploads too old, so that retention can stop between them and be taken up by the next run; a second site beside it (a run `b1`, `MaxFailures = 1`) was checked by hand, 3.7 million states |
| `rootfs_publication` | 2 runs in turn, 5 plans (3 drivers, one without upload, one without toolchain), 2 API hosts, 2 add endpoints, 2 lookups per wait, 1 refresh of the panel, 1 deploy at a time, 1 failure or cancellation | a host that lags behind the one before it, a run that overwrites the manifest the panel has read |
| `runners` | 2 runners or 1 relay, patience 1, grace 1, time to live 1, 1 fault | a launcher may be done within the grace, at its end and after it; a second fault would break the sweep as well, which the next one repeats |

`MaxCandidates`, `MaxRun`, `Hosts`, `MaxSwitches`, `MaxRunning`, `MaxAge`,
`MaxMisses`, `MaxPosts`, `MaxTime`, `MaxPages`, `MaxAttempts`, `MaxFailures`,
`MaxReboots`, `MaxPending`, `Patience`, `MaxInFlight`, `MaxActs`, `MaxFaults`, `ApiHosts`, `AddUrls`,
`WaitAttempts` and the sets of processes, such as `Runs` and `Refreshes`, are
the bounds, all of them constants. Symmetry is used for runs and deploys that are named by
nothing but their model value, in runs whose properties are invariants and
action properties. Deadlock is checked in `panel_refresh`, where the panel
never stops; elsewhere it is off (`CHECK_DEADLOCK FALSE`), because what is
modelled ends. The runs take 15 seconds to two and a half minutes with two workers, up to twice that side by side.

## Fairness

- `ControllerDeploy`: weak fairness on the steps of the deploy. Each wait in
  the code has a number of attempts and each request ends, in the browser also
  because a person answers the prompt. Aleph, guest, wallet and timer have
  none: the deploy must end without them. `DeployExecutor` and `Retention` have
  the same `FairSpec`, under which their `RunEnds` and `RunsEnd` hold (put
  `SPECIFICATION FairSpec` and the property into their configuration); their
  runs check safety and the refinement, under `Spec`.
- `RelayRegistry`: weak fairness on `Tick` (time passes) and on the refresh of
  each guest that is up (systemd starts the timer; it may fail, which is
  `GuestMisses`). None on the owner's runs, so a relay that is down leaves the
  registry even when nobody reconciles.
- `GuestSetup`: weak fairness on the poll loop and its signal, on the script of
  each thread and on the AutoTLS unit (threads of a server, and units systemd
  restarts or a timer starts again). None on deployers, certificates, failures
  and reboots; the last two are bounded.
- `PanelRefresh`: weak fairness on the timer's refreshes (`setInterval`), and
  on everything that is under way (requests are answered, Aleph processes,
  CRNs start machines). None on the user and on the ends of cooldowns.
- `EphemeralVms`: weak fairness on machines, launchers and a sweep that began;
  strong fairness on each janitor, because a schedule starts it again and again
  although another sweep may be under way each time one looks. None on `down`,
  on deploying, and on jobs.
- `Discovery`, `ConfigAggregate`, `SitePublication`, `RootfsPublication`: none,
  their properties are about what no step may do.

## What is proved

All theorems are about any number of candidates, plans, runs, hosts, relays,
accounts, requests, configurations, sites, images, posts and pages.

Three proof modules hold the theorems of two components, in a section each:
`ControllerDeploy_proofs` those of `RootfsPublication` (the image the panel is
offered is one that runs publish), `DeployExecutor_proofs` those of
`SitePublication` (both are run by the action runner), and
`GuestSetup_proofs` those of `Discovery` (a guest registers so that apps find
it). The two are proved side by side and share no variable; that is why these
three components name their specification `RootfsSpec`, `SiteSpec` and
`DiscoverySpec`, and write `Absent` for `None` in one of them.

| Theorem | Says | Invariant it rests on |
| --- | --- | --- |
| `DeployExecutor_proofs!TypeCorrect` | `[]TypeOK` | |
| `AtMostOneUnaccounted` | `[]OneUnaccountedInstance` | `IInv`: progress of the loops, the active instance is the current one, all others behind it are absent, rejected, forgotten or cleaned, the held one is processed |
| `ResultLive`, `PassphraseSafe`, `OrphanRegistrations` | the three properties | `IInv` and `Trail`: where the domain, the unlocked guests and the registrations, the guest's own included, can be at each label |
| `Refinement` | `Spec => ImplementsOwnership` | `IInv`; initial states map to initial states, each action to `Take`, `Release`, `Discard`, `Return`, `Fail` or a stutter |
| `ControllerDeploy_proofs!TypeCorrect` | `[]TypeOK` | |
| `CompletedServes`, `PassphraseGone` | `[]CompletedIsServing`, `[]PassphraseSpent` | `IInv`: what Aleph may say of attempts before, at and after the current one, in which order the guests of attempts come up, and what each label has behind it |
| `Refinement` | `Spec => ImplementsOwnership` | `IInv` |
| `Retention_proofs!TypeCorrect` | `[]TypeOK` | `EInv`, below |
| `StoresAfterInstances`, `HonestReport` | `[]InstancesFirst`, `[]ReportIsHonest` | `IInv`: what each stage and round may assume of outstanding and forgotten hashes |
| `ErasedFirst` | `[]ErasedBeforeForgotten`, if no deployment's instance is another one's STORE | `EInv`: whatever is asked to be forgotten is asked for a reason: an erased instance, a STORE of a pruned record, or an extra hash |
| `NewestSpared`, `LedgerSpared` | `[]NewestSurvives`, `[]LedgerUntouched`, for runs in turn that keep at least one deployment; the second also as long as publications that were answered were processed | `NInv`: the run under way holds the newest record in what it read, merged and retained, and nothing asked for so far belongs to it; a ledger that waits to be processed has nothing either that was asked for |
| `RelayRegistry_proofs!TypeCorrect` | `[]TypeOK` | |
| `GuestListed` | `[]GuestKeepsListed`, if Aleph refuses no guest's post | `GuestInv`: no run is about to forget a guest's post, and each guest that serves has a post no older than its missed refreshes, one more before this period's |
| `KeepsItsOwn` | `[]RunKeepsItsOwn`, if every run has its instance hash | `KeepInv`: from the list of instances on, the run's registration is among the live ones |
| `LiveListed` | `RunsKeepLiveListed`, an action property, if `RunsInTurn`: one run at a time, every run has its instance hash, relays that are up can be read, Aleph lists the owner's posts it accepts, and no relay comes back | `TurnInv`: while a run replaces posts its own is the newest of the owner's, so none outlives it; while it reconciles, each relay that is up is still to be read, or live, or has no post the run would look at |
| `GuestSetup_proofs!GuestTypeCorrect` | `[]TypeOK`, of guests of both profiles | `GuestTyped`: a thread past the first write of the script has an environment, one past `READY_FILE` is on a guest that is ready; and the threads that describe the relay, with those that may yet start one (`MayReport`), are no more than the threads there are |
| `GuestSetup_proofs!ConfiguredOnce`, `AcknowledgedApplied` | `[]OneConfiguration`, `[]AcknowledgedIsApplied` | `UcInv`: the thread in the script holds the lock, until it marks the guest ready nobody has, and from its first write on the environment is that of its configuration, and then the relay's and the signals' |
| `PanelRefresh_proofs!TypeCorrect` | `[]TypeOK` | |
| `PanelRefresh_proofs!CompletedKept` | `[]CompletedIsKept` | `IInv`: there is one deployment to be the last one, and a refresh that ends reports on it only |
| `EphemeralVms_proofs!TypeCorrect` | `[]TypeOK`, if no two runners have one name and no prefix covers another repository's runners | `IInv` |
| `CleanUpsSucceed` | `[]CleanUpFailsOnlyOnFaults`, without that condition | `CInv`: nobody but the clean-up of a relay forgets a registration, and only its own; while nothing has failed, what a clean-up has decided about the registration (owner's or not, known or not) stays true until it is through |
| `JobsSpared` | `[]JobsAreNotSwept`, under the condition of `TypeCorrect`, whatever `Patience` and `Grace` are | `IInv`: a runner with a job that is not `slow` is no older than its grace and its time to live, GitHub lists a runner that has its job, and whatever a janitor has on its list gets no job any more |
| `ConfigAggregate_proofs!TypeCorrect` | `[]TypeOK` | `IInv`, below |
| `PortsStay`, `RecordReadable` | `[]PortsKept`, `[]RecordStaysReadable` | `IInv`: numbers tell messages apart, so that any set of them has a newest; each message about ports has all the ports of its one instance; each message that has a record of a deploy that publishes or waits has its own; a clean-up lists configuration messages only, old ones; and the message of a live record is younger than that |
| `CleanupComplete` | `CleanupIsComplete`, an action property | `IInv` and `Scanned`: a message the clean-up owes to remove is either on its list already or on a page still to be read, since new messages push old ones back and never forward |
| `ControllerDeploy_proofs!RootfsTypeCorrect` | `[]RootfsTypeOK` | |
| `PublishedStored`, `DeployedStored` | `[]PublishedIsStored`, `[]DeployedWasStored` | `RootfsInv`: from the end of its wait on a run has a STORE as its plan asks for, and on the pin path was not told of a rejection or is on its way out (`RunsFit`); the run a manifest names has come that far (`ManifestsFit`); a refresh asks about the manifest it holds, and shows what was so when it asked, and a deploy remembers what was ready (`PageFits`) |
| `DeployExecutor_proofs!SiteNewestStay`, `SiteLinkedStays` | `[]NewestStay`, `[]LinkedStaysStored` | `SiteInv`, below |
| `SiteOlderAreForgotten` | `OlderAreForgotten`, an action property | `SiteInv`: an upload that a sweep has left out so far is forgotten, or linked, or named by a FORGET of the sweep that is late |
| `GuestSetup_proofs!DiscoveryTypeCorrect` | `[]DiscoveryTypeOK` | `DiscoveryInv` |
| `EmptyScanComplete`, `NoneSuperseded` | `[]EmptyIsComplete`, `[]NothingSuperseded` | `DiscoveryInv`, below |
| `PostsStayUsable` | `[]PostsAreUsable` | every post that is listed is one that a writer signed; of each transport the address preferred most is never cut |

None of the properties is inductive as it stands. `GuestKeepsListed`, for
instance, says nothing of the age of the post; a `Tick` from a state where the
last post has age `MaxAge` would break it. That the age is bounded by the
number of misses, and `MaxMisses < MaxAge`, is what makes it true.
`AcknowledgedIsApplied` says nothing of threads; that no second thread is in
the script, and that none can enter it once the guest is ready, is what keeps
the environment as it was acknowledged.
`CleanupIsComplete` speaks of a clean-up during which no other one takes
messages out, for a good reason: the FORGET of another shifts the pages, and
the message that moves from the top of the next page to the end of the one
just read is seen by neither reading. It stays until the next clean-up.

`NewestStay` speaks of the order of records, and retention of the history of an
entry, which a failed read or an overlapping run may have cut short. What
`SiteInv` has instead of equality is that a history is in the order of the
records (`InOrder`): an upload with `keepCount` versions above it in a history
has as many records above it. That is enough to keep the newest. That the old
ones go needs the converse, and so a history that was never cut
(`HistoryWhole`).

`EmptyIsComplete` and `NothingSuperseded` rest on ranks: that of a post is how
many newer ones the channel lists, and a page lists the posts of a stretch of
ranks. While no post is forgotten ranks only grow, so of the posts listed when
the scan began each is collected or has a rank that is yet to be read
(`PagesFit`), and whatever is newer than a collected post is collected with it
(`NewestFirst`): a replaced post loses against its newer one in
`selectCurrent`. Ranks have no gaps, so a page with fewer posts than it may hold
is the last (`NoneAfterShortPage`); and posts age and authorizations expire, so
that what has no address now has none later (`FewerLater`).

The proofs assume only what the `ASSUME`s of the modules say, and these are
evaluated by TLC in each run, and the conditions in the second column. The
conditions of `JobsSpared` are those without which TLC refutes the property:
`MCRunnerSameName` has two runners of one name, and `MCRunnerStranger` a prefix
that covers another repository's names. Each of the five conditions of
`LiveListed` is needed too: with one of them dropped from
`MCRegistryInTurn.cfg` TLC finds a run that takes the last post away.
`CleanUpsSucceed` and `CleanupComplete`
need no more than the `ASSUME`s; one of them says that `None` is not one of the
two parties that register a relay.
The proofs use no fact about which plans the configurations choose, so also cover
those TLC does not see, such as refreshes that do not forget or do not
reconcile, and runs that overlap.

Only model-checked: liveness (`DeployEnds`, `DownIsUnlisted`, `UpIsListed`,
`RecordIsApplied`, `CertificateIsAnnounced`, `ShowsTheAccount`,
`CompletedComesBack`, `EveryVmEnds`), which is out of the prover's reach as is
`ENABLED`. Each of the other properties that the runs check, invariant or action
property, is stated by a theorem. Inductions over data cannot be done with the
installed provers either: the modules with theorems have no recursive
operators, and where `Retention` removes double records it does so by removing
one element (`without`), which the code's filter amounts to.

## Where code and documents disagree

Each of the following has a configuration that is run by hand,
`tlc -workers 2 -config <cfg> <module>`, and that TLC refutes. Where one has
several invariants TLC stops at the first it refutes; take that line out to see
the next.

| Configuration, module | Property | What happens |
| --- | --- | --- |
| `MCDeployForgets`, `MCDeployExecutor` | `FailureForgetsProcessed` | An inspection or a broadcast that throws before `activeItemHash` is set (deploy-executor.ts:695, :775) leaves a processed instance; github-action.md:188 says any deploy forgets it. |
| `MCRetentionLeak`, `MCRetention` | `OlderAreForgotten` | The ledger is cut before the pruned deployment is erased and forgotten (retention.ts:366); a repeated call no longer finds it. deployment-lifecycle.md:148. |
| `MCRetentionOverlap`, `MCRetention` | `RetainedImageKept` | Two runs overlap, and one forgets the image of a deployment the other has just retained (retention.ts:350). reusable-workflow.md:110. |
| `MCControllerDiverges`, `MCControllerDeploy` | `CompletedIsReachable` | The gate throws for a relay that cannot be dialed, and the recovery of the same attempt takes its confirmed registration for success (controller.ts:2144, :3697; the comment at :2126 wants another host). |
| the same | `ConfidentialStartHasPassphrase` | The unlock of one attempt clears the passphrase (controller.ts:3412), and the next CRN gets a confidential instance that cannot be unlocked. |
| the same | `ForgottenByOwner` | The FORGET of a failed attempt is signed by the account of that moment (controller.ts:3807). |
| `MCRegistryNamed`, `MCRelayRegistry` | `RunKeepsItsOwn` | A refresh without an instance hash forgets what it has published (action-runner.ts:422; aleph-bootstrap.md:407). |
| `MCRegistryUnchanged`, `MCRelayRegistry` | `RefreshedIsListed` | An orbitdb-relay that deregistered at a graceful stop takes its registration for published when it is back (orbitdb-relay-bootstrap-refresh.py:807), until the file is too old: for hours it serves and is not listed. |
| `MCDiscoveryLegacy`, `MCDiscovery` | `LegacyDoesNotBlind` | A post of another type makes a full page look like the last (aleph-bootstrap/src/index.ts:1273), against the comment above `unsupportedRelayBootstrapReason`. |
| `MCConfigAggregateDeleted`, `MCConfigAggregate` | `DeletedIsGone` | The deletion republishes the aggregate without the record, and Aleph merges messages key by key: what is left out stays, until it expires or its message is forgotten. aleph-bootstrap-sequences.md:109 has the entry removed. |
| `MCGuestAcknowledged`, `MCGuestSetup` | `PulledIsAcknowledged` | Once the guest is ready the poll loop ends; a signal that failed, or a reboot before it, leaves the configuration unacknowledged. |
| `MCGuestFirstPath`, `MCGuestSetup` | `FirstPathWins` | orbitdb-relay's POST runs the script without the lock: both paths win (comment at orbitdb-relay-setup-server.py:643-647). |
| `MCSiteOverlap`, `MCSitePublication` | `AllLinkedStayStored` | Runs of one site overlap, and a late link job attaches a STORE that the newer run forgets. |
| `MCPanelCooldown`, `MCPanelRefresh` | `RunningIsShown` | A lookup that is skipped renews its own cooldown, so that a machine that came up late may never be shown with its addresses. |
| `MCRunnerSameName`, `MCEphemeralVms` | `JobsAreNotSwept` | Names have a resolution of one second and are cut to 64 characters (node/src/github-runner.ts:124): the clean-up of one launcher removes the machine of another. |
| `MCRunnerStranger`, `MCEphemeralVms` | `StrangersAreSpared` | Names are compared by prefix, `gh-runner-owner-repo-`, and so begin the names of the runners of `owner/repo-x`. GitHub does not list those under `owner/repo`, so the janitor of one repository takes another's for finished after the grace period, job or not (node/src/github-runner.ts:267; node/test/github-runner.test.ts:95 promises "never ... a stranger"). |
| `MCRootfsRejected`, `MCRootfsPublication` | `RejectionEndsTheRun` | A STORE that was rejected is final on the pin path (rootfs-runner.ts:967), but with driver `aleph-api-ipfs` it is retried on the next host (:755), which may lag behind and still answer "pending"; the run then publishes it. node/test/rootfs-runner.test.ts:942 wants no fallback across hosts. |
| the same, with that invariant | `PublishedIsObtainable` | The Helia node stops after its keepalive while the STORE is pending: the manifest of a run that does not insist on a processed STORE names an image nobody serves. |

The next are refuted in the instance of a passing run: put the property into
its configuration in the place of those that are there.

| Configuration, module | Property | What happens |
| --- | --- | --- |
| `MCRetention`, `MCRetention` | `LedgerAlwaysUntouched` | The ledger's publication is answered "pending" (or "rejected": the status is returned, retention.ts:366, and not checked); the run erases and forgets, and the ledger in force still names what is gone. |
| `MCConfigAggregate`, `MCConfigAggregate` | `WaitersHaveRecords` | The record's publication is pending, or rejected with a status that is not 2xx, which bootstrap-config.ts:206 calls "unknown": the deploy waits for a guest that finds no record. |
| `MCSitePublication`, `MCSitePublication` | `AllLinkedStayStored` | A link is answered "pending" (domain-link.ts:72), and is applied after a newer run, which does not see it, forgot the STORE; or a FORGET is pending, and is applied after the link. |
| `MCEphemeralVms`, `MCEphemeralVms` | `BootingAreSpared` | A launcher takes longer than the janitor's grace of 15 minutes, which `waitForSsh` alone can, and its machine is swept while it boots; node/test/github-runner.test.ts:95 promises "never a booting one". |
| `MCRootfsPublication`, `MCRootfsPublication` | `AllDeployedWereStored` | Between the guard of `deploy()` (controller.ts:3072) and the reading of the image (:3202) a refresh puts another manifest into the panel, of a STORE that is pending; or a confidential start uses the image of its site's settings, which nobody looks up. |

Seen by reading, without a run:

- *Guest and deployer.* orbitdb-relay signals with a post type the core does
  not ask for (`vm-bootstrap-config-signal` for `-status`, core
  bootstrap-config.ts:19), so that its deployers wait in vain; its first answer
  to `GET /metadata` that is not "pending" stops the setup service. The read of
  the record catches four kinds of error (uc-go-peer-setup-server.py:453-464,
  orbitdb-relay-setup-server.py:391-395); any other ends the thread, until the
  next boot. A second
  script that overtakes a refresh under way has its environment overwritten.
- *Registry.* The reconcile registers relays of every profile under its own,
  does not look behind a guest's newer post for the owner's stale one, and
  forgets the post of a relay it cannot read at that moment; a known status,
  rejected included, counts as published. orbitdb-relay remembers a publication
  that Aleph may reject later, its configure script restarts the
  deregistration service just before it refreshes (configure.sh:352), and a
  single legacy post of anybody in the channel has its deregistration fail.
- *Publishing.* Without `args.now` the relay proof is signed with one reading
  of the clock and the post carries another, while the verification wants them
  equal (`PostsAreUsable` has it as a condition).
- *Executor.* A reachability verdict of `false` is recorded and not acted on;
  deploy-executor.ts:1126 promises a second pass that does not exist.
- *Panel.* A rejected FORGET is reported as "Delete completed"; the erase is
  signed for one account and the FORGET for that of the moment;
  `busy.refreshing` is cleared by whichever refresh ends first.
- *Sites.* A read of the websites entry that fails is taken for a first
  version: the history starts anew and earlier uploads are never forgotten.
- *Machines.* A result that cannot be read throws outside both `try` blocks of
  `up` (aleph-github-runner.mjs:274), which leaves the machine to the janitor;
  the janitor's time to live has to be that of `up`; a janitor stops at the
  first machine it cannot remove; inventories read the first 200 instances; a
  test whose provisioning failed does not learn of its registration, which then
  stays (playwright/src/index.ts:1304); `authorize-forget` takes a failed read
  of the `security` aggregate for an empty one.

## What is not modelled

Signing, hashing and formatting of messages; ranking and compatibility of
CRNs; prices and prepaid credit; parsing of answers; what the commands of a
rootfs build do, and the other modes of its runner; packing and IPFS uploads of sites, and the directory
driver; keys and authorizations of runners; of the panel,
`loadInstanceAddresses`, `deleteBootstrapRegistration`, the busy flags, the
account's credits, and a second deploy; React and Svelte views; attestation
reports themselves (cryptography) and the attestation relay (a byte pipe); the
ucan-store image. `PROJECT.json` has a row for each component.

## Plan

The order was that of what an error costs: money for forgotten instances
first, then lost relays, then wrong display. All modules of it are there.
What would be next:

1. `refresh()` and `deploy()` of the panel in one module, with the busy flags.
2. The prepaid flow of the browser client, if its state grows beyond a chain of
   wallet prompts.
