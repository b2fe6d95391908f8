---------------------------- MODULE EphemeralVms ----------------------------
(***************************************************************************)
(* Virtual machines that are meant to be short-lived, and what becomes of  *)
(* them when something fails on the way:                                   *)
(*                                                                         *)
(*   - runners for GitHub Actions (scripts/aleph-github-runner.mjs and     *)
(*     packages/node/src/github-runner.ts): `up` deploys a VM, registers a *)
(*     one-job runner and hands it over by SSH; the guest runs the job,    *)
(*     sends FORGET for itself if it was given a key, and powers off, at   *)
(*     the latest when its time to live is over; `janitor` and `down`      *)
(*     remove what is left;                                                *)
(*   - relays that a test deploys through the panel                        *)
(*     (packages/playwright/src): the fixture cleans them up, and a        *)
(*     janitor (scripts/playwright-runner-janitor.mjs) sweeps those whose  *)
(*     job was cancelled.                                                  *)
(*                                                                         *)
(* A wallet funds one fleet or the other. A launcher, a test or a sweep    *)
(* may be killed at any step, and any request may fail.                    *)
(***************************************************************************)
EXTENDS Naturals, FiniteSets

CONSTANTS
    Runners,        \* VMs that `up` starts, each once
    Relays,         \* VMs that tests start, each once
    Repos,
    repo,           \* the repository of a runner
    prefixed,       \* runners whose names begin with the prefix of a repository
    name,           \* the name of a runner, as it is cut to length
    before,         \* runners that one `up` starts before this one
    keyed,          \* runners that get a forget key
    Patience,       \* age of a VM until which its launcher waits for SSH and GitHub
    Grace,          \* bootGraceMs
    Ttl,            \* time to live, of the guest and of the sweeps
    MaxFaults,      \* bound on requests that fail and processes that are killed
    None

Vms == Runners \cup Relays
Sweeper == "sweeper"

ASSUME VmAssumption ==
    /\ Runners \cap Relays = {} /\ Sweeper \notin Vms /\ None \notin Vms \cup {"owner", "guest"}
    /\ repo \in [Runners -> Repos] /\ DOMAIN name = Runners
    /\ before \in [Runners -> SUBSET Runners]
    /\ \A r \in Repos : {v \in Runners : repo[v] = r} \subseteq prefixed[r]
    /\ keyed \subseteq Runners
    /\ {Patience, Grace, Ttl, MaxFaults} \subseteq Nat /\ Ttl > 0

VARIABLES
    fleet,      \* the VMs of this wallet
    message,    \* the INSTANCE message of a VM
    post,       \* the bootstrap registration of a relay: its sender, or None
    age,        \* of the message; stops counting when nothing depends on it
    guest,      \* what the VM does
    timer,      \* time left to github-runner-ttl.timer
    github,     \* the runner as GitHub lists it
    launch,     \* where `up` or the test stands
    known,      \* relays whose registration the test knows
    removing,   \* per actor: the VM it removes and how far it is
    todo,       \* per actor: the VMs it has yet to remove
    sweep,      \* the janitor, `down` or the clean-up command
    faults,
    slow        \* history: runners at work that were configured after their grace

vars == <<fleet, message, post, age, guest, timer, github, launch, known, removing, todo, sweep, faults, slow>>
cloud == <<message, post, guest, timer, github, slow>>

Actors == Vms \cup {Sweeper}
MaxAge == Ttl + Grace + 1
Listed == {"offline", "online"}
NoRemoval == [pc |-> "none", vm |-> None, own |-> FALSE, all |-> FALSE]
NoSweep == [pc |-> "idle", by |-> None, offline |-> {}]

TypeOK ==
    /\ fleet \in {Runners, Relays}
    /\ message \in [Vms -> {"none", "stored", "forgotten", "gone"}]
    /\ post \in [Vms -> {None, "owner", "guest"}]
    /\ age \in [Vms -> 0..MaxAge] /\ timer \in [Vms -> 0..Ttl]
    /\ guest \in [Vms -> {"none", "boot", "job", "finish", "off"}]
    /\ github \in [Vms -> {"none"} \cup Listed]
    /\ \A a \in Actors : removing[a].vm \in Vms \cup {None} /\ todo[a] \subseteq Vms
    /\ known \subseteq Relays /\ sweep.by \in Repos \cup {None}
    /\ faults \in 0..MaxFaults /\ slow \subseteq Vms

Faulting == faults < MaxFaults /\ faults' = faults + 1

stored(v) == message[v] = "stored"
at(v, pc) == launch[v] = pc
goes(v, pc) == launch' = [launch EXCEPT ![v] = pc]
removal(a, pc) == removing[a].pc = pc
target(a) == removing[a].vm
Starting == {"deploying", "starting", "registered", "injected"}
Over == {"idle", "done", "failed", "lost"}

(* A VM that stops leaves its runner behind on GitHub, offline. *)
stopped(v) ==
    /\ guest' = [guest EXCEPT ![v] = "off"]
    /\ timer' = [timer EXCEPT ![v] = 0]
    /\ github' = [github EXCEPT ![v] = IF @ = "online" THEN "offline" ELSE @]
    /\ slow' = slow \ {v}

-----------------------------------------------------------------------------
(* Aleph, the CRN and GitHub *)

Boot(v) ==
    /\ stored(v) /\ guest[v] = "none"
    /\ guest' = [guest EXCEPT ![v] = "boot"]
    /\ timer' = [timer EXCEPT ![v] = Ttl]
    /\ UNCHANGED <<fleet, slow, known, message, post, age, github, launch, removing, todo, sweep, faults>>

(* The replicas and the scheduler have taken note of a FORGET. *)
Deallocate(v) ==
    /\ message[v] = "forgotten"
    /\ message' = [message EXCEPT ![v] = "gone"]
    /\ stopped(v)
    /\ UNCHANGED <<fleet, known, post, age, launch, removing, todo, sweep, faults>>

Connects(v) ==
    /\ guest[v] = "job" /\ github[v] = "offline"
    /\ github' = [github EXCEPT ![v] = "online"]
    /\ UNCHANGED <<fleet, slow, known, message, post, age, timer, guest, launch, removing, todo, sweep, faults>>

-----------------------------------------------------------------------------
(* The guest of a runner *)

(* The one job is over, and GitHub has dropped its one-job runner. *)
JobEnds(v) ==
    /\ guest[v] = "job" /\ github[v] # "offline"
    /\ guest' = [guest EXCEPT ![v] = "finish"]
    /\ github' = [github EXCEPT ![v] = "none"]
    /\ slow' = slow \ {v}
    /\ UNCHANGED <<fleet, known, message, post, age, timer, launch, removing, todo, sweep, faults>>

(* The timer counts from boot, and anew from the configuration. *)
TtlExpires(v) ==
    /\ v \in Runners /\ timer[v] = 0
    /\ \/ guest[v] = "boot" /\ stopped(v)
       \/ /\ guest[v] = "job"
          /\ guest' = [guest EXCEPT ![v] = "finish"]
          /\ github' = [github EXCEPT ![v] = IF @ = "online" THEN "offline" ELSE @]
          /\ slow' = slow \ {v}
          /\ UNCHANGED timer
    /\ UNCHANGED <<fleet, known, message, post, age, launch, removing, todo, sweep, faults>>

(* The message is no longer stored, and its age no longer matters. *)
forgets(v) ==
    /\ message' = [message EXCEPT ![v] = IF @ = "stored" THEN "forgotten" ELSE @]
    /\ age' = [age EXCEPT ![v] = 0]

(* github-runner-finish: up to three attempts at the FORGET, then power off. *)
Finish(v) ==
    /\ guest[v] = "finish"
    /\ stopped(v)
    /\ \/ v \in keyed /\ forgets(v) /\ UNCHANGED faults
       \/ v \in keyed /\ Faulting /\ UNCHANGED <<message, age>>
       \/ v \notin keyed /\ UNCHANGED <<message, age, faults>>
    /\ UNCHANGED <<fleet, known, post, launch, removing, todo, sweep>>

-----------------------------------------------------------------------------
(* Removing one VM: removeVm, the clean-up command, and the loop of the    *)
(* Playwright janitor                                                      *)

Removes(a, v) == removing' = [removing EXCEPT ![a] = [NoRemoval EXCEPT !.pc = "erase", !.vm = v]]
next(a, pc) == removing' = [removing EXCEPT ![a].pc = pc]

(* eraseInstanceOnCrn on one replica after the other; failing is no error. *)
erases(a) == stopped(target(a)) \/ UNCHANGED <<guest, timer, github, slow>>

(* A FORGET that names a message of somebody else is rejected as a whole, by
   every replica it is sent to. *)
refused(a) == removing[a].all /\ post[target(a)] = "guest"

EraseAndForget(a) ==
    /\ removal(a, "erase")
    /\ erases(a)
    /\ \/ /\ ~refused(a)
          /\ forgets(target(a))
          /\ post' = IF removing[a].all THEN [post EXCEPT ![target(a)] = None] ELSE post
          /\ next(a, "verify")
          /\ UNCHANGED faults
       \/ /\ IF refused(a) THEN UNCHANGED faults ELSE Faulting
          /\ next(a, "failed")
          /\ UNCHANGED <<message, post, age>>
    /\ UNCHANGED <<fleet, known, launch, todo, sweep>>

(* waitForAlephInstanceDeletion: the replicas and the scheduler agree. *)
Verify(a) ==
    /\ removal(a, "verify")
    /\ \/ message[target(a)] = "gone" /\ next(a, "removed") /\ UNCHANGED faults
       \/ Faulting /\ next(a, "failed")
    /\ UNCHANGED <<fleet, known, cloud, age, launch, todo, sweep>>

(* The next VM of an actor's list: the loops of removeVmsNamed and the sweeps. *)
RemoveNext(a) ==
    /\ removal(a, "none") \/ removal(a, "removed") \/ (removal(a, "failed") /\ a # Sweeper)
    /\ \E v \in todo[a] :
          /\ Removes(a, v)
          /\ todo' = [todo EXCEPT ![a] = @ \ {v}]
    /\ UNCHANGED <<fleet, known, cloud, age, launch, sweep, faults>>

listDone(a) == todo[a] = {} /\ (removal(a, "none") \/ removal(a, "removed") \/ removal(a, "failed"))

-----------------------------------------------------------------------------
(* `up`: one runner *)

(* `up --count` goes on with the next runner only when the last is online. *)
Deploy(v) ==
    /\ v \in fleet /\ at(v, "idle")
    /\ v \in Runners => \A w \in before[v] : at(w, "done")
    /\ message' = [message EXCEPT ![v] = "stored"]
    /\ goes(v, "deploying")
    /\ UNCHANGED <<fleet, slow, known, post, age, timer, guest, github, removing, todo, sweep, faults>>

(* A deploy that needs no more than its node takes a while to come up. The
   launcher gives up on a result without a mapped SSH port, and leaves it. *)
Deployed(v) ==
    /\ v \in Runners /\ at(v, "deploying") /\ guest[v] # "none"
    /\ \/ goes(v, "starting") /\ UNCHANGED faults
       \/ goes(v, "failed") /\ Faulting
    /\ UNCHANGED <<fleet, known, cloud, age, removing, todo, sweep>>

strays(v) == {w \in Runners : stored(w) /\ name[w] = name[v]}

(* The deploy failed although a message of this name may have been accepted;
   an inventory that cannot be read counts as empty. *)
DeployFails(v) ==
    /\ v \in Runners /\ at(v, "deploying")
    /\ Faulting \/ (~stored(v) /\ UNCHANGED faults)
    /\ todo' = [todo EXCEPT ![v] = strays(v)] \/ UNCHANGED todo
    /\ goes(v, "removing")
    /\ UNCHANGED <<fleet, known, cloud, age, removing, sweep>>

(* The start script is there, on the forwarded port or on the IPv6 address. *)
answers(v) == guest[v] = "boot"

Register(v) ==
    /\ at(v, "starting") /\ answers(v)
    /\ github' = [github EXCEPT ![v] = "offline"]
    /\ goes(v, "registered")
    /\ UNCHANGED <<fleet, slow, known, message, post, age, timer, guest, removing, todo, sweep, faults>>

(* The last of the files is the configuration the guest waits for. *)
Inject(v) ==
    /\ at(v, "registered") /\ answers(v)
    /\ guest' = [guest EXCEPT ![v] = "job"]
    /\ timer' = [timer EXCEPT ![v] = Ttl]
    /\ slow' = IF stored(v) /\ age[v] <= Grace THEN slow ELSE slow \cup {v}
    /\ goes(v, "injected")
    /\ UNCHANGED <<fleet, known, message, post, age, github, removing, todo, sweep, faults>>

Online(v) ==
    /\ at(v, "injected") /\ github[v] = "online"
    /\ goes(v, "done")
    /\ UNCHANGED <<fleet, known, cloud, age, removing, todo, sweep, faults>>

(* A request failed or the waiting is over: waitForSsh counts attempts, sixty
   or as many as it is told, each with its own timeout, and waitForOnline
   thirty-six. That is a least time, and nothing keeps it below the grace. *)
StartFails(v) ==
    /\ launch[v] \in Starting \ {"deploying"}
    /\ \/ Faulting
       \/ UNCHANGED faults /\ (age[v] >= Patience \/ guest[v] \notin {"boot", "job"})
    /\ todo' = [todo EXCEPT ![v] = {v}]
    /\ goes(v, "removing")
    /\ UNCHANGED <<fleet, known, cloud, age, removing, sweep>>

(* An error of the removal is logged: "run janitor". *)
UpEnds(v) ==
    /\ v \in Runners /\ at(v, "removing") /\ listDone(v)
    /\ goes(v, "failed")
    /\ removing' = [removing EXCEPT ![v] = NoRemoval]
    /\ UNCHANGED <<fleet, known, cloud, age, todo, sweep, faults>>

-----------------------------------------------------------------------------
(* The fixture of a test: one relay *)

(* A registration of this relay appears: the panel has published it with the
   account's key, or the guest with its own. *)
registers(v) == \E by \in {"owner", "guest"} : post' = [post EXCEPT ![v] = by]

(* The newest INSTANCE of this name that is neither forgotten nor older than
   the test; the replicas may take too long to show it. *)
looksUp(v) == (stored(v) /\ goes(v, "tracked")) \/ goes(v, "lost")

Provisioned(v) ==
    /\ v \in Relays /\ at(v, "deploying") /\ guest[v] = "boot"
    /\ registers(v)
    /\ goes(v, "tracked")
    /\ known' = known \cup {v}
    /\ UNCHANGED <<fleet, slow, message, age, timer, guest, github, removing, todo, sweep, faults>>

(* The instance is looked up once more, for fifteen seconds; the test does not
   learn of a registration. *)
ProvisionFails(v) ==
    /\ v \in Relays /\ at(v, "deploying")
    /\ Faulting \/ (~stored(v) /\ UNCHANGED faults)
    /\ registers(v) \/ UNCHANGED post
    /\ looksUp(v)
    /\ UNCHANGED <<fleet, slow, known, message, age, timer, guest, github, removing, todo, sweep>>

panelForgets(v) ==
    /\ forgets(v) /\ stopped(v)
    /\ \/ UNCHANGED post
       \/ post[v] = "owner" /\ post' = [post EXCEPT ![v] = None]

(* Mutant: the registration that the test knows always goes along. *)
alongWith_Known(v, own) == v \in known

(* The registration is forgotten with the instance if it is the account's. *)
alongWith(v, own) == own

(* The sender of the registration, as the first replica that answers has it;
   one that cannot be read is not ours. *)
owned(v, readable) == v \in known /\ readable /\ post[v] = "owner"

(* It is read once, for the FORGET and for the wait after it. *)
FallBack(v) ==
    \E readable \in BOOLEAN :
        LET own == owned(v, readable)
        IN  /\ readable \/ faults < MaxFaults
            /\ removing' = [removing EXCEPT ![v] =
                  [pc |-> "erase", vm |-> v, own |-> own, all |-> alongWith(v, own)]]
            /\ faults' = IF readable THEN faults ELSE faults + 1
            /\ goes(v, "removing")

(* The click may fail, and so may what the panel does after it. *)
CleanUp(v) ==
    /\ at(v, "tracked")
    /\ \/ /\ panelForgets(v) /\ goes(v, "ui")
          /\ UNCHANGED <<removing, faults>>
       \/ /\ Faulting /\ goes(v, "ui")
          /\ UNCHANGED <<cloud, age, removing>>
       \/ FallBack(v) /\ UNCHANGED <<cloud, age>>
    /\ UNCHANGED <<fleet, known, todo, sweep>>

(* Twenty seconds for the instance, then a wait for a registration of its own
   that the panel has not forgotten, unless its sender cannot be read. *)
PanelDone(v) ==
    /\ at(v, "ui")
    /\ message[v] = "gone"
    /\ \/ ~owned(v, TRUE) /\ UNCHANGED faults
       \/ Faulting
    /\ goes(v, "done")
    /\ UNCHANGED <<fleet, known, cloud, age, removing, todo, sweep>>

PanelTimesOut(v) ==
    /\ at(v, "ui")
    /\ FallBack(v)
    /\ UNCHANGED <<fleet, known, cloud, age, todo, sweep>>

(* Every replica has the registration as forgotten. *)
deregistered(v) == post[v] = None

(* Only a registration of the account's own is waited for. *)
awaited(v) == removing[v].own /\ ~deregistered(v)

CleanUpEnds(v) ==
    /\ v \in Relays /\ at(v, "removing")
    /\ \/ removal(v, "removed") /\ ~awaited(v) /\ goes(v, "done")
       \/ removal(v, "removed") /\ awaited(v) /\ goes(v, "failed")
       \/ removal(v, "failed") /\ goes(v, "failed")
    /\ removing' = [removing EXCEPT ![v] = NoRemoval]
    /\ UNCHANGED <<fleet, known, cloud, age, todo, sweep, faults>>

(* The process is killed, or its job is cancelled. *)
Killed(v) ==
    /\ launch[v] \notin Over /\ Faulting
    /\ goes(v, IF v \in Runners THEN "failed" ELSE "lost")
    /\ removing' = [removing EXCEPT ![v] = NoRemoval]
    /\ todo' = [todo EXCEPT ![v] = {}]
    /\ UNCHANGED <<fleet, known, cloud, age, sweep>>

-----------------------------------------------------------------------------
(* The sweeps: one at a time per wallet *)

(* One that finds nothing changes nothing, and is no step. *)
StartSweep(by, targets, offline) ==
    /\ sweep.pc = "idle" /\ targets \cup offline # {}
    /\ sweep' = [pc |-> "removing", by |-> by, offline |-> offline]
    /\ todo' = [todo EXCEPT ![Sweeper] = targets]
    /\ UNCHANGED <<fleet, known, cloud, age, launch, removing, faults>>

instances == {v \in fleet : stored(v)}

(* `down` and the clean-up command: by hand. *)
Down == \E vs \in {instances} \cup {{v} : v \in instances} : StartSweep(None, vs, {})

(* The Playwright janitor: what is processed or pending, past its time. *)
selectExpired == {v \in Relays : stored(v) /\ age[v] >= Ttl}
SweepRelays == fleet = Relays /\ StartSweep(None, selectExpired, {})

(* Mutant: a runner that GitHub still lists is never swept. *)
selectSweepableRunners_Finished(listed, r) ==
    {v \in instances \cap prefixed[r] : age[v] > Grace /\ v \notin listed}

(* Mutant: no grace for a machine that still boots. *)
selectSweepableRunners_NoGrace(listed, r) ==
    {v \in instances \cap prefixed[r] : age[v] > Ttl + Grace \/ v \notin listed}

selectSweepableRunners(listed, r) ==
    {v \in instances \cap prefixed[r] :
        age[v] > Ttl + Grace \/ (age[v] > Grace /\ v \notin listed)}

(* The instances of the wallet and the runners of one repository are read
   together; runners that are offline and have no VM left are for the end. *)
Janitor(r) ==
    /\ fleet = Runners
    /\ LET listed == {v \in Runners : repo[v] = r /\ github[v] \in Listed}
           swept == selectSweepableRunners(listed, r)
           live == instances \ swept
       IN  StartSweep(r, swept, {v \in listed : github[v] = "offline"} \ live)

SweepEnds ==
    /\ sweep.pc = "removing" /\ listDone(Sweeper) /\ ~removal(Sweeper, "failed")
    /\ github' = [v \in Vms |-> IF v \in sweep.offline THEN "none" ELSE github[v]]
    /\ sweep' = NoSweep
    /\ removing' = [removing EXCEPT ![Sweeper] = NoRemoval]
    /\ UNCHANGED <<fleet, slow, known, message, post, age, timer, guest, launch, todo, faults>>

(* A request failed, a VM could not be removed, or the process was killed. *)
SweepFails ==
    /\ sweep.pc # "idle"
    /\ Faulting \/ (removal(Sweeper, "failed") /\ UNCHANGED faults)
    /\ sweep' = NoSweep
    /\ removing' = [removing EXCEPT ![Sweeper] = NoRemoval]
    /\ todo' = [todo EXCEPT ![Sweeper] = {}]
    /\ UNCHANGED <<fleet, known, cloud, age, launch>>

(* Time passes, for a launcher that waits too; only the timer of a guest goes
   off when it is due. *)
Tick ==
    /\ \A v \in Runners : guest[v] \in {"boot", "job"} => timer[v] > 0
    /\ age' = [v \in Vms |-> IF stored(v) /\ age[v] < MaxAge THEN age[v] + 1 ELSE age[v]]
    /\ timer' = [v \in Vms |-> IF guest[v] \in {"boot", "job"} /\ timer[v] > 0 THEN timer[v] - 1 ELSE timer[v]]
    /\ UNCHANGED <<fleet, slow, known, message, post, guest, github, launch, removing, todo, sweep, faults>>

-----------------------------------------------------------------------------
Init ==
    /\ fleet \in {Runners, Relays}
    /\ message = [v \in Vms |-> "none"] /\ post = [v \in Vms |-> None]
    /\ age = [v \in Vms |-> 0] /\ timer = [v \in Vms |-> 0]
    /\ guest = [v \in Vms |-> "none"] /\ github = [v \in Vms |-> "none"]
    /\ launch = [v \in Vms |-> "idle"]
    /\ known = {} /\ removing = [a \in Actors |-> NoRemoval] /\ todo = [a \in Actors |-> {}]
    /\ sweep = NoSweep /\ faults = 0 /\ slow = {}

Removal(a) == EraseAndForget(a) \/ Verify(a) \/ RemoveNext(a)

Launcher(v) ==
    \/ Deployed(v) \/ DeployFails(v) \/ Register(v) \/ Inject(v) \/ Online(v)
    \/ StartFails(v) \/ UpEnds(v)
    \/ Provisioned(v) \/ ProvisionFails(v) \/ CleanUp(v) \/ PanelDone(v)
    \/ PanelTimesOut(v) \/ CleanUpEnds(v)

Sweeping == SweepEnds \/ SweepFails

World(v) == Boot(v) \/ Deallocate(v) \/ TtlExpires(v) \/ Finish(v)

Next ==
    \/ \E v \in Vms : World(v) \/ Connects(v) \/ JobEnds(v) \/ Deploy(v) \/ Launcher(v) \/ Killed(v)
    \/ \E a \in Actors : Removal(a)
    \/ Down \/ SweepRelays \/ Sweeping \/ Tick
    \/ \E r \in Repos : Janitor(r)

Progress == Tick \/ \E v \in Vms : World(v) \/ Launcher(v) \/ Removal(v)

(* Machines, processes and services go on (there are finitely many such steps,
   so that none of them can starve another), a sweep that began goes on, and
   the janitors are scheduled. Nobody has to deploy, to run `down`, or to give
   a job to a runner. *)
Fairness ==
    /\ WF_vars(Progress)
    /\ WF_vars(Sweeping \/ Removal(Sweeper))
    /\ \A r \in Repos : SF_vars(Janitor(r) \/ SweepRelays)

Spec == Init /\ [][Next]_vars /\ Fairness

-----------------------------------------------------------------------------
doomed(a) == todo[a] \cup (IF removal(a, "erase") THEN {target(a)} ELSE {})

(* A runner that got its configuration before its grace was over is on nobody's
   list while it has its job, but at most on that of the launcher which waits
   for it in vain, or of somebody who says `down`: until then it was too young
   for the janitor, GitHub has listed it since, and its own timer ends it before
   its age does. One whose launcher was slower than that may be swept at work. *)
JobsAreNotSwept ==
    \A v \in Runners \ slow : guest[v] = "job" =>
        /\ sweep.by # None => v \notin doomed(Sweeper)
        /\ \A w \in Runners \ {v} : v \notin doomed(w)

(* "janitor sweeps finished and expired runners, never a booting one"
   (packages/node/test/github-runner.test.ts:95) *)
BootingAreSpared ==
    \A v \in Runners : guest[v] = "boot" /\ launch[v] \in Starting /\ sweep.by # None =>
        v \notin doomed(Sweeper)

(* The janitor of one repository removes no runner of another. *)
StrangersAreSpared ==
    \A v \in Runners : sweep.by # None /\ v \in doomed(Sweeper) => repo[v] = sweep.by

(* The clean-up of a relay fails only when some request failed, and one that
   succeeds has left neither the VM nor a registration of the account that it
   knew of and could read. *)
CleanUpFailsOnlyOnFaults ==
    faults = 0 =>
        \A v \in Relays :
            /\ ~at(v, "failed")
            /\ at(v, "done") => message[v] = "gone" /\ (v \in known => post[v] # "owner")

(* Every VM ends, whichever step of its launcher, of its guest, of a test or of
   a sweep failed, and GitHub does not go on listing its runner: again and again
   nothing is left of all the VMs that were started. *)
ended(v) == message[v] = "gone" /\ github[v] \notin Listed
EveryVmEnds == []<>(\A v \in Vms : message[v] # "none" => ended(v))

=============================================================================
