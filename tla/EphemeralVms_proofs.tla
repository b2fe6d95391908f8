------------------------- MODULE EphemeralVms_proofs --------------------------
(***************************************************************************)
(* A runner that was configured within its grace is swept by no janitor    *)
(* and by no launcher of another runner while it has its job, for any      *)
(* number of machines, repositories and faults, however slow launchers     *)
(* are, if names tell runners and their repositories apart.                *)
(***************************************************************************)
EXTENDS EphemeralVms, TLAPS

(* No runner has the name of another one, nor one that begins with the     *)
(* prefix of another repository.                                           *)
OwnNames == \A v, w \in Runners : name[v] = name[w] => v = w
OwnPrefixes == \A r \in Repos : \A v \in prefixed[r] \cap Runners : repo[v] = r

Labels == Starting \cup Over \cup {"removing", "tracked", "ui"}
RemovalType ==
    [pc: {"none", "erase", "verify", "removed", "failed"}, vm: Vms \cup {None},
     own: BOOLEAN, all: BOOLEAN]

Typed ==
    /\ fleet \in {Runners, Relays}
    /\ message \in [Vms -> {"none", "stored", "forgotten", "gone"}]
    /\ post \in [Vms -> {None, "owner", "guest"}]
    /\ age \in [Vms -> 0..MaxAge] /\ timer \in [Vms -> 0..Ttl]
    /\ guest \in [Vms -> {"none", "boot", "job", "finish", "off"}]
    /\ github \in [Vms -> {"none"} \cup Listed]
    /\ launch \in [Vms -> Labels]
    /\ known \subseteq Relays
    /\ removing \in [Actors -> RemovalType] /\ todo \in [Actors -> SUBSET Vms]
    /\ sweep \in [pc: {"idle", "removing"}, by: Repos \cup {None}, offline: SUBSET Vms]
    /\ faults \in 0..MaxFaults /\ slow \subseteq Vms

(* A job that was handed over within the grace is over before the janitor  *)
(* goes by the age alone ...                                               *)
InTime(v) ==
    stored(v) /\ guest[v] = "job" /\ v \notin slow => age[v] + timer[v] <= Grace + Ttl

(* ... and until then GitHub lists its runner.                             *)
OnGitHub(v) ==
    /\ stored(v)
    /\ \/ guest[v] = "job" /\ v \notin slow
       \/ launch[v] = "registered" /\ guest[v] = "boot" /\ age[v] <= Grace
    => github[v] \in Listed

Unborn(v) ==
    launch[v] = "idle" =>
        message[v] = "none" /\ age[v] = 0 /\ guest[v] # "job" /\ github[v] \notin Listed

Booted(v) == launch[v] = "registered" => guest[v] # "none"
InFleet(v) == stored(v) => v \in fleet

(* A janitor may have chosen this machine: a job it has, or will get, comes *)
(* after its grace.                                                        *)
Due(v) ==
    /\ launch[v] # "idle"
    /\ stored(v) => age[v] > Grace
    /\ guest[v] = "job" => v \in slow

Spared(v) == sweep.by # None /\ v \in doomed(Sweeper) => Due(v)
Unlisted(v) == v \in sweep.offline => launch[v] # "idle" /\ (stored(v) => Due(v))

VmInv(v) ==
    /\ InTime(v) /\ OnGitHub(v) /\ Unborn(v) /\ Booted(v) /\ InFleet(v)
    /\ Spared(v) /\ Unlisted(v)

(* A launcher or a test removes its own machine.                           *)
OwnLists == \A w \in Vms : todo[w] \subseteq {w} /\ removing[w].vm \in {w, None}

Quiet == sweep.pc = "idle" => todo[Sweeper] = {} /\ removing[Sweeper].pc = "none"

IInv == Typed /\ (\A v \in Runners : VmInv(v)) /\ OwnLists /\ Quiet

-----------------------------------------------------------------------------
(* Steps that give no job, start nothing, and add nothing to a janitor's   *)
(* list.                                                                   *)
Ending == {"finish", "off"}

CloudHarmless(v) ==
    /\ \/ message'[v] = message[v]
       \/ message[v] \in {"stored", "forgotten"} /\ message'[v] \in {"forgotten", "gone"}
    /\ age'[v] = age[v] \/ (age'[v] = 0 /\ message'[v] # "stored")
    /\ \/ guest'[v] = guest[v] /\ timer'[v] = timer[v] /\ (v \in slow' <=> v \in slow)
       \/ guest'[v] \in Ending
    /\ \/ github'[v] = github[v]
       \/ github[v] \in Listed /\ github'[v] \in Listed
       \/ guest'[v] \in Ending /\ (github'[v] \in Listed => github[v] \in Listed)

LaunchHarmless(v) ==
    \/ launch'[v] = launch[v]
    \/ launch[v] # "idle" /\ launch'[v] \notin {"idle", "registered"}

SweepHarmless(v) ==
    /\ sweep'.by # None =>
         sweep'.by = sweep.by /\ (v \in doomed(Sweeper)' => v \in doomed(Sweeper))
    /\ sweep'.offline \subseteq sweep.offline

LEMMA HarmlessStep ==
  ASSUME NEW v \in Runners, VmInv(v), fleet' = fleet,
         CloudHarmless(v), LaunchHarmless(v), SweepHarmless(v)
  PROVE  VmInv(v)'
<1>2. InTime(v)'
  BY DEF VmInv, InTime, stored, CloudHarmless, Ending
<1>3. OnGitHub(v)'
  BY DEF VmInv, OnGitHub, stored, CloudHarmless, LaunchHarmless, Ending
<1>4. Unborn(v)'
  BY DEF VmInv, Unborn, CloudHarmless, LaunchHarmless, Ending
<1>5. Booted(v)'
  BY DEF VmInv, Booted, CloudHarmless, LaunchHarmless, Ending
<1>6. InFleet(v)'
  BY DEF VmInv, InFleet, stored, CloudHarmless
<1>7. Due(v) => Due(v)'
  BY DEF Due, stored, CloudHarmless, LaunchHarmless, Ending
<1>8. Spared(v)'
  BY <1>7 DEF VmInv, Spared, SweepHarmless
<1>9. Unlisted(v)'
  BY <1>7 DEF VmInv, Unlisted, SweepHarmless, CloudHarmless, LaunchHarmless, stored
<1>10. QED
  BY <1>2, <1>3, <1>4, <1>5, <1>6, <1>8, <1>9 DEF VmInv

LEMMA SameSweep ==
  ASSUME NEW v \in Vms, UNCHANGED sweep, todo'[Sweeper] = todo[Sweeper],
         removing'[Sweeper] = removing[Sweeper]
  PROVE  SweepHarmless(v)
BY DEF SweepHarmless, doomed, removal, target

LEMMA Actor == Sweeper \notin Vms /\ Sweeper \in Actors /\ Vms \subseteq Actors /\ None \notin Vms
BY VmAssumption DEF Actors

-----------------------------------------------------------------------------
(* Aleph, the CRN, GitHub and the guest *)

(* Steps of the world on one machine, which no actor takes note of.        *)
LEMMA WorldStep ==
  ASSUME IInv, NEW u \in Vms,
         Deallocate(u) \/ Connects(u) \/ JobEnds(u) \/ TtlExpires(u) \/ Finish(u)
  PROVE  IInv'
<1>1. UNCHANGED <<fleet, known, post, launch, removing, todo, sweep>>
  BY DEF Deallocate, Connects, JobEnds, TtlExpires, Finish
<1>2. Typed'
  <2>1. Typed
    BY DEF IInv
  <2>2. /\ Ttl \in Nat /\ MaxAge \in Nat /\ MaxFaults \in Nat
    BY VmAssumption DEF MaxAge
  <2>3. message' \in [Vms -> {"none", "stored", "forgotten", "gone"}]
    BY <2>1 DEF Typed, Deallocate, Connects, JobEnds, TtlExpires, Finish, forgets
  <2>4. age' \in [Vms -> 0..MaxAge]
    BY <2>1, <2>2 DEF Typed, Deallocate, Connects, JobEnds, TtlExpires, Finish, forgets
  <2>5. timer' \in [Vms -> 0..Ttl]
    BY <2>1, <2>2 DEF Typed, Deallocate, Connects, JobEnds, TtlExpires, Finish, stopped
  <2>6. guest' \in [Vms -> {"none", "boot", "job", "finish", "off"}]
    BY <2>1 DEF Typed, Deallocate, Connects, JobEnds, TtlExpires, Finish, stopped
  <2>7. github' \in [Vms -> {"none"} \cup Listed]
    BY <2>1 DEF Typed, Deallocate, Connects, JobEnds, TtlExpires, Finish, stopped, Listed
  <2>8. faults' \in 0..MaxFaults
    BY <2>1, <2>2 DEF Typed, Deallocate, Connects, JobEnds, TtlExpires, Finish, Faulting
  <2>9. slow' \subseteq Vms
    BY <2>1 DEF Typed, Deallocate, Connects, JobEnds, TtlExpires, Finish, stopped
  <2>10. QED
    BY <1>1, <2>1, <2>3, <2>4, <2>5, <2>6, <2>7, <2>8, <2>9 DEF Typed
<1>3. ASSUME NEW v \in Runners PROVE CloudHarmless(v)
  <2>0. v \in Vms
    BY DEF Vms
  <2>1. CASE Deallocate(u)
    BY <2>0, <2>1 DEF IInv, Typed, Deallocate, stopped, CloudHarmless, Ending, Listed
  <2>2. CASE Connects(u)
    BY <2>0, <2>2 DEF IInv, Typed, Connects, CloudHarmless, Listed
  <2>3. CASE JobEnds(u)
    BY <2>0, <2>3 DEF IInv, Typed, JobEnds, CloudHarmless, Ending, Listed
  <2>4. CASE TtlExpires(u)
    BY <2>0, <2>4 DEF IInv, Typed, TtlExpires, stopped, CloudHarmless, Ending, Listed
  <2>5. CASE Finish(u)
    BY <2>0, <2>5 DEF IInv, Typed, Finish, stopped, forgets, CloudHarmless, Ending, Listed
  <2>6. QED
    BY <2>1, <2>2, <2>3, <2>4, <2>5
<1>4. ASSUME NEW v \in Runners PROVE VmInv(v)'
  BY <1>1, <1>3, HarmlessStep, SameSweep DEF IInv, LaunchHarmless, Vms
<1>5. OwnLists' /\ Quiet'
  BY <1>1 DEF IInv, OwnLists, Quiet
<1>6. QED
  BY <1>2, <1>4, <1>5 DEF IInv

LEMMA BootStep ==
  ASSUME IInv, NEW u \in Vms, Boot(u)
  PROVE  IInv'
<1>1. UNCHANGED <<fleet, slow, known, message, post, age, github, launch, removing, todo, sweep, faults>>
  BY DEF Boot
<1>2. Typed'
  BY <1>1, VmAssumption DEF IInv, Typed, Boot
<1>3. ASSUME NEW v \in Runners PROVE VmInv(v)'
  <2>0. v \in Vms
    BY DEF Vms
  <2>1. SweepHarmless(v)
    BY <1>1, <2>0, SameSweep
  <2>2. CASE v # u
    <3>1. guest'[v] = guest[v] /\ timer'[v] = timer[v]
      BY <2>0, <2>2 DEF IInv, Typed, Boot
    <3>2. QED
      BY <1>1, <2>1, <3>1, HarmlessStep DEF IInv, CloudHarmless, LaunchHarmless
  <2>3. CASE v = u
    <3>1. guest[v] = "none" /\ guest'[v] = "boot" /\ stored(v)
      BY <2>0, <2>3 DEF IInv, Typed, Boot
    <3>2. VmInv(v)
      BY DEF IInv
    <3>3. Due(v) => Due(v)'
      BY <1>1, <3>1 DEF Due, stored
    <3>4. Spared(v)' /\ Unlisted(v)'
      BY <1>1, <2>1, <3>2, <3>3 DEF VmInv, Spared, Unlisted, SweepHarmless, stored
    <3>5. QED
      BY <1>1, <3>1, <3>2, <3>4 DEF VmInv, InTime, OnGitHub, Unborn, Booted, InFleet, stored
  <2>4. QED
    BY <2>2, <2>3
<1>4. OwnLists' /\ Quiet'
  BY <1>1 DEF IInv, OwnLists, Quiet
<1>5. QED
  BY <1>2, <1>3, <1>4 DEF IInv

-----------------------------------------------------------------------------
(* Removing *)

LEMMA RemovalStep ==
  ASSUME IInv, NEW a \in Actors, Removal(a)
  PROVE  IInv'
<1>1. UNCHANGED <<fleet, known, launch, sweep>>
  BY DEF Removal, EraseAndForget, Verify, RemoveNext
<1>2. CASE EraseAndForget(a)
  <2>1. PICK pc \in {"verify", "failed"} : removing' = [removing EXCEPT ![a].pc = pc]
    BY <1>2 DEF EraseAndForget, next
  <2>2. UNCHANGED todo /\ removing[a].pc = "erase"
    BY <1>2 DEF EraseAndForget, removal
  <2>3. removing' \in [Actors -> RemovalType]
    BY <2>1 DEF IInv, Typed, RemovalType
  <2>4. /\ message' \in [Vms -> {"none", "stored", "forgotten", "gone"}]
        /\ post' \in [Vms -> {None, "owner", "guest"}]
        /\ age' \in [Vms -> 0..MaxAge] /\ faults' \in 0..MaxFaults
    BY <1>2, VmAssumption DEF IInv, Typed, EraseAndForget, forgets, Faulting, MaxAge
  <2>5. /\ guest' \in [Vms -> {"none", "boot", "job", "finish", "off"}]
        /\ github' \in [Vms -> {"none"} \cup Listed]
        /\ timer' \in [Vms -> 0..Ttl] /\ slow' \subseteq Vms
    BY <1>2, VmAssumption DEF IInv, Typed, EraseAndForget, erases, stopped, Listed
  <2>6. Typed'
    BY <1>1, <2>2, <2>3, <2>4, <2>5 DEF IInv, Typed
  <2>7. ASSUME NEW v \in Runners PROVE VmInv(v)'
    <3>0. v \in Vms
      BY DEF Vms
    <3>1. /\ \/ message'[v] = message[v]
             \/ message[v] = "stored" /\ message'[v] = "forgotten"
          /\ age'[v] = age[v] \/ (age'[v] = 0 /\ message'[v] # "stored")
      BY <1>2, <3>0 DEF IInv, Typed, EraseAndForget, forgets
    <3>2. /\ \/ guest'[v] = guest[v] /\ timer'[v] = timer[v] /\ (v \in slow' <=> v \in slow)
             \/ guest'[v] = "off"
          /\ \/ github'[v] = github[v]
             \/ github[v] = "online" /\ github'[v] = "offline"
      BY <1>2, <3>0 DEF IInv, Typed, EraseAndForget, erases, stopped
    <3>3. CloudHarmless(v)
      BY <3>1, <3>2 DEF CloudHarmless, Ending, Listed
    <3>4. v \in doomed(Sweeper)' => v \in doomed(Sweeper)
      BY <2>1, <2>2, Actor DEF IInv, Typed, RemovalType, doomed, removal, target
    <3>5. QED
      BY <1>1, <3>3, <3>4, HarmlessStep DEF IInv, LaunchHarmless, SweepHarmless
  <2>8. OwnLists'
    BY <2>1, <2>2, Actor DEF IInv, OwnLists, Typed, RemovalType
  <2>9. Quiet'
    BY <1>1, <2>1, <2>2, Actor DEF IInv, Quiet, Typed, RemovalType
  <2>10. QED
    BY <2>6, <2>7, <2>8, <2>9 DEF IInv
<1>3. CASE Verify(a)
  <2>1. PICK pc \in {"removed", "failed"} : removing' = [removing EXCEPT ![a].pc = pc]
    BY <1>3 DEF Verify, next
  <2>2. /\ UNCHANGED <<message, post, guest, timer, github, slow, age, todo>>
        /\ removing[a].pc = "verify" /\ faults' \in 0..MaxFaults
    BY <1>3, VmAssumption DEF IInv, Typed, Verify, removal, cloud, Faulting
  <2>3. removing' \in [Actors -> RemovalType]
    BY <2>1 DEF IInv, Typed, RemovalType
  <2>4. Typed'
    BY <1>1, <2>2, <2>3 DEF IInv, Typed
  <2>5. ASSUME NEW v \in Runners PROVE VmInv(v)'
    <3>1. v \in doomed(Sweeper)' => v \in doomed(Sweeper)
      BY <2>1, <2>2, Actor DEF IInv, Typed, RemovalType, doomed, removal, target
    <3>2. QED
      BY <1>1, <2>2, <3>1, HarmlessStep DEF IInv, LaunchHarmless, SweepHarmless, CloudHarmless
  <2>6. \A b \in Actors : /\ removing'[b].vm = removing[b].vm
                          /\ b # a => removing'[b] = removing[b]
    BY <2>1 DEF IInv, Typed, RemovalType
  <2>7. OwnLists'
    BY <2>2, <2>6, Actor DEF IInv, OwnLists
  <2>8. Quiet'
    <3>1. sweep.pc = "idle" => a # Sweeper
      BY <2>2 DEF IInv, Quiet
    <3>2. QED
      BY <1>1, <2>2, <2>6, <3>1, Actor DEF IInv, Quiet
  <2>9. QED
    BY <2>4, <2>5, <2>7, <2>8 DEF IInv
<1>4. CASE RemoveNext(a)
  <2>1. PICK u \in todo[a] :
          /\ removing' = [removing EXCEPT ![a] = [NoRemoval EXCEPT !.pc = "erase", !.vm = u]]
          /\ todo' = [todo EXCEPT ![a] = @ \ {u}]
    BY <1>4 DEF RemoveNext, Removes
  <2>2. UNCHANGED <<message, post, guest, timer, github, slow, age, faults>>
    BY <1>4 DEF RemoveNext, cloud
  <2>3. u \in Vms
    BY <2>1 DEF IInv, Typed
  <2>4. PICK R \in RemovalType : R.pc = "erase" /\ R.vm = u /\ removing' = [removing EXCEPT ![a] = R]
    <3> DEFINE R == [NoRemoval EXCEPT !.pc = "erase", !.vm = u]
    <3>1. R \in RemovalType /\ R.pc = "erase" /\ R.vm = u
      BY <2>3 DEF NoRemoval, RemovalType
    <3>2. removing' = [removing EXCEPT ![a] = R]
      BY <2>1
    <3> HIDE DEF R
    <3>3. QED
      BY <3>1, <3>2
  <2>5. removing' \in [Actors -> RemovalType] /\ todo' \in [Actors -> SUBSET Vms]
    <3>1. removing' \in [Actors -> RemovalType]
      BY <2>4 DEF IInv, Typed
    <3>2. todo' \in [Actors -> SUBSET Vms]
      BY <2>1 DEF IInv, Typed
    <3>3. QED
      BY <3>1, <3>2
  <2>6. Typed'
    BY <1>1, <2>2, <2>5 DEF IInv, Typed
  <2>7. ASSUME NEW v \in Runners PROVE VmInv(v)'
    <3>1. v \in doomed(Sweeper)' => v \in doomed(Sweeper)
      BY <2>1, <2>4, Actor DEF IInv, Typed, doomed, removal, target
    <3>2. QED
      BY <1>1, <2>2, <3>1, HarmlessStep DEF IInv, LaunchHarmless, SweepHarmless, CloudHarmless
  <2>8. OwnLists'
    BY <2>1, <2>4, Actor DEF IInv, OwnLists, Typed
  <2>9. Quiet'
    BY <1>1, <2>1, <2>4, Actor DEF IInv, Quiet, Typed
  <2>10. QED
    BY <2>6, <2>7, <2>8, <2>9 DEF IInv
<1>5. QED
  BY <1>2, <1>3, <1>4 DEF Removal

-----------------------------------------------------------------------------
(* Launchers and tests *)

LEMMA LaunchMoves ==
  ASSUME IInv, NEW u \in Vms, NEW pc \in Labels \ {"idle", "registered"},
         launch' = [launch EXCEPT ![u] = pc], launch[u] # "idle",
         UNCHANGED <<fleet, sweep>>,
         todo'[Sweeper] = todo[Sweeper], removing'[Sweeper] = removing[Sweeper],
         \A v \in Runners : CloudHarmless(v), Typed', OwnLists'
  PROVE  IInv'
<1>1. ASSUME NEW v \in Runners PROVE VmInv(v)'
  <2>1. v \in Vms
    BY DEF Vms
  <2>2. LaunchHarmless(v)
    BY <2>1 DEF IInv, Typed, LaunchHarmless
  <2>3. QED
    BY <2>1, <2>2, HarmlessStep, SameSweep DEF IInv
<1>2. Quiet'
  BY DEF IInv, Quiet
<1>3. QED
  BY <1>1, <1>2 DEF IInv

LEMMA SameCloud ==
  ASSUME UNCHANGED <<message, age, guest, timer, github, slow>>, NEW v \in Runners
  PROVE  CloudHarmless(v)
BY DEF CloudHarmless

LEMMA NoRemovalType == NoRemoval \in RemovalType
BY DEF NoRemoval, RemovalType

(* Steps of a launcher that move its label only.                           *)
LEMMA PlainLaunch ==
  ASSUME IInv, NEW u \in Vms,
         Deployed(u) \/ Online(u) \/ PanelDone(u) \/ Provisioned(u) \/ ProvisionFails(u)
  PROVE  IInv'
<1>1. PICK pc \in {"starting", "failed", "done", "tracked", "lost"} :
        launch' = [launch EXCEPT ![u] = pc]
  BY DEF Deployed, Online, PanelDone, Provisioned, ProvisionFails, looksUp, goes
<1>2. launch[u] \in {"deploying", "injected", "ui"} /\ (pc = "starting" => launch[u] = "deploying")
  <2>1. CASE Deployed(u)
    BY <2>1, <1>1 DEF Deployed, at
  <2>2. CASE Online(u)
    <3>1. launch[u] = "injected" /\ launch' = [launch EXCEPT ![u] = "done"]
      BY <2>2 DEF Online, at, goes
    <3>2. pc = "done"
      BY <1>1, <3>1 DEF IInv, Typed
    <3>3. QED
      BY <3>1, <3>2
  <2>3. CASE PanelDone(u)
    <3>1. launch[u] = "ui" /\ launch' = [launch EXCEPT ![u] = "done"]
      BY <2>3 DEF PanelDone, at, goes
    <3>2. pc = "done"
      BY <1>1, <3>1 DEF IInv, Typed
    <3>3. QED
      BY <3>1, <3>2
  <2>4. CASE Provisioned(u) \/ ProvisionFails(u)
    BY <2>4 DEF Provisioned, ProvisionFails, at
  <2>5. QED
    BY <2>1, <2>2, <2>3, <2>4
<1>3. UNCHANGED <<fleet, sweep, todo, removing, message, age, guest, timer, github, slow>>
  BY DEF Deployed, Online, PanelDone, Provisioned, ProvisionFails, cloud
<1>4. Typed'
  <2>1. launch' \in [Vms -> Labels]
    BY <1>1 DEF IInv, Typed, Labels, Starting, Over
  <2>2. post' \in [Vms -> {None, "owner", "guest"}]
    <3>1. UNCHANGED post \/ registers(u)
      BY DEF Deployed, Online, PanelDone, Provisioned, ProvisionFails, cloud
    <3>2. QED
      BY <3>1 DEF IInv, Typed, registers
  <2>3. known' \subseteq Relays
    BY DEF IInv, Typed, Deployed, Online, PanelDone, Provisioned, ProvisionFails
  <2>4. faults' \in 0..MaxFaults
    <3>1. UNCHANGED faults \/ Faulting
      BY DEF Deployed, Online, PanelDone, Provisioned, ProvisionFails, Faulting
    <3>2. QED
      BY <3>1, VmAssumption DEF IInv, Typed, Faulting
  <2>5. QED
    BY <1>3, <2>1, <2>2, <2>3, <2>4 DEF IInv, Typed
<1>5. OwnLists'
  BY <1>3 DEF IInv, OwnLists
<1>6. QED
  BY <1>1, <1>2, <1>3, <1>4, <1>5, LaunchMoves, SameCloud DEF Labels, Starting, Over

(* Steps that leave the launcher with its own machine to remove, or none.  *)
LEMMA RemovingLaunch ==
  ASSUME IInv, OwnNames, NEW u \in Vms,
         DeployFails(u) \/ StartFails(u) \/ UpEnds(u) \/ CleanUpEnds(u)
            \/ PanelTimesOut(u) \/ Killed(u)
  PROVE  IInv'
<1>1. PICK pc \in {"removing", "failed", "done", "lost"} : launch' = [launch EXCEPT ![u] = pc]
  BY DEF DeployFails, StartFails, UpEnds, CleanUpEnds, PanelTimesOut, FallBack, Killed, goes
<1>2. launch[u] # "idle"
  BY DEF DeployFails, StartFails, UpEnds, CleanUpEnds, PanelTimesOut, Killed, at, Starting, Over
<1>3. UNCHANGED <<fleet, known, sweep, message, post, age, guest, timer, github, slow>>
  BY DEF DeployFails, StartFails, UpEnds, CleanUpEnds, PanelTimesOut, Killed, cloud
<1>4. UNCHANGED todo \/ \E vs : vs \subseteq {u} /\ todo' = [todo EXCEPT ![u] = vs]
  <2>1. CASE DeployFails(u)
    <3>1. strays(u) \subseteq {u}
      BY <2>1 DEF DeployFails, strays, OwnNames
    <3>2. QED
      BY <2>1, <3>1 DEF DeployFails
  <2>2. CASE StartFails(u)
    BY <2>2 DEF StartFails
  <2>3. CASE Killed(u)
    BY <2>3 DEF Killed
  <2>4. CASE UpEnds(u) \/ CleanUpEnds(u) \/ PanelTimesOut(u)
    BY <2>4 DEF UpEnds, CleanUpEnds, PanelTimesOut
  <2>5. QED
    BY <2>1, <2>2, <2>3, <2>4
<1>5. UNCHANGED removing \/ \E R \in RemovalType :
        R.vm \in {u, None} /\ removing' = [removing EXCEPT ![u] = R]
  <2>1. CASE PanelTimesOut(u)
    BY <2>1 DEF PanelTimesOut, FallBack, RemovalType, alongWith, owned
  <2>2. CASE UpEnds(u) \/ CleanUpEnds(u) \/ Killed(u)
    <3>1. NoRemoval \in RemovalType /\ NoRemoval.vm = None
      BY NoRemovalType DEF NoRemoval
    <3>2. removing' = [removing EXCEPT ![u] = NoRemoval]
      BY <2>2 DEF UpEnds, CleanUpEnds, Killed
    <3>3. QED
      BY <3>1, <3>2
  <2>3. CASE DeployFails(u) \/ StartFails(u)
    BY <2>3 DEF DeployFails, StartFails
  <2>4. QED
    BY <2>1, <2>2, <2>3
<1>6. faults' \in 0..MaxFaults
  BY VmAssumption DEF IInv, Typed, DeployFails, StartFails, UpEnds, CleanUpEnds, PanelTimesOut,
     FallBack, Killed, Faulting
<1>7. /\ todo' \in [Actors -> SUBSET Vms] /\ todo'[Sweeper] = todo[Sweeper]
      /\ \A w \in Vms : todo'[w] \subseteq {w}
  BY <1>4, Actor DEF IInv, Typed, OwnLists
<1>8. /\ removing' \in [Actors -> RemovalType] /\ removing'[Sweeper] = removing[Sweeper]
      /\ \A w \in Vms : removing'[w].vm \in {w, None}
  BY <1>5, Actor DEF IInv, Typed, OwnLists
<1>9. Typed'
  <2>1. launch' \in [Vms -> Labels]
    BY <1>1 DEF IInv, Typed, Labels, Over
  <2>2. QED
    BY <1>3, <1>6, <1>7, <1>8, <2>1 DEF IInv, Typed
<1>10. OwnLists'
  BY <1>7, <1>8 DEF OwnLists
<1>11. pc \in Labels \ {"idle", "registered"} /\ pc \notin Starting
  BY DEF Labels, Starting, Over
<1>12. QED
  BY <1>1, <1>2, <1>3, <1>7, <1>8, <1>9, <1>10, <1>11, LaunchMoves, SameCloud

LEMMA CleanUpStep ==
  ASSUME IInv, NEW u \in Vms, CleanUp(u)
  PROVE  IInv'
<1>1. launch[u] = "tracked" /\ UNCHANGED <<fleet, known, todo, sweep>>
  BY DEF CleanUp, at
<1>2. PICK pc \in {"ui", "removing"} : launch' = [launch EXCEPT ![u] = pc]
  BY DEF CleanUp, FallBack, goes
<1>3. UNCHANGED removing \/ \E R \in RemovalType :
        R.vm = u /\ removing' = [removing EXCEPT ![u] = R]
  BY DEF CleanUp, FallBack, RemovalType, alongWith, owned
<1>4. /\ removing' \in [Actors -> RemovalType] /\ removing'[Sweeper] = removing[Sweeper]
      /\ \A w \in Vms : removing'[w].vm \in {w, None}
  BY <1>3, Actor DEF IInv, Typed, OwnLists
<1>5. \/ panelForgets(u)
      \/ UNCHANGED <<message, post, guest, timer, github, slow, age>>
  BY DEF CleanUp, cloud
<1>6. Typed'
  <2>1. launch' \in [Vms -> Labels] /\ faults' \in 0..MaxFaults
    BY <1>2, VmAssumption DEF IInv, Typed, Labels, CleanUp, FallBack, Faulting
  <2>2. /\ message' \in [Vms -> {"none", "stored", "forgotten", "gone"}]
        /\ post' \in [Vms -> {None, "owner", "guest"}]
        /\ age' \in [Vms -> 0..MaxAge]
    BY <1>5, VmAssumption DEF IInv, Typed, panelForgets, forgets, MaxAge
  <2>3. /\ guest' \in [Vms -> {"none", "boot", "job", "finish", "off"}]
        /\ github' \in [Vms -> {"none"} \cup Listed]
        /\ timer' \in [Vms -> 0..Ttl] /\ slow' \subseteq Vms
    BY <1>5, VmAssumption DEF IInv, Typed, panelForgets, stopped, Listed
  <2>4. QED
    BY <1>1, <1>4, <2>1, <2>2, <2>3 DEF IInv, Typed
<1>7. ASSUME NEW v \in Runners PROVE CloudHarmless(v)
  <2>1. CASE panelForgets(u)
    <3>0. v \in Vms
      BY DEF Vms
    <3>1. /\ \/ message'[v] = message[v]
             \/ message[v] = "stored" /\ message'[v] = "forgotten"
          /\ age'[v] = age[v] \/ (age'[v] = 0 /\ message'[v] # "stored")
      BY <2>1, <3>0 DEF IInv, Typed, panelForgets, forgets
    <3>2. /\ \/ guest'[v] = guest[v] /\ timer'[v] = timer[v] /\ (v \in slow' <=> v \in slow)
             \/ guest'[v] = "off"
          /\ \/ github'[v] = github[v]
             \/ github[v] = "online" /\ github'[v] = "offline"
      BY <2>1, <3>0 DEF IInv, Typed, panelForgets, stopped
    <3>3. QED
      BY <3>1, <3>2 DEF CloudHarmless, Ending, Listed
  <2>2. QED
    BY <1>5, <2>1, SameCloud
<1>8. OwnLists'
  BY <1>1, <1>4 DEF IInv, OwnLists
<1>9. QED
  BY <1>1, <1>2, <1>4, <1>6, <1>7, <1>8, LaunchMoves DEF Labels, Starting, Over

LEMMA DeployStep ==
  ASSUME IInv, NEW u \in Vms, Deploy(u)
  PROVE  IInv'
<1>1. /\ u \in fleet /\ launch[u] = "idle"
      /\ message' = [message EXCEPT ![u] = "stored"]
      /\ launch' = [launch EXCEPT ![u] = "deploying"]
      /\ UNCHANGED <<fleet, slow, known, post, age, timer, guest, github, removing, todo, sweep, faults>>
  BY DEF Deploy, at, goes
<1>2. Typed'
  BY <1>1 DEF IInv, Typed, Labels, Starting
<1>3. ASSUME NEW v \in Runners PROVE VmInv(v)'
  <2>0. v \in Vms
    BY DEF Vms
  <2>1. SweepHarmless(v)
    BY <1>1, <2>0, SameSweep
  <2>2. CASE v # u
    <3>1. message'[v] = message[v] /\ launch'[v] = launch[v]
      BY <1>1, <2>0, <2>2 DEF IInv, Typed
    <3>2. QED
      BY <1>1, <2>1, <3>1, HarmlessStep DEF IInv, CloudHarmless, LaunchHarmless
  <2>3. CASE v = u
    <3>1. message'[v] = "stored" /\ launch'[v] = "deploying"
      BY <1>1, <2>0, <2>3 DEF IInv, Typed
    <3>2. VmInv(v) /\ age[v] = 0 /\ guest[v] # "job"
      BY <1>1, <2>3 DEF IInv, VmInv, Unborn
    <3>3. Spared(v)' /\ Unlisted(v)'
      BY <1>1, <2>1, <2>3, <3>2 DEF VmInv, Spared, Unlisted, Due, SweepHarmless
    <3>4. QED
      BY <1>1, <2>3, <3>1, <3>2, <3>3, VmAssumption
         DEF VmInv, InTime, OnGitHub, Unborn, Booted, InFleet, stored
  <2>4. QED
    BY <2>2, <2>3
<1>4. OwnLists' /\ Quiet'
  BY <1>1 DEF IInv, OwnLists, Quiet
<1>5. QED
  BY <1>2, <1>3, <1>4 DEF IInv

LEMMA RegisterStep ==
  ASSUME IInv, NEW u \in Vms, Register(u)
  PROVE  IInv'
<1>1. /\ launch[u] = "starting" /\ guest[u] = "boot"
      /\ github' = [github EXCEPT ![u] = "offline"]
      /\ launch' = [launch EXCEPT ![u] = "registered"]
      /\ UNCHANGED <<fleet, slow, known, message, post, age, timer, guest, removing, todo, sweep, faults>>
  BY DEF Register, at, goes, answers
<1>2. Typed'
  BY <1>1 DEF IInv, Typed, Labels, Starting, Listed
<1>3. ASSUME NEW v \in Runners PROVE VmInv(v)'
  <2>0. v \in Vms
    BY DEF Vms
  <2>1. SweepHarmless(v)
    BY <1>1, <2>0, SameSweep
  <2>2. CASE v # u
    <3>1. github'[v] = github[v] /\ launch'[v] = launch[v]
      BY <1>1, <2>0, <2>2 DEF IInv, Typed
    <3>2. QED
      BY <1>1, <2>1, <3>1, HarmlessStep DEF IInv, CloudHarmless, LaunchHarmless
  <2>3. CASE v = u
    <3>1. github'[v] = "offline" /\ launch'[v] = "registered"
      BY <1>1, <2>0, <2>3 DEF IInv, Typed
    <3>2. VmInv(v) /\ launch[v] \in Starting
      BY <1>1, <2>3 DEF IInv, Starting
    <3>3. Spared(v)' /\ Unlisted(v)'
      BY <1>1, <2>1, <3>1, <3>2 DEF VmInv, Spared, Unlisted, Due, SweepHarmless, stored
    <3>4. QED
      BY <1>1, <2>3, <3>1, <3>2, <3>3
         DEF VmInv, InTime, OnGitHub, Unborn, Booted, InFleet, stored, Listed
  <2>4. QED
    BY <2>2, <2>3
<1>4. OwnLists' /\ Quiet'
  BY <1>1 DEF IInv, OwnLists, Quiet
<1>5. QED
  BY <1>2, <1>3, <1>4 DEF IInv

LEMMA InjectStep ==
  ASSUME IInv, NEW u \in Vms, Inject(u)
  PROVE  IInv'
<1>1. /\ launch[u] = "registered" /\ guest[u] = "boot"
      /\ guest' = [guest EXCEPT ![u] = "job"]
      /\ timer' = [timer EXCEPT ![u] = Ttl]
      /\ launch' = [launch EXCEPT ![u] = "injected"]
      /\ slow' = IF stored(u) /\ age[u] <= Grace THEN slow ELSE slow \cup {u}
      /\ UNCHANGED <<fleet, known, message, post, age, github, removing, todo, sweep, faults>>
  BY DEF Inject, at, goes, answers
<1>2. Typed'
  <2>1. Ttl \in 0..Ttl
    BY VmAssumption
  <2>2. slow' \subseteq Vms
    BY <1>1 DEF IInv, Typed
  <2>3. QED
    BY <1>1, <2>1, <2>2 DEF IInv, Typed, Labels, Starting
<1>3. ASSUME NEW v \in Runners PROVE VmInv(v)'
  <2>0. v \in Vms
    BY DEF Vms
  <2>1. SweepHarmless(v)
    BY <1>1, <2>0, SameSweep
  <2>2. CASE v # u
    <3>1. guest'[v] = guest[v] /\ timer'[v] = timer[v] /\ launch'[v] = launch[v]
      BY <1>1, <2>0, <2>2 DEF IInv, Typed
    <3>2. v \in slow' <=> v \in slow
      BY <1>1, <2>2
    <3>3. CloudHarmless(v) /\ LaunchHarmless(v)
      BY <1>1, <3>1, <3>2 DEF CloudHarmless, LaunchHarmless
    <3>4. QED
      BY <1>1, <2>1, <3>3, HarmlessStep DEF IInv
  <2>3. CASE v = u
    <3>1. guest'[v] = "job" /\ timer'[v] = Ttl /\ launch'[v] = "injected"
      BY <1>1, <2>0, <2>3 DEF IInv, Typed
    <3>2. VmInv(v) /\ launch[v] \in Starting
      BY <1>1, <2>3 DEF IInv, Starting
    <3>3. age[v] \in Nat
      BY <2>0, VmAssumption DEF IInv, Typed, MaxAge
    <3>4. Spared(v)' /\ Unlisted(v)'
      <4>1. ASSUME Due(v) PROVE Due(v)'
        BY <1>1, <2>3, <3>1, <3>3, <4>1, VmAssumption DEF Due, stored
      <4>2. QED
        BY <1>1, <2>1, <3>1, <3>2, <4>1 DEF VmInv, Spared, Unlisted, SweepHarmless, stored
    <3>5. InTime(v)'
      BY <1>1, <2>3, <3>1, <3>3, VmAssumption DEF InTime, stored
    <3>6. OnGitHub(v)'
      BY <1>1, <2>3, <3>1, <3>2 DEF VmInv, OnGitHub, stored
    <3>7. Unborn(v)' /\ Booted(v)' /\ InFleet(v)'
      BY <1>1, <3>1, <3>2 DEF VmInv, Unborn, Booted, InFleet, stored
    <3>8. QED
      BY <3>4, <3>5, <3>6, <3>7 DEF VmInv
  <2>4. QED
    BY <2>2, <2>3
<1>4. OwnLists' /\ Quiet'
  BY <1>1 DEF IInv, OwnLists, Quiet
<1>5. QED
  BY <1>2, <1>3, <1>4 DEF IInv

-----------------------------------------------------------------------------
(* Sweeps and time *)

LEMMA DoomedByTodo ==
  ASSUME NEW v \in Vms, IInv, sweep.pc = "idle", UNCHANGED removing
  PROVE  v \in doomed(Sweeper)' => v \in todo'[Sweeper]
BY DEF IInv, Quiet, doomed, removal

(* A sweep by hand, or of relays, begins.                                  *)
LEMMA DownStep ==
  ASSUME IInv, Down \/ SweepRelays
  PROVE  IInv'
<1>1. PICK vs \in SUBSET Vms : StartSweep(None, vs, {})
  <2>1. instances \subseteq Vms /\ selectExpired \subseteq Vms
    BY DEF IInv, Typed, instances, selectExpired, Vms
  <2>2. QED
    BY <2>1 DEF Down, SweepRelays
<1>2. /\ sweep' = [pc |-> "removing", by |-> None, offline |-> {}]
      /\ todo' = [todo EXCEPT ![Sweeper] = vs]
      /\ UNCHANGED <<fleet, known, message, post, guest, timer, github, slow, age, launch, removing, faults>>
  BY <1>1 DEF StartSweep, cloud
<1>3. Typed'
  BY <1>2 DEF IInv, Typed
<1>4. ASSUME NEW v \in Runners PROVE VmInv(v)'
  BY <1>2, HarmlessStep DEF IInv, CloudHarmless, LaunchHarmless, SweepHarmless
<1>5. OwnLists' /\ Quiet'
  BY <1>2, Actor DEF IInv, Typed, OwnLists, Quiet
<1>6. QED
  BY <1>3, <1>4, <1>5 DEF IInv

(* The janitor of a repository begins: what it finds is due.               *)
LEMMA JanitorStep ==
  ASSUME IInv, OwnPrefixes, NEW r \in Repos, Janitor(r)
  PROVE  IInv'
<1> DEFINE listed == {v \in Runners : repo[v] = r /\ github[v] \in Listed}
           swept == selectSweepableRunners(listed, r)
           offline == {v \in listed : github[v] = "offline"} \ (instances \ swept)
<1>1. /\ fleet = Runners /\ sweep.pc = "idle"
      /\ sweep' = [pc |-> "removing", by |-> r, offline |-> offline]
      /\ todo' = [todo EXCEPT ![Sweeper] = swept]
      /\ UNCHANGED <<fleet, known, message, post, guest, timer, github, slow, age, launch, removing, faults>>
  BY DEF Janitor, StartSweep, cloud
<1>2. /\ swept \subseteq instances
      /\ \A v \in swept : v \in prefixed[r] /\
            (age[v] > Ttl + Grace \/ (age[v] > Grace /\ v \notin listed))
  BY DEF selectSweepableRunners
<1>3. instances = {v \in Runners : stored(v)}
  BY <1>1 DEF instances
<1> HIDE DEF swept
<1>4. swept \subseteq Vms /\ offline \subseteq Vms
  BY <1>2, <1>3 DEF Vms
<1>5. Typed'
  BY <1>1, <1>4, Actor DEF IInv, Typed
<1>6. ASSUME NEW v \in Runners, v \in swept PROVE Due(v)
  <2>1. stored(v) /\ VmInv(v) /\ repo[v] = r /\ v \in Vms
    BY <1>2, <1>3, <1>6 DEF IInv, OwnPrefixes, Vms
  <2>2. age[v] \in Nat /\ timer[v] \in Nat
    BY <2>1, VmAssumption DEF IInv, Typed, MaxAge
  <2>3. age[v] > Grace
    BY <1>2, <1>6, <2>2, VmAssumption
  <2>4. launch[v] # "idle"
    BY <2>1 DEF VmInv, Unborn, stored
  <2>5. ASSUME guest[v] = "job", v \notin slow PROVE FALSE
    <3>1. v \in listed
      BY <2>1, <2>5 DEF VmInv, OnGitHub
    <3>2. age[v] > Ttl + Grace
      BY <1>2, <1>6, <3>1
    <3>3. age[v] + timer[v] <= Grace + Ttl
      BY <2>1, <2>5 DEF VmInv, InTime
    <3>4. QED
      BY <2>2, <3>2, <3>3, VmAssumption
  <2>6. QED
    BY <2>3, <2>4, <2>5 DEF Due
<1>7. ASSUME NEW v \in Runners, v \in offline PROVE launch[v] # "idle" /\ (stored(v) => Due(v))
  <2>1. github[v] \in Listed /\ VmInv(v)
    BY <1>7 DEF IInv, Listed
  <2>2. launch[v] # "idle"
    BY <2>1 DEF VmInv, Unborn
  <2>3. stored(v) => v \in swept
    BY <1>3, <1>7
  <2>4. QED
    BY <1>6, <2>2, <2>3
<1>8. ASSUME NEW v \in Runners PROVE VmInv(v)'
  <2>1. todo'[Sweeper] = swept
    BY <1>1, Actor DEF IInv, Typed
  <2>2. v \in doomed(Sweeper)' => v \in swept
    BY <1>1, <2>1 DEF IInv, Quiet, doomed, removal
  <2>3. Due(v)' = Due(v)
    BY <1>1 DEF Due, stored
  <2>4. Spared(v)'
    BY <1>6, <2>2, <2>3 DEF Spared
  <2>5. Unlisted(v)'
    BY <1>1, <1>7, <2>3 DEF Unlisted, stored
  <2>6. QED
    BY <1>1, <2>4, <2>5 DEF IInv, VmInv, InTime, OnGitHub, Unborn, Booted, InFleet, stored
<1>9. OwnLists' /\ Quiet'
  BY <1>1, Actor DEF IInv, Typed, OwnLists, Quiet
<1>10. QED
  BY <1>5, <1>8, <1>9 DEF IInv

LEMMA SweepEndsStep ==
  ASSUME IInv, SweepEnds \/ SweepFails
  PROVE  IInv'
<1>1. /\ UNCHANGED <<fleet, slow, known, message, post, age, timer, guest, launch>>
      /\ sweep' = NoSweep
      /\ removing' = [removing EXCEPT ![Sweeper] = NoRemoval]
  BY DEF SweepEnds, SweepFails, cloud
<1>2. todo' \in [Actors -> SUBSET Vms] /\ todo'[Sweeper] = {} /\ \A w \in Vms : todo'[w] = todo[w]
  BY Actor DEF IInv, Typed, SweepEnds, SweepFails, listDone
<1>3. removing' \in [Actors -> RemovalType] /\ removing'[Sweeper].pc = "none"
      /\ \A w \in Vms : removing'[w] = removing[w]
  <2>1. NoRemoval.pc = "none"
    BY DEF NoRemoval
  <2>2. QED
    BY <1>1, <2>1, Actor, NoRemovalType DEF IInv, Typed
<1>4. github' \in [Vms -> {"none"} \cup Listed] /\ faults' \in 0..MaxFaults
  BY VmAssumption DEF IInv, Typed, SweepEnds, SweepFails, cloud, Faulting
<1>5. Typed'
  BY <1>1, <1>2, <1>3, <1>4 DEF IInv, Typed, NoSweep
<1>6. ASSUME NEW v \in Runners PROVE VmInv(v)'
  <2>0. v \in Vms
    BY DEF Vms
  <2>1. github'[v] = github[v] \/ (github'[v] = "none" /\ v \in sweep.offline)
    BY <2>0 DEF IInv, Typed, SweepEnds, SweepFails, cloud
  <2>2. Spared(v)' /\ Unlisted(v)'
    BY <1>1 DEF Spared, Unlisted, NoSweep
  <2>3. VmInv(v)
    BY DEF IInv
  <2>4. OnGitHub(v)'
    <3>1. age[v] \in Nat
      BY <2>0, VmAssumption DEF IInv, Typed, MaxAge
    <3>2. QED
      BY <1>1, <2>1, <2>3, <3>1, VmAssumption DEF VmInv, OnGitHub, Unlisted, Due, stored
  <2>5. Unborn(v)'
    BY <1>1, <2>1, <2>3 DEF VmInv, Unborn, Listed
  <2>6. QED
    BY <1>1, <2>2, <2>3, <2>4, <2>5 DEF VmInv, InTime, Booted, InFleet, stored
<1>7. OwnLists' /\ Quiet'
  BY <1>2, <1>3 DEF IInv, OwnLists, Quiet
<1>8. QED
  BY <1>5, <1>6, <1>7 DEF IInv

LEMMA TickStep ==
  ASSUME IInv, Tick
  PROVE  IInv'
<1>1. /\ UNCHANGED <<fleet, slow, known, message, post, guest, github, launch, removing, todo, sweep, faults>>
      /\ age' = [v \in Vms |-> IF stored(v) /\ age[v] < MaxAge THEN age[v] + 1 ELSE age[v]]
      /\ timer' = [v \in Vms |-> IF guest[v] \in {"boot", "job"} /\ timer[v] > 0 THEN timer[v] - 1 ELSE timer[v]]
  BY DEF Tick
<1>2. MaxAge \in Nat
  BY VmAssumption DEF MaxAge
<1>3. age' \in [Vms -> 0..MaxAge]
  <2>1. \A v \in Vms : (IF stored(v) /\ age[v] < MaxAge THEN age[v] + 1 ELSE age[v]) \in 0..MaxAge
    BY <1>2 DEF IInv, Typed
  <2>2. QED
    BY <1>1, <2>1
<1>4. timer' \in [Vms -> 0..Ttl]
  <2>1. \A v \in Vms : (IF guest[v] \in {"boot", "job"} /\ timer[v] > 0 THEN timer[v] - 1 ELSE timer[v]) \in 0..Ttl
    BY VmAssumption DEF IInv, Typed
  <2>2. QED
    BY <1>1, <2>1
<1>5. Typed'
  BY <1>1, <1>3, <1>4 DEF IInv, Typed
<1>6. ASSUME NEW v \in Runners PROVE VmInv(v)'
  <2>0. v \in Vms /\ VmInv(v)
    BY DEF IInv, Vms
  <2>1. age[v] \in Nat /\ timer[v] \in Nat
    BY <2>0, <1>2, VmAssumption DEF IInv, Typed
  <2>2. age'[v] = IF stored(v) /\ age[v] < MaxAge THEN age[v] + 1 ELSE age[v]
    BY <1>1, <2>0
  <2>3. guest[v] = "job" => timer[v] > 0 /\ timer'[v] = timer[v] - 1
    BY <1>1, <2>0 DEF Tick
  <2>5. InTime(v)'
    <3>1. stored(v) /\ guest[v] = "job" /\ v \notin slow => age[v] + timer[v] <= Grace + Ttl
      BY <2>0 DEF VmInv, InTime
    <3>2. stored(v) /\ guest[v] = "job" => age'[v] + timer'[v] <= age[v] + timer[v]
      BY <1>2, <2>1, <2>2, <2>3
    <3>3. age'[v] \in Nat /\ timer'[v] \in Nat
      BY <1>3, <1>4, <1>2, <2>0, VmAssumption
    <3>4. QED
      BY <1>1, <2>1, <3>1, <3>2, <3>3, VmAssumption DEF InTime, stored
  <2>6. Unborn(v)'
    BY <1>1, <2>0, <2>2 DEF VmInv, Unborn, stored
  <2>7. SweepHarmless(v)
    BY <1>1, <2>0, SameSweep
  <2>8. Due(v) => Due(v)'
    BY <1>1, <2>1, <2>2, VmAssumption DEF Due, stored
  <2>9. Spared(v)' /\ Unlisted(v)'
    BY <1>1, <2>0, <2>7, <2>8 DEF VmInv, Spared, Unlisted, SweepHarmless, stored
  <2>10. OnGitHub(v)' /\ Booted(v)' /\ InFleet(v)'
    BY <1>1, <2>0, <2>1, <2>2, VmAssumption DEF VmInv, OnGitHub, Booted, InFleet, stored
  <2>11. QED
    BY <2>5, <2>6, <2>9, <2>10 DEF VmInv
<1>7. OwnLists' /\ Quiet'
  BY <1>1 DEF IInv, OwnLists, Quiet
<1>8. QED
  BY <1>5, <1>6, <1>7 DEF IInv

-----------------------------------------------------------------------------
(* The inductive invariant is an invariant.                                *)
THEOREM Invariance == ASSUME OwnNames, OwnPrefixes PROVE Spec => []IInv
<1>1. Init => IInv
  <2> SUFFICES ASSUME Init PROVE IInv
    OBVIOUS
  <2>1. Typed
    BY VmAssumption, NoRemovalType DEF Init, Typed, Labels, Over, NoSweep, MaxAge
  <2>2. \A v \in Runners : VmInv(v)
    <3>1. ASSUME NEW v \in Runners PROVE VmInv(v)
      <4>1. /\ message[v] = "none" /\ age[v] = 0 /\ guest[v] = "none"
            /\ github[v] = "none" /\ launch[v] = "idle"
        BY DEF Init, Vms
      <4>2. sweep.by = None /\ sweep.offline = {}
        BY DEF Init, NoSweep
      <4>3. QED
        BY <4>1, <4>2 DEF VmInv, InTime, OnGitHub, Unborn, Booted, InFleet, Spared,
           Unlisted, stored, Listed
    <3>2. QED
      BY <3>1
  <2>3. OwnLists /\ Quiet
    BY Actor DEF Init, OwnLists, Quiet, NoRemoval
  <2>4. QED
    BY <2>1, <2>2, <2>3 DEF IInv
<1>2. ASSUME IInv, [Next]_vars PROVE IInv'
  <2>1. CASE UNCHANGED vars
    BY <1>2, <2>1 DEF vars, IInv, Typed, VmInv, InTime, OnGitHub, Unborn, Booted, InFleet,
       Spared, Unlisted, Due, stored, doomed, removal, target, OwnLists, Quiet
  <2>2. ASSUME NEW v \in Vms, World(v) \/ Connects(v) \/ JobEnds(v) PROVE IInv'
    BY <1>2, <2>2, WorldStep, BootStep DEF World
  <2>3. ASSUME NEW v \in Vms, Deploy(v) PROVE IInv'
    BY <1>2, <2>3, DeployStep
  <2>4. ASSUME NEW v \in Vms, Launcher(v) \/ Killed(v) PROVE IInv'
    BY <1>2, <2>4, PlainLaunch, RemovingLaunch, RegisterStep, InjectStep, CleanUpStep DEF Launcher
  <2>5. ASSUME NEW a \in Actors, Removal(a) PROVE IInv'
    BY <1>2, <2>5, RemovalStep
  <2>6. CASE Down \/ SweepRelays
    BY <1>2, <2>6, DownStep
  <2>7. CASE Sweeping
    BY <1>2, <2>7, SweepEndsStep DEF Sweeping
  <2>8. CASE Tick
    BY <1>2, <2>8, TickStep
  <2>9. ASSUME NEW r \in Repos, Janitor(r) PROVE IInv'
    BY <1>2, <2>9, JanitorStep
  <2>10. QED
    BY <1>2, <2>1, <2>2, <2>3, <2>4, <2>5, <2>6, <2>7, <2>8, <2>9 DEF Next
<1>3. QED
  BY <1>1, <1>2, PTL DEF Spec

(* A runner that was configured within its grace is on no janitor's list   *)
(* while it has its job, and on no list of another launcher at any time    *)
(* (selectSweepableRunners, removeVmsNamed), however long launchers wait.  *)
THEOREM JobsSpared == ASSUME OwnNames, OwnPrefixes PROVE Spec => []JobsAreNotSwept
<1>1. IInv => JobsAreNotSwept
  <2> SUFFICES ASSUME IInv, NEW v \in Runners \ slow, guest[v] = "job"
               PROVE  /\ sweep.by # None => v \notin doomed(Sweeper)
                      /\ \A w \in Runners \ {v} : v \notin doomed(w)
    BY DEF JobsAreNotSwept
  <2>1. sweep.by # None => v \notin doomed(Sweeper)
    BY DEF IInv, VmInv, Spared, Due
  <2>2. ASSUME NEW w \in Runners \ {v} PROVE v \notin doomed(w)
    <3>1. w \in Vms /\ v \in Vms /\ v # w
      BY DEF Vms
    <3>2. todo[w] \subseteq {w} /\ removing[w].vm \in {w, None}
      BY <3>1 DEF IInv, OwnLists
    <3>3. QED
      BY <3>1, <3>2, Actor DEF doomed, target
  <2>3. QED
    BY <2>1, <2>2
<1>2. QED
  BY <1>1, Invariance, PTL

(* The variables keep their types.                                         *)
THEOREM TypeCorrect == ASSUME OwnNames, OwnPrefixes PROVE Spec => []TypeOK
<1>1. IInv => TypeOK
  BY DEF IInv, Typed, TypeOK, RemovalType
<1>2. QED
  BY <1>1, Invariance, PTL
-----------------------------------------------------------------------------
(* The clean-up of relays                                                  *)
RelayLabels == {"idle", "deploying", "tracked", "ui", "removing", "done", "failed", "lost"}

Shaped ==
    /\ message \in [Vms -> {"none", "stored", "forgotten", "gone"}]
    /\ post \in [Vms -> {None, "owner", "guest"}]
    /\ launch \in [Vms -> Labels]
    /\ removing \in [Actors -> RemovalType] /\ todo \in [Actors -> SUBSET Vms]
    /\ faults \in Nat

(* Nobody but the clean-up of a relay forgets a registration, and only its *)
(* own.                                                                    *)
OnlyOwnPost ==
    /\ \A v \in Relays : /\ todo[v] = {} /\ launch[v] \in RelayLabels
                         /\ removing[v].pc # "none" => removing[v].vm = v /\ launch[v] = "removing"
    /\ \A a \in Actors \ Relays : ~removing[a].all
    /\ \A v \in Vms : launch[v] \in {"tracked", "ui"} => v \in Relays

Cleaned(v) == message[v] = "gone" /\ (v \in known => post[v] # "owner")

(* What a clean-up has decided about the registration stays true while it  *)
(* is under way.                                                           *)
Decided(v) ==
    LET r == removing[v]
    IN  /\ r.pc # "failed" /\ r.all = r.own
        /\ r.own => post[v] = IF r.pc = "erase" THEN "owner" ELSE None
        /\ ~r.own /\ v \in known => post[v] # "owner"
        /\ r.pc = "removed" => message[v] = "gone"

Tidy(v) ==
    faults = 0 =>
        /\ launch[v] # "failed"
        /\ launch[v] = "done" => Cleaned(v)
        /\ removing[v].pc # "none" => Decided(v)

CInv == Shaped /\ OnlyOwnPost /\ \A v \in Relays : Tidy(v)

LEMMA Untouched ==
  ASSUME NEW v \in Relays, Tidy(v), faults' = 0 => faults = 0,
         launch'[v] = launch[v], removing'[v] = removing[v], post'[v] = post[v],
         known' = known, message[v] = "gone" => message'[v] = "gone"
  PROVE  Tidy(v)'
BY DEF Tidy, Decided, Cleaned

LEMMA RelayIsVm == \A v \in Relays : v \in Vms /\ v \in Actors /\ v # Sweeper /\ v \notin Runners
BY VmAssumption DEF Vms, Actors

(* The world, and what runners do to their own machines and to GitHub.     *)
LEMMA ElsewhereStep ==
  ASSUME CInv, NEW u \in Vms,
         \/ World(u) \/ Connects(u) \/ JobEnds(u) \/ Deployed(u) \/ Register(u) \/ Inject(u)
         \/ DeployFails(u) \/ StartFails(u) \/ Online(u) \/ UpEnds(u)
  PROVE  CInv'
<1>1. /\ UNCHANGED <<post, known>>
      /\ faults' \in Nat /\ (faults' = 0 => faults = 0)
  BY DEF CInv, Shaped, World, Boot, Deallocate, TtlExpires, Finish, Connects, JobEnds, Deployed,
     Register, Inject, DeployFails, StartFails, Online, UpEnds, cloud, Faulting
<1>2. /\ message' \in [Vms -> {"none", "stored", "forgotten", "gone"}]
      /\ \A v \in Vms : message[v] = "gone" => message'[v] = "gone"
  BY DEF CInv, Shaped, World, Boot, Deallocate, TtlExpires, Finish, Connects, JobEnds, Deployed,
     Register, Inject, DeployFails, StartFails, Online, UpEnds, cloud, forgets
<1>3. \/ launch' = launch /\ UNCHANGED <<removing, todo>>
      \/ /\ u \notin Relays
         /\ \E pc \in Labels \ {"tracked", "ui"} : launch' = [launch EXCEPT ![u] = pc]
         /\ removing' = removing \/ removing' = [removing EXCEPT ![u] = NoRemoval]
         /\ todo' = todo \/ \E vs \in SUBSET Vms : todo' = [todo EXCEPT ![u] = vs]
  <2>1. CASE World(u) \/ Connects(u) \/ JobEnds(u)
    BY <2>1 DEF World, Boot, Deallocate, TtlExpires, Finish, Connects, JobEnds
  <2>2. CASE Deployed(u)
    BY <2>2, RelayIsVm DEF Deployed, goes, Labels, Starting, Over
  <2>3. CASE Register(u) \/ Inject(u) \/ Online(u)
    <3>1. launch[u] \notin RelayLabels
      BY <2>3 DEF Register, Inject, Online, at, RelayLabels
    <3>2. u \notin Relays
      BY <3>1 DEF CInv, OnlyOwnPost
    <3>3. QED
      BY <2>3, <3>2 DEF Register, Inject, Online, goes, Labels, Starting, Over
  <2>4. CASE DeployFails(u)
    <3>1. strays(u) \in SUBSET Vms
      BY DEF strays, Vms
    <3>2. QED
      BY <2>4, <3>1, RelayIsVm DEF DeployFails, goes, Labels
  <2>5. CASE StartFails(u)
    <3>1. u \notin Relays
      BY <2>5 DEF StartFails, CInv, OnlyOwnPost, Starting, RelayLabels
    <3>2. {u} \in SUBSET Vms
      OBVIOUS
    <3>3. QED
      BY <2>5, <3>1, <3>2 DEF StartFails, goes, Labels
  <2>6. CASE UpEnds(u)
    BY <2>6, RelayIsVm DEF UpEnds, goes, Labels, Over
  <2>7. QED
    BY <2>1, <2>2, <2>3, <2>4, <2>5, <2>6
<1>4. Shaped'
  <2>1. launch' \in [Vms -> Labels]
    BY <1>3 DEF CInv, Shaped
  <2>2. removing' \in [Actors -> RemovalType]
    BY <1>3, NoRemovalType DEF CInv, Shaped
  <2>3. todo' \in [Actors -> SUBSET Vms]
    BY <1>3 DEF CInv, Shaped
  <2>4. QED
    BY <1>1, <1>2, <2>1, <2>2, <2>3 DEF CInv, Shaped
<1>5. \A v \in Relays : /\ launch'[v] = launch[v] /\ removing'[v] = removing[v]
                        /\ todo'[v] = todo[v]
  BY <1>3, RelayIsVm DEF CInv, Shaped
<1>6. \A a \in Actors : removing'[a] = removing[a] \/ ~removing'[a].all
  <2>1. ~NoRemoval.all
    BY DEF NoRemoval
  <2>2. QED
    BY <1>3, <2>1 DEF CInv, Shaped
<1>7. OnlyOwnPost'
  <2>1. \A v \in Vms : launch'[v] \in {"tracked", "ui"} => launch'[v] = launch[v]
    BY <1>3 DEF CInv, Shaped
  <2>2. QED
    BY <1>5, <1>6, <2>1 DEF CInv, OnlyOwnPost
<1>8. \A v \in Relays : Tidy(v)'
  BY <1>1, <1>2, <1>5, RelayIsVm, Untouched DEF CInv
<1>9. QED
  BY <1>4, <1>7, <1>8 DEF CInv

(* Erasing, forgetting and verifying, of whichever actor.                  *)
LEMMA RelayRemovalStep ==
  ASSUME CInv, NEW a \in Actors, Removal(a)
  PROVE  CInv'
<1>1. UNCHANGED <<known, launch>> /\ faults' \in Nat /\ (faults' = 0 => faults = 0)
  BY DEF CInv, Shaped, Removal, EraseAndForget, Verify, RemoveNext, cloud, Faulting
<1>2. /\ message' \in [Vms -> {"none", "stored", "forgotten", "gone"}]
      /\ \A v \in Vms : message[v] = "gone" => message'[v] = "gone"
  BY DEF CInv, Shaped, Removal, EraseAndForget, Verify, RemoveNext, cloud, forgets
<1>3. post' \in [Vms -> {None, "owner", "guest"}]
  BY DEF CInv, Shaped, Removal, EraseAndForget, Verify, RemoveNext, cloud
<1>4. CASE RemoveNext(a)
  <2>1. PICK u \in todo[a] :
          /\ removing' = [removing EXCEPT ![a] = [NoRemoval EXCEPT !.pc = "erase", !.vm = u]]
          /\ todo' = [todo EXCEPT ![a] = @ \ {u}]
    BY <1>4 DEF RemoveNext, Removes
  <2>2. UNCHANGED <<message, post>>
    BY <1>4 DEF RemoveNext, cloud
  <2>3. a \notin Relays /\ u \in Vms
    BY <2>1 DEF CInv, OnlyOwnPost, Shaped
  <2>4. PICK R \in RemovalType : ~R.all /\ removing' = [removing EXCEPT ![a] = R]
    <3> DEFINE R == [NoRemoval EXCEPT !.pc = "erase", !.vm = u]
    <3>1. R \in RemovalType /\ ~R.all
      BY <2>3 DEF NoRemoval, RemovalType
    <3>2. removing' = [removing EXCEPT ![a] = R]
      BY <2>1
    <3> HIDE DEF R
    <3>3. QED
      BY <3>1, <3>2
  <2>5. Shaped'
    <3>1. removing' \in [Actors -> RemovalType]
      BY <2>4 DEF CInv, Shaped
    <3>2. todo' \in [Actors -> SUBSET Vms]
      BY <2>1 DEF CInv, Shaped
    <3>3. QED
      BY <1>1, <1>2, <1>3, <3>1, <3>2 DEF CInv, Shaped
  <2>6. \A v \in Relays : removing'[v] = removing[v] /\ todo'[v] = todo[v]
    BY <2>1, <2>3, <2>4, RelayIsVm DEF CInv, Shaped
  <2>7. OnlyOwnPost'
    BY <1>1, <2>4, <2>6 DEF CInv, OnlyOwnPost, Shaped
  <2>8. \A v \in Relays : Tidy(v)'
    BY <1>1, <1>2, <2>2, <2>6, RelayIsVm, Untouched DEF CInv
  <2>9. QED
    BY <2>5, <2>7, <2>8 DEF CInv
<1>5. CASE EraseAndForget(a) \/ Verify(a)
  <2>1. PICK pc \in {"verify", "removed", "failed"} : removing' = [removing EXCEPT ![a].pc = pc]
    BY <1>5 DEF EraseAndForget, Verify, next
  <2>2. removing[a].pc \in {"erase", "verify"} /\ UNCHANGED todo
    BY <1>5 DEF EraseAndForget, Verify, removal
  <2>3. /\ removing' \in [Actors -> RemovalType]
        /\ \A b \in Actors : /\ b # a => removing'[b] = removing[b]
                             /\ removing'[b].vm = removing[b].vm
                             /\ removing'[b].own = removing[b].own
                             /\ removing'[b].all = removing[b].all
        /\ removing'[a].pc = pc
    BY <2>1 DEF CInv, Shaped, RemovalType
  <2>4. Shaped'
    BY <1>1, <1>2, <1>3, <2>2, <2>3 DEF CInv, Shaped
  <2>5. OnlyOwnPost'
    BY <1>1, <2>2, <2>3, RelayIsVm DEF CInv, OnlyOwnPost
  <2>6. \A v \in Vms : post'[v] # post[v] =>
           a \in Relays /\ v = a /\ removing[a].pc = "erase" /\ removing[a].all /\ post'[a] = None
    BY <1>5, <2>2 DEF CInv, Shaped, OnlyOwnPost, EraseAndForget, Verify, target, removal, cloud
  <2>7. ASSUME NEW v \in Relays PROVE Tidy(v)'
    <3>1. CASE v # a
      BY <1>1, <1>2, <2>3, <2>6, <3>1, RelayIsVm, Untouched DEF CInv
    <3>2. CASE v = a /\ faults' = 0
      <4>1. Decided(v) /\ launch[v] = "removing" /\ removing[v].vm = v /\ faults = 0
        BY <1>1, <2>2, <3>2 DEF CInv, Tidy, OnlyOwnPost
      <4>2. CASE EraseAndForget(a)
        <5>1. /\ removing[v].pc = "erase" /\ ~refused(v)
          BY <3>2, <4>1, <4>2, VmAssumption DEF EraseAndForget, removal, refused, Decided, target
        <5>2. /\ post' = IF removing[v].all THEN [post EXCEPT ![v] = None] ELSE post
              /\ removing' = [removing EXCEPT ![v].pc = "verify"]
          BY <3>2, <4>1, <4>2, <5>1 DEF CInv, Shaped, EraseAndForget, target, Faulting, next
        <5>3. removing'[v].pc = "verify"
          BY <5>2, RelayIsVm DEF CInv, Shaped, RemovalType
        <5>4. post'[v] = IF removing[v].all THEN None ELSE post[v]
          BY <5>2, RelayIsVm DEF CInv, Shaped
        <5>5. QED
          BY <1>1, <2>3, <4>1, <5>1, <5>3, <5>4, RelayIsVm, VmAssumption DEF Tidy, Decided
      <4>3. CASE Verify(a)
        <5>1. /\ message[v] = "gone" /\ removing' = [removing EXCEPT ![v].pc = "removed"]
              /\ removing[v].pc = "verify" /\ UNCHANGED <<message, post>>
          BY <3>2, <4>1, <4>3 DEF CInv, Shaped, Verify, target, Faulting, next, removal, cloud
        <5>2. removing'[v].pc = "removed"
          BY <5>1, RelayIsVm DEF CInv, Shaped, RemovalType
        <5>3. QED
          BY <1>1, <2>3, <4>1, <5>1, <5>2, RelayIsVm DEF Tidy, Decided
      <4>4. QED
        BY <1>5, <4>2, <4>3
    <3>3. QED
      BY <3>1, <3>2 DEF Tidy
  <2>8. QED
    BY <2>4, <2>5, <2>7 DEF CInv
<1>6. QED
  BY <1>4, <1>5 DEF Removal

(* Steps of the test of one relay: the label moves, and the clean-up       *)
(* starts, ends or is killed.                                              *)
LEMMA RelayLaunchStep ==
  ASSUME CInv, NEW u \in Relays, NEW pc \in RelayLabels,
         launch' = [launch EXCEPT ![u] = pc], launch[u] # "idle", UNCHANGED todo,
         UNCHANGED removing \/ \E R \in RemovalType : removing' = [removing EXCEPT ![u] = R],
         removing'[u].pc # "none" => removing'[u].vm = u /\ pc = "removing",
         UNCHANGED message \/ forgets(u),
         UNCHANGED post \/ \E by \in {None, "owner", "guest"} : post' = [post EXCEPT ![u] = by],
         known' = known \/ known' = known \cup {u},
         faults' = faults \/ faults' = faults + 1,
         Tidy(u)'
  PROVE  CInv'
<1>1. launch' \in [Vms -> Labels]
  BY DEF CInv, Shaped, Labels, RelayLabels, Over, Starting
<1>2. removing' \in [Actors -> RemovalType]
  BY DEF CInv, Shaped
<1>3. message' \in [Vms -> {"none", "stored", "forgotten", "gone"}]
  BY DEF CInv, Shaped, forgets
<1>4. post' \in [Vms -> {None, "owner", "guest"}]
  BY DEF CInv, Shaped
<1>5. Shaped'
  BY <1>1, <1>2, <1>3, <1>4 DEF CInv, Shaped
<1>6. \A a \in Actors : a # u => removing'[a] = removing[a]
  BY DEF CInv, Shaped
<1>7. \A v \in Relays : v # u => launch'[v] = launch[v] /\ post'[v] = post[v]
  BY RelayIsVm DEF CInv, Shaped
<1>8. OnlyOwnPost'
  <2>1. launch'[u] = pc
    BY RelayIsVm DEF CInv, Shaped
  <2>2. QED
    BY <1>6, <1>7, <2>1, RelayIsVm DEF CInv, OnlyOwnPost
<1>9. ASSUME NEW v \in Relays, v # u PROVE Tidy(v)'
  <2>1. message[v] = "gone" => message'[v] = "gone"
    BY <1>9, RelayIsVm DEF CInv, Shaped, forgets
  <2>2. (v \in known') = (v \in known)
    BY <1>9
  <2>3. faults' = 0 => faults = 0
    BY DEF CInv, Shaped
  <2>4. removing'[v] = removing[v] /\ launch'[v] = launch[v] /\ post'[v] = post[v] /\ Tidy(v)
    BY <1>6, <1>7, <1>9, RelayIsVm DEF CInv
  <2>5. QED
    BY <2>1, <2>2, <2>3, <2>4 DEF Tidy, Decided, Cleaned
<1>10. QED
  BY <1>5, <1>8, <1>9 DEF CInv

(* The clean-up reads the sender of the registration, once.                *)
LEMMA FallBackStep ==
  ASSUME CInv, NEW u \in Relays, FallBack(u), UNCHANGED <<fleet, known, message, post, todo>>,
         launch[u] # "idle"
  PROVE  CInv'
<1>1. PICK readable \in BOOLEAN :
        /\ removing' = [removing EXCEPT ![u] = [pc |-> "erase", vm |-> u,
                          own |-> owned(u, readable), all |-> owned(u, readable)]]
        /\ faults' = IF readable THEN faults ELSE faults + 1
        /\ launch' = [launch EXCEPT ![u] = "removing"]
  BY DEF FallBack, alongWith, goes
<1> DEFINE R == [pc |-> "erase", vm |-> u, own |-> owned(u, readable), all |-> owned(u, readable)]
<1>2. /\ R \in RemovalType /\ R.pc = "erase" /\ R.vm = u /\ R.all = R.own
      /\ R.own = owned(u, readable)
  BY RelayIsVm DEF RemovalType, owned
<1>3. removing' = [removing EXCEPT ![u] = R]
  BY <1>1
<1> HIDE DEF R
<1>4. removing'[u] = R
  BY <1>3, RelayIsVm DEF CInv, Shaped
<1>5. launch'[u] = "removing"
  BY <1>1, RelayIsVm DEF CInv, Shaped
<1>6. Tidy(u)'
  <2>1. SUFFICES ASSUME faults' = 0 PROVE Decided(u)'
    BY <1>5 DEF Tidy
  <2>2. readable
    BY <1>1, <2>1 DEF CInv, Shaped
  <2>3. R.own <=> u \in known /\ post[u] = "owner"
    BY <1>2, <2>2 DEF owned
  <2>4. QED
    BY <1>2, <1>4, <2>3 DEF Decided
<1>7. QED
  BY <1>1, <1>2, <1>3, <1>4, <1>6, RelayLaunchStep DEF RelayLabels

LEMMA RelayTestStep ==
  ASSUME CInv, NEW u \in Vms,
         \/ Provisioned(u) \/ ProvisionFails(u) \/ CleanUp(u) \/ PanelDone(u) \/ PanelTimesOut(u)
         \/ CleanUpEnds(u)
  PROVE  CInv'
<1>0. u \in Relays /\ launch[u] # "idle"
  <2>1. CASE CleanUp(u) \/ PanelDone(u) \/ PanelTimesOut(u)
    <3>1. launch[u] \in {"tracked", "ui"}
      BY <2>1 DEF CleanUp, PanelDone, PanelTimesOut, at
    <3>2. QED
      BY <2>1, <3>1 DEF CInv, OnlyOwnPost
  <2>2. QED
    BY <2>1 DEF Provisioned, ProvisionFails, CleanUpEnds, at
<1>1. Tidy(u) /\ u \in Vms /\ (removing[u].pc # "none" => removing[u].vm = u /\ launch[u] = "removing")
  BY <1>0 DEF CInv, OnlyOwnPost
<1>2. \A pc \in RelayLabels : launch' = [launch EXCEPT ![u] = pc] => launch'[u] = pc
  BY DEF CInv, Shaped
<1>3. CASE Provisioned(u)
  <2>1. /\ launch[u] = "deploying" /\ launch' = [launch EXCEPT ![u] = "tracked"]
        /\ UNCHANGED <<message, removing, todo, faults>> /\ known' = known \cup {u}
        /\ \E by \in {None, "owner", "guest"} : post' = [post EXCEPT ![u] = by]
    BY <1>3 DEF Provisioned, at, goes, registers
  <2>2. removing[u].pc = "none" /\ Tidy(u)'
    BY <1>1, <1>2, <2>1 DEF Tidy, RelayLabels
  <2>3. QED
    BY <1>0, <2>1, <2>2, RelayLaunchStep DEF RelayLabels
<1>4. CASE ProvisionFails(u)
  <2>1. PICK pc \in {"tracked", "lost"} : launch' = [launch EXCEPT ![u] = pc]
    BY <1>4 DEF ProvisionFails, looksUp, goes
  <2>2. /\ launch[u] = "deploying" /\ UNCHANGED <<message, removing, todo, known>>
        /\ post' = post \/ \E by \in {None, "owner", "guest"} : post' = [post EXCEPT ![u] = by]
        /\ faults' = faults \/ faults' = faults + 1
    BY <1>4 DEF ProvisionFails, at, registers, Faulting
  <2>3. removing[u].pc = "none" /\ Tidy(u)'
    BY <1>1, <1>2, <2>1, <2>2 DEF Tidy, RelayLabels
  <2>4. QED
    BY <1>0, <2>1, <2>2, <2>3, RelayLaunchStep DEF RelayLabels
<1>5. CASE CleanUp(u) /\ ~(FallBack(u) /\ UNCHANGED <<message, post>>)
  <2>1. /\ launch[u] = "tracked" /\ launch' = [launch EXCEPT ![u] = "ui"]
        /\ UNCHANGED <<removing, todo, known>>
        /\ UNCHANGED message \/ forgets(u)
        /\ post' = post \/ \E by \in {None, "owner", "guest"} : post' = [post EXCEPT ![u] = by]
        /\ faults' = faults \/ faults' = faults + 1
    BY <1>5 DEF CleanUp, at, goes, panelForgets, cloud, Faulting
  <2>2. removing[u].pc = "none" /\ Tidy(u)'
    BY <1>1, <1>2, <2>1 DEF Tidy, RelayLabels
  <2>3. QED
    BY <1>0, <2>1, <2>2, RelayLaunchStep DEF RelayLabels
<1>6. CASE /\ CleanUp(u) \/ PanelTimesOut(u)
           /\ FallBack(u) /\ UNCHANGED <<message, post>>
  <2>1. UNCHANGED <<fleet, known, todo>>
    BY <1>6 DEF CleanUp, PanelTimesOut
  <2>2. QED
    BY <1>0, <1>6, <2>1, FallBackStep
<1>7. CASE PanelDone(u)
  <2>1. /\ launch[u] = "ui" /\ launch' = [launch EXCEPT ![u] = "done"] /\ message[u] = "gone"
        /\ UNCHANGED <<message, post, removing, todo, known>>
        /\ \/ ~(u \in known /\ post[u] = "owner") /\ UNCHANGED faults
           \/ faults' = faults + 1
    BY <1>7 DEF PanelDone, at, goes, cloud, owned, Faulting
  <2>2. removing[u].pc = "none" /\ Tidy(u)'
    BY <1>1, <1>2, <2>1 DEF CInv, Shaped, Tidy, Cleaned, RelayLabels
  <2>3. QED
    BY <1>0, <2>1, <2>2, RelayLaunchStep DEF RelayLabels
<1>8. CASE CleanUpEnds(u)
  <2>1. /\ launch[u] = "removing" /\ removing' = [removing EXCEPT ![u] = NoRemoval]
        /\ UNCHANGED <<message, post, todo, known, faults>>
    BY <1>8 DEF CleanUpEnds, at, cloud
  <2>2. NoRemoval \in RemovalType /\ removing'[u].pc = "none"
    BY <1>1, <2>1, NoRemovalType, RelayIsVm, <1>0 DEF CInv, Shaped, NoRemoval
  <2>3. PICK pc \in {"done", "failed"} :
          /\ launch' = [launch EXCEPT ![u] = pc]
          /\ pc = "done" => removing[u].pc = "removed" /\ ~awaited(u)
          /\ pc = "failed" => removing[u].pc = "failed" \/ (removing[u].pc = "removed" /\ awaited(u))
    BY <1>8 DEF CleanUpEnds, goes, removal
  <2>4. launch'[u] = pc
    BY <1>2, <2>3 DEF RelayLabels
  <2>5. Tidy(u)'
    BY <1>1, <2>1, <2>2, <2>3, <2>4, VmAssumption DEF Tidy, Decided, Cleaned, awaited, deregistered
  <2>6. QED
    BY <1>0, <2>1, <2>2, <2>3, <2>5, RelayLaunchStep DEF RelayLabels
<1>9. QED
  BY <1>3, <1>4, <1>5, <1>6, <1>7, <1>8 DEF PanelTimesOut, cloud

LEMMA DeployOrKilledStep ==
  ASSUME CInv, NEW u \in Vms, Deploy(u) \/ Killed(u)
  PROVE  CInv'
<1>1. CASE Deploy(u)
  <2>1. /\ launch[u] = "idle" /\ launch' = [launch EXCEPT ![u] = "deploying"]
        /\ message' = [message EXCEPT ![u] = "stored"]
        /\ UNCHANGED <<known, post, removing, todo, faults>>
    BY <1>1 DEF Deploy, at, goes
  <2>2. Shaped'
    BY <2>1 DEF CInv, Shaped, Labels, Starting
  <2>3. OnlyOwnPost'
    <3>1. \A v \in Vms : launch'[v] = IF v = u THEN "deploying" ELSE launch[v]
      BY <2>1 DEF CInv, Shaped
    <3>2. QED
      BY <2>1, <3>1, RelayIsVm DEF CInv, OnlyOwnPost, RelayLabels
  <2>4. ASSUME NEW v \in Relays PROVE Tidy(v)'
    <3>1. CASE v # u
      BY <2>1, <3>1, RelayIsVm, Untouched DEF CInv, Shaped
    <3>2. CASE v = u
      <4>1. launch'[v] = "deploying" /\ removing[v].pc = "none"
        BY <2>1, <3>2 DEF CInv, Shaped, OnlyOwnPost
      <4>2. QED
        BY <2>1, <4>1 DEF Tidy
    <3>3. QED
      BY <3>1, <3>2
  <2>5. QED
    BY <2>2, <2>3, <2>4 DEF CInv
<1>2. CASE Killed(u)
  <2>1. PICK pc \in {"failed", "lost"} :
          launch' = [launch EXCEPT ![u] = pc] /\ (u \in Relays => pc = "lost")
    BY <1>2, RelayIsVm DEF Killed, goes
  <2>2. /\ removing' = [removing EXCEPT ![u] = NoRemoval] /\ todo' = [todo EXCEPT ![u] = {}]
        /\ UNCHANGED <<known, message, post>> /\ faults' \in Nat /\ faults' # 0
    BY <1>2 DEF Killed, cloud, Faulting, CInv, Shaped
  <2>3. NoRemoval \in RemovalType /\ NoRemoval.pc = "none" /\ ~NoRemoval.all
    BY NoRemovalType DEF NoRemoval
  <2>4. Shaped'
    <3>1. launch' \in [Vms -> Labels]
      BY <2>1 DEF CInv, Shaped, Labels, Over
    <3>2. todo' \in [Actors -> SUBSET Vms] /\ removing' \in [Actors -> RemovalType]
      BY <2>2, <2>3 DEF CInv, Shaped
    <3>3. QED
      BY <2>2, <3>1, <3>2 DEF CInv, Shaped
  <2>5. /\ \A a \in Actors : /\ removing'[a] = IF a = u THEN NoRemoval ELSE removing[a]
                             /\ todo'[a] = IF a = u THEN {} ELSE todo[a]
        /\ \A v \in Vms : launch'[v] = IF v = u THEN pc ELSE launch[v]
    BY <2>1, <2>2 DEF CInv, Shaped
  <2>6. OnlyOwnPost'
    BY <2>1, <2>3, <2>5, RelayIsVm DEF CInv, OnlyOwnPost, RelayLabels
  <2>7. \A v \in Relays : Tidy(v)'
    BY <2>2 DEF Tidy
  <2>8. QED
    BY <2>4, <2>6, <2>7 DEF CInv
<1>3. QED
  BY <1>1, <1>2

LEMMA RelaySweepStep ==
  ASSUME CInv, fleet \subseteq Vms, Down \/ SweepRelays \/ (\E r \in Repos : Janitor(r)) \/ Sweeping \/ Tick
  PROVE  CInv'
<1>1. /\ UNCHANGED <<known, message, post, launch>>
      /\ faults' \in Nat /\ (faults' = 0 => faults = 0)
  <2>1. CASE Sweeping
    BY <2>1 DEF CInv, Shaped, Sweeping, SweepEnds, SweepFails, cloud, Faulting
  <2>2. CASE Tick
    BY <2>2 DEF CInv, Shaped, Tick
  <2>3. CASE Down \/ SweepRelays \/ \E r \in Repos : Janitor(r)
    <3>1. \E by, vs, offline : StartSweep(by, vs, offline)
      BY <2>3, Zenon DEF Down, SweepRelays, Janitor
    <3>2. QED
      BY <3>1 DEF CInv, Shaped, StartSweep, cloud
  <2>4. QED
    BY <2>1, <2>2, <2>3
<1>2. /\ removing' = removing \/ removing' = [removing EXCEPT ![Sweeper] = NoRemoval]
      /\ todo' = todo \/ \E vs \in SUBSET Vms : todo' = [todo EXCEPT ![Sweeper] = vs]
  <2>1. CASE Down \/ SweepRelays
    <3>1. instances \subseteq Vms /\ selectExpired \subseteq Vms
      BY DEF instances, selectExpired, Vms
    <3>2. PICK vs \in SUBSET Vms : StartSweep(None, vs, {})
      BY <2>1, <3>1 DEF Down, SweepRelays
    <3>3. QED
      BY <2>1, <3>2 DEF StartSweep, Down, SweepRelays
  <2>2. CASE \E r \in Repos : Janitor(r)
    <3>1. PICK r \in Repos : Janitor(r)
      BY <2>2
    <3> DEFINE vs == selectSweepableRunners({v \in Runners : repo[v] = r /\ github[v] \in Listed}, r)
    <3>2. vs \in SUBSET Vms
      BY DEF selectSweepableRunners, instances
    <3>3. UNCHANGED removing /\ todo' = [todo EXCEPT ![Sweeper] = vs]
      BY <3>1, Zenon DEF Janitor, StartSweep
    <3>4. QED
      BY <3>2, <3>3
  <2>3. CASE Sweeping
    BY <2>3 DEF Sweeping, SweepEnds, SweepFails
  <2>4. CASE Tick
    BY <2>4 DEF Tick
  <2>5. QED
    BY <2>1, <2>2, <2>3, <2>4
<1>3. NoRemoval \in RemovalType /\ ~NoRemoval.all
  BY NoRemovalType DEF NoRemoval
<1>4. /\ \A v \in Relays : removing'[v] = removing[v] /\ todo'[v] = todo[v]
      /\ \A a \in Actors : removing'[a] = removing[a] \/ ~removing'[a].all
  BY <1>2, <1>3, RelayIsVm DEF CInv, Shaped
<1>5. Shaped'
  <2>1. todo' \in [Actors -> SUBSET Vms] /\ removing' \in [Actors -> RemovalType]
    BY <1>2, <1>3 DEF CInv, Shaped
  <2>2. QED
    BY <1>1, <2>1 DEF CInv, Shaped
<1>6. OnlyOwnPost'
  BY <1>1, <1>4 DEF CInv, OnlyOwnPost
<1>7. \A v \in Relays : Tidy(v)'
  BY <1>1, <1>4, Untouched DEF CInv
<1>8. QED
  BY <1>5, <1>6, <1>7 DEF CInv

(* As long as nothing has failed, no clean-up of a relay fails, and one    *)
(* that is through has left neither the VM nor a registration of the       *)
(* account that it knew of (packages/playwright/src/index.ts).             *)
THEOREM CleanUpsSucceed == Spec => []CleanUpFailsOnlyOnFaults
<1> DEFINE I == CInv /\ fleet \subseteq Vms
<1>1. Init => I
  <2> SUFFICES ASSUME Init PROVE CInv /\ fleet \subseteq Vms
    OBVIOUS
  <2>1. Shaped
    BY VmAssumption, NoRemovalType DEF Init, Shaped, Labels, Over
  <2>2. OnlyOwnPost
    BY RelayIsVm, Actor DEF Init, OnlyOwnPost, RelayLabels, NoRemoval
  <2>3. \A v \in Relays : Tidy(v)
    BY RelayIsVm DEF Init, Tidy, NoRemoval
  <2>4. fleet \subseteq Vms
    BY DEF Init, Vms
  <2>5. QED
    BY <2>1, <2>2, <2>3, <2>4 DEF CInv
<1>2. ASSUME I, [Next]_vars PROVE I'
  <2>0. CInv /\ fleet \subseteq Vms /\ UNCHANGED fleet
    BY <1>2 DEF vars, Next, World, Boot, Deallocate, TtlExpires, Finish, Connects, JobEnds, Deploy,
       Launcher, Deployed, DeployFails, Register, Inject, Online, StartFails, UpEnds, Provisioned,
       ProvisionFails, CleanUp, PanelDone, PanelTimesOut, CleanUpEnds, Killed, Removal,
       EraseAndForget, Verify, RemoveNext, Down, SweepRelays, Janitor, StartSweep, Sweeping,
       SweepEnds, SweepFails, Tick
  <2>1. CASE UNCHANGED vars
    BY <2>0, <2>1 DEF vars, CInv, Shaped, OnlyOwnPost, Tidy, Decided, Cleaned
  <2>2. ASSUME NEW v \in Vms,
               World(v) \/ Connects(v) \/ JobEnds(v) \/ Deploy(v) \/ Launcher(v) \/ Killed(v)
        PROVE  CInv'
    BY <2>0, <2>2, ElsewhereStep, RelayTestStep, DeployOrKilledStep DEF Launcher
  <2>3. ASSUME NEW a \in Actors, Removal(a) PROVE CInv'
    BY <2>0, <2>3, RelayRemovalStep
  <2>4. CASE Down \/ SweepRelays \/ (\E r \in Repos : Janitor(r)) \/ Sweeping \/ Tick
    BY <2>0, <2>4, RelaySweepStep
  <2>5. CInv'
    BY <1>2, <2>1, <2>2, <2>3, <2>4 DEF Next
  <2>6. QED
    BY <2>0, <2>5
<1>3. I => CleanUpFailsOnlyOnFaults
  BY DEF CInv, Tidy, Cleaned, CleanUpFailsOnlyOnFaults, at
<1>4. QED
  BY <1>1, <1>2, <1>3, PTL DEF Spec
=============================================================================
