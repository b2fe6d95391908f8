------------------------- MODULE PanelRefresh_proofs --------------------------
(***************************************************************************)
(* A deployment that completed is not taken back, and the panel's          *)
(* variables keep their types, by any number of accounts, instances,       *)
(* refreshes, acts and faults.                                             *)
(***************************************************************************)
EXTENDS PanelRefresh, TLAPS

(* There is one deployment to be the last one.                             *)
LastIsFresh == {last, lastCompleted} \subseteq {Fresh, None}

IInv == LastIsFresh /\ CompletedIsKept

(* A refresh that ends leaves a completed deployment completed.            *)
LEMMA LatestKeeps ==
  ASSUME IInv, NEW details, NEW registrations,
         progress' = Latest(details, registrations), UNCHANGED <<last, lastCompleted>>
  PROVE  IInv'
<1> DEFINE r == reached(details[last], registrations)
<1>1. CASE progress' = progress
  BY <1>1 DEF IInv, LastIsFresh, CompletedIsKept
<1>2. CASE progress' # progress
  <2>1. last # None /\ progress' = [stage |-> r, of |-> last]
    BY <1>2 DEF Latest
  <2>2. ~(r \in {"waiting", "confirmed"} /\ keepTerminalSuccess)
    BY <1>2 DEF Latest
  <2>3. lastCompleted = last => keepTerminalSuccess
    BY DEF keepTerminalSuccess
  <2>4. QED
    BY <2>1, <2>2, <2>3 DEF IInv, LastIsFresh, CompletedIsKept
<1>3. QED
  BY <1>1, <1>2

(* The inductive invariant is an invariant.                                *)
THEOREM Invariance == Spec => []IInv
<1>1. Init => IInv
  BY DEF Init, IInv, LastIsFresh, CompletedIsKept
<1>2. ASSUME IInv, [Next]_vars PROVE IInv'
  <2> USE <1>2
  <2>1. CASE UNCHANGED <<progress, last, lastCompleted>>
    BY <2>1 DEF IInv, LastIsFresh, CompletedIsKept
  <2>2. CASE \E c \in Callers : Show(c)
    BY <2>2, LatestKeeps DEF Show, tasks
  <2>3. CASE Submit
    BY <2>3 DEF Submit, IInv, LastIsFresh, CompletedIsKept
  <2>4. CASE Configure \/ Register \/ Complete \/ DeployFails
    BY <2>4 DEF Configure, Register, Complete, DeployFails, Reload, IInv, LastIsFresh, CompletedIsKept
  <2>5. CASE (\E i \in Instances : Delete(i)) \/ Forget \/ DeleteEnds
    BY <2>5 DEF Delete, Forget, DeleteEnds, IInv, LastIsFresh, CompletedIsKept
  <2>6. CASE Environment
    BY <2>1, <2>6 DEF Environment, Process, Allocate, CooldownEnds, panel, tasks
  <2>7. CASE \E c \in Callers : Lookups(c) \/ Inspect(c) \/ RefreshFails(c)
    BY <2>1, <2>7 DEF Lookups, Inspect, RefreshFails, panel, tasks
  <2>8. CASE Tick \/ WalletChanged \/ Connect \/ \E a \in Accounts \cup {None} : Switch(a)
    BY <2>1, <2>8 DEF Tick, WalletChanged, Connect, Switch, panel, tasks
  <2>9. CASE Erase \/ DeleteFails
    BY <2>1, <2>9 DEF Erase, DeleteFails, panel
  <2>10. CASE UNCHANGED vars
    BY <2>1, <2>10 DEF vars, panel, tasks
  <2>11. QED
    BY <2>2, <2>3, <2>4, <2>5, <2>6, <2>7, <2>8, <2>9, <2>10
       DEF Next, RefreshSteps, Deploying, Deleting
<1>3. QED
  BY <1>1, <1>2, PTL DEF Spec

(* A deployment that has completed is never again shown as one that waits, *)
(* in whatever order refreshes end (syncLatestDeploymentProgress).         *)
THEOREM CompletedKept == Spec => []CompletedIsKept
<1>1. IInv => CompletedIsKept
  BY DEF IInv
<1>2. QED
  BY <1>1, Invariance, PTL
-----------------------------------------------------------------------------
(* Types *)

Detail == [status : Statuses, runtime : BOOLEAN]

RefreshType ==
    [ pc : {"none", "prices", "inspect", "rootfs", "ended"},
      found : Details, posts : SUBSET [instance : Instances, address : Accounts],
      details : Details, registrations : SUBSET Registrations ]

(* A delete under way is of an instance. *)
DeleteFits ==
    /\ delete = [pc |-> delete.pc, of |-> delete.of, sender |-> delete.sender, linked |-> delete.linked]
    /\ delete.of \in Instances \cup {None}
    /\ delete.pc \in {"erase", "forget", "refreshing"} => delete.of \in Instances

Typed == TypeOK /\ refresh \in [Callers -> RefreshType] /\ DeleteFits

LEMMA EmptyTypes ==
    /\ Absent \in Detail /\ Nothing \in Details /\ Details = [Instances -> Detail]
    /\ NoRefresh \in RefreshType
    /\ \A p \in {"none", "prices", "inspect", "rootfs", "ended"} :
          /\ [NoRefresh EXCEPT !.pc = p] \in RefreshType
          /\ \A details \in Details, registrations \in SUBSET Registrations :
                [NoRefresh EXCEPT !.pc = p, !.details = details, !.registrations = registrations]
                    \in RefreshType
<1>1. Absent \in Detail
  BY DEF Absent, Detail, Statuses
<1>2. Details = [Instances -> Detail]
  BY DEF Details, Detail
<1>3. Nothing \in Details
  BY <1>1, <1>2 DEF Nothing
<1> HIDE DEF Details
<1>4. NoRefresh \in RefreshType
  BY <1>3 DEF NoRefresh, RefreshType
<1>5. ASSUME NEW p \in {"none", "prices", "inspect", "rootfs", "ended"},
             NEW details \in Details, NEW registrations \in SUBSET Registrations
      PROVE  [NoRefresh EXCEPT !.pc = p, !.details = details, !.registrations = registrations]
                \in RefreshType
  BY <1>3, <1>4, <1>5 DEF NoRefresh, RefreshType
<1>6. ASSUME NEW p \in {"none", "prices", "inspect", "rootfs", "ended"}
      PROVE  [NoRefresh EXCEPT !.pc = p] \in RefreshType
  BY <1>3, <1>4, <1>6 DEF NoRefresh, RefreshType
<1> HIDE DEF NoRefresh, RefreshType
<1>7. QED
  BY <1>1, <1>2, <1>3, <1>4, <1>5, <1>6

(* What a step leaves of a refresh has the type of one. *)
LEMMA RefreshGoes ==
    ASSUME Typed, NEW c \in Callers, NEW new \in RefreshType, refresh' = [refresh EXCEPT ![c] = new]
    PROVE  /\ refresh' \in [Callers -> RefreshType]
           /\ \A d \in Callers : refresh'[d].details \in Details /\ refresh'[d].registrations \subseteq Registrations
<1>1. refresh' \in [Callers -> RefreshType]
  BY DEF Typed
<1>2. QED
  BY <1>1 DEF RefreshType

LEMMA Counters ==
    ASSUME Typed
    PROVE  /\ acts \in Nat /\ faults \in Nat /\ MaxActs \in Nat /\ MaxFaults \in Nat
           /\ Acting => acts' \in 0..MaxActs
           /\ Faulting \/ UNCHANGED faults => faults' \in 0..MaxFaults
  BY PanelAssumption DEF Typed, TypeOK, Acting, Faulting

(* Aleph and the CRNs *)
LEMMA EnvironmentTyped ==
    ASSUME Typed, Environment
    PROVE  Typed'
<1> USE DEF account, aleph, panel, runtimes, tasks
<1>1. ASSUME NEW i \in Instances, Process(i) PROVE Typed'
  BY <1>1 DEF Process, Typed, TypeOK, DeleteFits
<1>2. ASSUME NEW i \in Instances, Allocate(i) PROVE Typed'
  BY <1>2 DEF Allocate, Typed, TypeOK, DeleteFits
<1>3. ASSUME NEW i \in Instances, CooldownEnds(i) PROVE Typed'
  BY <1>3 DEF CooldownEnds, Typed, TypeOK, DeleteFits
<1>4. QED
  BY <1>1, <1>2, <1>3 DEF Environment

LEMMA LookupsTyped ==
    ASSUME Typed, NEW c \in Callers, Lookups(c)
    PROVE  Typed'
<1>1. UNCHANGED <<account, aleph, panel, runtimes, tasks, acts, faults>>
  BY DEF Lookups
<1> DEFINE found == [i \in Instances |->
                   IF theirs(i) THEN [status |-> message[i], runtime |-> FALSE] ELSE Absent]
           posts == IF profile = "relay"
                   THEN {[instance |-> i, address |-> post[i]] : i \in {j \in Instances : post[j] # None}}
                   ELSE {}
<1>2. found \in Details
  <2>1. ASSUME NEW i \in Instances, theirs(i)
        PROVE  [status |-> message[i], runtime |-> FALSE] \in Detail
    BY <2>1 DEF theirs, stored, Detail
  <2>2. QED
    BY <2>1, EmptyTypes
<1>3. posts \in SUBSET [instance : Instances, address : Accounts]
  BY DEF Typed, TypeOK
<1> HIDE DEF found, posts
<1>4. [NoRefresh EXCEPT !.pc = "inspect", !.found = found, !.posts = posts] \in RefreshType
  BY <1>2, <1>3, EmptyTypes DEF NoRefresh, RefreshType
<1>5. refresh' = [refresh EXCEPT ![c] =
           IF wallet = None THEN [NoRefresh EXCEPT !.pc = "rootfs"]
           ELSE [NoRefresh EXCEPT !.pc = "inspect", !.found = found, !.posts = posts]]
  BY DEF Lookups, found, posts
<1>6. PICK new \in RefreshType : refresh' = [refresh EXCEPT ![c] = new]
  BY <1>4, <1>5, EmptyTypes
<1>7. /\ refresh' \in [Callers -> RefreshType]
      /\ \A d \in Callers : refresh'[d].details \in Details /\ refresh'[d].registrations \subseteq Registrations
  BY <1>6, RefreshGoes
<1>8. QED
  BY <1>1, <1>7 DEF Typed, TypeOK, DeleteFits, account, aleph, panel, runtimes, tasks

LEMMA InspectTyped ==
    ASSUME Typed, NEW c \in Callers, Inspect(c)
    PROVE  Typed'
<1>1. UNCHANGED <<account, aleph, panel, tasks, acts>>
  BY DEF Inspect
<1> DEFINE active == present(refresh[c].found)
           merged(failing) == [i \in Instances |-> IF i \in active
                 THEN mergeRememberedRuntimeDetails(i, inspected(i, refresh[c].found[i], failing)) ELSE Absent]
           bare(failing) == {i \in active : ~merged(failing)[i].runtime}
           registrations == {[instance |-> entry.instance, address |-> entry.address,
                         confirmed |-> confirmed(entry, active)] :
                            entry \in {e \in refresh[c].posts : matches(e, active)}}
<1>2. PICK failing : 
         /\ faults' = faults \/ Faulting
         /\ remembered' = remembered \cup (active \ bare(failing))
         /\ cooling' = (cooling \ active) \cup
                   {i \in (bare(failing) \cap Kept) \ failing : merged(failing)[i].status = "processed"}
         /\ refresh' = [refresh EXCEPT ![c] = [NoRefresh EXCEPT
                   !.pc = "rootfs", !.details = merged(failing), !.registrations = registrations]]
  BY DEF Inspect
<1>3. refresh[c] \in RefreshType
  BY DEF Typed
<1>4. \A i \in Instances : refresh[c].found[i] \in Detail
  <2>1. refresh[c].found \in Details
    BY <1>3 DEF RefreshType
  <2>2. QED
    BY <2>1, EmptyTypes
<1>5. merged(failing) \in Details
  <2>1. ASSUME NEW i \in Instances, NEW d \in Detail
        PROVE  mergeRememberedRuntimeDetails(i, inspected(i, d, failing)) \in Detail
    BY <2>1 DEF mergeRememberedRuntimeDetails, inspected, Detail, Statuses
  <2>2. QED
    BY <1>4, <2>1, EmptyTypes
<1>6. registrations \in SUBSET Registrations
  <2>1. \A e \in refresh[c].posts : e.instance \in Instances /\ e.address \in Accounts
    BY <1>3 DEF RefreshType
  <2>2. \A e : confirmed(e, active) \in BOOLEAN
    BY DEF confirmed
  <2>3. QED
    BY <2>1, <2>2 DEF Registrations
<1>7. active \subseteq Instances
  BY DEF present
<1>8. PICK new \in RefreshType : refresh' = [refresh EXCEPT ![c] = new]
  <2> HIDE DEF active, merged, registrations
  <2>1. QED
    BY <1>2, <1>5, <1>6, EmptyTypes
<1>9. /\ refresh' \in [Callers -> RefreshType]
      /\ \A d \in Callers : refresh'[d].details \in Details /\ refresh'[d].registrations \subseteq Registrations
  BY <1>8, RefreshGoes
<1>10. remembered' \subseteq Instances /\ cooling' \subseteq Kept /\ faults' \in 0..MaxFaults
  <2>1. faults' \in 0..MaxFaults
    BY <1>2, Counters
  <2> HIDE DEF active, merged
  <2>2. QED
    BY <1>2, <1>7, <2>1 DEF Typed, TypeOK
<1>11. QED
  BY <1>1, <1>9, <1>10 DEF Typed, TypeOK, DeleteFits, account, aleph, panel, tasks

LEMMA ShowTyped ==
    ASSUME Typed, NEW c \in Callers, Show(c) \/ RefreshFails(c)
    PROVE  Typed'
<1>1. UNCHANGED <<account, aleph, runtimes, tasks, acts>> /\ refresh' = [refresh EXCEPT ![c] = Ended(c)]
  BY DEF Show, RefreshFails
<1>2. Ended(c) \in RefreshType
  BY EmptyTypes DEF Ended
<1>3. /\ refresh' \in [Callers -> RefreshType]
      /\ \A d \in Callers : refresh'[d].details \in Details /\ refresh'[d].registrations \subseteq Registrations
  BY <1>1, <1>2, RefreshGoes
<1>4. faults' \in 0..MaxFaults
  BY Counters DEF Show, RefreshFails
<1>5. /\ shown' \in Details /\ listed' \subseteq Registrations
      /\ progress'.of \in Instances \cup {None}
  <2>1. CASE Show(c)
    <3>1. progress' = progress \/ progress'.of = last
      BY <2>1 DEF Show, Latest
    <3>2. QED
      BY <2>1, <3>1 DEF Show, Typed, TypeOK, Instances
  <2>2. CASE RefreshFails(c)
    BY <2>2 DEF RefreshFails, panel, Typed, TypeOK
  <2>3. QED
    BY <2>1, <2>2
<1>6. QED
  BY <1>1, <1>3, <1>4, <1>5 DEF Typed, TypeOK, DeleteFits, account, aleph, runtimes, tasks

(* A step that begins or clears a refresh, or leaves it. *)
LEMMA BegunTyped ==
    ASSUME Typed, \/ UNCHANGED refresh
                  \/ \E c \in Callers : Begun(c) \/ refresh' = [refresh EXCEPT ![c] = NoRefresh]
    PROVE  /\ refresh' \in [Callers -> RefreshType]
           /\ \A d \in Callers : refresh'[d].details \in Details /\ refresh'[d].registrations \subseteq Registrations
<1>1. CASE UNCHANGED refresh
  BY <1>1 DEF Typed, TypeOK
<1>2. ASSUME NEW c \in Callers, Begun(c) \/ refresh' = [refresh EXCEPT ![c] = NoRefresh]
      PROVE  \E new \in RefreshType : refresh' = [refresh EXCEPT ![c] = new]
  BY <1>2, EmptyTypes DEF Begun
<1>3. QED
  BY <1>1, <1>2, RefreshGoes

LEMMA WalletTyped ==
    ASSUME Typed, Tick \/ WalletChanged \/ Connect \/ \E a \in Accounts \cup {None} : Switch(a)
    PROVE  Typed'
<1>1. /\ refresh' \in [Callers -> RefreshType]
      /\ \A d \in Callers : refresh'[d].details \in Details /\ refresh'[d].registrations \subseteq Registrations
  BY BegunTyped DEF Tick, WalletChanged, Connect, Switch, Callers
<1>2. UNCHANGED <<aleph, panel, runtimes, tasks, faults>>
  BY DEF Tick, WalletChanged, Connect, Switch
<1>3. metamask' \in Accounts \cup {None} /\ wallet' \in Accounts \cup {None} /\ acts' \in 0..MaxActs
  BY Counters DEF Tick, WalletChanged, Connect, Switch, account, Typed, TypeOK
<1>4. QED
  BY <1>1, <1>2, <1>3 DEF Typed, TypeOK, DeleteFits, aleph, panel, runtimes, tasks

LEMMA DeployingTyped ==
    ASSUME Typed, Deploying
    PROVE  Typed'
<1>1. /\ refresh' \in [Callers -> RefreshType]
      /\ \A d \in Callers : refresh'[d].details \in Details /\ refresh'[d].registrations \subseteq Registrations
  BY BegunTyped DEF Deploying, Submit, Configure, Register, Complete, DeployFails, Reload, Callers
<1>2. UNCHANGED <<account, runs, shown, listed, runtimes, delete>>
  BY DEF Deploying, Submit, Configure, Register, Complete, DeployFails, aleph
<1>3. Fresh \in Instances
  BY DEF Instances
<1>4. /\ message' \in [Instances -> {"none", "pending", "processed", "rejected", "forgotten"}]
      /\ owner' \in [Instances -> Accounts \cup {None}] /\ post' \in [Instances -> Accounts \cup {None}]
  BY <1>3 DEF Deploying, Submit, Configure, Register, Complete, DeployFails, aleph, account, Typed, TypeOK
<1>5. /\ {last', lastCompleted'} \subseteq {Fresh, None}
      /\ progress'.of \in Instances \cup {None}
  BY <1>3 DEF Deploying, Submit, Configure, Register, Complete, DeployFails, Reload, Typed, TypeOK
<1>6. acts' \in 0..MaxActs /\ faults' \in 0..MaxFaults
  <2>1. acts' = acts \/ Acting
    BY DEF Deploying, Submit, Configure, Register, Complete, DeployFails
  <2>2. faults' = faults \/ Faulting
    BY DEF Deploying, Submit, Configure, Register, Complete, DeployFails
  <2>3. QED
    BY <2>1, <2>2, Counters DEF Typed, TypeOK
<1>7. QED
  BY <1>1, <1>2, <1>4, <1>5, <1>6 DEF Typed, TypeOK, DeleteFits, account, runtimes

LEMMA DeletingTyped ==
    ASSUME Typed, Deleting
    PROVE  Typed'
<1>1. /\ refresh' \in [Callers -> RefreshType]
      /\ \A d \in Callers : refresh'[d].details \in Details /\ refresh'[d].registrations \subseteq Registrations
  BY BegunTyped DEF Deleting, Delete, Erase, Forget, DeleteEnds, DeleteFails, Callers
<1>2. UNCHANGED <<account, owner, shown, listed, runtimes, last, lastCompleted>>
  BY DEF Deleting, Delete, Erase, Forget, DeleteEnds, DeleteFails, aleph, panel
<1>3. /\ message' \in [Instances -> {"none", "pending", "processed", "rejected", "forgotten"}]
      /\ post' \in [Instances -> Accounts \cup {None}] /\ runs' \subseteq Instances
  BY DEF Deleting, Delete, Erase, Forget, DeleteEnds, DeleteFails, aleph, Typed, TypeOK
<1>4. progress'.of \in Instances \cup {None}
  BY DEF Deleting, Delete, Erase, Forget, DeleteEnds, DeleteFails, panel, Typed, TypeOK, DeleteFits
<1>5. DeleteFits'
  BY DEF Deleting, Delete, Erase, Forget, DeleteEnds, DeleteFails, NoDelete, Typed, DeleteFits
<1>6. acts' \in 0..MaxActs /\ faults' \in 0..MaxFaults
  <2>1. acts' = acts \/ Acting
    BY DEF Deleting, Delete, Erase, Forget, DeleteEnds, DeleteFails
  <2>2. faults' = faults \/ Faulting
    BY DEF Deleting, Delete, Erase, Forget, DeleteEnds, DeleteFails
  <2>3. QED
    BY <2>1, <2>2, Counters DEF Typed, TypeOK
<1>7. QED
  BY <1>1, <1>2, <1>3, <1>4, <1>5, <1>6 DEF Typed, TypeOK, account, runtimes

(* The type invariant, for any accounts, instances and refreshes: what a   *)
(* refresh has read and the panel shows are details of instances and       *)
(* registrations by accounts.                                              *)
THEOREM TypeCorrect == Spec => []TypeOK
<1>1. Init => Typed
  <2> SUFFICES ASSUME Init PROVE Typed
    OBVIOUS
  <2>1. refresh \in [Callers -> RefreshType] /\ shown \in Details
    BY EmptyTypes DEF Init
  <2>2. \A c \in Callers : refresh[c].details \in Details /\ refresh[c].registrations \subseteq Registrations
    BY <2>1 DEF RefreshType
  <2>3. DeleteFits
    BY DEF Init, DeleteFits, NoDelete
  <2>4. acts \in 0..MaxActs /\ faults \in 0..MaxFaults
    BY PanelAssumption DEF Init
  <2>5. QED
    BY <2>1, <2>2, <2>3, <2>4, PanelAssumption DEF Init, Typed, TypeOK, Instances
<1>2. ASSUME Typed, [Next]_vars PROVE Typed'
  <2>1. CASE Environment
    BY <1>2, <2>1, EnvironmentTyped
  <2>2. ASSUME NEW c \in Callers, RefreshSteps(c) PROVE Typed'
    BY <1>2, <2>2, LookupsTyped, InspectTyped, ShowTyped DEF RefreshSteps
  <2>3. CASE Tick \/ WalletChanged \/ Connect \/ \E a \in Accounts \cup {None} : Switch(a)
    BY <1>2, <2>3, WalletTyped
  <2>4. CASE Deploying
    BY <1>2, <2>4, DeployingTyped
  <2>5. CASE Deleting
    BY <1>2, <2>5, DeletingTyped
  <2>6. CASE UNCHANGED vars
    BY <1>2, <2>6 DEF vars, account, aleph, panel, runtimes, tasks, Typed, TypeOK, DeleteFits
  <2>7. QED
    BY <1>2, <2>1, <2>2, <2>3, <2>4, <2>5, <2>6 DEF Next
<1>3. Typed => TypeOK
  BY DEF Typed
<1>4. QED
  BY <1>1, <1>2, <1>3, PTL DEF Spec
=============================================================================
