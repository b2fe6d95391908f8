------------------------ MODULE RelayRegistry_proofs ------------------------
(***************************************************************************)
(* Theorems about RelayRegistry, for any number of relays and runs.        *)
(***************************************************************************)
EXTENDS RelayRegistry, FiniteSetTheorems, TLAPS

(* The variables keep their types. *)
LEMMA TypeInit == Init => TypeOK
<1> USE RegistryAssumption
<1>1. ASSUME Init PROVE TypeOK
  BY <1>1 DEF Init, TypeOK, Labels, PlanType
<1> QED  BY <1>1

LEMMA PostType ==
    ASSUME NEW reg \in Registrations, NEW by \in Runs \cup {Guest}
    PROVE  Post(reg, by) \in Posts
BY RegistryAssumption DEF Post, Posts

LEMMA RegistrationType ==
    ASSUME NEW i \in Relays, NEW profile \in Profiles
    PROVE  registrationOf(i, profile) \in Registrations
BY DEF registrationOf, Registrations

LEMMA HashType ==
    ASSUME NEW p \in Posts
    PROVE  hash(p) \in Hashes
BY DEF hash, Posts, Hashes

LEMMA PlanReg ==
    ASSUME NEW r \in Runs
    PROVE  /\ plan[r].reg \in Registrations
           /\ plan[r].reg.profile \in Profiles
           /\ plan[r].reg.relay \in Relays
BY RegistryAssumption DEF PlanType, Registrations

LEMMA PostsKept ==
    ASSUME TypeOK, NEW hashes
    PROVE  without(hashes) \subseteq Posts
BY DEF TypeOK, without

LEMMA TypeNext == TypeOK /\ [Next]_vars => TypeOK'
<1> SUFFICES ASSUME TypeOK, [Next]_vars PROVE TypeOK'
  OBVIOUS
<1> USE RegistryAssumption
<1>1. ASSUME NEW r \in Runs, Start(r) PROVE TypeOK'
  BY <1>1 DEF Start, TypeOK, Goto, Labels, guestVars
<1>2. ASSUME NEW r \in Runs, Publish(r) PROVE TypeOK'
  <2>1. Post(target[r], r) \in Posts
    BY PostType DEF TypeOK
  <2>2. posts' \subseteq Posts
    BY <1>2, <2>1 DEF Publish, TypeOK
  <2>3. pc' \in [Runs -> Labels]
    BY <1>2 DEF Publish, Accepted, TypeOK, Goto, Published, Throws, Labels
  <2> QED  BY <1>2, <2>2, <2>3 DEF Publish, TypeOK, guestVars
<1>3. ASSUME NEW r \in Runs, ListPrevious(r) PROVE TypeOK'
  <2>1. doomed' \in [Runs -> SUBSET Hashes]
    BY <1>3, HashType DEF ListPrevious, TypeOK
  <2>2. pc' \in [Runs -> Labels]
    BY <1>3 DEF ListPrevious, TypeOK, Goto, Throws, Labels
  <2> QED  BY <1>3, <2>1, <2>2 DEF ListPrevious, TypeOK, guestVars
<1>4. ASSUME NEW r \in Runs, ForgetPrevious(r) PROVE TypeOK'
  <2>1. posts' \subseteq Posts
    BY <1>4, PostsKept DEF ForgetPrevious, TypeOK
  <2>2. pc' \in [Runs -> Labels]
    BY <1>4 DEF ForgetPrevious, TypeOK, Goto, Published, Throws, Labels
  <2> QED  BY <1>4, <2>1, <2>2 DEF ForgetPrevious, TypeOK, guestVars
<1>5. ASSUME NEW r \in Runs, AwaitVisible(r) PROVE TypeOK'
  BY <1>5 DEF AwaitVisible, TypeOK, Goto, Labels, guestVars
<1>6. ASSUME NEW r \in Runs, ListInstances(r) PROVE TypeOK'
  <2>1. live' \in [Runs -> SUBSET Registrations]
    BY <1>6, PlanReg DEF ListInstances, TypeOK
  <2>2. todo' \in [Runs -> SUBSET Relays]
    BY <1>6 DEF ListInstances, TypeOK
  <2>3. pc' \in [Runs -> Labels]
    BY <1>6 DEF ListInstances, TypeOK, Goto, Labels
  <2> QED  BY <1>6, <2>1, <2>2, <2>3 DEF ListInstances, TypeOK, guestVars
<1>7. ASSUME NEW r \in Runs, NEW i \in Relays, ReadInstance(r, i) PROVE TypeOK'
  <2>1. registrationOf(i, plan[r].reg.profile) \in Registrations
    BY PlanReg, RegistrationType
  <2>2. /\ live' \in [Runs -> SUBSET Registrations]
        /\ target' \in [Runs -> Registrations]
    <3>1. CASE UNCHANGED <<live, target>>
      BY <3>1 DEF TypeOK
    <3>2. CASE LET reg == registrationOf(i, plan[r].reg.profile)
               IN  /\ live' = [live EXCEPT ![r] = live[r] \cup {reg}]
                   /\ target' = [target EXCEPT ![r] = reg]
      <4>1. live[r] \cup {registrationOf(i, plan[r].reg.profile)} \subseteq Registrations
        BY <2>1 DEF TypeOK
      <4>2. QED
        BY <2>1, <3>2, <4>1 DEF TypeOK
    <3>3. QED
      BY <1>7, <3>1, <3>2 DEF ReadInstance
  <2>3. todo' \in [Runs -> SUBSET Relays]
    BY <1>7 DEF ReadInstance, TypeOK
  <2>4. pc' \in [Runs -> Labels]
    BY <1>7 DEF ReadInstance, TypeOK, Goto, Labels
  <2> QED  BY <1>7, <2>2, <2>3, <2>4 DEF ReadInstance, TypeOK, guestVars
<1>8. ASSUME NEW r \in Runs, ListPosts(r) PROVE TypeOK'
  <2>1. ASSUME NEW S \in selections PROVE S \subseteq Posts
    BY DEF selections, newest, TypeOK
  <2>2. doomed' \in [Runs -> SUBSET Hashes]
    BY <1>8, <2>1, HashType DEF ListPosts, TypeOK
  <2>3. pc' \in [Runs -> Labels]
    BY <1>8 DEF ListPosts, TypeOK, Goto, Labels
  <2> QED  BY <1>8, <2>2, <2>3 DEF ListPosts, TypeOK, guestVars
<1>9. ASSUME NEW r \in Runs, ForgetStale(r) PROVE TypeOK'
  <2>1. posts' \subseteq Posts
    BY <1>9, PostsKept DEF ForgetStale, TypeOK
  <2> QED  BY <1>9, <2>1 DEF ForgetStale, TypeOK, Goto, Labels, guestVars
<1>10. ASSUME NEW i \in Relays, RelayComesUp(i) PROVE TypeOK'
  BY <1>10 DEF RelayComesUp, TypeOK, runVars
<1>11. ASSUME NEW i \in Relays, GuestRefresh(i) PROVE TypeOK'
  <2>1. guestPost(i) \in Posts
    BY PostType, RegistrationType DEF guestPost
  <2>2. posts' \subseteq Posts
    BY <1>11, <2>1 DEF GuestRefresh, TypeOK
  <2>3. remembered' \in [Relays -> 0..2]
    BY <1>11 DEF GuestRefresh, remember_published, TypeOK
  <2>4. serving' \subseteq Relays /\ fresh' \subseteq Relays
    BY <1>11 DEF GuestRefresh, TypeOK
  <2>5. missed' \in [Relays -> 0..MaxMisses] /\ UNCHANGED <<vm, runVars>>
    BY <1>11, RegistryAssumption DEF GuestRefresh, TypeOK
  <2> QED  BY <2>2, <2>3, <2>4, <2>5 DEF TypeOK, runVars
<1>12. ASSUME NEW i \in Relays, GuestMisses(i) PROVE TypeOK'
  <2>1. guestPost(i) \in Posts
    BY PostType, RegistrationType DEF guestPost
  <2>2. posts' \subseteq Posts
    BY <1>12, <2>1 DEF GuestMisses, TypeOK
  <2> QED  BY <1>12, <2>2 DEF GuestMisses, TypeOK, runVars
<1>13. ASSUME NEW i \in Relays, GuestStops(i) PROVE TypeOK'
  BY <1>13 DEF GuestStops, deregister, TypeOK, own, runVars
<1>14. ASSUME Tick PROVE TypeOK'
  <2>1. ASSUME NEW q \in Posts, q.age < MaxAge
        PROVE  [q EXCEPT !.age = @ + 1] \in Posts
    BY <2>1 DEF Posts
  <2>2. posts' \subseteq Posts
    BY <1>14, <2>1 DEF Tick, TypeOK
  <2>3. remembered' \in [Relays -> 0..2]
    BY <1>14 DEF Tick, forgetful, TypeOK
  <2> QED  BY <1>14, <2>2, <2>3 DEF Tick, TypeOK, runVars
<1>15. ASSUME UNCHANGED vars PROVE TypeOK'
  BY <1>15 DEF vars, guestVars, runVars, TypeOK
<1>16. ASSUME NEW i \in Relays, GuestUnchanged(i) PROVE TypeOK'
  BY <1>16 DEF GuestUnchanged, TypeOK, runVars
<1>17. ASSUME NEW i \in Relays, GuestSkips(i) PROVE TypeOK'
  BY <1>17 DEF GuestSkips, TypeOK, runVars
<1> QED
  BY <1>1, <1>2, <1>3, <1>4, <1>5, <1>6, <1>7, <1>8, <1>9, <1>10, <1>11,
     <1>12, <1>13, <1>14, <1>15, <1>16, <1>17 DEF Next, RunStep, GuestStep

(* Type correctness, for any number of relays and runs. *)
THEOREM TypeCorrect == Spec => []TypeOK
BY TypeInit, TypeNext, PTL DEF Spec

-----------------------------------------------------------------------------
(* What the owner's runs forget is never a guest's post, and between two   *)
(* refreshes a post of the guest is as old as the periods it let pass.     *)
DoomedByRuns == \A r \in Runs : \A h \in doomed[r] : h.by \in Runs

due(i) == missed[i] + (IF i \in fresh THEN 0 ELSE 1)

Covers(i, p) ==
    /\ p.by = Guest
    /\ p.reg = registrationOf(i, profileOf[i])
    /\ p.age <= due(i)

GuestInv ==
    /\ DoomedByRuns
    /\ \A i \in serving : vm[i] = "up" /\ \E p \in posts : Covers(i, p)

LEMMA DoomedNext ==
    ASSUME TypeOK, DoomedByRuns, [Next]_vars
    PROVE  DoomedByRuns'
<1>1. ASSUME NEW r \in Runs, ListPrevious(r) PROVE DoomedByRuns'
  <2>1. CASE UNCHANGED doomed
    BY <2>1 DEF DoomedByRuns
  <2>2. ASSUME NEW D, \A h \in D : h.by \in Runs,
               doomed' = [doomed EXCEPT ![r] = D]
        PROVE  DoomedByRuns'
    BY <2>2 DEF DoomedByRuns, TypeOK
  <2> DEFINE D == {hash(p) : p \in {q \in posts :
                     /\ q.by \in Runs
                     /\ hash(q) # [reg |-> target[r], by |-> r]
                     /\ q.reg.relay = target[r].relay
                     /\ q.reg.profile = target[r].profile}}
  <2>3. \A h \in D : h.by \in Runs
    <3>1. \A p : hash(p).by = p.by
      BY DEF hash
    <3> QED  BY <3>1
  <2>4. UNCHANGED doomed \/ doomed' = [doomed EXCEPT ![r] = D]
    BY <1>1 DEF ListPrevious
  <2> HIDE DEF D
  <2> QED  BY <2>1, <2>2, <2>3, <2>4
<1>2. ASSUME NEW r \in Runs, ListPosts(r) PROVE DoomedByRuns'
  <2>1. CASE UNCHANGED doomed
    BY <2>1 DEF DoomedByRuns
  <2>2. ASSUME NEW D, \A h \in D : h.by \in Runs,
               doomed' = [doomed EXCEPT ![r] = D]
        PROVE  DoomedByRuns'
    BY <2>2 DEF DoomedByRuns, TypeOK
  <2>3. ASSUME NEW S \in selections
        PROVE  \A h \in {hash(p) : p \in {q \in S :
                   /\ q.by \in Runs
                   /\ q.reg.profile = plan[r].reg.profile
                   /\ q.reg \notin live[r]}} : h.by \in Runs
    BY DEF hash
  <2> QED  BY <1>2, <2>1, <2>2, <2>3 DEF ListPosts
<1>3. ASSUME NEW r \in Runs, ForgetPrevious(r) \/ ForgetStale(r)
      PROVE  DoomedByRuns'
  BY <1>3 DEF ForgetPrevious, ForgetStale, DoomedByRuns, TypeOK
<1>4. ASSUME UNCHANGED doomed PROVE DoomedByRuns'
  BY <1>4 DEF DoomedByRuns
<1>5. ASSUME NEW r \in Runs,
             \/ Start(r) \/ Publish(r) \/ AwaitVisible(r) \/ ListInstances(r)
             \/ \E i \in Relays : ReadInstance(r, i)
      PROVE  UNCHANGED doomed
  BY <1>5 DEF Start, Publish, AwaitVisible, ListInstances, ReadInstance
<1>6. ASSUME \/ \E i \in Relays : GuestStep(i)
             \/ Tick
             \/ UNCHANGED vars
      PROVE  UNCHANGED doomed
  BY <1>6 DEF GuestStep, RelayComesUp, GuestRefresh, GuestUnchanged,
              GuestMisses, GuestSkips, GuestStops, Tick, vars, runVars
<1> QED
  BY <1>1, <1>2, <1>3, <1>4, <1>5, <1>6 DEF Next, RunStep

(* A step that leaves the guests alone and their posts in place.           *)
LEMMA GuestsUndisturbed ==
    ASSUME GuestInv, DoomedByRuns', UNCHANGED guestVars,
           \A p \in posts : p.by = Guest => p \in posts'
    PROVE  GuestInv'
BY DEF GuestInv, Covers, due, guestVars

LEMMA RunLeavesGuests ==
    ASSUME TypeOK, GuestInv, NEW r \in Runs, RunStep(r)
    PROVE  /\ UNCHANGED guestVars
           /\ \A p \in posts : p.by = Guest => p \in posts'
<1>1. ASSUME NEW p \in posts, p.by = Guest
      PROVE  p \in without(doomed[r])
  BY <1>1, RegistryAssumption DEF without, GuestInv, DoomedByRuns, hash
<1>2. CASE Publish(r)
  BY <1>2 DEF Publish
<1>3. CASE ForgetPrevious(r)
  BY <1>1, <1>3 DEF ForgetPrevious
<1>4. CASE ForgetStale(r)
  BY <1>1, <1>4 DEF ForgetStale
<1>5. CASE Start(r) \/ ListPrevious(r) \/ AwaitVisible(r) \/ ListInstances(r)
           \/ (\E i \in Relays : ReadInstance(r, i)) \/ ListPosts(r)
  BY <1>5 DEF Start, ListPrevious, AwaitVisible, ListInstances, ReadInstance,
              ListPosts
<1> QED  BY <1>2, <1>3, <1>4, <1>5 DEF RunStep

LEMMA GuestInit == Init => GuestInv
BY DEF Init, GuestInv, DoomedByRuns

LEMMA GuestNext ==
    ASSUME TypeOK, GuestInv, "guest" \notin MayRefuse, [Next]_vars
    PROVE  GuestInv'
<1> USE RegistryAssumption
<1>0. DoomedByRuns'
  BY DoomedNext DEF GuestInv
<1>1. ASSUME NEW r \in Runs, RunStep(r) PROVE GuestInv'
  BY <1>0, <1>1, RunLeavesGuests, GuestsUndisturbed
<1>2. ASSUME NEW i \in Relays, RelayComesUp(i) PROVE GuestInv'
  BY <1>0, <1>2 DEF RelayComesUp, GuestInv, Covers, due, TypeOK
<1>3. ASSUME NEW i \in Relays, GuestRefresh(i) PROVE GuestInv'
  <2>1. PICK old \in SUBSET outdated(i) :
          /\ posts' = (posts \ old) \cup {guestPost(i)}
          /\ serving' = serving \cup {i}
    BY <1>3 DEF GuestRefresh
  <2>2. Covers(i, guestPost(i))' /\ guestPost(i) \in posts' /\ vm'[i] = "up"
    BY <1>3, <2>1 DEF Covers, guestPost, Post, due, GuestRefresh, TypeOK
  <2>3. ASSUME NEW j \in serving, j # i, NEW p \in posts, Covers(j, p)
        PROVE  Covers(j, p)' /\ p \in posts'
    <3>1. p \notin old
      BY <2>1, <2>3 DEF Covers, own, outdated, registrationOf
    <3>2. missed'[j] = missed[j] /\ (j \in fresh' <=> j \in fresh)
      BY <1>3, <2>3 DEF GuestRefresh, TypeOK
    <3> QED  BY <2>1, <2>3, <3>1, <3>2 DEF Covers, due
  <2>4. serving' = serving \cup {i} /\ vm' = vm
    BY <1>3, <2>1 DEF GuestRefresh
  <2>5. ASSUME NEW j \in serving', j # i
        PROVE  vm'[j] = "up" /\ \E p \in posts' : Covers(j, p)'
    BY <2>3, <2>4, <2>5 DEF GuestInv
  <2>6. ASSUME NEW j \in serving'
        PROVE  vm'[j] = "up" /\ \E p \in posts' : Covers(j, p)'
    BY <2>2, <2>5
  <2> QED  BY <1>0, <2>6 DEF GuestInv
<1>4. ASSUME NEW i \in Relays, GuestMisses(i) PROVE GuestInv'
  <2>1. ASSUME NEW j \in serving, NEW p \in posts, Covers(j, p)
        PROVE  Covers(j, p)'
    BY <1>4, <2>1 DEF GuestMisses, Covers, due, TypeOK
  <2>2. posts \subseteq posts' /\ UNCHANGED <<vm, serving>>
    BY <1>4 DEF GuestMisses
  <2> QED  BY <1>0, <2>1, <2>2 DEF GuestInv
<1>5. ASSUME NEW i \in Relays, GuestStops(i) PROVE GuestInv'
  <2>1. ASSUME NEW j \in serving', NEW p \in posts, Covers(j, p)
        PROVE  Covers(j, p)' /\ p \in posts'
    <3>1. j # i
      BY <1>5 DEF GuestStops
    <3>2. p \notin own(i)
      BY <2>1, <3>1 DEF Covers, own, registrationOf
    <3>3. p \in posts'
      BY <1>5, <3>2 DEF GuestStops, deregister
    <3> QED  BY <1>5, <2>1, <3>1, <3>3 DEF GuestStops, Covers, due
  <2>2. \A j \in serving' : j \in serving /\ vm'[j] = vm[j]
    BY <1>5 DEF GuestStops, TypeOK
  <2> QED  BY <1>0, <2>1, <2>2 DEF GuestInv
<1>6. ASSUME Tick PROVE GuestInv'
  <2>1. ASSUME NEW j \in serving, NEW p \in posts, Covers(j, p)
        PROVE  \E q \in posts' : Covers(j, q)'
    <3> DEFINE older == [p EXCEPT !.age = @ + 1]
    <3>1. p \in Posts /\ p.age \in Nat /\ missed[j] \in 0..MaxMisses
      BY <2>1 DEF TypeOK, Posts
    <3>2. p.age <= missed[j]
      BY <1>6, <2>1, <3>1 DEF Tick, Covers, due
    <3>3. older \in posts'
      <4>1. p \in {q \in posts : q.age < MaxAge}
        BY <3>1, <3>2
      <4> QED  BY <1>6, <4>1 DEF Tick
    <3>4. older.by = p.by /\ older.reg = p.reg /\ older.age = p.age + 1
      BY <3>1 DEF Posts
    <3>5. Covers(j, older)'
      BY <1>6, <2>1, <3>1, <3>2, <3>4 DEF Tick, Covers, due
    <3> HIDE DEF older
    <3> QED  BY <3>3, <3>5
  <2> QED  BY <1>0, <1>6, <2>1 DEF Tick, GuestInv
<1>7. CASE UNCHANGED vars
  BY <1>0, <1>7 DEF vars, guestVars, GuestInv, Covers, due
<1>8. ASSUME NEW i \in Relays, GuestUnchanged(i) PROVE GuestInv'
  <2>1. ASSUME NEW j \in serving, NEW p \in posts, Covers(j, p)
        PROVE  Covers(j, p)'
    BY <1>8, <2>1 DEF GuestUnchanged, Covers, due, TypeOK
  <2>2. UNCHANGED <<vm, serving, posts>>
    BY <1>8 DEF GuestUnchanged
  <2> QED  BY <1>0, <2>1, <2>2 DEF GuestInv
<1>9. ASSUME NEW i \in Relays, GuestSkips(i) PROVE GuestInv'
  <2>1. ASSUME NEW j \in serving, NEW p \in posts, Covers(j, p)
        PROVE  Covers(j, p)'
    BY <1>9, <2>1 DEF GuestSkips, Covers, due, TypeOK
  <2>2. UNCHANGED <<vm, serving, posts>>
    BY <1>9 DEF GuestSkips
  <2> QED  BY <1>0, <2>1, <2>2 DEF GuestInv
<1> QED
  BY <1>1, <1>2, <1>3, <1>4, <1>5, <1>6, <1>7, <1>8, <1>9 DEF Next, GuestStep

LEMMA GuestListedBy == TypeOK /\ GuestInv => GuestKeepsListed
BY DEF GuestInv, GuestKeepsListed, Covers, own, registrationOf, TypeOK

(* GuestKeepsListed for any number of relays and of overlapping runs, and  *)
(* any cutoff: what a guest that serves has published last outlives        *)
(* MaxMisses periods without a post, and no run of the owner forgets it.   *)
(* Aleph is taken not to refuse a guest's post after it has answered for   *)
(* it: the guest would then forget the older one all the same.             *)
THEOREM GuestListed ==
    "guest" \notin MayRefuse => (Spec => []GuestKeepsListed)
<1> SUFFICES ASSUME "guest" \notin MayRefuse PROVE Spec => []GuestKeepsListed
  OBVIOUS
<1>1. TypeOK /\ GuestInv /\ [Next]_vars => GuestInv'
  BY GuestNext
<1> QED
  BY <1>1, TypeInit, TypeNext, GuestInit, GuestListedBy, PTL DEF Spec

-----------------------------------------------------------------------------
(* A run that knows its instance holds its registration among the live     *)
(* ones from the list of instances to the end of the reconcile.            *)
HoldsOwn(r) ==
    /\ pc[r] = "idle" => first(r)
    /\ pc[r] \in {"read", "forgetStale"} => plan[r].reg \in live[r]
    /\ pc[r] \in {"publish", "listPrevious", "forgetPrevious"} /\ ~first(r)
         => plan[r].reg \in live[r]
    /\ pc[r] = "forgetStale" =>
         \A h \in doomed[r] : h.reg # plan[r].reg

KeepInv == \A r \in Runs : HoldsOwn(r)

Unnamed == \A r \in Runs : ~plan[r].reg.named

LEMMA KeepInit == Init => KeepInv
BY DEF Init, KeepInv, HoldsOwn, first

LEMMA KeepOthers ==
    ASSUME TypeOK, NEW r \in Runs, RunStep(r), NEW s \in Runs, s # r, HoldsOwn(s)
    PROVE  HoldsOwn(s)'
<1>1. /\ pc'[s] = pc[s] /\ live'[s] = live[s]
      /\ target'[s] = target[s] /\ doomed'[s] = doomed[s]
  <2>1. CASE Start(r) \/ AwaitVisible(r)
    BY <2>1 DEF Start, AwaitVisible, Goto, TypeOK
  <2>2. CASE Publish(r)
    BY <2>2 DEF Publish, Accepted, Published, Throws, Goto, TypeOK
  <2>3. CASE ListPrevious(r)
    BY <2>3 DEF ListPrevious, Throws, Goto, TypeOK
  <2>4. CASE ForgetPrevious(r)
    BY <2>4 DEF ForgetPrevious, Published, Throws, Goto, TypeOK
  <2>5. CASE ListInstances(r)
    BY <2>5 DEF ListInstances, Goto, TypeOK
  <2>6. CASE \E i \in Relays : ReadInstance(r, i)
    BY <2>6 DEF ReadInstance, Goto, TypeOK
  <2>7. CASE ListPosts(r) \/ ForgetStale(r)
    BY <2>7 DEF ListPosts, ForgetStale, Goto, TypeOK
  <2> QED
    BY <2>1, <2>2, <2>3, <2>4, <2>5, <2>6, <2>7 DEF RunStep
<1> QED  BY <1>1 DEF HoldsOwn, first

LEMMA KeepOwn ==
    ASSUME TypeOK, Unnamed, NEW r \in Runs, HoldsOwn(r), RunStep(r)
    PROVE  HoldsOwn(r)'
<1>1. CASE Start(r)
  BY <1>1 DEF Start, Goto, HoldsOwn, first, TypeOK
<1>2. CASE Publish(r)
  BY <1>2 DEF Publish, Accepted, Published, Throws, forgets, Goto, HoldsOwn,
              first, TypeOK
<1>3. CASE ListPrevious(r)
  <2>1. pc[r] = "listPrevious" /\ UNCHANGED <<target, live>>
    BY <1>3 DEF ListPrevious
  <2>2. pc'[r] = "forgetPrevious" \/ pc'[r] = IF first(r) THEN "failed" ELSE "read"
    BY <1>3 DEF ListPrevious, Throws, Goto, TypeOK
  <2> QED  BY <2>1, <2>2 DEF HoldsOwn, first
<1>4. CASE ForgetPrevious(r)
  BY <1>4 DEF ForgetPrevious, Published, Throws, Goto, HoldsOwn, first, TypeOK
<1>5. CASE AwaitVisible(r)
  BY <1>5 DEF AwaitVisible, Goto, HoldsOwn, first, TypeOK
<1>6. CASE ListInstances(r)
  <2>1. \/ pc'[r] = "failed"
        \/ pc'[r] = "read" /\ live'[r] = {reg \in {plan[r].reg} : ~reg.named}
    BY <1>6 DEF ListInstances, Goto, TypeOK
  <2> QED  BY <2>1 DEF HoldsOwn, Unnamed
<1>7. ASSUME NEW i \in Relays, ReadInstance(r, i) PROVE HoldsOwn(r)'
  <2>1. /\ pc[r] = "read" /\ plan[r].reg \in live[r]
        /\ pc'[r] \in {"read", "publish"}
        /\ live[r] \subseteq live'[r]
    BY <1>7 DEF ReadInstance, Goto, HoldsOwn, TypeOK
  <2> QED  BY <2>1 DEF HoldsOwn
<1>8. CASE ListPosts(r)
  <2>1. /\ pc[r] = "read" /\ plan[r].reg \in live[r] /\ live' = live
        /\ pc'[r] \in {"done", "forgetStale"}
    BY <1>8 DEF ListPosts, Goto, HoldsOwn, TypeOK
  <2>2. ASSUME pc'[r] = "forgetStale"
        PROVE  \A h \in doomed'[r] : h.reg # plan[r].reg
    <3>1. PICK S \in selections :
            doomed' = [doomed EXCEPT ![r] =
                {hash(p) : p \in {q \in S :
                    /\ q.by \in Runs
                    /\ q.reg.profile = plan[r].reg.profile
                    /\ q.reg \notin live[r]}}]
      BY <1>8, <2>2 DEF ListPosts, Goto, TypeOK
    <3>2. \A h \in doomed'[r] : h.reg \notin live[r]
      BY <3>1 DEF hash, TypeOK
    <3> QED  BY <2>1, <3>2
  <2> QED  BY <2>1, <2>2 DEF HoldsOwn
<1>9. CASE ForgetStale(r)
  BY <1>9 DEF ForgetStale, Goto, HoldsOwn, TypeOK
<1> QED
  BY <1>1, <1>2, <1>3, <1>4, <1>5, <1>6, <1>7, <1>8, <1>9 DEF RunStep

LEMMA KeepNext ==
    ASSUME TypeOK, Unnamed, KeepInv, [Next]_vars
    PROVE  KeepInv'
<1>1. ASSUME NEW r \in Runs, RunStep(r) PROVE KeepInv'
  BY <1>1, KeepOwn, KeepOthers DEF KeepInv
<1>2. ASSUME UNCHANGED runVars PROVE KeepInv'
  BY <1>2 DEF runVars, KeepInv, HoldsOwn, first
<1>3. ASSUME (\E i \in Relays : GuestStep(i)) \/ Tick \/ UNCHANGED vars
      PROVE  UNCHANGED runVars
  BY <1>3 DEF GuestStep, RelayComesUp, GuestRefresh, GuestUnchanged,
              GuestMisses, GuestSkips, GuestStops, Tick, vars
<1> QED  BY <1>1, <1>2, <1>3 DEF Next

LEMMA KeepsOwnBy == KeepInv => RunKeepsItsOwn
BY DEF KeepInv, HoldsOwn, RunKeepsItsOwn

(* RunKeepsItsOwn for any number of relays and of overlapping runs, as     *)
(* long as each is told its instance hash. (MCRegistryNamed shows that the *)
(* condition is needed.)                                                   *)
THEOREM KeepsItsOwn == Unnamed => (Spec => []RunKeepsItsOwn)
<1> SUFFICES ASSUME Unnamed PROVE Spec => []RunKeepsItsOwn
  OBVIOUS
<1>1. TypeOK /\ KeepInv /\ [Next]_vars => KeepInv'
  BY KeepNext
<1> QED
  BY <1>1, TypeInit, TypeNext, KeepInit, KeepsOwnBy, PTL DEF Spec

-----------------------------------------------------------------------------
(* Runs in turn, told their instances, that can read every relay that is   *)
(* up, whose posts Aleph lists, and of relays that do not come back.       *)
RunsInTurn ==
    /\ MaxRunning = 1 /\ Unnamed
    /\ ~MayMissReads /\ "owner" \notin MayRefuse /\ returning = {}

Active(r) == pc[r] \notin {"idle", "done", "failed"}

(* What the owner has posted is about instances there have been.           *)
OfInstances == \A p \in posts : p.by \in Runs => ~p.reg.named /\ vm[p.reg.relay] # "absent"

(* The run names instances there have been.                                *)
Named(r) ==
    /\ pc[r] = "idle" => first(r)
    /\ Active(r) => /\ target[r].profile = plan[r].reg.profile /\ ~target[r].named
                    /\ vm[target[r].relay] # "absent"
    /\ \A i \in todo[r] :
         vm[i] # "absent" /\ registrationOf(i, plan[r].reg.profile) # plan[r].reg

(* While the run replaces posts its own is the newest of the owner's: when *)
(* it is too old, so are the others.                                       *)
Replaces(r) ==
    /\ pc[r] \in {"listPrevious", "forgetPrevious"} =>
         \A p \in posts : p.by \in Runs =>
             \E q \in posts : hash(q) = [reg |-> target[r], by |-> r] /\ q.age <= p.age
    /\ pc[r] = "forgetPrevious" =>
         \A h \in doomed[r] :
             h # [reg |-> target[r], by |-> r] /\ h.reg.relay = target[r].relay

reconciling(r) ==
    \/ pc[r] \in {"read", "forgetStale"}
    \/ pc[r] \in {"publish", "listPrevious", "forgetPrevious"} /\ ~first(r)

(* A relay that is up is still to be read, was read, or has no post of the *)
(* owner that the run would look at.                                       *)
Accounts(r) ==
    /\ reconciling(r) =>
         \A i \in Relays : vm[i] = "up" =>
             \/ i \in todo[r]
             \/ registrationOf(i, plan[r].reg.profile) \in live[r]
             \/ \A p \in posts :
                    p.by \in Runs => p.reg # registrationOf(i, plan[r].reg.profile)
    /\ reconciling(r) /\ pc[r] \in {"publish", "listPrevious", "forgetPrevious"} =>
         target[r] \in live[r]
    /\ pc[r] = "forgetStale" =>
         /\ todo[r] = {}
         /\ \A h \in doomed[r] : h.reg.profile = plan[r].reg.profile /\ h.reg \notin live[r]

TurnInv ==
    /\ \A r, s \in Runs : Active(r) /\ Active(s) => r = s
    /\ OfInstances
    /\ \A r \in Runs : Named(r) /\ Replaces(r) /\ Accounts(r)

LEMMA TurnInit == Init => TurnInv
BY DEF Init, TurnInv, Active, OfInstances, Named, first, Replaces, Accounts, reconciling

(* What is said of a run stays true while guests move, as long as no post  *)
(* of the owner comes or goes.                                             *)
LEMMA RunAtRest ==
    ASSUME TypeOK, OfInstances, NEW r \in Runs, Named(r), Replaces(r), Accounts(r),
           UNCHANGED runVars,
           \A i \in Relays : /\ vm'[i] = "up" => vm[i] \in {"up", "absent"}
                             /\ vm[i] # "absent" => vm'[i] # "absent",
           \A p : p.by \in Runs => (p \in posts' <=> p \in posts)
    PROVE  Named(r)' /\ Replaces(r)' /\ Accounts(r)'
<1>1. /\ pc' = pc /\ target' = target /\ live' = live /\ todo' = todo /\ doomed' = doomed
      /\ target[r].relay \in Relays /\ todo[r] \subseteq Relays
  BY DEF runVars, TypeOK, Registrations
<1>2. Named(r)'
  BY <1>1 DEF Named, Active, first
<1>3. Replaces(r)'
  <2>1. \A p \in posts' : p.by \in Runs => p \in posts
    OBVIOUS
  <2>2. \A q \in posts : hash(q) = [reg |-> target[r], by |-> r] => q.by \in Runs
    BY DEF hash
  <2> QED  BY <1>1, <2>1, <2>2 DEF Replaces
<1>4. Accounts(r)'
  <2>1. ASSUME NEW i \in Relays, vm[i] = "absent", NEW p \in posts, p.by \in Runs
        PROVE  p.reg # registrationOf(i, plan[r].reg.profile)
    BY <2>1 DEF OfInstances, registrationOf
  <2>2. reconciling(r)' = reconciling(r)
    BY <1>1 DEF reconciling, first
  <2> QED  BY <1>1, <2>1, <2>2 DEF Accounts
<1> QED  BY <1>2, <1>3, <1>4

(* A run that is not active says nothing of the posts.                     *)
LEMMA RunIdle ==
    ASSUME NEW r \in Runs, ~Active(r), Named(r),
           pc'[r] = pc[r], target'[r] = target[r], todo'[r] = todo[r],
           \A i \in Relays : vm[i] # "absent" => vm'[i] # "absent",
           todo[r] \subseteq Relays
    PROVE  Named(r)' /\ Replaces(r)' /\ Accounts(r)'
BY DEF Active, Named, Replaces, Accounts, reconciling, first

LEMMA TurnGuest ==
    ASSUME TypeOK, RunsInTurn, TurnInv, NEW i \in Relays, GuestStep(i)
    PROVE  TurnInv'
<1>1. UNCHANGED runVars
  BY DEF GuestStep, RelayComesUp, GuestRefresh, GuestUnchanged, GuestMisses, GuestSkips,
         GuestStops
<1>2. \A j \in Relays : /\ vm'[j] = "up" => vm[j] \in {"up", "absent"}
                        /\ vm[j] # "absent" => vm'[j] # "absent"
  <2>1. CASE RelayComesUp(i)
    BY <2>1 DEF RelayComesUp, RunsInTurn, TypeOK
  <2>2. CASE GuestStops(i)
    BY <2>2 DEF GuestStops, RunsInTurn, TypeOK
  <2>3. CASE ~RelayComesUp(i) /\ ~GuestStops(i)
    BY <2>3 DEF GuestStep, GuestRefresh, GuestUnchanged, GuestMisses, GuestSkips
  <2> QED  BY <2>1, <2>2, <2>3
<1>3. \A p : p.by \in Runs => (p \in posts' <=> p \in posts)
  <2>1. guestPost(i).by \notin Runs /\ \A p \in own(i) : p.by \notin Runs
    BY RegistryAssumption DEF guestPost, Post, own
  <2>2. CASE GuestRefresh(i)
    BY <2>1, <2>2 DEF GuestRefresh, outdated
  <2>3. CASE GuestMisses(i)
    BY <2>1, <2>3 DEF GuestMisses
  <2>4. CASE GuestStops(i)
    BY <2>1, <2>4 DEF GuestStops, deregister
  <2>5. CASE RelayComesUp(i) \/ GuestUnchanged(i) \/ GuestSkips(i)
    BY <2>5 DEF RelayComesUp, GuestUnchanged, GuestSkips
  <2> QED  BY <2>2, <2>3, <2>4, <2>5 DEF GuestStep
<1>4. \A r \in Runs : Named(r)' /\ Replaces(r)' /\ Accounts(r)'
  BY <1>1, <1>2, <1>3, RunAtRest DEF TurnInv
<1>5. OfInstances'
  <2>1. \A p \in posts : p.reg.relay \in Relays
    BY DEF TypeOK, Posts, Registrations
  <2> QED  BY <1>2, <1>3, <2>1 DEF TurnInv, OfInstances
<1> QED  BY <1>1, <1>4, <1>5 DEF TurnInv, Active, runVars

(* When a period passes the newest post is not the first to go.            *)
LEMMA TurnTick ==
    ASSUME TypeOK, TurnInv, Tick
    PROVE  TurnInv'
<1>1. UNCHANGED <<runVars, vm>>
  BY DEF Tick
<1>2. \A p \in posts' : \E q \in posts : p = [q EXCEPT !.age = @ + 1]
  BY DEF Tick
<1>3. \A q \in posts : q.age < MaxAge => [q EXCEPT !.age = @ + 1] \in posts'
  BY DEF Tick
<1>4. \A p \in posts' : \E q \in posts :
        p.by = q.by /\ p.reg = q.reg /\ p.age = q.age + 1 /\ q.age < MaxAge
  BY DEF Tick, TypeOK, Posts
<1>5. OfInstances'
  BY <1>1, <1>4 DEF TurnInv, OfInstances
<1>6. ASSUME NEW r \in Runs PROVE Named(r)' /\ Replaces(r)' /\ Accounts(r)'
  <2>1. Named(r)'
    BY <1>1 DEF TurnInv, Named, Active, first, runVars
  <2>2. Replaces(r)'
    <3>1. ASSUME pc[r] \in {"listPrevious", "forgetPrevious"},
                 NEW p \in posts', p.by \in Runs
          PROVE  \E q \in posts' : hash(q) = [reg |-> target[r], by |-> r] /\ q.age <= p.age
      <4>1. PICK o \in posts : p.by = o.by /\ p.age = o.age + 1 /\ o.age < MaxAge
        BY <1>4
      <4>2. PICK q \in posts : hash(q) = [reg |-> target[r], by |-> r] /\ q.age <= o.age
        BY <3>1, <4>1 DEF TurnInv, Replaces
      <4>3. q \in Posts /\ o \in Posts /\ MaxAge \in Nat
        BY RegistryAssumption DEF TypeOK
      <4>4. q.age < MaxAge
        BY <4>1, <4>2, <4>3 DEF Posts
      <4>5. [q EXCEPT !.age = @ + 1] \in posts'
        BY <1>3, <4>4
      <4>6. hash([q EXCEPT !.age = @ + 1]) = hash(q) /\ [q EXCEPT !.age = @ + 1].age = q.age + 1
        BY <4>3 DEF Posts, hash
      <4> QED  BY <4>1, <4>2, <4>3, <4>5, <4>6 DEF Posts
    <3> QED  BY <1>1, <3>1 DEF TurnInv, Replaces, runVars
  <2>3. Accounts(r)'
    BY <1>1, <1>4 DEF TurnInv, Accounts, reconciling, first, runVars
  <2> QED  BY <2>1, <2>2, <2>3
<1> QED  BY <1>1, <1>5, <1>6 DEF TurnInv, Active, runVars

(* One run moves at a time: the others have not begun or are through.      *)
LEMMA OthersInactive ==
    ASSUME RunsInTurn, TurnInv, NEW r \in Runs, RunStep(r), NEW s \in Runs, s # r
    PROVE  ~Active(s)
<1>1. CASE Start(r)
  <2>1. running = {q \in Runs : Active(q)} /\ Cardinality(running) < 1
    BY <1>1 DEF Start, RunsInTurn, running, Active
  <2>2. SUFFICES ASSUME Active(s) PROVE FALSE
    OBVIOUS
  <2>3. running = {s}
    BY <2>1, <2>2 DEF TurnInv
  <2>4. Cardinality({s}) = 1
    BY FS_Singleton
  <2> QED  BY <2>1, <2>3, <2>4
<1>2. CASE ~Start(r)
  <2>1. Active(r)
    BY <1>2 DEF RunStep, Publish, ListPrevious, ForgetPrevious, AwaitVisible, ListInstances,
       ReadInstance, ListPosts, ForgetStale, Active
  <2> QED  BY <2>1 DEF TurnInv
<1> QED  BY <1>1, <1>2

LEMMA OthersRest ==
    ASSUME TypeOK, NEW r \in Runs, RunStep(r), NEW s \in Runs, s # r
    PROVE  /\ pc'[s] = pc[s] /\ target'[s] = target[s] /\ live'[s] = live[s]
           /\ todo'[s] = todo[s] /\ doomed'[s] = doomed[s]
<1>1. CASE Start(r) \/ AwaitVisible(r)
  BY <1>1 DEF Start, AwaitVisible, Goto, TypeOK
<1>2. CASE Publish(r)
  BY <1>2 DEF Publish, Accepted, Published, Throws, Goto, TypeOK
<1>3. CASE ListPrevious(r)
  BY <1>3 DEF ListPrevious, Throws, Goto, TypeOK
<1>4. CASE ForgetPrevious(r)
  BY <1>4 DEF ForgetPrevious, Published, Throws, Goto, TypeOK
<1>5. CASE ListInstances(r)
  BY <1>5 DEF ListInstances, Goto, TypeOK
<1>6. CASE \E i \in Relays : ReadInstance(r, i)
  BY <1>6 DEF ReadInstance, Goto, TypeOK
<1>7. CASE ListPosts(r) \/ ForgetStale(r)
  BY <1>7 DEF ListPosts, ForgetStale, Goto, TypeOK
<1> QED  BY <1>1, <1>2, <1>3, <1>4, <1>5, <1>6, <1>7 DEF RunStep

(* What the steps of a run do to the posts.                                *)
LEMMA RunPosts ==
    ASSUME NEW r \in Runs, RunStep(r)
    PROVE  /\ UNCHANGED vm
           /\ \/ posts' = posts
              \/ Publish(r) /\ posts' = posts \cup {Post(target[r], r)}
              \/ (ForgetPrevious(r) \/ ForgetStale(r)) /\ posts' = without(doomed[r])
BY DEF RunStep, Start, Publish, ListPrevious, ForgetPrevious, AwaitVisible, ListInstances,
   ReadInstance, ListPosts, ForgetStale, guestVars

LEMMA OwnPublish ==
    ASSUME TypeOK, RunsInTurn, OfInstances, NEW r \in Runs, Named(r), Accounts(r), Publish(r)
    PROVE  Named(r)' /\ Replaces(r)' /\ Accounts(r)'
<1> DEFINE new == Post(target[r], r)
<1>1. /\ pc[r] = "publish" /\ UNCHANGED <<vm, target, live, todo, doomed>>
      /\ posts' = posts \/ posts' = posts \cup {new}
      /\ pc'[r] = "listPrevious" => posts' = posts \cup {new}
      /\ pc'[r] \in {"listPrevious", "await", "list", "done", "failed", "read"}
      /\ pc'[r] = "read" => ~first(r)
  BY DEF Publish, RunsInTurn, guestVars, Accepted, Published, Throws, Goto, TypeOK
<1>2. new.by = r /\ new.reg = target[r] /\ new.age = 0 /\ hash(new) = [reg |-> target[r], by |-> r]
  BY DEF Post, hash
<1>3. Named(r)'
  BY <1>1 DEF Named, Active, first
<1>4. Replaces(r)'
  <2>1. SUFFICES ASSUME pc'[r] = "listPrevious", NEW p \in posts'
                 PROVE  new \in posts' /\ new.age <= p.age
    BY <1>1, <1>2 DEF Replaces
  <2>2. p.age \in Nat
    BY <1>1, <1>2, <2>1 DEF TypeOK, Posts
  <2> QED  BY <1>1, <1>2, <2>1, <2>2
<1>5. Accounts(r)'
  <2>1. reconciling(r)' => reconciling(r) /\ target[r] \in live[r]
    BY <1>1 DEF reconciling, first, Accounts
  <2> QED  BY <1>1, <1>2, <2>1 DEF Accounts
<1> QED  BY <1>3, <1>4, <1>5

LEMMA OwnPrevious ==
    ASSUME TypeOK, NEW r \in Runs, Named(r), Replaces(r), Accounts(r),
           ListPrevious(r) \/ ForgetPrevious(r)
    PROVE  Named(r)' /\ Replaces(r)' /\ Accounts(r)'
<1>1. /\ UNCHANGED <<vm, target, live, todo>> /\ posts' \subseteq posts
      /\ pc[r] \in {"listPrevious", "forgetPrevious"}
      /\ pc'[r] = "forgetPrevious" => ListPrevious(r)
      /\ pc'[r] \in {"forgetPrevious", "await", "list", "done", "failed", "read"}
      /\ pc'[r] = "read" => ~first(r)
  BY DEF ListPrevious, ForgetPrevious, without, guestVars, Published, Throws, Goto, TypeOK
<1>2. Named(r)'
  BY <1>1 DEF Named, Active, first
<1>3. Replaces(r)'
  <2>1. SUFFICES ASSUME pc'[r] = "forgetPrevious" PROVE Replaces(r)'
    BY <1>1 DEF Replaces
  <2>2. ListPrevious(r) /\ pc[r] = "listPrevious" /\ posts' = posts
    BY <1>1, <2>1 DEF ListPrevious
  <2>3. doomed' = [doomed EXCEPT ![r] = {hash(p) : p \in {q \in posts :
                     /\ q.by \in Runs
                     /\ hash(q) # [reg |-> target[r], by |-> r]
                     /\ q.reg.relay = target[r].relay
                     /\ q.reg.profile = target[r].profile}}]
    BY <2>1, <2>2 DEF ListPrevious, Throws, Goto, TypeOK
  <2>4. \A h \in doomed'[r] :
          h # [reg |-> target[r], by |-> r] /\ h.reg.relay = target[r].relay
    <3>1. ASSUME NEW h \in doomed'[r]
          PROVE  \E q \in posts : h = hash(q) /\ hash(q) # [reg |-> target[r], by |-> r]
                                 /\ q.reg.relay = target[r].relay
      BY <2>3, <3>1 DEF TypeOK
    <3>2. \A q : hash(q).reg = q.reg
      BY DEF hash
    <3> QED  BY <3>1, <3>2
  <2> QED  BY <1>1, <2>1, <2>2, <2>4 DEF Replaces
<1>4. Accounts(r)'
  <2>1. reconciling(r)' => reconciling(r)
    BY <1>1 DEF reconciling, first
  <2> QED  BY <1>1, <2>1 DEF Accounts
<1> QED  BY <1>2, <1>3, <1>4

LEMMA OwnReconcile ==
    ASSUME TypeOK, RunsInTurn, NEW r \in Runs, Named(r), Accounts(r), OfInstances,
           \/ ListInstances(r) \/ \E i \in Relays : ReadInstance(r, i)
           \/ ListPosts(r) \/ ForgetStale(r)
    PROVE  Named(r)' /\ Replaces(r)' /\ Accounts(r)'
<1> DEFINE P == plan[r].reg.profile
<1>1. /\ UNCHANGED vm /\ posts' \subseteq posts
      /\ pc'[r] \in {"read", "publish", "failed", "forgetStale", "done"}
  BY DEF ListInstances, ReadInstance, ListPosts, ForgetStale, guestVars, without, Goto, TypeOK
<1>2. Replaces(r)'
  BY <1>1 DEF Replaces
<1>3. CASE ListInstances(r)
  <2>1. pc[r] = "list" /\ target' = target /\ (pc'[r] = "failed" => todo' = todo)
    BY <1>3 DEF ListInstances, Goto, TypeOK
  <2>2. ASSUME pc'[r] # "failed"
        PROVE  /\ pc'[r] = "read"
               /\ live'[r] = {reg \in {plan[r].reg} : ~reg.named}
               /\ \E gone \in SUBSET {i \in Relays : vm[i] = "down"} :
                    todo'[r] = {i \in Relays \ gone :
                                  vm[i] # "absent" /\ plan[r].reg # registrationOf(i, P)}
    BY <1>3, <2>2 DEF ListInstances, Goto, TypeOK
  <2>3. Named(r)'
    BY <1>1, <2>1, <2>2 DEF Named, Active, first
  <2>4. Accounts(r)'
    BY <1>1, <2>2, PlanReg DEF Accounts, reconciling, RunsInTurn, Unnamed
  <2> QED  BY <1>2, <2>3, <2>4
<1>4. ASSUME NEW i \in Relays, ReadInstance(r, i) PROVE Named(r)' /\ Accounts(r)'
  <2>1. /\ pc[r] = "read" /\ i \in todo[r] /\ todo'[r] = todo[r] \ {i} /\ posts' = posts
        /\ \/ /\ live'[r] = live[r] \cup {registrationOf(i, P)}
              /\ target'[r] = registrationOf(i, P) /\ pc'[r] = "publish"
           \/ /\ vm[i] # "up" /\ pc'[r] = "read" /\ live'[r] = live[r] /\ target'[r] = target[r]
    BY <1>4 DEF ReadInstance, answers, RunsInTurn, Goto, TypeOK
  <2>2. Named(r)'
    BY <1>1, <2>1 DEF Named, Active, first, registrationOf
  <2>3. Accounts(r)'
    BY <1>1, <2>1 DEF Accounts, reconciling
  <2> QED  BY <2>2, <2>3
<1>5. CASE ListPosts(r)
  <2>1. /\ pc[r] = "read" /\ todo[r] = {} /\ UNCHANGED <<target, todo, live>> /\ posts' = posts
        /\ pc'[r] \in {"forgetStale", "done"}
    BY <1>5 DEF ListPosts, Goto, TypeOK
  <2>2. Named(r)'
    BY <1>1, <2>1 DEF Named, Active, first
  <2>3. ASSUME pc'[r] = "forgetStale"
        PROVE  \A h \in doomed'[r] : h.reg.profile = P /\ h.reg \notin live[r]
    <3>1. PICK S \in selections :
            doomed' = [doomed EXCEPT ![r] =
                {hash(p) : p \in {q \in S :
                    /\ q.by \in Runs
                    /\ q.reg.profile = plan[r].reg.profile
                    /\ q.reg \notin live[r]}}]
      BY <1>5, <2>3 DEF ListPosts, Goto, TypeOK
    <3> QED  BY <3>1 DEF hash, TypeOK
  <2>4. Accounts(r)'
    BY <1>1, <2>1, <2>3 DEF Accounts, reconciling
  <2> QED  BY <1>2, <2>2, <2>4
<1>6. CASE ForgetStale(r)
  <2>1. UNCHANGED <<target, todo>> /\ pc'[r] = "done"
    BY <1>6 DEF ForgetStale, Goto, TypeOK
  <2> QED  BY <1>1, <1>2, <2>1 DEF Named, Active, Accounts, reconciling
<1> QED  BY <1>2, <1>3, <1>4, <1>5, <1>6

LEMMA TurnRun ==
    ASSUME TypeOK, RunsInTurn, TurnInv, NEW r \in Runs, RunStep(r)
    PROVE  TurnInv'
<1>1. UNCHANGED vm
  BY RunPosts
<1>2. ASSUME NEW s \in Runs, s # r PROVE ~Active(s)' /\ Named(s)' /\ Replaces(s)' /\ Accounts(s)'
  <2>1. ~Active(s) /\ todo[s] \subseteq Relays
    BY <1>2, OthersInactive DEF TypeOK
  <2>2. pc'[s] = pc[s] /\ target'[s] = target[s] /\ todo'[s] = todo[s]
    BY <1>2, OthersRest
  <2> QED  BY <1>1, <1>2, <2>1, <2>2, RunIdle DEF TurnInv, Active
<1>3. OfInstances'
  <2>1. OfInstances /\ Named(r) /\ Publish(r) => ~target[r].named /\ vm[target[r].relay] # "absent"
    BY DEF Named, Publish, Active
  <2>2. Post(target[r], r).reg = target[r] /\ without(doomed[r]) \subseteq posts
    BY DEF Post, without
  <2> QED  BY <1>1, <2>1, <2>2, RunPosts DEF TurnInv, OfInstances
<1>4. Named(r)' /\ Replaces(r)' /\ Accounts(r)'
  <2>1. CASE Start(r)
    <3>1. /\ pc[r] = "idle" /\ pc'[r] = "publish" /\ vm[plan[r].reg.relay] # "absent"
          /\ UNCHANGED <<target, live, todo, doomed, posts>>
      BY <2>1 DEF Start, Goto, TypeOK
    <3>2. target[r] = plan[r].reg /\ ~plan[r].reg.named
      BY <3>1 DEF TurnInv, Named, first, RunsInTurn, Unnamed
    <3> QED
      BY <1>1, <3>1, <3>2 DEF TurnInv, Named, Active, first, Replaces, Accounts, reconciling
  <2>2. CASE AwaitVisible(r)
    <3>1. /\ pc[r] = "await" /\ pc'[r] \in {"list", "failed"}
          /\ UNCHANGED <<target, live, todo, doomed, posts>>
      BY <2>2 DEF AwaitVisible, Goto, TypeOK
    <3> QED
      BY <1>1, <3>1 DEF TurnInv, Named, Active, first, Replaces, Accounts, reconciling
  <2> QED
    BY <2>1, <2>2, OwnPublish, OwnPrevious, OwnReconcile DEF TurnInv, RunStep
<1> QED  BY <1>2, <1>3, <1>4 DEF TurnInv

LEMMA TurnNext == TypeOK /\ RunsInTurn /\ TurnInv /\ [Next]_vars => TurnInv'
<1> SUFFICES ASSUME TypeOK, RunsInTurn, TurnInv, [Next]_vars PROVE TurnInv'
  OBVIOUS
<1>1. CASE UNCHANGED vars
  BY <1>1 DEF vars, guestVars, runVars, TurnInv, Active, OfInstances, Named, first, Replaces,
     Accounts, reconciling
<1> QED  BY <1>1, TurnGuest, TurnTick, TurnRun DEF Next

(* A step leaves a relay that is up one of the owner's posts it has.       *)
LEMMA LiveListedStep ==
    ASSUME TypeOK, RunsInTurn, TurnInv, [Next]_vars, NEW i \in Relays, vm[i] = "up",
           NEW p \in ownerPosts(i), p.age < MaxAge
    PROVE  ownerPosts(i)' # {}
<1>1. p \in posts /\ p.by \in Runs /\ p.reg.relay = i
  BY DEF ownerPosts
<1>2. SUFFICES \E q \in posts' : q.by \in Runs /\ q.reg.relay = i
  BY DEF ownerPosts
<1>3. CASE Tick
  <2>1. [p EXCEPT !.age = @ + 1] \in posts'
    BY <1>1, <1>3 DEF Tick
  <2> QED  BY <1>1, <2>1 DEF TypeOK, Posts
<1>4. ASSUME NEW j \in Relays, GuestStep(j) PROVE p \in posts'
  <2>1. p \notin own(j)
    BY <1>1, RegistryAssumption DEF own
  <2> QED
    BY <1>1, <1>4, <2>1 DEF GuestStep, RelayComesUp, GuestRefresh, outdated, GuestUnchanged,
       GuestMisses, GuestSkips, GuestStops, deregister
<1>5. ASSUME NEW r \in Runs, RunStep(r), p \notin posts'
      PROVE  \E q \in posts' : q.by \in Runs /\ q.reg.relay = i
  <2>1. /\ posts' = without(doomed[r]) /\ hash(p) \in doomed[r]
        /\ ForgetPrevious(r) \/ ForgetStale(r)
    BY <1>1, <1>5, RunPosts DEF without
  <2>2. CASE ForgetPrevious(r)
    <3>1. pc[r] = "forgetPrevious" /\ target[r].relay = i
      BY <1>1, <2>1, <2>2 DEF ForgetPrevious, TurnInv, Replaces, hash
    <3>2. PICK q \in posts : hash(q) = [reg |-> target[r], by |-> r]
      BY <1>1, <3>1 DEF TurnInv, Replaces
    <3>3. hash(q) \notin doomed[r]
      BY <3>1, <3>2 DEF TurnInv, Replaces
    <3>4. q \in posts'
      BY <2>1, <3>2, <3>3 DEF without
    <3>5. q.by = r /\ q.reg = target[r]
      BY <3>2 DEF hash
    <3> QED  BY <3>1, <3>4, <3>5
  <2>3. CASE ForgetStale(r)
    <3>1. /\ pc[r] = "forgetStale" /\ todo[r] = {} /\ p.reg.profile = plan[r].reg.profile
          /\ p.reg \notin live[r]
      BY <2>1, <2>3 DEF ForgetStale, TurnInv, Accounts, hash
    <3>2. p.reg = registrationOf(i, plan[r].reg.profile)
      <4>1. ~p.reg.named /\ p.reg \in Registrations
        BY <1>1 DEF TurnInv, OfInstances, TypeOK, Posts
      <4> QED  BY <1>1, <3>1, <4>1 DEF registrationOf, Registrations
    <3> QED  BY <1>1, <3>1, <3>2 DEF TurnInv, Accounts, reconciling
  <2> QED  BY <2>1, <2>2, <2>3
<1>6. CASE UNCHANGED vars
  BY <1>1, <1>6 DEF vars
<1> QED  BY <1>1, <1>3, <1>4, <1>5, <1>6 DEF Next

(* RunsKeepLiveListed for any number of relays, runs and periods, as long  *)
(* as runs come in turn, are told their instances and can read the relays  *)
(* that are up, Aleph lists what it says it has, and a relay that is down  *)
(* stays down. (With two runs at once, a missed read, a refused post, a    *)
(* named registration or a relay that comes back behind a list of          *)
(* instances, TLC finds a run that takes the last post away.)              *)
THEOREM LiveListed == RunsInTurn => (Spec => RunsKeepLiveListed)
<1> SUFFICES ASSUME RunsInTurn PROVE Spec => RunsKeepLiveListed
  OBVIOUS
<1> DEFINE P == \A i \in Relays :
         vm[i] = "up" /\ (\E p \in ownerPosts(i) : p.age < MaxAge) => ownerPosts(i)' # {}
<1>1. TypeOK /\ TurnInv /\ [Next]_vars => TurnInv'
  BY TurnNext
<1>2. TypeOK /\ TurnInv /\ [Next]_vars => [P]_vars
  BY LiveListedStep
<1>3. RunsKeepLiveListed <=> [][P]_vars
  BY PTL DEF RunsKeepLiveListed
<1> QED
  BY <1>1, <1>2, <1>3, TypeInit, TypeNext, TurnInit, PTL DEF Spec
=============================================================================
