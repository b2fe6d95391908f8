---------------------------- MODULE RelayRegistry ----------------------------
(***************************************************************************)
(* The registry of relays on Aleph: bootstrap posts that say where a relay *)
(* can be dialed. Two parties write it.                                    *)
(*                                                                         *)
(* A guest republishes its own post on a timer, with a key of its own, and *)
(* forgets its outdated ones (uc-go-peer-bootstrap-refresh.py). That of an *)
(* orbitdb-relay keeps a file of what it has published last, and leaves    *)
(* out what has not changed since (orbitdb-relay-bootstrap-refresh.py).    *)
(*                                                                         *)
(* A run of the owner (the registration step of a deploy, or the           *)
(* refresh-bootstrap mode of the action) publishes a post for one relay    *)
(* and forgets the older ones (publishRelayBootstrapRegistration), then    *)
(* reconciles: it republishes every other relay of the owner it can read   *)
(* and forgets the posts of the rest                                       *)
(* (reconcileOwnerRelayBootstrapRegistrations). All runs share one key.    *)
(*                                                                         *)
(* Time is the age of a post, in periods of the guest's timer.             *)
(***************************************************************************)
EXTENDS Naturals, FiniteSets

CONSTANTS
    Relays,         \* instances of the owner
    profileOf,      \* the profile each relay was deployed with
    Runs,           \* runs of the owner, each of them once
    plan,           \* what each run is for
    MaxRunning,     \* bound on the runs that overlap
    MaxAge,         \* DEFAULT_BOOTSTRAP_MAX_AGE_MS
    StaleAge,       \* STALE_RECORD_MAX_AGE_SECONDS
    MaxMisses,      \* bound on the periods in a row without a post of a guest
    returning,      \* relays that may come back, or be configured anew
    MayMissReads,   \* a relay that is up may not be readable
    MayRefuse,      \* whose posts Aleph may answer for and still refuse
    Guest           \* the key of the guest itself

Profiles == {"uc-go-peer", "orbitdb-relay"}

(* named: registered under the relay's name alone, as refresh-bootstrap    *)
(* does when it is given no instance hash.                                 *)
Registrations == [relay: Relays, profile: Profiles, named: BOOLEAN]

(* A refresh may be told to forget nothing, or not to reconcile.           *)
PlanType ==
    [mode: {"deploy", "refresh"}, reg: Registrations,
     forgetPrevious: BOOLEAN, reconcileOwner: BOOLEAN]

ASSUME RegistryAssumption ==
    /\ profileOf \in [Relays -> Profiles]
    /\ plan \in [Runs -> PlanType]
    /\ \A r \in Runs :
         /\ plan[r].mode = "deploy" =>
              ~plan[r].reg.named /\ plan[r].forgetPrevious /\ plan[r].reconcileOwner
         /\ plan[r].reg.profile = profileOf[plan[r].reg.relay]
    /\ MaxRunning \in Nat /\ MaxMisses \in Nat
    /\ MaxAge \in Nat /\ StaleAge \in 1..MaxAge /\ MaxMisses < MaxAge
    /\ MayMissReads \in BOOLEAN /\ MayRefuse \subseteq {"owner", "guest"}
    /\ Guest \notin Runs /\ returning \subseteq Relays

(* A post is named by its registration and the run (or guest) it is from. *)
Hashes == [reg: Registrations, by: Runs \cup {Guest}]
Posts == [reg: Registrations, by: Runs \cup {Guest}, age: 0..MaxAge]

VARIABLES
    vm,             \* the virtual machine of each relay
    serving,        \* relays whose guest has published since it came up
    fresh,          \* guests that are through with this period's refresh
    missed,         \* periods each guest has let pass without a post
    remembered,     \* periods in which its file may still count as recent
    posts,          \* the posts of the channel, those beyond MaxAge left out
    pc,             \* where each run is
    target,         \* the registration the run is publishing
    live,           \* liveRegistrationIds
    todo,           \* processed instances the reconcile has still to read
    doomed          \* hashes the run is about to forget

guestVars == <<vm, serving, fresh, missed, remembered>>
runVars == <<pc, target, live, todo, doomed>>
vars == <<guestVars, posts, runVars>>

Labels ==
    {"idle", "publish", "listPrevious", "forgetPrevious", "await", "list",
     "read", "listPosts", "forgetStale", "done", "failed"}

TypeOK ==
    /\ vm \in [Relays -> {"absent", "up", "down"}]
    /\ serving \subseteq Relays
    /\ fresh \subseteq Relays
    /\ missed \in [Relays -> 0..MaxMisses]
    /\ remembered \in [Relays -> 0..2]
    /\ posts \subseteq Posts
    /\ pc \in [Runs -> Labels]
    /\ target \in [Runs -> Registrations]
    /\ live \in [Runs -> SUBSET Registrations]
    /\ todo \in [Runs -> SUBSET Relays]
    /\ doomed \in [Runs -> SUBSET Hashes]

Init ==
    /\ vm = [i \in Relays |-> "absent"]
    /\ serving = {}
    /\ fresh = {}
    /\ missed = [i \in Relays |-> 0]
    /\ remembered = [i \in Relays |-> 0]
    /\ posts = {}
    /\ pc = [r \in Runs |-> "idle"]
    /\ target = [r \in Runs |-> plan[r].reg]
    /\ live = [r \in Runs |-> {}]
    /\ todo = [r \in Runs |-> {}]
    /\ doomed = [r \in Runs |-> {}]

-----------------------------------------------------------------------------
(* createRelayBootstrapRegistrationId, for an instance of a list *)
registrationOf(i, profile) ==
    [relay |-> i, profile |-> profile, named |-> FALSE]

hash(p) == [reg |-> p.reg, by |-> p.by]

without(hashes) == {p \in posts : hash(p) \notin hashes}

Post(reg, by) == [reg |-> reg, by |-> by, age |-> 0]

(* selectCurrentRelayBootstrapPosts: of every registration the post with   *)
(* the newest updatedAt. Posts of one period may be in either order.       *)
newest == {p \in posts : \A q \in posts : q.reg = p.reg => p.age <= q.age}

selections ==
    {S \in SUBSET newest :
        /\ \A p, q \in S : p.reg = q.reg => p = q
        /\ {p.reg : p \in S} = {p.reg : p \in newest}}

running == {r \in Runs : pc[r] \notin {"idle", "done", "failed"}}

Goto(r, label) == pc' = [pc EXCEPT ![r] = label]

-----------------------------------------------------------------------------
(* publishRelayBootstrapRegistration, twice in a run: for the relay the    *)
(* run is about, and in the reconcile for every other one.                 *)

first(r) == target[r] = plan[r].reg

(* After the first publication a deploy waits until it is visible.         *)
Published(r) ==
    Goto(r, IF ~first(r) THEN "read"
            ELSE IF plan[r].mode = "deploy" THEN "await"
            ELSE IF plan[r].reconcileOwner THEN "list" ELSE "done")

forgets(r) == first(r) => plan[r].forgetPrevious

(* Aleph has taken the post.                                               *)
Accepted(r) ==
    IF forgets(r) THEN Goto(r, "listPrevious") ELSE Published(r)

(* The first publication fails the run (on another API host it starts      *)
(* anew, which is a run of its own), the reconcile notes the error.        *)
Throws(r) == Goto(r, IF first(r) THEN "failed" ELSE "read")

(* A deploy registers the relay it has configured, a refresh what it is    *)
(* told of.                                                                *)
Start(r) ==
    /\ pc[r] = "idle"
    /\ Cardinality(running) < MaxRunning
    /\ plan[r].mode = "deploy" => vm[plan[r].reg.relay] = "up"
    /\ vm[plan[r].reg.relay] # "absent"
    /\ Goto(r, "publish")
    /\ UNCHANGED <<guestVars, posts, target, live, todo, doomed>>

(* The post may be skipped (no public address) or broadcast. A call that   *)
(* throws may do so after Aleph has the post.                              *)
Publish(r) ==
    /\ pc[r] = "publish"
    /\ \/ /\ posts' = posts \cup {Post(target[r], r)}
          /\ Accepted(r)
       \/ /\ "owner" \in MayRefuse
          /\ Accepted(r)
          /\ UNCHANGED posts
       \/ /\ posts' \in {posts, posts \cup {Post(target[r], r)}}
          /\ Throws(r)
       \/ /\ Published(r)
          /\ UNCHANGED posts
    /\ UNCHANGED <<guestVars, target, live, todo, doomed>>

(* Mutant: the post just published is not spared. *)
ListPrevious_OwnToo(r) ==
    /\ pc[r] = "listPrevious"
    /\ \/ /\ doomed' = [doomed EXCEPT ![r] =
                {hash(p) : p \in {q \in posts :
                    /\ q.by \in Runs
                    /\ q.reg.relay = target[r].relay
                    /\ q.reg.profile = target[r].profile}}]
          /\ Goto(r, "forgetPrevious")
       \/ /\ Throws(r)
          /\ UNCHANGED doomed
    /\ UNCHANGED <<guestVars, posts, target, live, todo>>

(* forgetPrevious: the other posts of this key for the registration, or    *)
(* for the same peer and profile.                                          *)
ListPrevious(r) ==
    /\ pc[r] = "listPrevious"
    /\ \/ /\ doomed' = [doomed EXCEPT ![r] =
                {hash(p) : p \in {q \in posts :
                    /\ q.by \in Runs
                    /\ hash(q) # [reg |-> target[r], by |-> r]
                    /\ q.reg.relay = target[r].relay
                    /\ q.reg.profile = target[r].profile}}]
          /\ Goto(r, "forgetPrevious")
       \/ /\ Throws(r)
          /\ UNCHANGED doomed
    /\ UNCHANGED <<guestVars, posts, target, live, todo>>

ForgetPrevious(r) ==
    /\ pc[r] = "forgetPrevious"
    /\ posts' \in {posts, without(doomed[r])}
    /\ doomed' = [doomed EXCEPT ![r] = {}]
    /\ Published(r) \/ Throws(r)
    /\ UNCHANGED <<guestVars, target, live, todo>>

(* waitForRelayBootstrapRegistration: a current post of this sender for    *)
(* the registration or the peer.                                           *)
AwaitVisible(r) ==
    /\ pc[r] = "await"
    /\ \/ /\ \E p \in newest : p.by \in Runs /\ p.reg.relay = target[r].relay
          /\ Goto(r, "list")
       \/ Goto(r, "failed")
    /\ UNCHANGED <<guestVars, posts, target, live, todo, doomed>>

-----------------------------------------------------------------------------
(* reconcileOwnerRelayBootstrapRegistrations *)

(* Mutant: the current relay is not counted among the live ones. *)
ListInstances_NoCurrent(r) ==
    /\ pc[r] = "list"
    /\ \E gone \in SUBSET {i \in Relays : vm[i] = "down"} :
         todo' = [todo EXCEPT ![r] =
             {i \in Relays \ gone : vm[i] # "absent"
                  /\ plan[r].reg # registrationOf(i, plan[r].reg.profile)}]
    /\ Goto(r, "read")
    /\ UNCHANGED <<guestVars, posts, target, live, doomed>>

(* The INSTANCE list: every relay that is up; one that is down may or may  *)
(* not still have its message. A run without an instance hash has no       *)
(* "current" relay.                                                        *)
ListInstances(r) ==
    /\ pc[r] = "list"
    /\ \/ /\ live' = [live EXCEPT ![r] = {reg \in {plan[r].reg} : ~reg.named}]
          /\ \E gone \in SUBSET {i \in Relays : vm[i] = "down"} :
               todo' = [todo EXCEPT ![r] =
                   {i \in Relays \ gone : vm[i] # "absent"
                        /\ plan[r].reg # registrationOf(i, plan[r].reg.profile)}]
          /\ Goto(r, "read")
       \/ /\ Goto(r, "failed")
          /\ UNCHANGED <<live, todo>>
    /\ UNCHANGED <<guestVars, posts, target, doomed>>

(* fetchRelayMetadataForRuntime: no proxy yet, a time-out, or no peer id   *)
(* and addresses in the answer make a relay that is up unreadable.         *)
answers(i) ==
    {a \in {"metadata", "nothing"} :
        IF a = "metadata" THEN vm[i] = "up" ELSE vm[i] # "up" \/ MayMissReads}

(* The runtime and the metadata of one instance: it is live when it can be *)
(* read, whatever becomes of the publication.                              *)
ReadInstance(r, i) ==
    /\ pc[r] = "read"
    /\ i \in todo[r]
    /\ todo' = [todo EXCEPT ![r] = @ \ {i}]
    /\ LET reg == registrationOf(i, plan[r].reg.profile) IN
       \/ /\ "metadata" \in answers(i)
          /\ live' = [live EXCEPT ![r] = @ \cup {reg}]
          /\ target' = [target EXCEPT ![r] = reg]
          /\ Goto(r, "publish")
       \/ /\ "nothing" \in answers(i)
          /\ UNCHANGED <<pc, live, target>>
    /\ UNCHANGED <<guestVars, posts, doomed>>

(* The stale posts: those of the selection that have this key and profile  *)
(* and a registration that is not live. A lookup that fails ends the run.  *)
ListPosts(r) ==
    /\ pc[r] = "read"
    /\ todo[r] = {}
    /\ \/ /\ \E S \in selections :
               doomed' = [doomed EXCEPT ![r] =
                   {hash(p) : p \in {q \in S :
                       /\ q.by \in Runs
                       /\ q.reg.profile = plan[r].reg.profile
                       /\ q.reg \notin live[r]}}]
          /\ Goto(r, "forgetStale")
       \/ /\ Goto(r, "done")
          /\ UNCHANGED doomed
    /\ UNCHANGED <<guestVars, posts, target, live, todo>>

ForgetStale(r) ==
    /\ pc[r] = "forgetStale"
    /\ posts' \in {posts, without(doomed[r])}
    /\ doomed' = [doomed EXCEPT ![r] = {}]
    /\ Goto(r, "done")
    /\ UNCHANGED <<guestVars, target, live, todo>>

-----------------------------------------------------------------------------
(* The guests *)

(* The posts of the guest's own key. *)
own(i) == {p \in posts : p.by = Guest /\ p.reg.relay = i}

(* The guest is set up, or its machine comes back with the disk it had. *)
RelayComesUp(i) ==
    /\ vm[i] = "absent" \/ (vm[i] = "down" /\ i \in returning)
    /\ vm' = [vm EXCEPT ![i] = "up"]
    /\ UNCHANGED <<serving, fresh, missed, remembered, posts, runVars>>

guestPost(i) == Post(registrationOf(i, profileOf[i]), Guest)

(* remember_published, for five of the six hours of a period; the period   *)
(* may begin with a post of the end of the last one.                       *)
remember_published(i) ==
    remembered' = [remembered EXCEPT ![i] = IF profileOf[i] = "orbitdb-relay" THEN 2 ELSE 0]

recently_published(i) == remembered[i] > 0

(* fetch_previous_hashes: those whose updatedAt lies before the cutoff. A  *)
(* post as old as the cutoff may lie on either side of it.                 *)
outdated(i) == {p \in own(i) : p.age >= StaleAge}

(* attempt_publish: the post, then the FORGET of the guest's own outdated  *)
(* posts, which may fail.                                                  *)
GuestRefresh(i) ==
    /\ vm[i] = "up" /\ i \notin fresh
    /\ \E old \in SUBSET outdated(i),
         taken \in {TRUE, "guest" \notin MayRefuse} :
         /\ posts' = (posts \ old) \cup {p \in {guestPost(i)} : taken}
         /\ serving' = serving \cup {j \in {i} : taken}
    /\ fresh' = fresh \cup {i}
    /\ missed' = [missed EXCEPT ![i] = 0]
    /\ remember_published(i)
    /\ UNCHANGED <<vm, runVars>>

(* The registration says what the file says: nothing is posted. A guest    *)
(* that serves lets a period pass this way, one that has come back may not *)
(* have a post at all.                                                     *)
GuestUnchanged(i) ==
    /\ vm[i] = "up" /\ i \notin fresh
    /\ recently_published(i)
    /\ IF i \in serving
       THEN missed[i] < MaxMisses /\ missed' = [missed EXCEPT ![i] = @ + 1]
       ELSE UNCHANGED missed
    /\ fresh' = fresh \cup {i}
    /\ UNCHANGED <<vm, serving, remembered, posts, runVars>>

(* Mutant: the outdated posts are forgotten before the new one is out. *)
GuestMisses_ForgetsFirst(i) ==
    /\ vm[i] = "up" /\ i \in serving \ fresh
    /\ missed[i] < MaxMisses
    /\ posts' = posts \ outdated(i)
    /\ fresh' = fresh \cup {i}
    /\ missed' = [missed EXCEPT ![i] = @ + 1]
    /\ UNCHANGED <<vm, serving, remembered, runVars>>

(* A refresh whose broadcast fails raises before anything is forgotten or  *)
(* remembered, though Aleph may have the post; the timer tries again next  *)
(* period.                                                                 *)
GuestMisses(i) ==
    /\ vm[i] = "up" /\ i \in serving \ fresh
    /\ missed[i] < MaxMisses
    /\ fresh' = fresh \cup {i}
    /\ missed' = [missed EXCEPT ![i] = @ + 1]
    /\ posts' \in {posts, posts \cup {guestPost(i)}}
    /\ UNCHANGED <<vm, serving, remembered, runVars>>

(* main(): until the deadline the relay has shown no address that can be   *)
(* dialed from outside, and there is nothing to publish.                   *)
GuestSkips(i) ==
    /\ vm[i] = "up" /\ i \in serving \ fresh
    /\ missed[i] < MaxMisses
    /\ fresh' = fresh \cup {i}
    /\ missed' = [missed EXCEPT ![i] = @ + 1]
    /\ UNCHANGED <<vm, serving, remembered, posts, runVars>>

(* ExecStop of the deregister service: every post of the guest's own key,  *)
(* as far as it gets. The file of what was published stays as it is.       *)
deregister(i) == posts' \in {posts, posts \ own(i)}

(* The service stops with the machine, or is restarted when the guest is   *)
(* configured anew; a crash or a power-off stops the machine without it.   *)
GuestStops(i) ==
    /\ vm[i] = "up"
    /\ deregister(i)
    /\ \/ vm' = [vm EXCEPT ![i] = "down"]
       \/ i \in returning /\ UNCHANGED vm
    /\ serving' = serving \ {i}
    /\ fresh' = fresh \ {i}
    /\ UNCHANGED <<missed, remembered, runVars>>

(* The file grows a period older. *)
forgetful == [i \in Relays |-> IF remembered[i] > 0 THEN remembered[i] - 1 ELSE 0]

(* Mutant: a post is never too old. *)
Tick_NoMaxAge ==
    /\ serving \subseteq fresh
    /\ posts' = {[p EXCEPT !.age = IF @ < MaxAge THEN @ + 1 ELSE @] : p \in posts}
    /\ fresh' = {}
    /\ remembered' = forgetful
    /\ UNCHANGED <<vm, serving, missed, runVars>>

(* Mutant: the age of the file is not looked at. *)
Tick_Remembers ==
    /\ serving \subseteq fresh
    /\ posts' = {[p EXCEPT !.age = @ + 1] : p \in {q \in posts : q.age < MaxAge}}
    /\ fresh' = {}
    /\ UNCHANGED <<vm, serving, missed, remembered, runVars>>

(* A period of the timer passes. No guest that serves lets one go by       *)
(* without a refresh, and selectCurrentRelayBootstrapPosts drops a post    *)
(* older than MaxAge.                                                      *)
Tick ==
    /\ serving \subseteq fresh
    /\ posts' = {[p EXCEPT !.age = @ + 1] : p \in {q \in posts : q.age < MaxAge}}
    /\ fresh' = {}
    /\ remembered' = forgetful
    /\ UNCHANGED <<vm, serving, missed, runVars>>

-----------------------------------------------------------------------------
RunStep(r) ==
    \/ Start(r) \/ Publish(r) \/ ListPrevious(r) \/ ForgetPrevious(r)
    \/ AwaitVisible(r) \/ ListInstances(r)
    \/ \E i \in Relays : ReadInstance(r, i)
    \/ ListPosts(r) \/ ForgetStale(r)

GuestStep(i) ==
    \/ RelayComesUp(i) \/ GuestRefresh(i) \/ GuestUnchanged(i)
    \/ GuestMisses(i) \/ GuestSkips(i) \/ GuestStops(i)

Next ==
    \/ \E r \in Runs : RunStep(r)
    \/ \E i \in Relays : GuestStep(i)
    \/ Tick

Spec == Init /\ [][Next]_vars

(* Time passes, and the timer of a guest that is up goes off.              *)
FairSpec ==
    /\ Spec
    /\ WF_vars(Tick)
    /\ \A i \in Relays : WF_vars(GuestRefresh(i) \/ GuestUnchanged(i))

-----------------------------------------------------------------------------
(* Properties *)

(* Unless Aleph refuses what it has answered for: whatever the owner's     *)
(* runs do, fail at or overlap in, a relay whose guest serves stays listed *)
(* under its own registration. The guest's refresh never forgets the post  *)
(* that still speaks for it, and MaxMisses refreshes may fail in a row.    *)
GuestKeepsListed ==
    \A i \in serving :
        \E p \in own(i) : p.reg = registrationOf(i, profileOf[i])

(* A relay that is down and does not come back leaves the registry: by     *)
(* deregistration, by a reconcile, or by age when neither comes to pass.   *)
DownIsUnlisted ==
    \A i \in Relays :
        (vm[i] = "down") ~> (vm[i] # "down" \/ \A p \in posts : p.reg.relay # i)

(* A relay that is up gets back into the registry, or stops: though its    *)
(* guest has deregistered and takes its registration for published, the    *)
(* file that says so is too old by and by.                                 *)
UpIsListed ==
    \A i \in Relays : (vm[i] = "up") ~> (vm[i] # "up" \/ own(i) # {})

(* A relay whose guest is through with this period's refresh is listed.    *)
(* (MCRegistryUnchanged shows that this fails: see the README.)            *)
RefreshedIsListed ==
    \A i \in fresh : vm[i] = "up" => own(i) # {}

(* Posts of the owner's key for a relay. *)
ownerPosts(i) == {p \in posts : p.by \in Runs /\ p.reg.relay = i}

(* No run of the owner takes the last post of its key for a relay that is  *)
(* up away; such a post only goes by age.                                  *)
RunsKeepLiveListed ==
    [][\A i \in Relays :
         vm[i] = "up" /\ (\E p \in ownerPosts(i) : p.age < MaxAge)
             => ownerPosts(i)' # {}]_vars

(* A run that registered a relay does not forget that very post in its     *)
(* reconcile.                                                              *)
RunKeepsItsOwn ==
    \A r \in Runs :
        pc[r] = "forgetStale" => [reg |-> plan[r].reg, by |-> r] \notin doomed[r]
=============================================================================
