-------------------------- MODULE SitePublication ---------------------------
(***************************************************************************)
(* Publishing static sites from workflow runs (packages/node/src/          *)
(* site-runner.ts and domain-link.ts). A run uploads a build as a STORE,   *)
(* records it under websites[name] of the account's aggregate, forgets the *)
(* uploads that are older than the newest few, and in a later job links a  *)
(* custom domain to it. Retention leaves alone what a website or a domain  *)
(* points to, but it reads that before it forgets, and a link is attached  *)
(* after its STORE was looked at.                                          *)
(*                                                                         *)
(* Runs of different sites share the account and go side by side; runs of  *)
(* one site do so only if it is in Overlap. Any request may fail, and a    *)
(* job that failed may be run again. A message that Aleph answers with     *)
(* "pending" counts as sent: the run goes on, and Aleph applies the        *)
(* message later, or never.                                                *)
(***************************************************************************)
EXTENDS Naturals, FiniteSets, Sequences

CONSTANTS
    Runs,           \* workflow runs; each uploads one build
    Sites,          \* names of sites, each with a domain of its own
    site,           \* the site of a run
    keepCount,      \* ALEPH_SITE_RETENTION_KEEP_COUNT
    BatchSize,      \* SITE_RETENTION_BATCH_SIZE
    ApiHosts,       \* number of API hosts a link is tried on
    Overlap,        \* sites whose runs overlap
    MaxFailures,    \* bound on requests that fail or are answered "pending"
    None

(* The fields of websites[name] that matter here; the history holds the    *)
(* volume of every version before.                                         *)
Entry ==
    {entry \in [version: Nat, volume: Runs, history: Seq(Runs)] :
        entry.version = Len(entry.history) + 1}

ASSUME SiteAssumption ==
    /\ site \in [Runs -> Sites]
    /\ keepCount \in Nat /\ BatchSize \in Nat \ {0} /\ ApiHosts \in Nat \ {0}
    /\ Overlap \subseteq Sites /\ MaxFailures \in Nat
    /\ None \notin Runs /\ None \notin Entry

VARIABLES
    store,      \* status of the STORE message of a run
    websites,   \* [version, volume, history] per site, or None
    domains,    \* the STORE a site's domain is linked to, or None
    records,    \* entries of a site that Aleph took and has not applied
    links,      \* links of a site's domain that it took and has not applied
    forgets,    \* what each FORGET names that it took and has not applied
    run,        \* per run: where it stands and what it has read
    recorded,   \* history: uploads of a site in the order they were recorded
    unsure,     \* history: sites whose entry lacks a version, or whose record
                \* or link was not applied at once
    late,       \* history: <<r, u>>, a FORGET or link of r that names upload u
                \* was not applied at once
    failures

siteVars ==
    <<store, websites, domains, records, links, forgets, run, recorded, unsure, late, failures>>
queues == <<records, links, forgets>>
account == <<store, websites, domains, queues>>
ghosts == <<recorded, unsure, late>>

Outcomes == {"done", "failed", "linkFailed", "linked"}

at(r, pc) == run[r].pc = pc
goes(r, pc) == [run EXCEPT ![r].pc = pc]
running(s) == {r \in Runs : site[r] = s /\ run[r].pc \notin Outcomes \cup {"idle"}}

(* A request fails: the run takes another way. *)
Failing == failures < MaxFailures /\ failures' = failures + 1

-----------------------------------------------------------------------------
(* The upload *)

(* uploadStaticSiteCarAuthenticatedWithFallback: one signed STORE, sent to *)
(* one endpoint after another.                                             *)
Upload(r) ==
    /\ at(r, "idle")
    /\ site[r] \in Overlap \/ running(site[r]) = {}
    /\ store' = [store EXCEPT ![r] = "pending"]
    /\ run' = goes(r, "store")
    /\ UNCHANGED <<websites, domains, queues, ghosts, failures>>

(* No endpoint answers as it should, though one may have taken the STORE. *)
UploadFails(r) ==
    /\ at(r, "idle")
    /\ site[r] \in Overlap \/ running(site[r]) = {}
    /\ Failing
    /\ \E taken \in {"none", "pending"} : store' = [store EXCEPT ![r] = taken]
    /\ run' = goes(r, "failed")
    /\ UNCHANGED <<websites, domains, queues, ghosts>>

AlephDecides(r) ==
    /\ store[r] = "pending"
    /\ \E status \in {"processed", "rejected"} : store' = [store EXCEPT ![r] = status]
    /\ UNCHANGED <<websites, domains, queues, run, ghosts, failures>>

(* waitForAlephMessage: a STORE that stays pending ends the run, with an   *)
(* error or, where ALEPH_SITE_ALLOW_PENDING_STORE is set, without one.     *)
AwaitStore(r) ==
    /\ at(r, "store")
    /\ run' = goes(r, CASE store[r] = "processed" -> "verify"
                        [] store[r] = "pending" -> "done"
                        [] OTHER -> "failed")
    /\ UNCHANGED <<account, ghosts, failures>>

(* waitForPublicCid or fetchDagOverLibp2p *)
Verify(r) ==
    /\ at(r, "verify")
    /\ \/ run' = goes(r, "website") /\ UNCHANGED failures
       \/ Failing /\ run' = goes(r, "failed")
    /\ UNCHANGED <<account, ghosts>>

-----------------------------------------------------------------------------
(* publishWebsiteAggregate *)

FirstVersion(r) == [version |-> 1, volume |-> r, history |-> <<>>]

(* The volume of the entry before goes into the history. *)
NextVersion(r, previous) ==
    [version |-> previous.version + 1,
     volume  |-> r,
     history |-> [v \in DOMAIN previous.history \cup {previous.version} |->
         IF v = previous.version THEN previous.volume ELSE previous.history[v]]]

(* A read that fails is taken for a site without a version. *)
ReadWebsite(r) ==
    /\ at(r, "website")
    /\ LET s == site[r] IN
       \/ /\ run' = [run EXCEPT ![r].pc = "record", ![r].entry =
               IF websites[s] = None THEN FirstVersion(r) ELSE NextVersion(r, websites[s])]
          /\ UNCHANGED failures
       \/ /\ Failing
          /\ run' = [run EXCEPT ![r].pc = "record", ![r].entry = FirstVersion(r)]
    /\ UNCHANGED <<account, ghosts>>

(* publishAggregateKey of this site alone. Of two entries the later one is *)
(* in force, whichever is applied first.                                   *)
Recording(s, r, applied) ==
    /\ websites' = IF applied THEN [websites EXCEPT ![s] = run[r].entry] ELSE websites
    /\ records' = [records EXCEPT ![s] = IF applied THEN <<>> ELSE Append(@, run[r].entry)]
    /\ recorded' = [recorded EXCEPT ![s] = Append(@, r)]
    /\ unsure' = IF applied /\ Len(recorded[s]) = Cardinality(DOMAIN run[r].entry.history)
                 THEN unsure ELSE unsure \cup {s}

(* It throws if Aleph rejects the message, not if it is pending. *)
RecordWebsite(r) ==
    /\ at(r, "record")
    /\ \/ Recording(site[r], r, TRUE) /\ UNCHANGED failures
       \/ Recording(site[r], r, FALSE) /\ Failing
    /\ run' = goes(r, IF keepCount = 0 THEN "done" ELSE "linked?")
    /\ UNCHANGED <<store, domains, links, forgets, late>>

(* It throws, Aleph having taken the message or not. *)
RecordFails(r) ==
    /\ at(r, "record")
    /\ Failing
    /\ \/ \E applied \in BOOLEAN : Recording(site[r], r, applied)
       \/ UNCHANGED <<websites, records, recorded, unsure>>
    /\ run' = goes(r, "failed")
    /\ UNCHANGED <<store, domains, links, forgets, late>>

(* Aleph applies an entry it took. *)
AlephRecords(s) ==
    /\ \E i \in DOMAIN records[s] :
          /\ websites' = [websites EXCEPT ![s] = records[s][i]]
          /\ records' = [records EXCEPT ![s] = SubSeq(@, i + 1, Len(@))]
    /\ UNCHANGED <<store, domains, links, forgets, run, ghosts, failures>>

-----------------------------------------------------------------------------
(* retainRecentSiteStores *)

(* Mutant: the newest upload is counted twice. *)
older_OffByOne(entry) ==
    {entry.history[v] : v \in {w \in DOMAIN entry.history :
        2 + Cardinality({x \in DOMAIN entry.history : x > w}) >= keepCount}}

(* The newest upload, then the history by version, and what is left of     *)
(* them after keepCount.                                                   *)
older(entry) ==
    {entry.history[v] : v \in {w \in DOMAIN entry.history :
        1 + Cardinality({x \in DOMAIN entry.history : x > w}) >= keepCount}}

(* Mutant: domains are not asked. *)
linked_WebsitesOnly == {websites[s].volume : s \in {t \in Sites : websites[t] # None}}

(* fetchLinkedStoreHashes *)
linked ==
    {websites[s].volume : s \in {t \in Sites : websites[t] # None}} \cup
    {domains[s] : s \in {t \in Sites : domains[t] # None}}

ReadLinked(r) ==
    /\ at(r, "linked?")
    /\ run' = IF older(run[r].entry) = {} THEN goes(r, "done")
              ELSE [run EXCEPT ![r].pc = "stored?",
                               ![r].forget = older(run[r].entry) \ linked]
    /\ UNCHANGED <<account, ghosts, failures>>

(* Mutant: the lookup of the first hash answers for all of them. *)
ReadStored_AllOrNone(r) ==
    /\ at(r, "stored?")
    /\ LET stored == {u \in run[r].forget : store[u] \in {"processed", "pending", "rejected"}}
       IN  run' = IF stored # run[r].forget THEN goes(r, "done")
                  ELSE [run EXCEPT ![r].pc = "forget", ![r].forget = stored]
    /\ UNCHANGED <<account, ghosts, failures>>

(* fetchStoredHashes *)
ReadStored(r) ==
    /\ at(r, "stored?")
    /\ run' = [run EXCEPT ![r].pc = "forget",
           ![r].forget = {u \in @ : store[u] \notin {"none", "forgotten"}}]
    /\ UNCHANGED <<account, ghosts, failures>>

(* One batch; the newest go first. *)
batch(r) ==
    LET entry == run[r].entry
        versionOf(u) == CHOOSE v \in DOMAIN entry.history : entry.history[v] = u
    IN  {u \in run[r].forget :
            Cardinality({w \in run[r].forget : versionOf(w) > versionOf(u)}) < BatchSize}

forgetting(b) == [u \in Runs |-> IF u \in b THEN "forgotten" ELSE store[u]]

(* A FORGET is applied or not applied as a whole. *)
Forgetting(r, applied) ==
    /\ store' = IF applied THEN forgetting(batch(r)) ELSE store
    /\ forgets' = IF applied THEN forgets ELSE forgets \cup {batch(r)}
    /\ late' = IF applied THEN late ELSE late \cup ({r} \X batch(r))

(* forgetAlephMessages of one batch: only a FORGET that is rejected throws. *)
ForgetBatch(r) ==
    /\ at(r, "forget") /\ run[r].forget # {}
    /\ \/ Forgetting(r, TRUE) /\ UNCHANGED failures
       \/ Forgetting(r, FALSE) /\ Failing
    /\ run' = [run EXCEPT ![r].forget = @ \ batch(r)]
    /\ UNCHANGED <<websites, domains, records, links, recorded, unsure>>

RetentionEnds(r) ==
    /\ at(r, "forget") /\ run[r].forget = {}
    /\ run' = goes(r, "done")
    /\ UNCHANGED <<account, ghosts, failures>>

(* A lookup fails, or a FORGET does, taken or not: retention stops here,   *)
(* and the run succeeds all the same.                                      *)
RetentionStops(r) ==
    /\ \/ /\ \/ at(r, "linked?") /\ older(run[r].entry) # {}
             \/ at(r, "stored?")
             \/ at(r, "forget") /\ run[r].forget # {}
          /\ UNCHANGED <<store, forgets, late>>
       \/ /\ at(r, "forget") /\ run[r].forget # {}
          /\ \E applied \in BOOLEAN : Forgetting(r, applied)
    /\ Failing
    /\ run' = [run EXCEPT ![r].pc = "done", ![r].forget = {}, ![r].stopped = TRUE]
    /\ UNCHANGED <<websites, domains, records, links, recorded, unsure>>

(* Aleph applies a FORGET it took. *)
AlephForgetsStores ==
    /\ \E b \in forgets : store' = forgetting(b) /\ forgets' = forgets \ {b}
    /\ UNCHANGED <<websites, domains, records, links, run, ghosts, failures>>

-----------------------------------------------------------------------------
(* runDomainLinkMode, a job of its own that may be run again *)

StartLink(r) ==
    /\ run[r].pc \in {"done", "linkFailed"}
    /\ store[r] # "none"
    /\ site[r] \in Overlap \/ running(site[r]) = {}
    /\ run' = [run EXCEPT ![r].pc = "await", ![r].host = 1]
    /\ UNCHANGED <<account, ghosts, failures>>

nextHost(r) ==
    IF run[r].host < ApiHosts
    THEN [run EXCEPT ![r].pc = "await", ![r].host = @ + 1]
    ELSE goes(r, "linkFailed")

(* "Custom domains may only target processed STORE messages." *)
AwaitProcessed(r) ==
    /\ at(r, "await")
    /\ run' = IF store[r] = "processed" THEN goes(r, "attach") ELSE nextHost(r)
    /\ UNCHANGED <<account, ghosts, failures>>

(* publishAggregateKey of this domain alone *)
Linking(s, r, applied) ==
    /\ domains' = IF applied THEN [domains EXCEPT ![s] = r] ELSE domains
    /\ links' = [links EXCEPT ![s] = IF applied THEN <<>> ELSE Append(@, r)]
    /\ late' = IF applied THEN late ELSE late \cup {<<r, r>>}
    /\ unsure' = IF applied THEN unsure ELSE unsure \cup {s}

(* attachAlephDomain: only an aggregate that is rejected throws. *)
Attach(r) ==
    /\ at(r, "attach")
    /\ \/ Linking(site[r], r, TRUE) /\ UNCHANGED failures
       \/ Linking(site[r], r, FALSE) /\ Failing
    /\ run' = goes(r, "linked")
    /\ UNCHANGED <<store, websites, records, forgets, recorded>>

AttachFails(r) ==
    /\ at(r, "attach")
    /\ Failing
    /\ \/ \E applied \in BOOLEAN : Linking(site[r], r, applied)
       \/ UNCHANGED <<domains, links, late, unsure>>
    /\ run' = nextHost(r)
    /\ UNCHANGED <<store, websites, records, forgets, recorded>>

(* Aleph applies a link it took. *)
AlephLinks(s) ==
    /\ \E i \in DOMAIN links[s] :
          /\ domains' = [domains EXCEPT ![s] = links[s][i]]
          /\ links' = [links EXCEPT ![s] = SubSeq(@, i + 1, Len(@))]
    /\ UNCHANGED <<store, websites, records, forgets, run, ghosts, failures>>

-----------------------------------------------------------------------------
SiteInit ==
    /\ store = [r \in Runs |-> "none"]
    /\ websites = [s \in Sites |-> None]
    /\ domains = [s \in Sites |-> None]
    /\ records = [s \in Sites |-> <<>>]
    /\ links = [s \in Sites |-> <<>>]
    /\ forgets = {}
    /\ run = [r \in Runs |-> [pc |-> "idle", entry |-> None, forget |-> {},
                              stopped |-> FALSE, host |-> 0]]
    /\ recorded = [s \in Sites |-> <<>>]
    /\ unsure = {}
    /\ late = {}
    /\ failures = 0

Publish(r) ==
    \/ Upload(r) \/ UploadFails(r) \/ AwaitStore(r) \/ Verify(r)
    \/ ReadWebsite(r) \/ RecordWebsite(r) \/ RecordFails(r)
    \/ ReadLinked(r) \/ ReadStored(r) \/ ForgetBatch(r) \/ RetentionEnds(r) \/ RetentionStops(r)

Link(r) == StartLink(r) \/ AwaitProcessed(r) \/ Attach(r) \/ AttachFails(r)

SiteNext ==
    \/ \E r \in Runs : Publish(r) \/ AlephDecides(r) \/ Link(r)
    \/ \E s \in Sites : AlephRecords(s) \/ AlephLinks(s)
    \/ AlephForgetsStores

SiteSpec == SiteInit /\ [][SiteNext]_siteVars

-----------------------------------------------------------------------------
(* Properties *)

PointedTo ==
    {domains[s] : s \in Sites} \cup {websites[s].volume : s \in {t \in Sites : websites[t] # None}}

(* A FORGET or a link that names the upload was not applied at once. *)
isLate(u) == \E r \in Runs : <<r, u>> \in late

(* What a website or a domain of the account points to is a STORE that     *)
(* Aleph keeps: retention forgets no upload that is linked, and no link    *)
(* job attaches one that is forgotten. Failed and repeated jobs do no      *)
(* harm, nor does an entry that is applied late; it needs the runs of one  *)
(* site to come in turn, and the upload's link and every FORGET that names *)
(* it to be applied by the time they are answered.                         *)
LinkedStaysStored ==
    \A u \in PointedTo \ {None} :
        site[u] \notin Overlap /\ ~isLate(u) => store[u] = "processed"

(* ... which a site whose runs overlap does not have: a link job looks at  *)
(* its STORE, a newer run forgets it, and the domain is linked to it. Nor  *)
(* has one whose FORGET is answered "pending": a link job still sees the   *)
(* STORE processed and attaches it, and the FORGET is applied afterwards.  *)
AllLinkedStayStored == \A u \in PointedTo \ {None} : store[u] = "processed"

(* The newest keepCount uploads of a site stay, in the order their records *)
(* were sent, whatever reads failed, whichever runs overlapped and         *)
(* whenever Aleph applies what it took.                                    *)
NewestStay ==
    \A s \in Sites : \A i \in DOMAIN recorded[s] :
        i + keepCount > Len(recorded[s]) => store[recorded[s][i]] = "processed"

(* A run that gets through its retention has dealt with every upload of    *)
(* its site that is keepCount or more behind its own, the ones included    *)
(* that an earlier run stopped before or whose earlier FORGET came to      *)
(* nothing: it is forgotten, it is linked, or a FORGET of this very run    *)
(* names it that Aleph took and had not applied yet. (As long as the       *)
(* history of the site is whole; a read of the entry that fails starts it  *)
(* anew, and a record that is late is missing from the next one.)          *)
OlderAreForgotten ==
    [][\A r \in Runs : run[r].pc \in {"linked?", "stored?", "forget"} /\ run'[r].pc = "done" /\ ~run'[r].stopped
          /\ site[r] \notin Overlap \cup unsure
          => \A i, j \in DOMAIN recorded[site[r]] :
                LET u == recorded[site[r]][i] IN
                recorded[site[r]][j] = r /\ i + keepCount <= j =>
                    store[u] = "forgotten" \/ u \in PointedTo \/ <<r, u>> \in late]_siteVars

=============================================================================
