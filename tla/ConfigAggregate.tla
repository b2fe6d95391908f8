--------------------------- MODULE ConfigAggregate --------------------------
(***************************************************************************)
(* The aggregates of one Aleph account as several deploys of a browser use *)
(* them: "port-forwarding" and "vm-bootstrap-config" (packages/core/src/   *)
(* aggregate-publication.ts, port-forwarding.ts, bootstrap-config.ts) and  *)
(* the cleanup of the configuration's history (controller.ts).             *)
(*                                                                         *)
(* An aggregate is what its messages say, key by key, the newest message   *)
(* first: a deploy publishes no other instance's ports, and a domain is    *)
(* detached by publishing null under it (domain-link.ts). A FORGET takes   *)
(* messages out. Every deploy reads, has the wallet sign and broadcasts in *)
(* steps of their own, and time passes between any two. A deploy goes on   *)
(* when its message is taken, whatever Aleph answers but a plain error or  *)
(* rejection: the message may be in force at once, later, or never.        *)
(***************************************************************************)
EXTENDS Naturals, FiniteSets

CONSTANTS
    Deploys,        \* deployment attempts; each has its token and instance
    Ports,          \* ports a manifest may ask for
    requiredPortForwards,   \* what the manifest of a deploy asks for
    ssh,            \* port 22
    Life,           \* lifetime of a record (30 minutes)
    Retention,      \* VM_BOOTSTRAP_CONFIG_HISTORY_RETENTION_MS (6 hours)
    PageSize, MaxPages,
    MaxTime,        \* bound on the clock
    MaxPending,     \* bound on messages that are not in force
    None

Flags == (Ports \cup {ssh}) \X {"tcp", "udp"}

ASSUME AggregateAssumption ==
    /\ requiredPortForwards \in [Deploys -> SUBSET Flags]
    /\ Life \in Nat \ {0} /\ Retention \in Nat /\ Life <= Retention
    /\ PageSize \in Nat \ {0} /\ MaxPages \in Nat \ {0}
    /\ MaxTime \in Nat /\ MaxPending \in Nat

Keys == {"port-forwarding", "vm-bootstrap-config"}

VARIABLES
    now,
    messages,       \* AGGREGATE messages of the account that are not forgotten
    sent,           \* messages that Aleph ever took; they are numbered
    processed,      \* the numbers of those that it has put in force
    forgets,        \* FORGETs that it took and has not applied; history: owed
    deploy          \* per deploy: where it stands, what it read and the numbers
                    \* of its messages; history: owed (stale when its scan began)

account == <<messages, sent, processed, forgets>>
vars == <<now, account, deploy>>

-----------------------------------------------------------------------------
(* Aleph's side (external) *)

later(m, o) == m.time > o.time \/ (m.time = o.time /\ m.n > o.n)

aggregate(key) ==
    LET own == {m \in messages : m.key = key /\ m.n \in processed}
        about(s) == {m \in own : s \in DOMAIN m.content}
    IN  [s \in UNION {DOMAIN m.content : m \in own} |->
            (CHOOSE m \in about(s) : \A o \in about(s) \ {m} : later(m, o)).content[s]]

(* A page of messages.json, newest first, of whatever status *)
pageOf(page) ==
    {m \in messages :
        LET before == Cardinality({o \in messages : later(o, m)})
        IN  (page - 1) * PageSize <= before /\ before < page * PageSize}

-----------------------------------------------------------------------------
(* What is published *)

(* DEFAULT_INSTANCE_PORT_FORWARDS: SSH, whatever the manifest says *)
requiredInstancePortForwards(d) == requiredPortForwards[d] \cup {<<ssh, "tcp">>}

(* mergePortFlagMaps, of the ports read and the ports asked for *)
mergePortFlagMaps(existing, requested) == existing \cup requested

createPortForwardAggregateContent(d, existing) ==
    [s \in {d} |-> mergePortFlagMaps(IF d \in DOMAIN existing THEN existing[d] ELSE {},
                                     requiredInstancePortForwards(d))]

(* normalizeVmBootstrapConfigAggregate: what is expired is left out. *)
normalizeVmBootstrapConfigAggregate(aggr) ==
    [s \in {t \in DOMAIN aggr : aggr[t].expiresAt > now /\ aggr[t].createdAt + Retention >= now}
        |-> aggr[s]]

with(f, s, v) == [x \in DOMAIN f \cup {s} |-> IF x = s THEN v ELSE f[x]]
without(f, s) == [x \in DOMAIN f \ {s} |-> f[x]]

createVmBootstrapConfigAggregateContent(d, record, existing) ==
    with(normalizeVmBootstrapConfigAggregate(existing), d, record)

-----------------------------------------------------------------------------
(* One deploy *)

at(d, pc) == deploy[d].pc = pc

Fresh(pc, ports) ==
    [pc |-> pc, ports |-> ports, config |-> 0, record |-> None, out |-> None, current |-> None,
     page |-> 0, since |-> 0, stale |-> {}, owed |-> {}]

(* What the attempt has read and made so far is of no further use. *)
drops(d, pc) == [deploy EXCEPT ![d] = Fresh(pc, @.ports)]
over(d) == drops(d, "done")

(* The unsigned message gets its time before the wallet asks its user. *)
signing(d, pc, key, content) ==
    [deploy EXCEPT ![d].pc = pc,
                   ![d].out = [key |-> key, content |-> content, time |-> now]]

(* ensureInstancePortForwards, the aggregate read *)
ReadPorts(d) ==
    /\ at(d, "ports")
    /\ deploy' = signing(d, "signPorts", "port-forwarding",
           createPortForwardAggregateContent(d, aggregate("port-forwarding")))
    /\ UNCHANGED <<now, account>>

(* configureRelayBootstrapRegistration makes the record from the clock ... *)
MakeRecord(d) ==
    /\ at(d, "record")
    /\ deploy' = [deploy EXCEPT ![d].pc = "config",
           ![d].record = [createdAt |-> now, expiresAt |-> now + Life]]
    /\ UNCHANGED <<now, account>>

(* ... and publishVmBootstrapConfig reads the aggregate *)
ReadConfig(d) ==
    /\ at(d, "config")
    /\ deploy' = signing(d, "signConfig", "vm-bootstrap-config",
           createVmBootstrapConfigAggregateContent(d, deploy[d].record,
               aggregate("vm-bootstrap-config")))
    /\ UNCHANGED <<now, account>>

(* deleteVmBootstrapConfig reads it, leaves the record out and publishes   *)
(* what is left.                                                           *)
ReadDelete(d) ==
    /\ at(d, "delete")
    /\ deploy' = signing(d, "signDelete", "vm-bootstrap-config",
           without(normalizeVmBootstrapConfigAggregate(aggregate("vm-bootstrap-config")), d))
    /\ UNCHANGED <<now, account>>

after(pc) ==
    CASE pc = "signPorts" -> "record"
      [] pc = "signConfig" -> "wait"
      [] pc = "signDelete" -> "list"

(* Aleph takes the message, and has it in force at once or not. *)
Taken(d, applied) ==
    /\ sent' = sent + 1
    /\ LET out == deploy[d].out
       IN  messages' = messages \cup
               {[n |-> sent', key |-> out.key, content |-> out.content, time |-> out.time]}
    /\ applied \/ Cardinality((1..sent) \ processed) < MaxPending
    /\ processed' = IF applied THEN processed \cup {sent'} ELSE processed
    /\ UNCHANGED <<now, forgets>>

(* signAlephMessage and broadcastAlephMessage: HTTP 202 will do, and for   *)
(* the configuration a rejection with a status that is not 2xx.            *)
Broadcast(d) ==
    /\ deploy[d].pc \in {"signPorts", "signConfig", "signDelete"}
    /\ \E applied \in BOOLEAN : Taken(d, applied)
    /\ deploy' = [deploy EXCEPT ![d].pc = after(@), ![d].out = None,
           ![d].ports = IF at(d, "signPorts") THEN sent' ELSE @,
           ![d].config = IF at(d, "signConfig") THEN sent' ELSE @,
           ![d].current = IF at(d, "signDelete") THEN sent' ELSE @]

(* The wallet refuses, or Aleph does, or no answer comes though the        *)
(* message was taken: the attempt goes to its cleanup, and a deletion that *)
(* fails leaves the history alone.                                         *)
Refused(d) ==
    /\ deploy[d].pc \in {"signPorts", "signConfig", "signDelete"}
    /\ Taken(d, FALSE) \/ UNCHANGED <<now, account>>
    /\ deploy' = IF at(d, "signDelete") THEN over(d) ELSE drops(d, "delete")

(* Aleph puts a message in force that it took. *)
AlephProcesses(n) ==
    /\ n \in (1..sent) \ processed
    /\ processed' = processed \cup {n}
    /\ UNCHANGED <<now, messages, sent, forgets, deploy>>

(* The guest signals, or the deploy gives up waiting: either way a guest   *)
(* of uc-go-peer has its record deleted.                                   *)
EndWait(d) ==
    /\ at(d, "wait")
    /\ deploy' = drops(d, "delete")
    /\ UNCHANGED <<now, account>>

-----------------------------------------------------------------------------
(* cleanupStaleVmBootstrapConfigHistory *)

(* Mutant: everything but the current message is stale. *)
isStale_NoCutoff(m, d, t) ==
    /\ m.key = "vm-bootstrap-config"
    /\ m.n # deploy[d].current

(* Mutant: messages of other keys are stale too. *)
isStale_AnyKey(m, d, t) ==
    /\ m.n # deploy[d].current
    /\ m.time + Retention <= t

(* normalizeAggregateMessageHashRecord and the filters of                  *)
(* listStaleVmBootstrapConfigAggregateMessageHashes                        *)
isStale(m, d, t) ==
    /\ m.key = "vm-bootstrap-config"
    /\ m.n # deploy[d].current
    /\ m.time + Retention <= t

StartListing(d) ==
    /\ at(d, "list") /\ deploy[d].page = 0
    /\ deploy' = [deploy EXCEPT ![d].page = 1, ![d].since = now,
           ![d].owed = {m.n : m \in {x \in messages : isStale(x, d, now)}}]
    /\ UNCHANGED <<now, account>>

(* Mutant: the scan ends one page early. *)
ReadPage_OffByOne(d) ==
    /\ at(d, "list") /\ deploy[d].page > 0
    /\ LET read == pageOf(deploy[d].page)
           stale == deploy[d].stale \cup {m.n : m \in {x \in read : isStale(x, d, deploy[d].since)}}
           last == Cardinality(read) < PageSize \/ deploy[d].page + 1 = MaxPages
       IN  deploy' = IF last /\ stale = {} THEN over(d)
                     ELSE [deploy EXCEPT ![d].stale = stale, ![d].page = @ + 1,
                              ![d].pc = IF last THEN "forget" ELSE "list"]
    /\ UNCHANGED <<now, account>>

(* One page: the last one is short, or number maxPages. *)
ReadPage(d) ==
    /\ at(d, "list") /\ deploy[d].page > 0
    /\ LET read == pageOf(deploy[d].page)
           stale == deploy[d].stale \cup {m.n : m \in {x \in read : isStale(x, d, deploy[d].since)}}
           last == Cardinality(read) < PageSize \/ deploy[d].page = MaxPages
       IN  deploy' = IF last /\ stale = {} THEN over(d)
                     ELSE [deploy EXCEPT ![d].stale = stale, ![d].page = @ + 1,
                              ![d].pc = IF last THEN "forget" ELSE "list"]
    /\ UNCHANGED <<now, account>>

(* The scan fails, or the FORGET does: nothing is forgotten. *)
CleanupFails(d) ==
    /\ \/ at(d, "list") /\ deploy[d].page > 0
       \/ at(d, "forget")
    /\ deploy' = over(d)
    /\ UNCHANGED <<now, account>>

(* forgetAlephMessages, after one more signature: nobody looks at the      *)
(* answer.                                                                 *)
Forget(d) ==
    /\ at(d, "forget")
    /\ forgets' = forgets \cup {[stale |-> deploy[d].stale, owed |-> deploy[d].owed]}
    /\ deploy' = over(d)
    /\ UNCHANGED <<now, messages, sent, processed>>

(* Aleph applies a FORGET that it took. What follows on later pages moves  *)
(* up under every scan, which no longer owes anything.                     *)
AlephForgets(f) ==
    /\ forgets' = forgets \ {f}
    /\ messages' = {m \in messages : m.n \notin f.stale}
    /\ deploy' = [e \in Deploys |-> [deploy[e] EXCEPT !.owed = {}]]
    /\ UNCHANGED <<now, sent, processed>>

-----------------------------------------------------------------------------
Tick ==
    /\ now < MaxTime
    /\ now' = now + 1
    /\ UNCHANGED <<account, deploy>>

Init ==
    /\ now = 0
    /\ messages = {} /\ sent = 0 /\ processed = {} /\ forgets = {}
    /\ deploy = [d \in Deploys |-> Fresh("ports", 0)]

Step(d) ==
    \/ ReadPorts(d) \/ MakeRecord(d) \/ ReadConfig(d) \/ ReadDelete(d)
    \/ Broadcast(d) \/ Refused(d) \/ EndWait(d)
    \/ StartListing(d) \/ ReadPage(d) \/ Forget(d) \/ CleanupFails(d)

Next ==
    \/ Tick
    \/ \E d \in Deploys : Step(d)
    \/ \E n \in 1..sent : AlephProcesses(n)
    \/ \E f \in forgets : AlephForgets(f)

Spec == Init /\ [][Next]_vars

-----------------------------------------------------------------------------
(* Properties *)

TypeOK ==
    /\ now \in 0..MaxTime /\ processed \subseteq 1..sent
    /\ \A m \in messages : m.n \in 1..sent /\ m.time \in 0..now /\ m.key \in Keys
    /\ \A d \in Deploys : deploy[d].ports \in 0..sent /\ deploy[d].current \in (1..sent) \cup {None}

(* Once Aleph has processed the configuration of a deploy that waits for   *)
(* its guest, the guest finds the record in the aggregate until it         *)
(* expires, whatever other deploys publish, delete or clean up meanwhile,  *)
(* however long their wallets take to sign and in whatever order Aleph     *)
(* processes what it took.                                                 *)
RecordStaysReadable ==
    \A d \in Deploys :
        at(d, "wait") /\ deploy[d].config \in processed /\ now < deploy[d].record.expiresAt =>
            /\ d \in DOMAIN aggregate("vm-bootstrap-config")
            /\ aggregate("vm-bootstrap-config")[d] = deploy[d].record

(* ... but a deploy waits without a record in force: for a message that is *)
(* pending, or that was rejected with an HTTP status that is not 2xx.      *)
WaitersHaveRecords ==
    \A d \in Deploys : at(d, "wait") /\ now < deploy[d].record.expiresAt =>
        d \in DOMAIN aggregate("vm-bootstrap-config")

(* A cleanup's FORGET that is applied leaves no superseded message older   *)
(* than six hours that was there when its scan began, although messages    *)
(* come between two of its pages and after the last: as long as the pages  *)
(* reach the oldest, and no other cleanup takes messages out during the    *)
(* scan (what moves up a page then is left to the next cleanup).           *)
CleanupIsComplete ==
    [][sent <= PageSize * MaxPages =>
          \A f \in forgets \ forgets' : \A m \in messages' : m.n \notin f.owed]_vars

(* The ports of an instance stay published once Aleph has processed them:  *)
(* neither another deploy's publication nor a cleanup of the configuration *)
(* takes them away.                                                        *)
PortsKept ==
    \A d \in Deploys : deploy[d].ports \in processed =>
        /\ d \in DOMAIN aggregate("port-forwarding")
        /\ requiredInstancePortForwards(d) \subseteq aggregate("port-forwarding")[d]

(* "remove temporary vm-bootstrap-config aggregate entry"                  *)
(* (docs aleph-bootstrap-sequences.md): once its deletion is processed, no *)
(* record of the deploy is left.                                           *)
DeletedIsGone ==
    \A d \in Deploys : deploy[d].current \in processed =>
        d \notin DOMAIN aggregate("vm-bootstrap-config")
=============================================================================
