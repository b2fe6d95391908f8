----------------------------- MODULE Retention -----------------------------
(***************************************************************************)
(* retainSuccessfulDeployments of packages/core/src/retention.ts, called   *)
(* once per successful deployment by the retain-successful-deployments     *)
(* mode of packages/node/src/action-runner.ts, which repeats the whole     *)
(* call on the next Aleph API host when it throws.                         *)
(*                                                                         *)
(* A run reads the ledger of successful deployments (an Aleph aggregate),  *)
(* writes it back cut to the keep count, asks the CRNs to erase the pruned *)
(* instances, then forgets the instances and after them the STORE messages *)
(* only they used. Every await is a step of its own.                       *)
(***************************************************************************)
EXTENDS Naturals, Sequences, SequencesExt

CONSTANTS
    MaxRun,         \* bound on the deployments; run r follows deployment r
    Hashes,         \* item hashes of INSTANCE and STORE messages
    NoHash,         \* an empty field of a record
    Record,         \* Record[r]: what deployment r left on Aleph
    Extra,          \* Extra[r]: extraForgetHashes of run r
    Keep,           \* keepCount
    Hosts,          \* how many API hosts are configured
    Overlap         \* whether two workflow runs may retain at the same time

Runs == 1..MaxRun

RecordType ==
    [instance: Hashes, rootfs: Hashes \cup {NoHash}, site: Hashes \cup {NoHash}]

ASSUME RetentionAssumption ==
    /\ MaxRun \in Nat /\ Keep \in Nat /\ Hosts \in Nat \ {0}
    /\ NoHash \notin Hashes
    /\ Record \in [Runs -> RecordType]
    /\ Extra \in [Runs -> SUBSET Hashes]
    /\ Overlap \in BOOLEAN

VARIABLES
    ledger,         \* deployments of the aggregate in force, newest first
    queue,          \* ledgers sent after it and not processed, oldest first
    erased,         \* instances whose CRN erased them or has none to erase
    asked,          \* hashes named by a FORGET that Aleph accepted
    forgotten,      \* hashes Aleph has forgotten
    pc,             \* where each run is
    host,           \* index of the API host of the attempt
    retained,       \* retainedRecords of the attempt
    pruned,         \* prunedRecords of the attempt, as a set
    published,      \* values of aggregatePublication.status, which nobody reads:
                    \* "unprocessed" is pending, unknown or rejected
    stage,          \* "instances" or "dependents"
    round,          \* FORGETs already sent in the stage: 0, 1 (bulk), 2
    outstanding,    \* outstandingForgetHashes of the last classification
    left            \* outstandingForgetHashes of the result

alephVars == <<ledger, queue, erased, asked, forgotten>>
attemptVars == <<retained, pruned, published, stage, round, outstanding, left>>
vars == <<alephVars, pc, host, attemptVars>>

LastRound == 2

TypeOK ==
    /\ ledger \in Seq(RecordType)
    /\ queue \in Seq(Seq(RecordType))
    /\ erased \subseteq Hashes
    /\ asked \subseteq Hashes
    /\ forgotten \subseteq Hashes
    /\ pc \in [Runs -> {"idle", "read", "publish", "erase", "classify", "send",
                        "done", "failed"}]
    /\ host \in [Runs -> 1..Hosts]
    /\ retained \in [Runs -> Seq(RecordType)]
    /\ pruned \in [Runs -> SUBSET RecordType]
    /\ published \in [Runs -> SUBSET {"processed", "unprocessed"}]
    /\ stage \in [Runs -> {"instances", "dependents"}]
    /\ round \in [Runs -> 0..LastRound]
    /\ outstanding \in [Runs -> SUBSET Hashes]
    /\ left \in [Runs -> SUBSET Hashes]

Init ==
    /\ ledger = <<>>
    /\ queue = <<>>
    /\ erased = {}
    /\ asked = {}
    /\ forgotten = {}
    /\ pc = [r \in Runs |-> "idle"]
    /\ host = [r \in Runs |-> 1]
    /\ retained = [r \in Runs |-> <<>>]
    /\ pruned = [r \in Runs |-> {}]
    /\ published = [r \in Runs |-> {}]
    /\ stage = [r \in Runs |-> "instances"]
    /\ round = [r \in Runs |-> 0]
    /\ outstanding = [r \in Runs |-> {}]
    /\ left = [r \in Runs |-> {}]

-----------------------------------------------------------------------------
(* hashesFromRetentionRecord and dependentHashesFromRetentionRecord. *)
hashesFromRecord(rec) == {rec.instance, rec.rootfs, rec.site} \ {NoHash}
dependentHashesFromRecord(rec) == {rec.rootfs, rec.site} \ {NoHash}

(* The ledger without a record. It has no record twice: all that is ever   *)
(* written to it comes from uniqueRecords.                                 *)
without(rec) ==
    IF rec \in ToSet(ledger)
    THEN RemoveAt(ledger, CHOOSE i \in DOMAIN ledger : ledger[i] = rec)
    ELSE ledger

(* Mutant: the current record goes last. *)
uniqueRecords_CurrentLast(r) == without(Record[r]) \o <<Record[r]>>

(* The current record goes first; a record already in the ledger is not    *)
(* repeated (retentionRecordId is the whole record here).                  *)
uniqueRecords(r) == <<Record[r]>> \o without(Record[r])

(* keepCount 0 retains nothing, not even the current deployment. *)
keptRecords(r) ==
    IF Keep < Len(uniqueRecords(r)) THEN Keep ELSE Len(uniqueRecords(r))
retainedRecords(r) == SubSeq(uniqueRecords(r), 1, keptRecords(r))
prunedRecords(r) ==
    ToSet(SubSeq(uniqueRecords(r), keptRecords(r) + 1, Len(uniqueRecords(r))))

(* Mutant: a STORE is forgotten although a retained record shares it. *)
retainedHashes_InstancesOnly(r) == {rec.instance : rec \in ToSet(retained[r])}

retainedHashes(r) == UNION {hashesFromRecord(rec) : rec \in ToSet(retained[r])}

(* splitForgetStages *)
instanceForgetHashes(r) ==
    {rec.instance : rec \in pruned[r]} \ retainedHashes(r)

dependentForgetHashes(r) ==
    ((UNION {dependentHashesFromRecord(rec) : rec \in pruned[r]}) \cup Extra[r])
        \ (retainedHashes(r) \cup instanceForgetHashes(r))

stageHashes(r) ==
    IF stage[r] = "instances" THEN instanceForgetHashes(r)
    ELSE dependentForgetHashes(r)

-----------------------------------------------------------------------------
(* Mutant: the same host is tried for ever. *)
Fallback_SameHost(r) ==
    /\ pc' = [pc EXCEPT ![r] = "read"]
    /\ UNCHANGED host

(* withApiHostFallback: the call threw. The next host starts it over with  *)
(* nothing remembered; after the last one the run fails.                   *)
Fallback(r) ==
    IF host[r] < Hosts
    THEN /\ host' = [host EXCEPT ![r] = @ + 1]
         /\ pc' = [pc EXCEPT ![r] = "read"]
    ELSE /\ pc' = [pc EXCEPT ![r] = "failed"]
         /\ UNCHANGED host

Active(r) == pc[r] \notin {"idle", "done", "failed"}

(* The workflow of deployment r reaches its retention step. Deployments    *)
(* come in order, and r booted from a rootfs nobody asked to forget.       *)
Start(r) ==
    /\ pc[r] = "idle"
    /\ \A q \in Runs : q < r => pc[q] # "idle"
    /\ Overlap \/ \A q \in Runs : ~Active(q)
    /\ hashesFromRecord(Record[r]) \cap asked = {}
    /\ pc' = [pc EXCEPT ![r] = "read"]
    /\ UNCHANGED <<alephVars, host, attemptVars>>

(* fetchAggregateKey, and everything computed before the next await. *)
ReadLedger(r) ==
    /\ pc[r] = "read"
    /\ \/ /\ retained' = [retained EXCEPT ![r] = retainedRecords(r)]
          /\ pruned' = [pruned EXCEPT ![r] = prunedRecords(r)]
          /\ stage' = [stage EXCEPT ![r] = "instances"]
          /\ round' = [round EXCEPT ![r] = 0]
          /\ outstanding' = [outstanding EXCEPT ![r] = {}]
          /\ left' = [left EXCEPT ![r] = {}]
          /\ pc' = [pc EXCEPT ![r] = "publish"]
          /\ UNCHANGED host
       \/ /\ Fallback(r)
          /\ UNCHANGED <<retained, pruned, stage, round, outstanding, left>>
    /\ UNCHANGED <<alephVars, published>>

(* Where the run goes once the ledger is written. *)
FirstStage(r) ==
    IF instanceForgetHashes(r) # {}
    THEN /\ pc' = [pc EXCEPT ![r] = "erase"]
         /\ UNCHANGED stage
    ELSE /\ pc' = [pc EXCEPT ![r] = IF dependentForgetHashes(r) = {} THEN "done"
                                    ELSE "classify"]
         /\ stage' = [stage EXCEPT ![r] = "dependents"]

(* The queue once the ledger of the run is sent. A ledger that repeats the *)
(* newest one changes nothing.                                             *)
newest == IF queue = <<>> THEN ledger ELSE queue[Len(queue)]
withSent(r) == IF retained[r] = newest THEN queue ELSE Append(queue, retained[r])

(* publishAggregateKey: in force at once; or answered without (HTTP 202,   *)
(* or rejected: the status is returned and not checked); or thrown,        *)
(* whether Aleph took it or not. What Aleph did not take, or rejects, it   *)
(* never processes.                                                        *)
Publish(r) ==
    /\ pc[r] = "publish"
    /\ \/ /\ ledger' = retained[r]
          /\ queue' = <<>>
          /\ published' = [published EXCEPT ![r] = @ \cup {"processed"}]
          /\ FirstStage(r)
          /\ UNCHANGED host
       \/ /\ queue' = withSent(r)
          /\ published' = [published EXCEPT ![r] = @ \cup {"unprocessed"}]
          /\ FirstStage(r)
          /\ UNCHANGED <<ledger, host>>
       \/ /\ queue' = withSent(r)
          /\ Fallback(r)
          /\ UNCHANGED <<ledger, published, stage>>
    /\ UNCHANGED <<erased, asked, forgotten, retained, pruned, round, outstanding,
                   left>>

(* Mutant: a CRN that refuses the erase is passed over. *)
Erase_IgnoresErrors(r) ==
    /\ pc[r] = "erase"
    /\ \E done \in SUBSET instanceForgetHashes(r) : erased' = erased \cup done
    /\ pc' = [pc EXCEPT ![r] = "classify"]
    /\ UNCHANGED <<ledger, queue, asked, forgotten, host, attemptVars>>

(* eraseInstanceOnCrn for all of them at once: erased, unknown to the CRN  *)
(* or no CRN to be found; any other answer throws, with the other erases   *)
(* under way.                                                              *)
Erase(r) ==
    /\ pc[r] = "erase"
    /\ \/ /\ erased' = erased \cup instanceForgetHashes(r)
          /\ pc' = [pc EXCEPT ![r] = "classify"]
          /\ UNCHANGED host
       \/ /\ \E done \in SUBSET instanceForgetHashes(r) : erased' = erased \cup done
          /\ Fallback(r)
    /\ UNCHANGED <<ledger, queue, asked, forgotten, attemptVars>>

(* Mutant: the store items do not wait for the instances. *)
EndStage_NeverSkips(r, out) ==
    /\ left' = [left EXCEPT ![r] = @ \cup out]
    /\ IF stage[r] = "instances" /\ dependentForgetHashes(r) # {}
       THEN /\ stage' = [stage EXCEPT ![r] = "dependents"]
            /\ round' = [round EXCEPT ![r] = 0]
            /\ UNCHANGED pc
       ELSE /\ pc' = [pc EXCEPT ![r] = "done"]
            /\ UNCHANGED <<stage, round>>

(* The stage is over. With instances outstanding, the dependents are only  *)
(* classified (skipped): the stage starts as if every FORGET were sent.    *)
EndStage(r, out) ==
    /\ left' = [left EXCEPT ![r] = @ \cup out]
    /\ IF stage[r] = "instances" /\ dependentForgetHashes(r) # {}
       THEN /\ stage' = [stage EXCEPT ![r] = "dependents"]
            /\ round' = [round EXCEPT ![r] = IF out = {} THEN 0 ELSE LastRound]
            /\ UNCHANGED pc
       ELSE /\ pc' = [pc EXCEPT ![r] = "done"]
            /\ UNCHANGED <<stage, round>>

(* Mutant: a FORGET that was accepted counts as done. *)
answeredForgotten_WhenAsked(r) == stageHashes(r) \cap (forgotten \cup asked)

(* The hashes whose status may be answered as forgotten. *)
answeredForgotten(r) == stageHashes(r) \cap forgotten

(* Nothing is outstanding, or both rounds of FORGETs were sent. *)
stageIsOver(r, out) == out = {} \/ round[r] = LastRound

(* classifyForgetHashes: one request per hash; an error status leaves a    *)
(* hash outstanding, a failed request throws.                              *)
Classify(r) ==
    /\ pc[r] = "classify"
    /\ \/ \E seen \in SUBSET answeredForgotten(r) :
            LET out == stageHashes(r) \ seen IN
            /\ outstanding' = [outstanding EXCEPT ![r] = out]
            /\ IF stageIsOver(r, out)
               THEN EndStage(r, out)
               ELSE /\ pc' = [pc EXCEPT ![r] = "send"]
                    /\ UNCHANGED <<stage, round, left>>
            /\ UNCHANGED host
       \/ /\ Fallback(r)
          /\ UNCHANGED <<stage, round, outstanding, left>>
    /\ UNCHANGED <<alephVars, retained, pruned, published>>

(* forgetAlephMessages: one FORGET for all, or one per hash in the second  *)
(* round. The status of a FORGET is not looked at; a broadcast that throws *)
(* may have reached Aleph.                                                 *)
Send(r) ==
    /\ pc[r] = "send"
    /\ \E named \in IF round[r] = 0 THEN {{}, outstanding[r]}
                    ELSE SUBSET outstanding[r] :
         asked' = asked \cup named
    /\ \/ /\ round' = [round EXCEPT ![r] = @ + 1]
          /\ pc' = [pc EXCEPT ![r] = "classify"]
          /\ UNCHANGED host
       \/ /\ Fallback(r)
          /\ UNCHANGED round
    /\ UNCHANGED <<ledger, queue, erased, forgotten, retained, pruned, published,
                   stage, outstanding, left>>

(* Aleph applies a FORGET (external). *)
AlephForgets(h) ==
    /\ h \in asked \ forgotten
    /\ forgotten' = forgotten \cup {h}
    /\ UNCHANGED <<ledger, queue, erased, asked, pc, host, attemptVars>>

(* Aleph processes a ledger that was sent (external). It overrides those   *)
(* made before it: an aggregate's elements apply in the order of their     *)
(* times, whenever they are processed.                                     *)
AlephPublishes(i) ==
    /\ ledger' = queue[i]
    /\ queue' = SubSeq(queue, i + 1, Len(queue))
    /\ UNCHANGED <<erased, asked, forgotten, pc, host, attemptVars>>

RunStep(r) ==
    ReadLedger(r) \/ Publish(r) \/ Erase(r) \/ Classify(r) \/ Send(r)

Next ==
    \/ \E r \in Runs : Start(r) \/ RunStep(r)
    \/ \E h \in Hashes : AlephForgets(h)
    \/ \E i \in DOMAIN queue : AlephPublishes(i)

Spec == Init /\ [][Next]_vars

(* Every call of a run is bounded by fetch; nothing is assumed of Aleph.   *)
FairSpec == Spec /\ \A r \in Runs : WF_vars(RunStep(r))

-----------------------------------------------------------------------------
(* Properties *)

(* The STORE messages of pruned deployments are forgotten only when every  *)
(* pruned instance is: by the time a run sends a FORGET of its second      *)
(* stage, Aleph has forgotten all of its first.                            *)
InstancesFirst ==
    \A r \in Runs :
        pc[r] = "send" /\ stage[r] = "dependents"
            => instanceForgetHashes(r) \subseteq forgotten

(* No run forgets an instance whose CRN refused the erase: it would go on  *)
(* running without the message that leads back to it. (Extra hashes are    *)
(* the caller's.)                                                          *)
ErasedBeforeForgotten ==
    \A r \in Runs :
        Record[r].instance \in asked \ UNION {Extra[q] : q \in Runs}
            => Record[r].instance \in erased

(* What a finished run reports: every hash it had to forget is forgotten   *)
(* or reported as outstanding.                                             *)
ReportIsHonest ==
    \A r \in Runs :
        pc[r] = "done" =>
            instanceForgetHashes(r) \cup dependentForgetHashes(r)
                \subseteq forgotten \cup left[r]

(* Every publication that was answered was in force by then.               *)
AllInForce == \A r \in Runs : published[r] \subseteq {"processed"}

(* As long as every ledger publication that Aleph answered was processed   *)
(* (nothing in the code waits for that), nothing an entry of the ledger in *)
(* force points to, an instance or a STORE it may share with pruned        *)
(* entries, was ever asked to be forgotten: whatever attempt a run failed  *)
(* in, and whenever a publication whose answer was lost is processed.      *)
LedgerUntouched ==
    AllInForce => \A rec \in ToSet(ledger) : hashesFromRecord(rec) \cap asked = {}

(* ... but the run forgets while a publication is pending, and the ledger   *)
(* in force still names what it asks to forget.                            *)
LedgerAlwaysUntouched == \A rec \in ToSet(ledger) : hashesFromRecord(rec) \cap asked = {}

(* Runs that do not overlap: what the newest deployment uses is never      *)
(* forgotten once its retention step began, on whichever host it succeeds  *)
(* and whatever earlier runs left undone.                                  *)
NewestSurvives ==
    \A r \in Runs :
        pc[r] # "idle" /\ (\A q \in Runs : q > r => pc[q] = "idle")
            => hashesFromRecord(Record[r]) \cap asked = {}

(* Every run comes to an end, on whichever API host. *)
RunsEnd == \A r \in Runs : pc[r] = "read" ~> pc[r] \in {"done", "failed"}

(* "When the keep limit is exceeded, older Aleph hashes are collected and  *)
(* forgotten" (docs/.../architecture/deployment-lifecycle.md): once a run  *)
(* is done with nothing outstanding, every deployment whose run wrote the  *)
(* ledger is still in it or its instance was asked to be forgotten.        *)
OlderAreForgotten ==
    \A r \in Runs :
        /\ pc[r] = "done" /\ left[r] = {}
        /\ \A q \in Runs : q > r => pc[q] = "idle"
        => \A q \in 1..r :
             \/ "processed" \notin published[q]
             \/ Record[q] \in ToSet(ledger)
             \/ Record[q].instance \in asked

(* "Retention records the encrypted image as the deployment's rootfs, and  *)
(* never forgets one that a retained deployment still uses"                *)
(* (docs/.../reference/reusable-workflow.md): a record that a finished run *)
(* retained in the ledger and no run pruned keeps its rootfs. (Here, too,  *)
(* as long as no publication is pending.)                                  *)
RetainedImageKept ==
    \A r \in Runs :
        AllInForce /\ pc[r] = "done" /\ "processed" \in published[r] =>
            \A rec \in ToSet(retained[r]) :
                (\A q \in Runs : rec \notin pruned[q]) => rec.rootfs \notin asked
=============================================================================
