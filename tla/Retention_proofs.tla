-------------------------- MODULE Retention_proofs --------------------------
(***************************************************************************)
(* Proofs about retention for any number of deployments, records, hosts    *)
(* and keep count, with or without overlapping runs.                       *)
(***************************************************************************)
EXTENDS Retention, SequenceTheorems, TLAPS

Labels ==
    {"idle", "read", "publish", "erase", "classify", "send", "done", "failed"}

(* What the steps below need of the types. *)
Shape ==
    /\ pc \in [Runs -> Labels]
    /\ stage \in [Runs -> {"instances", "dependents"}]
    /\ round \in [Runs -> 0..LastRound]
    /\ DOMAIN retained = Runs /\ retained = [r \in Runs |-> retained[r]]
    /\ DOMAIN pruned = Runs /\ pruned = [r \in Runs |-> pruned[r]]
    /\ DOMAIN left = Runs /\ left = [r \in Runs |-> left[r]]

(* Where a FORGET may still be sent, a FORGET of the stage is left. *)
SendsAreBounded == \A r \in Runs : pc[r] = "send" => round[r] # LastRound

(* A run that may still send a FORGET for the dependents has seen every    *)
(* instance forgotten.                                                     *)
DependentsWait ==
    \A r \in Runs :
        /\ stage[r] = "dependents"
        /\ pc[r] \in {"classify", "send"}
        /\ round[r] # LastRound
        => instanceForgetHashes(r) \subseteq forgotten

(* Every attempt begins with the instances. *)
InstancesBegin ==
    \A r \in Runs : pc[r] \in {"publish", "erase"} => stage[r] = "instances"

(* The instances of the first stage are forgotten or reported. *)
InstancesReported ==
    \A r \in Runs :
        stage[r] = "dependents" /\ pc[r] \in {"classify", "send", "done"}
            => instanceForgetHashes(r) \subseteq forgotten \cup left[r]

IInv ==
    /\ Shape
    /\ SendsAreBounded
    /\ InstancesBegin
    /\ DependentsWait
    /\ InstancesReported
    /\ ReportIsHonest

-----------------------------------------------------------------------------
(* One run's part of the invariant, so that the steps of the others do not *)
(* count.                                                                  *)
RunInv(r) ==
    /\ pc[r] = "send" => round[r] # LastRound
    /\ pc[r] \in {"publish", "erase"} => stage[r] = "instances"
    /\ /\ stage[r] = "dependents"
       /\ pc[r] \in {"classify", "send"}
       /\ round[r] # LastRound
       => instanceForgetHashes(r) \subseteq forgotten
    /\ stage[r] = "dependents" /\ pc[r] \in {"classify", "send", "done"}
         => instanceForgetHashes(r) \subseteq forgotten \cup left[r]
    /\ pc[r] = "done" =>
         instanceForgetHashes(r) \cup dependentForgetHashes(r)
             \subseteq forgotten \cup left[r]

LEMMA IInvIsPerRun == IInv <=> Shape /\ \A r \in Runs : RunInv(r)
BY DEF IInv, RunInv, SendsAreBounded, InstancesBegin, DependentsWait, InstancesReported, ReportIsHonest

(* Whatever is forgotten stays so: a run that did not move keeps its part. *)
LEMMA OthersKeep ==
  ASSUME NEW r \in Runs, RunInv(r), forgotten \subseteq forgotten',
         pc'[r] = pc[r], stage'[r] = stage[r], round'[r] = round[r],
         retained'[r] = retained[r], pruned'[r] = pruned[r], left'[r] = left[r]
  PROVE  RunInv(r)'
<1>1. /\ instanceForgetHashes(r)' = instanceForgetHashes(r)
      /\ dependentForgetHashes(r)' = dependentForgetHashes(r)
  BY DEF instanceForgetHashes, dependentForgetHashes, retainedHashes
<1>2. QED
  BY <1>1 DEF RunInv

LEMMA IInv_Init == Init => IInv
<1> SUFFICES ASSUME Init PROVE IInv
  OBVIOUS
<1>1. Shape
  BY DEF Init, Shape, Labels, LastRound
<1>2. QED
  BY <1>1 DEF Init, IInv, SendsAreBounded, InstancesBegin, DependentsWait, InstancesReported,
     ReportIsHonest

(* The step of run r: the other runs keep their part, so only r's counts.  *)
LEMMA StepOfRun ==
  ASSUME NEW r \in Runs, IInv, Shape', RunInv(r)',
         forgotten \subseteq forgotten',
         \A q \in Runs \ {r} :
             /\ pc'[q] = pc[q] /\ stage'[q] = stage[q] /\ round'[q] = round[q]
             /\ retained'[q] = retained[q] /\ pruned'[q] = pruned[q]
             /\ left'[q] = left[q]
  PROVE  IInv'
<1>1. ASSUME NEW q \in Runs, q # r PROVE RunInv(q)'
  <2>1. RunInv(q)
    BY IInvIsPerRun
  <2>2. QED
    BY <1>1, <2>1, OthersKeep
<1>2. \A q \in Runs : RunInv(q)'
  BY <1>1
<1>3. (Shape /\ \A q \in Runs : RunInv(q))' => IInv'
  BY DEF IInv, RunInv, SendsAreBounded, InstancesBegin, DependentsWait, InstancesReported,
     ReportIsHonest
<1>4. QED
  BY <1>2, <1>3

(* The throwing alternative of every call starts over or fails the run;    *)
(* neither leaves r with a stage to finish.                                *)
LEMMA FallbackFacts ==
  ASSUME NEW r \in Runs, Shape, Fallback(r)
  PROVE  /\ pc' \in [Runs -> Labels]
         /\ pc'[r] \in {"read", "failed"}
         /\ \A q \in Runs \ {r} : pc'[q] = pc[q]
BY DEF Shape, Fallback, Labels

LEMMA NoStageNoDuty ==
  ASSUME NEW r \in Runs,
         \/ pc'[r] \in {"read", "failed"}
         \/ pc'[r] \in {"publish", "erase"} /\ stage'[r] = "instances"
  PROVE  RunInv(r)'
BY DEF RunInv

LEMMA StartStep == ASSUME IInv, NEW r \in Runs, Start(r) PROVE IInv'
<1>1. Shape' /\ pc'[r] = "read"
  BY DEF IInv, Shape, Start, Labels, attemptVars
<1>2. RunInv(r)'
  BY <1>1, NoStageNoDuty
<1>3. QED
  BY <1>1, <1>2, StepOfRun DEF Start, IInv, Shape, attemptVars, alephVars

LEMMA ReadLedgerStep == ASSUME IInv, NEW r \in Runs, ReadLedger(r) PROVE IInv'
<1>1. CASE Fallback(r) /\ UNCHANGED <<retained, pruned, stage, round, left, forgotten>>
  <2>1. Shape' /\ pc'[r] \in {"read", "failed"}
    BY <1>1, FallbackFacts DEF IInv, Shape
  <2>2. QED
    BY <1>1, <2>1, NoStageNoDuty, FallbackFacts, StepOfRun DEF IInv
<1>2. CASE ~(Fallback(r) /\ UNCHANGED <<retained, pruned, stage, round, left, forgotten>>)
  <2>1. Shape' /\ pc'[r] = "publish" /\ stage'[r] = "instances"
    BY <1>2 DEF IInv, Shape, ReadLedger, Labels, LastRound, alephVars
  <2>2. QED
    BY <1>2, <2>1, NoStageNoDuty, StepOfRun DEF ReadLedger, IInv, Shape, alephVars
<1>3. QED
  BY <1>1, <1>2

LEMMA PublishStep == ASSUME IInv, NEW r \in Runs, Publish(r) PROVE IInv'
<1>1. UNCHANGED <<retained, pruned, round, left, forgotten>> /\ pc[r] = "publish"
  BY DEF Publish
<1>2. CASE Fallback(r) /\ UNCHANGED stage
  <2>1. Shape' /\ pc'[r] \in {"read", "failed"}
    BY <1>1, <1>2, FallbackFacts DEF IInv, Shape
  <2>2. QED
    BY <1>1, <1>2, <2>1, NoStageNoDuty, FallbackFacts, StepOfRun DEF IInv
<1>3. CASE FirstStage(r)
  <2>1. Shape' /\ \A q \in Runs \ {r} : pc'[q] = pc[q] /\ stage'[q] = stage[q]
    BY <1>1, <1>3 DEF IInv, Shape, FirstStage, Labels
  <2>2. CASE instanceForgetHashes(r) # {}
    <3>1. pc'[r] = "erase" /\ stage'[r] = "instances"
      BY <1>1, <1>3, <2>2 DEF FirstStage, IInv, Shape, InstancesBegin
    <3>2. QED
      BY <1>1, <2>1, <3>1, NoStageNoDuty, StepOfRun
  <2>3. CASE instanceForgetHashes(r) = {}
    <3>1. pc'[r] = IF dependentForgetHashes(r) = {} THEN "done" ELSE "classify"
      BY <1>3, <2>3 DEF FirstStage, IInv, Shape
    <3>2. /\ instanceForgetHashes(r)' = {}
          /\ dependentForgetHashes(r)' = dependentForgetHashes(r)
      BY <1>1, <2>3 DEF instanceForgetHashes, dependentForgetHashes, retainedHashes
    <3>3. RunInv(r)'
      BY <3>1, <3>2 DEF RunInv
    <3>4. QED
      BY <1>1, <2>1, <3>3, StepOfRun
  <2>4. QED
    BY <2>2, <2>3
<1>4. QED
  BY <1>2, <1>3 DEF Publish

LEMMA EraseStep == ASSUME IInv, NEW r \in Runs, Erase(r) PROVE IInv'
<1>1. UNCHANGED <<retained, pruned, stage, round, left, forgotten>>
  BY DEF Erase, attemptVars
<1>2. CASE Fallback(r)
  <2>1. Shape' /\ pc'[r] \in {"read", "failed"}
    BY <1>1, <1>2, FallbackFacts DEF IInv, Shape
  <2>2. QED
    BY <1>1, <1>2, <2>1, NoStageNoDuty, FallbackFacts, StepOfRun DEF IInv
<1>3. CASE pc' = [pc EXCEPT ![r] = "classify"]
  <2>1. Shape' /\ pc'[r] = "classify" /\ \A q \in Runs \ {r} : pc'[q] = pc[q]
    BY <1>1, <1>3 DEF IInv, Shape, Labels
  <2>2. stage[r] = "instances"
    BY DEF Erase, IInv, InstancesBegin
  <2>3. RunInv(r)'
    BY <1>1, <2>1, <2>2 DEF RunInv
  <2>4. QED
    BY <1>1, <2>1, <2>3, StepOfRun
<1>4. QED
  BY <1>2, <1>3 DEF Erase

(* The end of a stage, with the hashes still outstanding.                  *)
LEMMA EndStageStep ==
  ASSUME IInv, NEW r \in Runs, NEW out \in SUBSET stageHashes(r),
         pc[r] = "classify", EndStage(r, out),
         stageHashes(r) \ out \subseteq forgotten,
         UNCHANGED <<retained, pruned, forgotten>>
  PROVE  IInv'
<1>1. /\ left' = [left EXCEPT ![r] = left[r] \cup out]
      /\ left'[r] = left[r] \cup out
  BY DEF EndStage, IInv, Shape
<1>2. /\ instanceForgetHashes(r)' = instanceForgetHashes(r)
      /\ dependentForgetHashes(r)' = dependentForgetHashes(r)
  BY DEF instanceForgetHashes, dependentForgetHashes, retainedHashes
<1>3. CASE stage[r] = "instances" /\ dependentForgetHashes(r) # {}
  <2>1. /\ stage' = [stage EXCEPT ![r] = "dependents"]
        /\ round' = [round EXCEPT ![r] = IF out = {} THEN 0 ELSE LastRound]
        /\ UNCHANGED pc
    BY <1>3 DEF EndStage
  <2>2. Shape' /\ stage'[r] = "dependents" /\ (out # {} => round'[r] = LastRound)
    <3>1. stage' \in [Runs -> {"instances", "dependents"}] /\ stage'[r] = "dependents"
      BY <2>1 DEF IInv, Shape
    <3>2. (IF out = {} THEN 0 ELSE LastRound) \in 0..LastRound
      BY DEF LastRound
    <3>3. round' \in [Runs -> 0..LastRound] /\ (out # {} => round'[r] = LastRound)
      BY <2>1, <3>2 DEF IInv, Shape
    <3>4. DOMAIN left' = Runs /\ left' = [q \in Runs |-> left'[q]]
      BY <1>1 DEF IInv, Shape
    <3>5. QED
      BY <2>1, <3>1, <3>3, <3>4 DEF IInv, Shape
  <2>3. instanceForgetHashes(r) \subseteq forgotten \cup out
    BY <1>3 DEF stageHashes
  <2>4. RunInv(r)'
    BY <1>1, <1>2, <2>1, <2>2, <2>3 DEF RunInv
  <2>5. QED
    BY <1>1, <2>1, <2>2, <2>4, StepOfRun DEF IInv, Shape
<1>4. CASE ~(stage[r] = "instances" /\ dependentForgetHashes(r) # {})
  <2>1. pc' = [pc EXCEPT ![r] = "done"] /\ UNCHANGED <<stage, round>>
    BY <1>4 DEF EndStage
  <2>2. Shape' /\ pc'[r] = "done"
    BY <1>1, <2>1 DEF IInv, Shape, Labels
  <2>3. instanceForgetHashes(r) \subseteq forgotten \cup left'[r]
    <3>1. CASE stage[r] = "instances"
      BY <1>1, <3>1 DEF stageHashes
    <3>2. CASE stage[r] = "dependents"
      BY <1>1, <3>2 DEF IInv, InstancesReported
    <3>3. QED
      BY <3>1, <3>2 DEF IInv, Shape
  <2>4. dependentForgetHashes(r) \subseteq forgotten \cup left'[r]
    <3>1. CASE stage[r] = "dependents"
      BY <1>1, <3>1 DEF stageHashes
    <3>2. CASE stage[r] = "instances"
      BY <1>4, <3>2
    <3>3. QED
      BY <3>1, <3>2 DEF IInv, Shape
  <2>5. RunInv(r)'
    BY <1>2, <2>2, <2>3, <2>4 DEF RunInv
  <2>6. QED
    BY <1>1, <2>1, <2>2, <2>5, StepOfRun DEF IInv, Shape
<1>5. QED
  BY <1>3, <1>4

LEMMA ClassifyStep == ASSUME IInv, NEW r \in Runs, Classify(r) PROVE IInv'
<1>1. UNCHANGED <<retained, pruned, forgotten>> /\ pc[r] = "classify"
  BY DEF Classify, alephVars
<1>2. CASE Fallback(r) /\ UNCHANGED <<stage, round, left>>
  <2>1. Shape' /\ pc'[r] \in {"read", "failed"}
    BY <1>1, <1>2, FallbackFacts DEF IInv, Shape
  <2>2. QED
    BY <1>1, <1>2, <2>1, NoStageNoDuty, FallbackFacts, StepOfRun DEF IInv
<1>3. ASSUME NEW seen \in SUBSET answeredForgotten(r),
             EndStage(r, stageHashes(r) \ seen)
      PROVE  IInv'
  <2>1. stageHashes(r) \ (stageHashes(r) \ seen) \subseteq forgotten
    BY DEF answeredForgotten
  <2>2. QED
    BY <1>1, <1>3, <2>1, EndStageStep
<1>4. ASSUME pc' = [pc EXCEPT ![r] = "send"], UNCHANGED <<stage, round, left>>,
             round[r] # LastRound
      PROVE  IInv'
  <2>1. Shape' /\ pc'[r] = "send" /\ \A q \in Runs \ {r} : pc'[q] = pc[q]
    BY <1>1, <1>4 DEF IInv, Shape, Labels
  <2>2. /\ instanceForgetHashes(r)' = instanceForgetHashes(r)
        /\ RunInv(r)
    BY <1>1, IInvIsPerRun DEF instanceForgetHashes, retainedHashes
  <2>3. RunInv(r)'
    BY <1>1, <1>4, <2>1, <2>2 DEF RunInv
  <2>4. QED
    BY <1>1, <1>4, <2>1, <2>3, StepOfRun
<1>5. QED
  BY <1>2, <1>3, <1>4 DEF Classify, stageIsOver

LEMMA SendStep == ASSUME IInv, NEW r \in Runs, Send(r) PROVE IInv'
<1>1. /\ UNCHANGED <<retained, pruned, stage, left, forgotten>>
      /\ pc[r] = "send" /\ round[r] # LastRound
  BY DEF Send, IInv, SendsAreBounded
<1>2. CASE Fallback(r) /\ UNCHANGED round
  <2>1. Shape' /\ pc'[r] \in {"read", "failed"}
    BY <1>1, <1>2, FallbackFacts DEF IInv, Shape
  <2>2. QED
    BY <1>1, <1>2, <2>1, NoStageNoDuty, FallbackFacts, StepOfRun DEF IInv
<1>3. CASE pc' = [pc EXCEPT ![r] = "classify"] /\ round' = [round EXCEPT ![r] = @ + 1]
  <2>1. /\ Shape' /\ pc'[r] = "classify"
        /\ \A q \in Runs \ {r} : pc'[q] = pc[q] /\ round'[q] = round[q]
    BY <1>1, <1>3 DEF IInv, Shape, Labels, LastRound
  <2>2. instanceForgetHashes(r)' = instanceForgetHashes(r) /\ RunInv(r)
    BY <1>1, IInvIsPerRun DEF instanceForgetHashes, retainedHashes
  <2>3. RunInv(r)'
    BY <1>1, <2>1, <2>2 DEF RunInv
  <2>4. QED
    BY <1>1, <2>1, <2>3, StepOfRun
<1>4. QED
  BY <1>2, <1>3 DEF Send

LEMMA QuietInv ==
  ASSUME IInv, forgotten \subseteq forgotten', UNCHANGED <<pc, attemptVars>>
  PROVE  IInv'
<1>1. UNCHANGED <<retained, pruned, stage, round, left>>
  BY DEF attemptVars
<1>2. \A r \in Runs :
        /\ instanceForgetHashes(r)' = instanceForgetHashes(r)
        /\ dependentForgetHashes(r)' = dependentForgetHashes(r)
  BY <1>1 DEF instanceForgetHashes, dependentForgetHashes, retainedHashes
<1>3. Shape' /\ SendsAreBounded' /\ InstancesBegin'
  BY <1>1 DEF IInv, Shape, SendsAreBounded, InstancesBegin
<1>4. DependentsWait' /\ InstancesReported' /\ ReportIsHonest'
  BY <1>1, <1>2 DEF IInv, DependentsWait, InstancesReported, ReportIsHonest
<1>5. QED
  BY <1>3, <1>4 DEF IInv

(* The inductive invariant of the order of the FORGETs is an invariant.    *)
THEOREM Inductive == Spec => []IInv
<1>1. ASSUME IInv, [Next]_vars PROVE IInv'
  <2>1. ASSUME NEW r \in Runs, Start(r) \/ RunStep(r) PROVE IInv'
    BY <1>1, <2>1, StartStep, ReadLedgerStep, PublishStep, EraseStep, ClassifyStep,
       SendStep DEF RunStep
  <2>2. ASSUME NEW h \in Hashes, AlephForgets(h) PROVE IInv'
    BY <1>1, <2>2, QuietInv DEF AlephForgets
  <2>3. ASSUME NEW i \in DOMAIN queue, AlephPublishes(i) PROVE IInv'
    BY <1>1, <2>3, QuietInv DEF AlephPublishes
  <2>4. CASE UNCHANGED vars
    BY <1>1, <2>4, QuietInv DEF vars, alephVars
  <2>5. QED
    BY <1>1, <2>1, <2>2, <2>3, <2>4 DEF Next
<1>2. QED
  BY <1>1, IInv_Init, PTL DEF Spec

(* No STORE message is asked to be forgotten while an instance pruned with *)
(* it is not forgotten, on any host and with any overlap of runs.          *)
THEOREM StoresAfterInstances == Spec => []InstancesFirst
<1>1. IInv => InstancesFirst
  BY DEF IInv, SendsAreBounded, InstancesBegin, DependentsWait, InstancesFirst
<1>2. QED
  BY <1>1, Inductive, PTL

(* A finished run forgot or reported everything it had to forget.          *)
THEOREM HonestReport == Spec => []ReportIsHonest
<1>1. IInv => ReportIsHonest
  BY DEF IInv
<1>2. QED
  BY <1>1, Inductive, PTL

-----------------------------------------------------------------------------
(* What retention never forgets. All records in play are those of          *)
(* deployments that had their run.                                         *)
Recs == {Record[r] : r \in Runs}
Deps == UNION {dependentHashesFromRecord(rec) : rec \in Recs}
Extras == UNION {Extra[r] : r \in Runs}

Typed ==
    /\ ledger \in Seq(Recs)
    /\ queue \in Seq(Seq(Recs))
    /\ erased \subseteq Hashes /\ asked \subseteq Hashes /\ forgotten \subseteq Hashes
    /\ pc \in [Runs -> Labels]
    /\ host \in [Runs -> 1..Hosts]
    /\ retained \in [Runs -> Seq(Recs)]
    /\ pruned \in [Runs -> SUBSET Recs]
    /\ published \in [Runs -> SUBSET {"processed", "unprocessed"}]
    /\ stage \in [Runs -> {"instances", "dependents"}]
    /\ round \in [Runs -> 0..LastRound]
    /\ outstanding \in [Runs -> SUBSET Hashes]
    /\ left \in [Runs -> SUBSET Hashes]

(* The run's part: a FORGET names hashes of its stage, and instances that  *)
(* were erased.                                                            *)
Careful(r) ==
    /\ pc[r] = "send" => outstanding[r] \subseteq stageHashes(r) /\ round[r] # LastRound
    /\ pc[r] \in {"classify", "send"} => instanceForgetHashes(r) \subseteq erased

AskedForReason == asked \subseteq erased \cup Extras \cup Deps

EInv ==
    /\ Typed
    /\ \A r \in Runs : Careful(r)
    /\ AskedForReason

LEMMA RecsAreRecords == Recs \subseteq RecordType /\ \A r \in Runs : Record[r] \in Recs
BY RetentionAssumption DEF Recs

LEMMA HashesOfRecords ==
  ASSUME NEW rec \in Recs
  PROVE  /\ rec.instance \in Hashes
         /\ hashesFromRecord(rec) \subseteq Hashes
         /\ dependentHashesFromRecord(rec) \subseteq Hashes \cap Deps
BY RecsAreRecords DEF RecordType, hashesFromRecord, dependentHashesFromRecord, Deps

(* What is left of the ledger without a record are records of the ledger.  *)
LEMMA WithoutRecord ==
  ASSUME ledger \in Seq(Recs), NEW rec
  PROVE  /\ without(rec) \in Seq(Recs)
         /\ ToSet(without(rec)) \subseteq ToSet(ledger)
<1>1. CASE rec \in ToSet(ledger)
  <2>1. PICK i \in 1..Len(ledger) : without(rec) = RemoveAt(ledger, i)
    <3>1. \E i \in DOMAIN ledger : ledger[i] = rec
      BY <1>1 DEF ToSet
    <3>2. (CHOOSE i \in DOMAIN ledger : ledger[i] = rec) \in DOMAIN ledger
      BY <3>1
    <3>3. DOMAIN ledger = 1..Len(ledger)
      OBVIOUS
    <3>4. QED
      BY <1>1, <3>2, <3>3 DEF without
  <2> DEFINE a == SubSeq(ledger, 1, i - 1)
             b == SubSeq(ledger, i + 1, Len(ledger))
  <2>2. a \in Seq(Recs) /\ \A j \in DOMAIN a : a[j] \in ToSet(ledger)
    BY DEF ToSet
  <2>3. b \in Seq(Recs) /\ \A j \in DOMAIN b : b[j] \in ToSet(ledger)
    BY DEF ToSet
  <2> HIDE DEF a, b
  <2>4. a \o b \in Seq(Recs) /\ \A j \in DOMAIN (a \o b) : (a \o b)[j] \in ToSet(ledger)
    BY <2>2, <2>3
  <2>5. without(rec) = a \o b
    BY <2>1 DEF a, b, RemoveAt
  <2>6. QED
    BY <2>4, <2>5 DEF ToSet
<1>2. CASE rec \notin ToSet(ledger)
  BY <1>2 DEF without
<1>3. QED
  BY <1>1, <1>2

(* The retained records are of the ledger but for the current one, which   *)
(* is among them.                                                          *)
LEMMA RetainedRecords ==
  ASSUME ledger \in Seq(Recs), NEW r \in Runs
  PROVE  /\ retainedRecords(r) \in Seq(Recs)
         /\ prunedRecords(r) \subseteq Recs
         /\ ToSet(retainedRecords(r)) \subseteq ToSet(ledger) \cup {Record[r]}
         /\ Keep # 0 => Record[r] \in ToSet(retainedRecords(r))
<1> DEFINE u == uniqueRecords(r)
<1>1. /\ u \in Seq(Recs) /\ Len(u) > 0 /\ u[1] = Record[r]
      /\ \A i \in DOMAIN u : u[i] \in ToSet(ledger) \cup {Record[r]}
  <2> DEFINE w == without(Record[r])
  <2>1. w \in Seq(Recs) /\ (\A i \in DOMAIN w : w[i] \in ToSet(ledger)) /\ Record[r] \in Recs
    BY WithoutRecord, RecsAreRecords DEF ToSet
  <2>2. u = <<Record[r]>> \o w
    BY DEF uniqueRecords
  <2> HIDE DEF u, w
  <2>3. QED
    BY <2>1, <2>2
<1>2. keptRecords(r) \in 0..Len(u) /\ (Keep # 0 => keptRecords(r) # 0)
  BY <1>1, RetentionAssumption DEF keptRecords
<1> HIDE DEF u
<1> DEFINE k == keptRecords(r)
           t == SubSeq(u, 1, k)
           p == SubSeq(u, k + 1, Len(u))
<1>3. k \in 0..Len(u) /\ (Keep # 0 => k # 0)
  BY <1>2
<1> HIDE DEF k
<1>4. /\ t \in Seq(Recs) /\ \A i \in DOMAIN t : t[i] \in ToSet(ledger) \cup {Record[r]}
      /\ Keep # 0 => 1 \in DOMAIN t /\ t[1] = Record[r]
  BY <1>1, <1>3
<1>5. \A i \in DOMAIN p : p[i] \in Recs
  BY <1>1, <1>3
<1>6. QED
  BY <1>4, <1>5 DEF retainedRecords, prunedRecords, ToSet, u, k

LEMMA StageHashesTyped ==
  ASSUME Typed, NEW r \in Runs
  PROVE  /\ instanceForgetHashes(r) \subseteq Hashes
         /\ dependentForgetHashes(r) \subseteq Hashes \cap (Deps \cup Extras)
         /\ stageHashes(r) \subseteq Hashes
<1>1. pruned[r] \subseteq Recs
  BY DEF Typed
<1>2. Extra[r] \subseteq Hashes \cap Extras
  BY RetentionAssumption DEF Extras
<1>3. instanceForgetHashes(r) \subseteq Hashes
  BY <1>1, HashesOfRecords DEF instanceForgetHashes
<1>4. dependentForgetHashes(r) \subseteq Hashes \cap (Deps \cup Extras)
  <2>1. ASSUME NEW h \in dependentForgetHashes(r) PROVE h \in Hashes \cap (Deps \cup Extras)
    <3>1. h \in Extra[r] \/ \E rec \in pruned[r] : h \in dependentHashesFromRecord(rec)
      <4>1. h \in UNION {dependentHashesFromRecord(rec) : rec \in pruned[r]} \/ h \in Extra[r]
        BY DEF dependentForgetHashes
      <4>2. QED
        BY <4>1
    <3>2. QED
      BY <1>1, <1>2, <3>1, HashesOfRecords
  <2>2. QED
    BY <2>1
<1>5. QED
  BY <1>3, <1>4 DEF stageHashes

LEMMA FallbackTyped ==
  ASSUME Typed, NEW r \in Runs, Fallback(r)
  PROVE  /\ pc' \in [Runs -> Labels] /\ host' \in [Runs -> 1..Hosts]
         /\ pc'[r] \in {"read", "failed"}
         /\ \A q \in Runs \ {r} : pc'[q] = pc[q]
<1>1. CASE host[r] < Hosts
  <2>1. host[r] + 1 \in 1..Hosts
    BY <1>1, RetentionAssumption DEF Typed
  <2>2. /\ host' = [host EXCEPT ![r] = host[r] + 1]
        /\ pc' = [pc EXCEPT ![r] = "read"]
    BY <1>1 DEF Fallback, Typed
  <2>3. QED
    BY <2>1, <2>2 DEF Typed, Labels
<1>2. CASE ~(host[r] < Hosts)
  BY <1>2 DEF Typed, Fallback, Labels
<1>3. QED
  BY <1>1, <1>2

(* A step of run r, in one place: types, and what it does not touch.       *)
Still(q) ==
    /\ pc'[q] = pc[q] /\ retained'[q] = retained[q] /\ pruned'[q] = pruned[q]
    /\ stage'[q] = stage[q] /\ round'[q] = round[q]
    /\ outstanding'[q] = outstanding[q] /\ published'[q] = published[q]

StillBut(r) == Typed' /\ \A q \in Runs \ {r} : Still(q)

LEMMA StartTyped == ASSUME Typed, NEW r \in Runs, Start(r) PROVE StillBut(r)
BY DEF Typed, Start, Labels, alephVars, attemptVars, StillBut, Still

LEMMA ReadLedgerTyped == ASSUME Typed, NEW r \in Runs, ReadLedger(r) PROVE StillBut(r)
<1>1. UNCHANGED <<ledger, queue, erased, asked, forgotten, published>>
  BY DEF ReadLedger, alephVars
<1>2. CASE Fallback(r) /\ UNCHANGED <<retained, pruned, stage, round, outstanding, left>>
  BY <1>1, <1>2, FallbackTyped DEF Typed, StillBut, Still
<1>3. CASE ~(Fallback(r) /\ UNCHANGED <<retained, pruned, stage, round, outstanding, left>>)
  <2>1. /\ retained' = [retained EXCEPT ![r] = retainedRecords(r)]
        /\ pruned' = [pruned EXCEPT ![r] = prunedRecords(r)]
        /\ stage' = [stage EXCEPT ![r] = "instances"]
        /\ round' = [round EXCEPT ![r] = 0]
        /\ outstanding' = [outstanding EXCEPT ![r] = {}]
        /\ left' = [left EXCEPT ![r] = {}]
        /\ pc' = [pc EXCEPT ![r] = "publish"]
        /\ UNCHANGED host
    BY <1>3 DEF ReadLedger
  <2>2. retainedRecords(r) \in Seq(Recs) /\ prunedRecords(r) \in SUBSET Recs
    BY RetainedRecords DEF Typed
  <2> HIDE DEF ReadLedger
  <2>3. retained' \in [Runs -> Seq(Recs)] /\ pruned' \in [Runs -> SUBSET Recs]
    BY <2>1, <2>2 DEF Typed
  <2>4. /\ stage' \in [Runs -> {"instances", "dependents"}]
        /\ round' \in [Runs -> 0..LastRound]
        /\ outstanding' \in [Runs -> SUBSET Hashes]
        /\ left' \in [Runs -> SUBSET Hashes]
        /\ pc' \in [Runs -> Labels]
    BY <2>1 DEF Typed, LastRound, Labels
  <2>5. QED
    BY <1>1, <2>1, <2>3, <2>4 DEF Typed, StillBut, Still
<1>4. QED
  BY <1>2, <1>3

LEMMA PublishTyped == ASSUME Typed, NEW r \in Runs, Publish(r) PROVE StillBut(r)
<1>1. UNCHANGED <<erased, asked, forgotten, retained, pruned, round, outstanding, left>>
  BY DEF Publish
<1>2. ledger' \in Seq(Recs) /\ queue' \in Seq(Seq(Recs))
  <2>1. retained[r] \in Seq(Recs)
    BY DEF Typed
  <2>2. withSent(r) \in Seq(Seq(Recs))
    BY <2>1 DEF withSent, Typed
  <2>3. <<>> \in Seq(Seq(Recs))
    OBVIOUS
  <2>4. ledger' \in {ledger, retained[r]} /\ queue' \in {<<>>, withSent(r)}
    BY DEF Publish
  <2>5. QED
    BY <2>1, <2>2, <2>3, <2>4 DEF Typed
<1>3. CASE Fallback(r) /\ UNCHANGED <<published, stage>>
  BY <1>1, <1>2, <1>3, FallbackTyped DEF Typed, StillBut, Still
<1>4. CASE FirstStage(r) /\ UNCHANGED host /\
           \E s \in {"processed", "unprocessed"} : published' = [published EXCEPT ![r] = @ \cup {s}]
  <2>1. /\ \E l \in Labels : pc' = [pc EXCEPT ![r] = l]
        /\ \E s \in {"instances", "dependents"} : stage' = [stage EXCEPT ![r] = s]
    <3>1. CASE instanceForgetHashes(r) # {}
      <4>1. pc' = [pc EXCEPT ![r] = "erase"] /\ stage' = [stage EXCEPT ![r] = stage[r]]
        BY <1>4, <3>1 DEF FirstStage, Typed
      <4>2. QED
        BY <4>1 DEF Labels, Typed
    <3>2. CASE instanceForgetHashes(r) = {}
      BY <1>4, <3>2 DEF FirstStage, Labels
    <3>3. QED
      BY <3>1, <3>2
  <2>2. /\ pc' \in [Runs -> Labels] /\ stage' \in [Runs -> {"instances", "dependents"}]
        /\ \A q \in Runs \ {r} : pc'[q] = pc[q] /\ stage'[q] = stage[q]
    BY <2>1 DEF Typed
  <2>3. published' \in [Runs -> SUBSET {"processed", "unprocessed"}]
    BY <1>4 DEF Typed
  <2>4. \A q \in Runs \ {r} : published'[q] = published[q]
    BY <1>4 DEF Typed
  <2>5. QED
    BY <1>1, <1>2, <1>4, <2>2, <2>3, <2>4 DEF Typed, StillBut, Still
<1>5. QED
  BY <1>3, <1>4 DEF Publish

LEMMA EraseTyped == ASSUME Typed, NEW r \in Runs, Erase(r) PROVE StillBut(r)
<1>1. UNCHANGED <<ledger, queue, asked, forgotten, retained, pruned, published, stage,
                  round, outstanding, left>>
  BY DEF Erase, attemptVars
<1>2. erased' \subseteq Hashes
  BY StageHashesTyped DEF Erase, Typed
<1>3. CASE Fallback(r)
  BY <1>1, <1>2, <1>3, FallbackTyped DEF Typed, StillBut, Still
<1>4. CASE pc' = [pc EXCEPT ![r] = "classify"] /\ UNCHANGED host
  BY <1>1, <1>2, <1>4 DEF Typed, StillBut, Still, Labels
<1>5. QED
  BY <1>3, <1>4 DEF Erase

LEMMA ClassifyTyped == ASSUME Typed, NEW r \in Runs, Classify(r) PROVE StillBut(r)
<1>1. UNCHANGED <<ledger, queue, erased, asked, forgotten, retained, pruned, published>>
  BY DEF Classify, alephVars
<1>2. CASE Fallback(r) /\ UNCHANGED <<stage, round, outstanding, left>>
  BY <1>1, <1>2, FallbackTyped DEF Typed, StillBut, Still
<1>3. ASSUME NEW out \in SUBSET stageHashes(r), UNCHANGED host,
             outstanding' = [outstanding EXCEPT ![r] = out],
             EndStage(r, out) \/ (pc' = [pc EXCEPT ![r] = "send"] /\ UNCHANGED <<stage, round, left>>)
      PROVE  StillBut(r)
  <2>1. out \in SUBSET Hashes
    BY StageHashesTyped
  <2>2. /\ outstanding' \in [Runs -> SUBSET Hashes]
        /\ \A q \in Runs \ {r} : outstanding'[q] = outstanding[q]
    BY <1>3, <2>1 DEF Typed
  <2>3. CASE EndStage(r, out)
    <3>1. left' \in [Runs -> SUBSET Hashes]
      BY <2>1, <2>3 DEF EndStage, Typed
    <3>2. /\ pc' \in [Runs -> Labels] /\ stage' \in [Runs -> {"instances", "dependents"}]
          /\ round' \in [Runs -> 0..LastRound]
          /\ \A q \in Runs \ {r} : pc'[q] = pc[q] /\ stage'[q] = stage[q] /\ round'[q] = round[q]
      <4>1. CASE stage[r] = "instances" /\ dependentForgetHashes(r) # {}
        <5>1. /\ stage' = [stage EXCEPT ![r] = "dependents"]
              /\ \E n \in 0..LastRound : round' = [round EXCEPT ![r] = n]
              /\ UNCHANGED pc
          BY <2>3, <4>1 DEF EndStage, LastRound
        <5>2. QED
          BY <5>1 DEF Typed
      <4>2. CASE ~(stage[r] = "instances" /\ dependentForgetHashes(r) # {})
        <5>1. pc' = [pc EXCEPT ![r] = "done"] /\ UNCHANGED <<stage, round>>
          BY <2>3, <4>2 DEF EndStage
        <5>2. QED
          BY <5>1 DEF Typed, Labels
      <4>3. QED
        BY <4>1, <4>2
    <3>3. QED
      BY <1>1, <1>3, <2>2, <3>1, <3>2 DEF Typed, StillBut, Still
  <2>4. CASE pc' = [pc EXCEPT ![r] = "send"] /\ UNCHANGED <<stage, round, left>>
    BY <1>1, <1>3, <2>2, <2>4 DEF Typed, StillBut, Still, Labels
  <2>5. QED
    BY <1>3, <2>3, <2>4
<1>4. QED
  <2>1. ASSUME ~(Fallback(r) /\ UNCHANGED <<stage, round, outstanding, left>>)
        PROVE  \E out \in SUBSET stageHashes(r) :
                 /\ UNCHANGED host
                 /\ outstanding' = [outstanding EXCEPT ![r] = out]
                 /\ EndStage(r, out) \/ (pc' = [pc EXCEPT ![r] = "send"] /\ UNCHANGED <<stage, round, left>>)
    BY <2>1 DEF Classify
  <2>2. QED
    BY <1>2, <1>3, <2>1

LEMMA SendTyped ==
  ASSUME Typed, NEW r \in Runs, Send(r), round[r] # LastRound PROVE StillBut(r)
<1>1. UNCHANGED <<ledger, queue, erased, forgotten, retained, pruned, published, stage,
                  outstanding, left>>
  BY DEF Send
<1>2. PICK named \in SUBSET outstanding[r] : asked' = asked \cup named
  BY DEF Send
<1>3. asked' \subseteq Hashes
  BY <1>2 DEF Typed
<1>4. CASE Fallback(r) /\ UNCHANGED round
  BY <1>1, <1>3, <1>4, FallbackTyped DEF Typed, StillBut, Still
<1>5. CASE pc' = [pc EXCEPT ![r] = "classify"] /\ round' = [round EXCEPT ![r] = @ + 1] /\ UNCHANGED host
  <2>1. round[r] + 1 \in 0..LastRound
    <3>1. round[r] \in 0..LastRound
      BY DEF Typed
    <3>2. QED
      BY <3>1 DEF LastRound
  <2>2. round' \in [Runs -> 0..LastRound] /\ \A q \in Runs \ {r} : round'[q] = round[q]
    <3>1. round' = [round EXCEPT ![r] = round[r] + 1]
      BY <1>5
    <3>2. round \in [Runs -> 0..LastRound]
      BY DEF Typed
    <3>3. QED
      BY <2>1, <3>1, <3>2
  <2>3. QED
    BY <1>1, <1>3, <1>5, <2>2 DEF Typed, StillBut, Still, Labels
<1>6. QED
  BY <1>4, <1>5 DEF Send

(* The hashes a run computes depend on its own attempt only.               *)
LEMMA SameHashes ==
  ASSUME NEW q \in Runs, retained'[q] = retained[q], pruned'[q] = pruned[q]
  PROVE  /\ retainedHashes(q)' = retainedHashes(q)
         /\ instanceForgetHashes(q)' = instanceForgetHashes(q)
         /\ dependentForgetHashes(q)' = dependentForgetHashes(q)
         /\ stage'[q] = stage[q] => stageHashes(q)' = stageHashes(q)
BY DEF retainedHashes, instanceForgetHashes, dependentForgetHashes, stageHashes

LEMMA StillCareful ==
  ASSUME NEW q \in Runs, Careful(q), Still(q), erased \subseteq erased' PROVE Careful(q)'
BY SameHashes DEF Careful, Still

LEMMA AskedGrowsForReason ==
  ASSUME EInv, NEW r \in Runs, pc[r] = "send", NEW named \in SUBSET outstanding[r],
         asked' = asked \cup named, UNCHANGED erased
  PROVE  AskedForReason'
<1>1. /\ named \subseteq stageHashes(r)
      /\ instanceForgetHashes(r) \subseteq erased
      /\ dependentForgetHashes(r) \subseteq Deps \cup Extras
  BY StageHashesTyped DEF EInv, Careful
<1>2. named \subseteq erased \cup Extras \cup Deps
  BY <1>1 DEF stageHashes
<1>3. QED
  BY <1>2 DEF EInv, AskedForReason

LEMMA RunStepCareful ==
  ASSUME EInv, NEW r \in Runs, RunStep(r)
  PROVE  EInv' /\ StillBut(r)
<1>1. Typed /\ Careful(r) /\ (\A q \in Runs : Careful(q)) /\ AskedForReason
  BY DEF EInv
<1>2. CASE ReadLedger(r)
  <2>1. StillBut(r) /\ pc'[r] \in {"publish", "read", "failed"}
    BY <1>1, <1>2, ReadLedgerTyped, FallbackTyped DEF ReadLedger, Typed
  <2>2. UNCHANGED <<erased, asked>>
    BY <1>2 DEF ReadLedger, alephVars
  <2>3. QED
    BY <1>1, <2>1, <2>2, StillCareful DEF EInv, Careful, AskedForReason, StillBut
<1>3. CASE Publish(r)
  <2>1. StillBut(r) /\ UNCHANGED <<erased, asked, retained, pruned>>
    BY <1>1, <1>3, PublishTyped DEF Publish
  <2>2. Careful(r)'
    <3>1. CASE Fallback(r)
      BY <1>1, <3>1, FallbackTyped DEF Careful
    <3>2. CASE FirstStage(r)
      <4>1. instanceForgetHashes(r)' = instanceForgetHashes(r)
        BY <2>1, SameHashes
      <4>2. CASE instanceForgetHashes(r) # {}
        BY <1>1, <3>2, <4>2 DEF FirstStage, Careful, Typed
      <4>3. CASE instanceForgetHashes(r) = {}
        BY <1>1, <3>2, <4>1, <4>3 DEF FirstStage, Careful, Typed
      <4>4. QED
        BY <4>2, <4>3
    <3>3. QED
      BY <1>3, <3>1, <3>2 DEF Publish
  <2>3. QED
    BY <1>1, <2>1, <2>2, StillCareful DEF EInv, AskedForReason, StillBut
<1>4. CASE Erase(r)
  <2>1. StillBut(r) /\ UNCHANGED <<asked, retained, pruned>> /\ erased \subseteq erased'
    BY <1>1, <1>4, EraseTyped DEF Erase, attemptVars
  <2>2. Careful(r)'
    <3>1. CASE Fallback(r)
      BY <1>1, <3>1, FallbackTyped DEF Careful
    <3>2. CASE erased' = erased \cup instanceForgetHashes(r) /\ pc' = [pc EXCEPT ![r] = "classify"]
      BY <1>1, <2>1, <3>2, SameHashes DEF Careful, Typed
    <3>3. QED
      BY <1>4, <3>1, <3>2 DEF Erase
  <2>3. QED
    BY <1>1, <2>1, <2>2, StillCareful DEF EInv, AskedForReason, StillBut
<1>5. CASE Classify(r)
  <2>1. /\ StillBut(r) /\ UNCHANGED <<erased, asked, retained, pruned>>
        /\ pc[r] = "classify"
    BY <1>1, <1>5, ClassifyTyped DEF Classify, alephVars
  <2>2. instanceForgetHashes(r)' = instanceForgetHashes(r)
    BY <2>1, SameHashes
  <2>3. pc'[r] = "send" => outstanding'[r] \subseteq stageHashes(r)' /\ round'[r] # LastRound
    <3>1. CASE Fallback(r)
      BY <1>1, <3>1, FallbackTyped
    <3>2. CASE ~Fallback(r)
      <4>1. PICK seen \in SUBSET answeredForgotten(r) :
              LET out == stageHashes(r) \ seen IN
              /\ outstanding' = [outstanding EXCEPT ![r] = out]
              /\ IF stageIsOver(r, out)
                 THEN EndStage(r, out)
                 ELSE pc' = [pc EXCEPT ![r] = "send"] /\ UNCHANGED <<stage, round, left>>
        BY <1>5, <3>2 DEF Classify
      <4>2. CASE EndStage(r, stageHashes(r) \ seen)
        BY <1>1, <2>1, <4>2 DEF EndStage, Typed
      <4>3. CASE ~EndStage(r, stageHashes(r) \ seen)
        <5>1. round[r] # LastRound /\ UNCHANGED <<stage, round>>
          BY <4>1, <4>3 DEF stageIsOver
        <5>2. stageHashes(r)' = stageHashes(r)
          BY <2>1, <5>1, SameHashes
        <5>3. outstanding'[r] = stageHashes(r) \ seen
          BY <1>1, <4>1 DEF Typed
        <5>4. QED
          BY <5>1, <5>2, <5>3
      <4>4. QED
        BY <4>2, <4>3
    <3>3. QED
      BY <3>1, <3>2
  <2>4. Careful(r)'
    BY <1>1, <2>1, <2>2, <2>3 DEF Careful
  <2>5. QED
    BY <1>1, <2>1, <2>4, StillCareful DEF EInv, AskedForReason, StillBut
<1>6. CASE Send(r)
  <2>1. StillBut(r) /\ UNCHANGED <<erased, retained, pruned>> /\ pc[r] = "send"
    BY <1>1, <1>6, SendTyped DEF Send, Careful
  <2>2. AskedForReason'
    <3>1. PICK named \in SUBSET outstanding[r] : asked' = asked \cup named
      BY <1>6 DEF Send
    <3>2. QED
      BY <2>1, <3>1, AskedGrowsForReason
  <2>3. pc'[r] # "send" /\ (pc'[r] = "classify" \/ pc'[r] \in {"read", "failed"})
    BY <1>1, <1>6, FallbackTyped DEF Send, Typed
  <2>4. Careful(r)'
    BY <1>1, <2>1, <2>3, SameHashes DEF Careful
  <2>5. QED
    BY <1>1, <2>1, <2>2, <2>4, StillCareful DEF EInv, StillBut
<1>7. QED
  BY <1>2, <1>3, <1>4, <1>5, <1>6 DEF RunStep

LEMMA QuietCareful ==
  ASSUME EInv, UNCHANGED <<erased, asked, pc, host, attemptVars>>,
         forgotten' \subseteq Hashes, ledger' \in Seq(Recs), queue' \in Seq(Seq(Recs))
  PROVE  EInv' /\ \A q \in Runs : Still(q)
<1>1. Typed' /\ \A q \in Runs : Still(q)
  BY DEF EInv, Typed, attemptVars, Still
<1>2. \A q \in Runs : Careful(q)'
  BY <1>1, StillCareful DEF EInv
<1>3. QED
  BY <1>1, <1>2 DEF EInv, AskedForReason

(* Aleph puts a ledger in force that was sent: it is one of deployments.   *)
LEMMA PublishesTyped ==
  ASSUME Typed, NEW i \in DOMAIN queue, AlephPublishes(i)
  PROVE  /\ ledger' \in Seq(Recs) /\ queue' \in Seq(Seq(Recs))
         /\ queue # <<>>
         /\ \A j \in DOMAIN queue' : \E k \in DOMAIN queue : queue'[j] = queue[k]
<1>1. i \in 1..Len(queue) /\ queue \in Seq(Seq(Recs))
  BY DEF Typed
<1>2. queue' = SubSeq(queue, i + 1, Len(queue)) /\ ledger' = queue[i]
  BY DEF AlephPublishes
<1>3. queue[i] \in Seq(Recs) /\ queue # <<>>
  BY <1>1
<1> DEFINE T == Seq(Recs)
           rest == SubSeq(queue, i + 1, Len(queue))
<1>4. queue \in Seq(T) /\ i \in 1..Len(queue) /\ Len(queue) \in Nat
  BY <1>1
<1> HIDE DEF T
<1>5. /\ rest \in Seq(T)
      /\ \A n \in 1..Len(rest) : rest[n] = queue[i + n] /\ i + n \in 1..Len(queue)
  <2>1. rest \in Seq(T) /\ Len(rest) = Len(queue) - i
    BY <1>4
  <2>2. ASSUME NEW n \in 1..Len(rest)
        PROVE  rest[n] = queue[i + n] /\ i + n \in 1..Len(queue)
    <3>1. n \in 1..(Len(queue) - i)
      BY <2>1
    <3>2. i \in Nat /\ n \in Nat /\ i + n \in 1..Len(queue)
      BY <1>4, <3>1
    <3>3. (i + 1) + n - 1 = i + n
      BY <3>2
    <3>4. n \in 1..(Len(queue) - (i + 1) + 1)
      BY <1>4, <3>1
    <3>5. rest[n] = queue[(i + 1) + n - 1]
      BY <1>4, <3>4, SubSeqProperties, Z3
    <3>6. QED
      BY <3>2, <3>3, <3>5
  <2>3. QED
    BY <2>1, <2>2
<1>6. ASSUME NEW j \in DOMAIN queue' PROVE \E k \in DOMAIN queue : queue'[j] = queue[k]
  <2>1. j \in 1..Len(rest) /\ DOMAIN queue = 1..Len(queue)
    BY <1>2, <1>4, <1>5, <1>6
  <2>2. queue'[j] = queue[i + j] /\ i + j \in DOMAIN queue
    BY <1>2, <1>5, <2>1
  <2>3. QED
    BY <2>2
<1>7. QED
  BY <1>2, <1>3, <1>5, <1>6 DEF T

LEMMA EInv_Init == Init => EInv
<1> SUFFICES ASSUME Init PROVE EInv
  OBVIOUS
<1>1. Typed
  BY RetentionAssumption DEF Init, Typed, Labels, LastRound
<1>2. QED
  BY <1>1 DEF Init, EInv, Careful, AskedForReason

(* What is asked to be forgotten is asked for a reason, by any runs.       *)
THEOREM EInductive == Spec => []EInv
<1>1. ASSUME EInv, [Next]_vars PROVE EInv'
  <2>1. ASSUME NEW r \in Runs, Start(r) PROVE EInv'
    <3>1. StillBut(r) /\ pc'[r] = "read" /\ UNCHANGED <<erased, asked>>
      BY <1>1, <2>1, StartTyped DEF EInv, Start, Typed, alephVars
    <3>2. QED
      BY <1>1, <3>1, StillCareful DEF EInv, Careful, AskedForReason, StillBut
  <2>2. ASSUME NEW r \in Runs, RunStep(r) PROVE EInv'
    BY <1>1, <2>2, RunStepCareful
  <2>3. ASSUME NEW h \in Hashes, AlephForgets(h) PROVE EInv'
    BY <1>1, <2>3, QuietCareful DEF AlephForgets, EInv, Typed
  <2>4. ASSUME NEW i \in DOMAIN queue, AlephPublishes(i) PROVE EInv'
    BY <1>1, <2>4, PublishesTyped, QuietCareful DEF AlephPublishes, EInv, Typed
  <2>5. CASE UNCHANGED vars
    BY <1>1, <2>5, QuietCareful DEF vars, alephVars, EInv, Typed
  <2>6. QED
    BY <1>1, <2>1, <2>2, <2>3, <2>4, <2>5 DEF Next
<1>2. QED
  BY <1>1, EInv_Init, PTL DEF Spec

(* The variables keep their types; what is retained or pruned is a record  *)
(* of a deployment.                                                        *)
THEOREM TypeCorrect == Spec => []TypeOK
<1>1. EInv => TypeOK
  <2> SUFFICES ASSUME EInv PROVE TypeOK
    OBVIOUS
  <2>1. \A s : s \in Seq(Recs) => s \in Seq(RecordType)
    BY RecsAreRecords
  <2>2. /\ ledger \in Seq(RecordType) /\ retained \in [Runs -> Seq(RecordType)]
        /\ queue \in Seq(Seq(RecordType))
    BY <2>1 DEF EInv, Typed
  <2>3. pruned \in [Runs -> SUBSET RecordType]
    BY RecsAreRecords DEF EInv, Typed
  <2>4. QED
    BY <2>2, <2>3 DEF EInv, Typed, TypeOK, Labels
<1>2. QED
  BY <1>1, EInductive, PTL

(* No deployment's instance is a STORE of a deployment.                    *)
InstancesAreNoStores == \A r \in Runs : Record[r].instance \notin Deps

(* An instance is asked to be forgotten only after its CRN erased it,      *)
(* whichever calls failed, on whatever host, and whoever retains beside.   *)
THEOREM ErasedFirst == ASSUME InstancesAreNoStores PROVE Spec => []ErasedBeforeForgotten
<1>1. EInv => ErasedBeforeForgotten
  BY DEF EInv, AskedForReason, ErasedBeforeForgotten, InstancesAreNoStores, Extras
<1>2. QED
  BY <1>1, EInductive, PTL

-----------------------------------------------------------------------------
(* Runs in turn: the one that is under way is of the newest deployment to  *)
(* get that far, its record heads what it retains, and from a publication  *)
(* that was processed on that is what the ledger holds, with none that was *)
(* sent after it. What waits in the queue names nothing that was asked.    *)
InTurn(r) ==
    /\ Active(r) => \A q \in Runs : q > r => pc[q] = "idle"
    /\ pc[r] # "idle" => \A q \in Runs : q < r => pc[q] # "idle"

Holds(r) ==
    pc[r] \in {"publish", "erase", "classify", "send"} => Record[r] \in ToSet(retained[r])

Spared(l) == \A rec \in ToSet(l) : hashesFromRecord(rec) \cap asked = {}

Written(r) ==
    /\ pc[r] = "publish" /\ AllInForce => Spared(retained[r])
    /\ pc[r] \in {"erase", "classify", "send"} /\ published[r] \subseteq {"processed"}
         => ledger = retained[r] /\ queue = <<>>

QueueSpared == AllInForce => \A i \in DOMAIN queue : Spared(queue[i])

NInv ==
    /\ EInv
    /\ \A r \in Runs : InTurn(r) /\ Holds(r) /\ Written(r)
    /\ NewestSurvives
    /\ LedgerUntouched
    /\ QueueSpared

(* A step that asks for nothing, and puts or leaves in force or in the     *)
(* queue only ledgers that are spared.                                     *)
LEMMA LedgersStaySpared ==
  ASSUME NInv, UNCHANGED asked, \A q \in Runs : published[q] \subseteq published'[q],
         AllInForce => Spared(ledger') /\ \A i \in DOMAIN queue' : Spared(queue'[i])
  PROVE  LedgerUntouched' /\ QueueSpared'
<1>1. AllInForce' => AllInForce
  BY DEF AllInForce
<1>2. \A l : Spared(l) => \A rec \in ToSet(l) : hashesFromRecord(rec) \cap asked' = {}
  BY DEF Spared
<1>3. LedgerUntouched'
  BY <1>1, <1>2 DEF LedgerUntouched
<1>4. QueueSpared'
  BY <1>1, <1>2 DEF QueueSpared, Spared
<1>5. QED
  BY <1>3, <1>4

LEMMA AllAreSpared ==
  ASSUME NInv, AllInForce
  PROVE  Spared(ledger) /\ \A i \in DOMAIN queue : Spared(queue[i])
BY DEF NInv, LedgerUntouched, QueueSpared, Spared

(* Every run is over but the one that takes a step.                        *)
LEMMA OneIsActive ==
  ASSUME NInv, NEW r \in Runs, Active(r), NEW q \in Runs \ {r}
  PROVE  /\ ~Active(q)
         /\ q > r => pc[q] = "idle"
         /\ q < r => pc[q] # "idle"
         /\ q > r \/ q < r
<1>1. q > r \/ q < r
  BY RetentionAssumption DEF Runs
<1>2. pc[r] # "idle"
  BY DEF Active
<1>3. InTurn(r) /\ InTurn(q)
  BY DEF NInv
<1>4. QED
  BY <1>1, <1>2, <1>3 DEF InTurn, Active

(* What a FORGET of the run names is used by nothing that it retains.      *)
LEMMA NamesSpare ==
  ASSUME NInv, NEW r \in Runs, pc[r] = "send", NEW rec \in ToSet(retained[r])
  PROVE  hashesFromRecord(rec) \cap outstanding[r] = {}
<1>1. outstanding[r] \subseteq stageHashes(r)
  BY DEF NInv, EInv, Careful
<1>2. stageHashes(r) \cap retainedHashes(r) = {}
  BY DEF stageHashes, instanceForgetHashes, dependentForgetHashes
<1>3. hashesFromRecord(rec) \subseteq retainedHashes(r)
  BY DEF retainedHashes
<1>4. QED
  BY <1>1, <1>2, <1>3

(* If a step keeps the run's hashes and those of the ledger from being     *)
(* asked for, and the run's own part, it keeps all of the invariant.       *)
LEMMA ActiveStep ==
  ASSUME NInv, NEW r \in Runs, Active(r), EInv', StillBut(r),
         pc'[r] # "idle", Holds(r)', Written(r)',
         \A q \in Runs : published[q] \subseteq published'[q],
         hashesFromRecord(Record[r]) \cap asked' = {},
         LedgerUntouched', QueueSpared'
  PROVE  NInv'
<1>1. ASSUME NEW q \in Runs \ {r}
      PROVE  /\ ~Active(q)' /\ pc'[q] = pc[q]
             /\ q > r => pc'[q] = "idle"
             /\ q < r => pc'[q] # "idle"
             /\ q > r \/ q < r
  BY OneIsActive DEF StillBut, Still, Active
<1>2. \A q \in Runs : InTurn(q)'
  <2>1. InTurn(r)'
    <3>1. \A q \in Runs : (q > r => q # r) /\ (q < r => q # r)
      BY RetentionAssumption DEF Runs
    <3>2. QED
      BY <1>1, <3>1 DEF InTurn
  <2>2. ASSUME NEW q \in Runs \ {r} PROVE InTurn(q)'
    <3>1. pc'[q] # "idle" => pc[q] # "idle" /\ \A p \in Runs : p < q => pc[p] # "idle"
      BY <1>1 DEF NInv, InTurn
    <3>2. \A p \in Runs : pc[p] # "idle" => pc'[p] # "idle"
      BY <1>1
    <3>3. QED
      BY <1>1, <3>1, <3>2 DEF InTurn
  <2>3. QED
    BY <2>1, <2>2
<1>3. \A q \in Runs : Holds(q)' /\ Written(q)'
  BY <1>1 DEF Holds, Written, Active
<1>4. NewestSurvives'
  <2>1. ASSUME NEW q \in Runs \ {r}, pc'[q] # "idle", \A p \in Runs : p > q => pc'[p] = "idle"
        PROVE  FALSE
    <3>1. q < r
      BY <1>1, <2>1
    <3>2. r > q
      BY <3>1, RetentionAssumption DEF Runs
    <3>3. QED
      BY <2>1, <3>2
  <2>2. QED
    BY <2>1 DEF NewestSurvives
<1>5. QED
  BY <1>2, <1>3, <1>4 DEF NInv

LEMMA NewestIsSpared ==
  ASSUME NInv, NEW r \in Runs, Active(r)
  PROVE  hashesFromRecord(Record[r]) \cap asked = {}
<1>1. pc[r] # "idle" /\ \A q \in Runs : q > r => pc[q] = "idle"
  BY DEF NInv, InTurn, Active
<1>2. QED
  BY <1>1 DEF NInv, NewestSurvives

LEMMA RunStepInTurn ==
  ASSUME NInv, Keep # 0, NEW r \in Runs, RunStep(r)
  PROVE  NInv'
<1>1. /\ EInv' /\ StillBut(r) /\ EInv /\ Typed /\ Holds(r) /\ Written(r)
  BY RunStepCareful DEF NInv, EInv
<1>2. Active(r)
  BY DEF RunStep, ReadLedger, Publish, Erase, Classify, Send, Active
<1>3. hashesFromRecord(Record[r]) \cap asked = {}
  BY <1>2, NewestIsSpared
<1>4. \A q \in Runs \ {r} : published[q] = published'[q]
  BY <1>1 DEF StillBut, Still
<1>5. ASSUME UNCHANGED <<ledger, queue, asked, published>>
      PROVE  LedgerUntouched' /\ QueueSpared'
  BY <1>5, AllAreSpared, LedgersStaySpared
<1>6. CASE ReadLedger(r)
  <2>1. UNCHANGED <<ledger, queue, asked, published>>
    BY <1>6 DEF ReadLedger, alephVars
  <2>2. pc'[r] # "idle" /\ Holds(r)' /\ Written(r)'
    <3>1. CASE Fallback(r)
      BY <1>1, <3>1, FallbackTyped DEF Holds, Written
    <3>2. CASE ~Fallback(r)
      <4>1. pc'[r] = "publish" /\ retained'[r] = retainedRecords(r)
        BY <1>1, <1>6, <3>2 DEF ReadLedger, Typed
      <4>2. /\ ToSet(retainedRecords(r)) \subseteq ToSet(ledger) \cup {Record[r]}
            /\ Record[r] \in ToSet(retainedRecords(r))
        BY <1>1, RetainedRecords DEF Typed
      <4>3. AllInForce' => Spared(retainedRecords(r))
        <5>1. AllInForce' => AllInForce
          BY <2>1 DEF AllInForce
        <5>2. QED
          BY <1>3, <4>2, <5>1, AllAreSpared DEF Spared
      <4>4. AllInForce' => Spared(retained[r])'
        BY <2>1, <4>1, <4>3 DEF Spared
      <4>5. QED
        BY <4>1, <4>2, <4>4 DEF Holds, Written
    <3>3. QED
      BY <3>1, <3>2
  <2>3. QED
    BY <1>1, <1>2, <1>3, <1>5, <2>1, <2>2, ActiveStep
<1>7. CASE Publish(r)
  <2>1. pc[r] = "publish" /\ UNCHANGED <<asked, retained>>
    BY <1>7 DEF Publish
  <2>2. AllInForce => Spared(retained[r])
    BY <1>1, <2>1 DEF Written
  <2>3. AllInForce => \A i \in DOMAIN withSent(r) : Spared(withSent(r)[i])
    <3>1. \A i \in DOMAIN Append(queue, retained[r]) :
             \/ Append(queue, retained[r])[i] = retained[r]
             \/ i \in DOMAIN queue /\ Append(queue, retained[r])[i] = queue[i]
      BY <1>1 DEF Typed
    <3>2. QED
      BY <2>2, <3>1, AllAreSpared DEF withSent
  <2>4. LedgerUntouched' /\ QueueSpared'
    <3>1. \A q \in Runs : published[q] \subseteq published'[q]
      <4>1. published[r] \subseteq published'[r]
        BY <1>1, <1>7 DEF Publish, Typed
      <4>2. QED
        BY <1>4, <4>1
    <3>2. /\ ledger' \in {ledger, retained[r]}
          /\ queue' \in {<<>>, withSent(r)}
      BY <1>7 DEF Publish
    <3>3. AllInForce => Spared(ledger')
      BY <2>2, <3>2, AllAreSpared
    <3>4. AllInForce => \A i \in DOMAIN queue' : Spared(queue'[i])
      BY <2>3, <3>2
    <3>5. QED
      BY <2>1, <3>1, <3>3, <3>4, LedgersStaySpared
  <2>5. pc'[r] # "idle" /\ Holds(r)' /\ Written(r)'
    <3>1. CASE Fallback(r)
      BY <1>1, <3>1, FallbackTyped DEF Holds, Written
    <3>2. CASE /\ FirstStage(r)
               /\ \/ /\ ledger' = retained[r] /\ queue' = <<>>
                  \/ published' = [published EXCEPT ![r] = @ \cup {"unprocessed"}]
      <4>1. pc'[r] \in {"erase", "classify", "done"}
        BY <1>1, <3>2 DEF FirstStage, Typed
      <4>2. published'[r] \subseteq {"processed"} => ledger' = retained[r] /\ queue' = <<>>
        <5>1. CASE published' = [published EXCEPT ![r] = @ \cup {"unprocessed"}]
          <6>1. published'[r] = published[r] \cup {"unprocessed"}
            BY <1>1, <5>1 DEF Typed
          <6>2. "unprocessed" \in published'[r] /\ "unprocessed" \notin {"processed"}
            BY <6>1
          <6>3. QED
            BY <6>2
        <5>2. CASE ledger' = retained[r] /\ queue' = <<>>
          BY <5>2
        <5>3. QED
          BY <3>2, <5>1, <5>2
      <4>3. QED
        BY <1>1, <2>1, <4>1, <4>2 DEF Holds, Written
    <3>3. QED
      BY <1>7, <3>1, <3>2 DEF Publish
  <2>6. \A q \in Runs : published[q] \subseteq published'[q]
    <3>1. published[r] \subseteq published'[r]
      BY <1>1, <1>7 DEF Publish, Typed
    <3>2. QED
      BY <1>4, <3>1
  <2>7. QED
    BY <1>1, <1>2, <1>3, <2>1, <2>4, <2>5, <2>6, ActiveStep
<1>8. CASE Erase(r) \/ Classify(r)
  <2>1. /\ UNCHANGED <<ledger, queue, asked, retained, published>>
        /\ pc[r] \in {"erase", "classify"}
    BY <1>8 DEF Erase, Classify, alephVars, attemptVars
  <2>2. pc'[r] \in {"classify", "send", "done", "read", "failed"}
    <3>1. CASE Fallback(r)
      BY <1>1, <3>1, FallbackTyped
    <3>2. CASE ~Fallback(r)
      <4>1. CASE Erase(r)
        BY <1>1, <3>2, <4>1 DEF Erase, Typed
      <4>2. CASE Classify(r)
        BY <1>1, <3>2, <4>2 DEF Classify, EndStage, Typed
      <4>3. QED
        BY <1>8, <4>1, <4>2
    <3>3. QED
      BY <3>1, <3>2
  <2>3. Holds(r)' /\ Written(r)'
    BY <1>1, <2>1, <2>2 DEF Holds, Written
  <2>4. QED
    BY <1>1, <1>2, <1>3, <1>5, <2>1, <2>2, <2>3, ActiveStep
<1>9. CASE Send(r)
  <2>1. pc[r] = "send" /\ UNCHANGED <<ledger, queue, retained, published>>
    BY <1>9 DEF Send
  <2>2. PICK named \in SUBSET outstanding[r] : asked' = asked \cup named
    BY <1>9 DEF Send
  <2>3. pc'[r] \in {"classify", "read", "failed"}
    BY <1>1, <1>9, FallbackTyped DEF Send, Typed
  <2>4. Holds(r)' /\ Written(r)'
    BY <1>1, <2>1, <2>3 DEF Holds, Written
  <2>5. \A rec \in ToSet(retained[r]) : hashesFromRecord(rec) \cap named = {}
    BY <2>1, NamesSpare
  <2>6. hashesFromRecord(Record[r]) \cap asked' = {}
    <3>1. hashesFromRecord(Record[r]) \cap named = {}
      BY <1>1, <2>1, <2>5 DEF Holds
    <3>2. QED
      BY <1>3, <2>2, <3>1
  <2>7. AllInForce' => AllInForce /\ ledger' = retained[r] /\ ledger = retained[r] /\ queue' = <<>>
    BY <1>1, <2>1 DEF AllInForce, Written
  <2>8. LedgerUntouched'
    <3>1. AllInForce' => \A rec \in ToSet(ledger') : hashesFromRecord(rec) \cap asked = {}
      BY <2>7, AllAreSpared DEF Spared
    <3>2. AllInForce' => \A rec \in ToSet(ledger') : hashesFromRecord(rec) \cap asked' = {}
      BY <2>2, <2>5, <2>7, <3>1
    <3>3. QED
      BY <3>2 DEF LedgerUntouched
  <2>9. QueueSpared'
    BY <2>7 DEF QueueSpared
  <2>10. QED
    BY <1>1, <1>2, <2>1, <2>3, <2>4, <2>6, <2>8, <2>9, ActiveStep
<1>10. QED
  BY <1>6, <1>7, <1>8, <1>9 DEF RunStep

LEMMA StartInTurn ==
  ASSUME NInv, ~Overlap, NEW r \in Runs, Start(r), EInv', StillBut(r)
  PROVE  NInv'
<1>1. /\ pc[r] = "idle" /\ pc'[r] = "read"
      /\ \A q \in Runs : q < r => pc[q] # "idle"
      /\ \A q \in Runs : ~Active(q)
      /\ hashesFromRecord(Record[r]) \cap asked = {}
      /\ UNCHANGED <<ledger, queue, asked, published>>
  BY DEF Start, NInv, EInv, Typed, alephVars, attemptVars
<1>2. \A q \in Runs \ {r} : pc'[q] = pc[q] /\ ~Active(q)'
  BY <1>1 DEF StillBut, Still, Active
<1>3. \A q \in Runs : q > r => pc'[q] = "idle"
  <2>1. ASSUME NEW q \in Runs, q > r PROVE pc[q] = "idle" /\ q # r
    <3>1. r < q /\ q # r
      BY <2>1, RetentionAssumption DEF Runs
    <3>2. QED
      BY <1>1, <3>1 DEF NInv, InTurn
  <2>2. QED
    BY <1>2, <2>1
<1>4. \A q \in Runs : InTurn(q)'
  <2>1. \A p \in Runs : pc[p] # "idle" => pc'[p] # "idle"
    BY <1>1, <1>2
  <2>2. InTurn(r)'
    BY <1>1, <1>3, <2>1 DEF InTurn
  <2>3. ASSUME NEW q \in Runs \ {r} PROVE InTurn(q)'
    <3>1. pc'[q] # "idle" => \A p \in Runs : p < q => pc[p] # "idle"
      BY <1>2 DEF NInv, InTurn
    <3>2. QED
      BY <1>2, <2>1, <3>1 DEF InTurn
  <2>4. QED
    BY <2>2, <2>3
<1>5. \A q \in Runs : Holds(q)' /\ Written(q)'
  BY <1>1, <1>2 DEF Holds, Written, Active
<1>6. NewestSurvives'
  <2>1. ASSUME NEW q \in Runs \ {r}, pc'[q] # "idle", \A p \in Runs : p > q => pc'[p] = "idle"
        PROVE  FALSE
    <3>1. q < r \/ q > r
      BY RetentionAssumption DEF Runs
    <3>2. r > q
      BY <1>3, <2>1, <3>1, RetentionAssumption DEF Runs
    <3>3. QED
      BY <1>1, <2>1, <3>2
  <2>2. QED
    BY <1>1, <2>1 DEF NewestSurvives
<1>7. LedgerUntouched' /\ QueueSpared'
  BY <1>1, AllAreSpared, LedgersStaySpared
<1>8. QED
  BY <1>4, <1>5, <1>6, <1>7 DEF NInv

LEMMA QuietInTurn ==
  ASSUME NInv, EInv', UNCHANGED <<erased, asked, pc, host, attemptVars>>,
         \/ UNCHANGED <<ledger, queue>>
         \/ \E i \in DOMAIN queue : AlephPublishes(i)
  PROVE  NInv'
<1>1. UNCHANGED <<retained, published>> /\ (AllInForce' <=> AllInForce)
  BY DEF attemptVars, AllInForce
<1>2. ASSUME NEW i \in DOMAIN queue, AlephPublishes(i)
      PROVE  /\ queue # <<>> /\ ledger' = queue[i]
             /\ \A j \in DOMAIN queue' : \E k \in DOMAIN queue : queue'[j] = queue[k]
  BY <1>2, PublishesTyped DEF NInv, EInv, AlephPublishes
<1>3. \A q \in Runs : InTurn(q)' /\ Holds(q)'
  BY <1>1 DEF NInv, InTurn, Holds, Active
<1>4. \A q \in Runs : Written(q)'
  <2>1. \A q \in Runs : Written(q) /\ (Spared(retained[q])' <=> Spared(retained[q]))
    BY <1>1 DEF NInv, Spared
  <2>2. QED
    BY <1>1, <1>2, <2>1 DEF Written
<1>5. NewestSurvives'
  BY <1>1 DEF NInv, NewestSurvives
<1>6. AllInForce => Spared(ledger') /\ \A i \in DOMAIN queue' : Spared(queue'[i])
  <2>1. CASE UNCHANGED <<ledger, queue>>
    BY <2>1, AllAreSpared
  <2>2. ASSUME NEW i \in DOMAIN queue, AlephPublishes(i), AllInForce
        PROVE  Spared(ledger') /\ \A j \in DOMAIN queue' : Spared(queue'[j])
    <3>1. Spared(queue[i]) /\ \A k \in DOMAIN queue : Spared(queue[k])
      BY <2>2, AllAreSpared
    <3>2. QED
      BY <1>2, <2>2, <3>1
  <2>3. QED
    BY <2>1, <2>2
<1>7. LedgerUntouched' /\ QueueSpared'
  BY <1>1, <1>6, LedgersStaySpared
<1>8. QED
  BY <1>3, <1>4, <1>5, <1>7 DEF NInv

(* Runs in turn leave the newest deployment and the ledger alone.          *)
THEOREM NInductive == ASSUME ~Overlap, Keep # 0 PROVE Spec => []NInv
<1>1. Init => NInv
  <2> SUFFICES ASSUME Init PROVE NInv
    OBVIOUS
  <2>1. \A rec \in ToSet(ledger) : FALSE
    BY DEF Init, ToSet
  <2>2. QED
    BY <2>1, EInv_Init
       DEF Init, NInv, InTurn, Holds, Written, Active, NewestSurvives, LedgerUntouched,
           QueueSpared
<1>2. ASSUME NInv, [Next]_vars PROVE NInv'
  <2>1. ASSUME NEW r \in Runs, Start(r) PROVE NInv'
    <3>1. StillBut(r) /\ pc'[r] = "read" /\ UNCHANGED <<erased, asked>>
      BY <1>2, <2>1, StartTyped DEF NInv, EInv, Start, Typed, alephVars
    <3>2. EInv'
      BY <1>2, <3>1, StillCareful DEF NInv, EInv, Careful, AskedForReason, StillBut
    <3>3. QED
      BY <1>2, <2>1, <3>1, <3>2, StartInTurn
  <2>2. ASSUME NEW r \in Runs, RunStep(r) PROVE NInv'
    BY <1>2, <2>2, RunStepInTurn
  <2>3. ASSUME NEW h \in Hashes, AlephForgets(h) PROVE NInv'
    <3>1. EInv'
      BY <1>2, <2>3, QuietCareful DEF AlephForgets, NInv, EInv, Typed
    <3>2. QED
      BY <1>2, <2>3, <3>1, QuietInTurn DEF AlephForgets
  <2>4. ASSUME NEW i \in DOMAIN queue, AlephPublishes(i) PROVE NInv'
    <3>1. EInv'
      BY <1>2, <2>4, PublishesTyped, QuietCareful DEF AlephPublishes, NInv, EInv, Typed
    <3>2. QED
      BY <1>2, <2>4, <3>1, QuietInTurn DEF AlephPublishes
  <2>5. CASE UNCHANGED vars
    <3>1. EInv'
      BY <1>2, <2>5, QuietCareful DEF vars, alephVars, NInv, EInv, Typed
    <3>2. QED
      BY <1>2, <2>5, <3>1, QuietInTurn DEF vars, alephVars
  <2>6. QED
    BY <1>2, <2>1, <2>2, <2>3, <2>4, <2>5 DEF Next
<1>3. QED
  BY <1>1, <1>2, PTL DEF Spec

(* Runs in turn that keep at least one deployment: what the newest one     *)
(* uses is never asked to be forgotten, whatever is repeated on whichever  *)
(* host, and whatever extra hashes the caller names.                       *)
THEOREM NewestSpared == ASSUME ~Overlap, Keep # 0 PROVE Spec => []NewestSurvives
<1>1. NInv => NewestSurvives
  BY DEF NInv
<1>2. QED
  BY <1>1, NInductive, PTL

(* Nor is anything that an entry of the ledger in force points to, as long *)
(* as every publication that was answered was processed. One whose answer  *)
(* was lost may be processed at any time.                                  *)
THEOREM LedgerSpared == ASSUME ~Overlap, Keep # 0 PROVE Spec => []LedgerUntouched
<1>1. NInv => LedgerUntouched
  BY DEF NInv
<1>2. QED
  BY <1>1, NInductive, PTL
=============================================================================
