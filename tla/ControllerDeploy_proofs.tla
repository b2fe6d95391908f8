----------------------- MODULE ControllerDeploy_proofs -----------------------
(***************************************************************************)
(* Proofs about ControllerDeploy, for any deployments, accounts, number of *)
(* candidates and wallet changes: type correctness, what a completed       *)
(* deploy stands for, where the passphrase goes, and the refinement of     *)
(* InstanceOwnership.                                                      *)
(*                                                                         *)
(* The catch of an attempt decides success by a registration alone, so the *)
(* invariant says what a registration is worth: only a configured guest    *)
(* has one (GuestsInOrder), only a processed message of this or an earlier *)
(* candidate has a configured guest (OnAleph), and the attempt under way   *)
(* was never asked to be forgotten (SentIsPast).                           *)
(*                                                                         *)
(* The second part is about RootfsPublication: what the image is worth     *)
(* that the panel is offered.                                              *)
(***************************************************************************)
EXTENDS ControllerDeploy, RootfsPublication, TLAPS

(* Between the broadcast of an attempt and its end. *)
Confirmed ==
    {"ports", "notify", "unlock", "runtime", "configure", "setup", "push",
     "service", "activate", "publish", "signal", "metadata", "dialable",
     "registration", "fallback", "gate", "handoffDone"}
Unlocked == Confirmed \ {"ports", "notify", "unlock"}
HasConfig ==
    {"service", "metadata", "dialable", "registration", "fallback", "gate",
     "handoffDone"}
HasPost == {"gate", "handoffDone"}
Closing == {"recover", "cleanupConfig", "forget"}
Successful == {"finish", "completed"}

(* The attempt under way is the one of the current candidate. *)
ItemIsCurrent ==
    /\ pc = "create" => cand <= launch.candidates /\ item = NoInstance
    /\ pc \notin {"create", "failed"} => cand <= launch.candidates /\ item = cand
    /\ pc = "failed" => item = NoInstance /\ ~passphrase
    /\ ~launch.confidential => ~passphrase

begun(i) == i < cand \/ (i = cand /\ pc # "create")

OnAleph ==
    /\ \A i \in Instances : aleph[i] # "absent" => begun(i)
    /\ \A i \in Instances :
          aleph[i] = "forgotten" => <<i, owner[i]>> \in forgetSent

SentIsPast ==
    /\ \A i \in Instances, w \in Wallets :
          <<i, w>> \in forgetSent => i < cand \/ pc = "failed"
    /\ \A i \in cleaned : i < cand \/ pc = "failed"

GuestsInOrder ==
    /\ \A i \in configured :
          /\ aleph[i] \in {"processed", "forgotten"}
          /\ launch.confidential => i \in unlocked
    /\ registered \subseteq configured
    /\ regView \subseteq registered
    /\ launch.confidential /\ (config # {} \/ configured # {}) => ~passphrase

(* What the labels of an attempt stand for. *)
Progress ==
    /\ pc \in Confirmed => aleph[item] = "processed"
    /\ pc \in Unlocked /\ launch.confidential => item \in unlocked /\ ~passphrase
    /\ pc \in HasConfig => item \in configured
    /\ pc \in HasPost => item \in registered
    /\ pc = "service" => ~relayProfile(launch)
    /\ pc \in {"activate", "publish"} => signer \in Wallets

Success ==
    pc \in Successful =>
        /\ aleph[item] = "processed"
        /\ launch.confidential => item \in unlocked /\ ~passphrase
        /\ launch.profile # "none" => item \in configured
        /\ relayProfile(launch) => item \in registered

IInv ==
    /\ TypeOK /\ ItemIsCurrent /\ OnAleph /\ SentIsPast /\ GuestsInOrder
    /\ Progress /\ Success

-----------------------------------------------------------------------------
LEMMA LaunchFields ==
    ASSUME TypeOK
    PROVE  launch \in LaunchType
BY ControllerAssumption DEF TypeOK

LEMMA FailEnds ==
    ASSUME Fail \/ FailInvalidIpv6
    PROVE  pc' \in Closing
BY DEF Fail, FailInvalidIpv6, Closing

(* Between two attempts nothing is asked of the labels. *)
LEMMA EndedIsQuiet ==
    ASSUME pc' \in Closing
    PROVE  /\ Progress' /\ Success'
           /\ pc' \in Labels \ {"create", "failed"}
BY DEF Closing, Progress, Success, Confirmed, Unlocked, HasConfig, HasPost,
       Successful, Labels

LEMMA RefreshedIsRegistered ==
    ASSUME GuestsInOrder, TypeOK, NEW S \in Refreshed
    PROVE  S \subseteq registered /\ S \subseteq Instances
BY DEF Refreshed, confirmedRegistrations, GuestsInOrder, TypeOK

(* A step of an attempt that keeps what the deploy and Aleph hold. *)
LEMMA Moves ==
    ASSUME IInv, pc \notin {"create", "failed"},
           pc' \in Labels \ {"create", "failed"},
           UNCHANGED <<runVars, panelVars, messageVars, guestVars>>,
           Progress', Success'
    PROVE  IInv'
<1> USE DEF runVars, panelVars, messageVars, guestVars
<1>1. TypeOK'
  BY DEF IInv, TypeOK
<1>2. ItemIsCurrent'
  BY DEF IInv, ItemIsCurrent
<1>3. OnAleph' /\ SentIsPast'
  BY DEF IInv, OnAleph, SentIsPast, begun
<1>4. GuestsInOrder'
  BY DEF IInv, GuestsInOrder
<1> QED  BY <1>1, <1>2, <1>3, <1>4 DEF IInv

LEMMA InitInv == Init => IInv
<1> SUFFICES ASSUME Init PROVE IInv
  OBVIOUS
<1>1. launch \in LaunchType
  BY ControllerAssumption DEF Init
<1>2. TypeOK
  BY <1>1, ControllerAssumption DEF Init, TypeOK, Labels, LaunchType
<1>3. ItemIsCurrent
  <2>1. launch.candidates \in Nat /\ launch.confidential \in BOOLEAN
    BY <1>1, ControllerAssumption DEF LaunchType
  <2>2. passphrase => launch.confidential /\ launch.candidates > 0
    BY DEF Init
  <2>3. /\ pc = IF launch.candidates = 0 THEN "failed" ELSE "create"
        /\ cand = 1 /\ item = NoInstance
    BY DEF Init
  <2> QED  BY <2>1, <2>2, <2>3 DEF ItemIsCurrent
<1>4. OnAleph /\ SentIsPast /\ GuestsInOrder
  BY DEF Init, OnAleph, SentIsPast, GuestsInOrder
<1>5. Progress /\ Success
  BY DEF Init, Progress, Success, Confirmed, Unlocked, HasConfig, HasPost,
         Successful
<1> QED  BY <1>2, <1>3, <1>4, <1>5 DEF IInv

LEMMA QuietStep ==
    ASSUME IInv,
           \/ Inspect \/ PublishPorts \/ NotifyCrn \/ AwaitRuntime \/ AwaitSetup
           \/ AwaitActivation \/ AwaitSignal \/ CheckDialable \/ AwaitRegistration
    PROVE  IInv'
<1> USE DEF Progress, Success, Confirmed, Unlocked, HasConfig, HasPost,
            Successful, Labels, runVars, panelVars, messageVars, guestVars
<1>1. CASE Fail \/ FailInvalidIpv6
  <2>1. /\ pc \notin {"create", "failed"}
        /\ UNCHANGED <<runVars, panelVars, messageVars, guestVars>>
    BY DEF Inspect, PublishPorts, NotifyCrn, AwaitRuntime, AwaitSetup,
           AwaitActivation, AwaitSignal, CheckDialable, AwaitRegistration
  <2> QED  BY <1>1, <2>1, FailEnds, EndedIsQuiet, Moves
<1>2. CASE ~Fail /\ ~FailInvalidIpv6
  <2>1. /\ pc \notin {"create", "failed"}
        /\ pc' \in Labels \ {"create", "failed"}
        /\ UNCHANGED <<runVars, panelVars, messageVars, guestVars>>
    BY <1>2 DEF Inspect, PublishPorts, NotifyCrn, AwaitRuntime, AwaitSetup,
                AwaitActivation, AwaitSignal, CheckDialable, AwaitRegistration
  <2>2. Progress' /\ Success'
    <3>1. CASE Inspect
      BY <1>2, <3>1 DEF Inspect, IInv
    <3>2. CASE PublishPorts \/ NotifyCrn
      BY <1>2, <3>2 DEF PublishPorts, NotifyCrn, IInv
    <3>3. CASE AwaitRuntime
      BY <1>2, <3>3 DEF AwaitRuntime, IInv
    <3>4. CASE AwaitSetup \/ AwaitActivation
      BY <1>2, <3>4 DEF AwaitSetup, AwaitActivation, IInv
    <3>5. CASE AwaitSignal
      BY <1>2, <3>5 DEF AwaitSignal, IInv
    <3>6. CASE CheckDialable \/ AwaitRegistration
      BY <1>2, <3>6 DEF CheckDialable, AwaitRegistration, IInv
    <3> QED  BY <3>1, <3>2, <3>3, <3>4, <3>5, <3>6
  <2> QED  BY <2>1, <2>2, Moves
<1> QED  BY <1>1, <1>2

-----------------------------------------------------------------------------
(* A message for the current candidate, and perhaps no attempt to go with  *)
(* it: the next candidate begins.                                          *)
LEMMA BroadcastStep == ASSUME IInv, Broadcast PROVE IInv'
<1> USE ControllerAssumption
<1>1. /\ pc = "create" /\ cand \in Instances /\ cand \notin configured
      /\ item = NoInstance /\ launch \in LaunchType
  BY LaunchFields
  DEF Broadcast, IInv, ItemIsCurrent, TypeOK, LaunchType, Instances, GuestsInOrder,
      OnAleph, begun
<1>2. /\ UNCHANGED <<launch, signer, panelVars, cleaned, forgetSent, guestVars>>
      /\ \/ /\ aleph' = [aleph EXCEPT ![cand] = "pending"]
            /\ owner' = [owner EXCEPT ![cand] = wallet]
         \/ UNCHANGED <<aleph, owner>>
      /\ \/ /\ pc' = "inspect" /\ item' = cand
            /\ aleph' = [aleph EXCEPT ![cand] = "pending"]
            /\ UNCHANGED <<cand, passphrase, busy>>
         \/ /\ pc' = "create" /\ cand < launch.candidates /\ cand' = cand + 1
            /\ UNCHANGED <<item, passphrase, busy>>
         \/ /\ pc' = "failed" /\ passphrase' = FALSE /\ busy' = FALSE
            /\ UNCHANGED <<item, cand>>
  BY <1>1 DEF Broadcast, NextCandidate
<1> USE DEF panelVars, guestVars
<1>3. TypeOK'
  <2>1. cand' \in 1..(MaxCandidates + 1)
    BY <1>1, <1>2 DEF IInv, TypeOK, LaunchType, Instances
  <2>2. aleph' \in [Instances -> {"absent", "pending", "processed", "rejected", "forgotten"}]
    BY <1>1, <1>2 DEF IInv, TypeOK
  <2>3. owner' \in [Instances -> Wallets \cup {NoWallet}]
    BY <1>1, <1>2 DEF IInv, TypeOK
  <2> QED  BY <1>1, <1>2, <2>1, <2>2, <2>3 DEF IInv, TypeOK, Labels
<1>4. ItemIsCurrent'
  BY <1>1, <1>2 DEF IInv, ItemIsCurrent, TypeOK, LaunchType
<1>5. OnAleph'
  <2>1. \A i \in Instances : aleph'[i] # "absent" => begun(i) \/ i = cand
    BY <1>1, <1>2 DEF IInv, OnAleph, TypeOK
  <2>2. \A i \in Instances : begun(i) \/ i = cand => begun(i)'
    BY <1>1, <1>2 DEF begun, IInv, TypeOK, Instances
  <2>3. \A i \in Instances :
          aleph'[i] = "forgotten" => aleph[i] = "forgotten" /\ owner'[i] = owner[i]
    BY <1>1, <1>2 DEF IInv, OnAleph, begun, TypeOK
  <2> QED  BY <1>2, <2>1, <2>2, <2>3 DEF IInv, OnAleph
<1>6. SentIsPast'
  BY <1>1, <1>2 DEF IInv, SentIsPast, TypeOK, Instances
<1>7. GuestsInOrder'
  BY <1>1, <1>2 DEF IInv, GuestsInOrder, TypeOK
<1>8. Progress' /\ Success'
  BY <1>2 DEF Progress, Success, Confirmed, Unlocked, HasConfig, HasPost, Successful
<1> QED  BY <1>3, <1>4, <1>5, <1>6, <1>7, <1>8 DEF IInv

(* The end of an attempt: its FORGET is sent, and the next one begins.     *)
LEMMA ForgetStep == ASSUME IInv, ForgetAttempt PROVE IInv'
<1> USE ControllerAssumption
<1>1. /\ pc = "forget" /\ item = cand /\ cand \in Instances
      /\ cand <= launch.candidates /\ launch \in LaunchType
  BY LaunchFields
  DEF ForgetAttempt, IInv, ItemIsCurrent, TypeOK, LaunchType, Instances
<1>2. /\ UNCHANGED <<launch, signer, panelVars, aleph, owner, guestVars>>
      /\ item' = NoInstance /\ cleaned' = cleaned \cup {item}
      /\ \/ forgetSent' = forgetSent
         \/ wallet \in Wallets /\ forgetSent' = forgetSent \cup {<<item, wallet>>}
      /\ \/ /\ pc' = "create" /\ cand < launch.candidates /\ cand' = cand + 1
            /\ UNCHANGED <<passphrase, busy>>
         \/ /\ pc' = "failed" /\ passphrase' = FALSE /\ busy' = FALSE
            /\ UNCHANGED cand
  BY DEF ForgetAttempt, NextCandidate, IInv, TypeOK
<1> USE DEF panelVars, guestVars
<1>3. TypeOK'
  <2>1. cand' \in 1..(MaxCandidates + 1)
    BY <1>1, <1>2 DEF IInv, TypeOK, LaunchType, Instances
  <2>2. forgetSent' \subseteq Instances \X Wallets /\ cleaned' \subseteq Instances
    BY <1>1, <1>2 DEF IInv, TypeOK
  <2> QED  BY <1>2, <2>1, <2>2 DEF IInv, TypeOK, Labels
<1>4. ItemIsCurrent'
  BY <1>1, <1>2 DEF IInv, ItemIsCurrent, TypeOK, LaunchType
<1>5. OnAleph'
  <2>1. \A i \in Instances : begun(i) => begun(i)'
    BY <1>1, <1>2 DEF begun, IInv, TypeOK, Instances
  <2> QED  BY <1>2, <2>1 DEF IInv, OnAleph
<1>6. SentIsPast'
  BY <1>1, <1>2 DEF IInv, SentIsPast, TypeOK, Instances
<1>7. GuestsInOrder'
  BY <1>2 DEF IInv, GuestsInOrder
<1>8. Progress' /\ Success'
  BY <1>2 DEF Progress, Success, Confirmed, Unlocked, HasConfig, HasPost, Successful
<1> QED  BY <1>3, <1>4, <1>5, <1>6, <1>7, <1>8 DEF IInv

-----------------------------------------------------------------------------
(* The steps of an attempt that change one thing.                          *)
LEMMA UnlockStep == ASSUME IInv, UnlockGuest PROVE IInv'
<1> USE DEF runVars, panelVars, messageVars
<1>1. /\ pc = "unlock" /\ item \in Instances
      /\ UNCHANGED <<launch, cand, item, signer, busy, panelVars, messageVars,
                     config, configured, registered, unreachable>>
  <2>1. pc = "unlock"
    BY DEF UnlockGuest
  <2> QED  BY <2>1, LaunchFields, ControllerAssumption
           DEF UnlockGuest, IInv, ItemIsCurrent, TypeOK, LaunchType, Instances
<1>2. unlocked' \in {unlocked, unlocked \cup {item}}
  BY DEF UnlockGuest
<1>3. passphrase' \in BOOLEAN /\ (passphrase' => passphrase)
  <2>1. passphrase' = passphrase \/ passphrase' = FALSE
    BY DEF UnlockGuest
  <2>2. passphrase \in BOOLEAN
    BY DEF IInv, TypeOK
  <2>3. CASE passphrase' = passphrase
    BY <2>2, <2>3, Zenon
  <2>4. CASE passphrase' = FALSE
    BY <2>4, Zenon
  <2> QED  BY <2>1, <2>3, <2>4
<1>4. \/ pc' = "runtime" /\ ~passphrase' /\ item \in unlocked'
      \/ pc' \in Closing
  BY FailEnds DEF UnlockGuest
<1>5. TypeOK'
  BY <1>1, <1>2, <1>3, <1>4 DEF IInv, TypeOK, Labels, Closing
<1>6. ItemIsCurrent'
  BY <1>1, <1>3, <1>4 DEF IInv, ItemIsCurrent, Closing
<1>7. OnAleph' /\ SentIsPast'
  BY <1>1, <1>4 DEF IInv, OnAleph, SentIsPast, begun, Closing
<1>8. GuestsInOrder'
  BY <1>1, <1>2, <1>3 DEF IInv, GuestsInOrder
<1>9. Progress' /\ Success'
  <2>1. CASE pc' \in Closing
    BY <2>1, EndedIsQuiet
  <2>2. CASE pc' = "runtime" /\ ~passphrase' /\ item \in unlocked'
    BY <1>1, <2>2
    DEF IInv, Progress, Success, Confirmed, Unlocked, HasConfig, HasPost, Successful
  <2> QED  BY <1>4, <2>1, <2>2
<1> QED  BY <1>5, <1>6, <1>7, <1>8, <1>9 DEF IInv

LEMMA ConfigureStep == ASSUME IInv, Configure PROVE IInv'
<1> USE DEF panelVars, messageVars, guestVars
<1>1. /\ pc = "configure"
      /\ UNCHANGED <<launch, cand, item, passphrase, panelVars, messageVars, guestVars>>
      /\ busy' \in BOOLEAN /\ signer' \in Wallets \cup {NoWallet}
      /\ \/ pc' = "finish" /\ launch.profile = "none"
         \/ pc' \in {"activate", "setup"} /\ signer' \in Wallets
         \/ pc' \in Closing
  BY FailEnds DEF Configure, IInv, TypeOK
<1>2. TypeOK'
  BY <1>1 DEF IInv, TypeOK, Labels, Closing
<1>3. ItemIsCurrent' /\ OnAleph' /\ SentIsPast' /\ GuestsInOrder'
  BY <1>1
  DEF IInv, ItemIsCurrent, OnAleph, SentIsPast, begun, GuestsInOrder, Closing
<1>4. Progress' /\ Success'
  BY <1>1, EndedIsQuiet
  DEF IInv, Progress, Success, Confirmed, Unlocked, HasConfig, HasPost, Successful,
      relayProfile
<1> QED  BY <1>2, <1>3, <1>4 DEF IInv

LEMMA PushStep == ASSUME IInv, PushService \/ PushRelay PROVE IInv'
<1> USE DEF runVars, panelVars, messageVars
<1>1. /\ pc = "push" /\ item \in Instances
      /\ UNCHANGED <<runVars, panelVars, messageVars, config, unlocked,
                     registered, unreachable>>
      /\ configured' \in {configured, configured \cup {item}}
      /\ \/ pc' \in Closing
         \/ item \in configured' /\ pc' = "service" /\ launch.profile = "ucan-store"
         \/ item \in configured' /\ pc' = "metadata"
  BY FailEnds, LaunchFields, ControllerAssumption
  DEF PushService, PushRelay, Pushed, IInv, ItemIsCurrent, TypeOK, LaunchType, Instances
<1>2. /\ aleph[item] = "processed"
      /\ launch.confidential => item \in unlocked /\ ~passphrase
  BY <1>1 DEF IInv, Progress, Confirmed, Unlocked
<1>3. TypeOK'
  BY <1>1 DEF IInv, TypeOK, Labels, Closing
<1>4. ItemIsCurrent' /\ OnAleph' /\ SentIsPast'
  BY <1>1 DEF IInv, ItemIsCurrent, OnAleph, SentIsPast, begun, Closing
<1>5. GuestsInOrder'
  BY <1>1, <1>2 DEF IInv, GuestsInOrder
<1>6. Progress' /\ Success'
  BY <1>1, <1>2, EndedIsQuiet
  DEF IInv, Progress, Success, Confirmed, Unlocked, HasConfig, HasPost, Successful,
      relayProfile
<1> QED  BY <1>3, <1>4, <1>5, <1>6 DEF IInv

LEMMA AwaitServiceStep == ASSUME IInv, AwaitService PROVE IInv'
<1> USE DEF panelVars, messageVars, guestVars
<1>1. /\ pc = "service"
      /\ UNCHANGED <<launch, cand, item, signer, passphrase, panelVars, messageVars,
                     guestVars>>
      /\ busy' \in BOOLEAN
      /\ pc' = "finish" \/ pc' \in Closing
  BY FailEnds DEF AwaitService, IInv, TypeOK
<1>2. TypeOK'
  BY <1>1 DEF IInv, TypeOK, Labels, Closing
<1>3. ItemIsCurrent' /\ OnAleph' /\ SentIsPast' /\ GuestsInOrder'
  BY <1>1
  DEF IInv, ItemIsCurrent, OnAleph, SentIsPast, begun, GuestsInOrder, Closing
<1>4. Progress' /\ Success'
  BY <1>1, EndedIsQuiet
  DEF IInv, Progress, Success, Confirmed, Unlocked, HasConfig, HasPost, Successful,
      relayProfile
<1> QED  BY <1>2, <1>3, <1>4 DEF IInv

LEMMA PublishConfigStep == ASSUME IInv, PublishConfig PROVE IInv'
<1> USE DEF runVars, panelVars, messageVars
<1>1. /\ pc = "publish" /\ item \in Instances
      /\ UNCHANGED <<runVars, panelVars, messageVars, unlocked, configured,
                     registered, unreachable>>
      /\ config' \in {config, config \cup {<<item, signer>>}}
      /\ pc' = "signal" \/ pc' \in Closing
  BY FailEnds, LaunchFields, ControllerAssumption
  DEF PublishConfig, IInv, ItemIsCurrent, TypeOK, LaunchType, Instances
<1>2. /\ signer \in Wallets
      /\ launch.confidential => ~passphrase
  BY <1>1 DEF IInv, Progress, Confirmed, Unlocked
<1>3. TypeOK'
  BY <1>1, <1>2 DEF IInv, TypeOK, Labels, Closing
<1>4. ItemIsCurrent' /\ OnAleph' /\ SentIsPast'
  BY <1>1 DEF IInv, ItemIsCurrent, OnAleph, SentIsPast, begun, Closing
<1>5. GuestsInOrder'
  BY <1>1, <1>2 DEF IInv, GuestsInOrder
<1>6. Progress' /\ Success'
  BY <1>1, EndedIsQuiet
  DEF IInv, Progress, Success, Confirmed, Unlocked, HasConfig, HasPost, Successful
<1> QED  BY <1>3, <1>4, <1>5, <1>6 DEF IInv

(* What a refresh lists as confirmed for the attempt is a guest that has   *)
(* come up: the attempt may end here.                                      *)
LEMMA RegisteredIsServing ==
    ASSUME IInv, pc \notin {"create", "failed"}, item \in registered
    PROVE  /\ aleph[item] = "processed"
           /\ item \in configured
           /\ launch.confidential => item \in unlocked /\ ~passphrase
<1>1. item \in configured /\ item \in Instances /\ item = cand
  BY DEF IInv, GuestsInOrder, ItemIsCurrent, TypeOK
<1>2. aleph[item] # "forgotten"
  <2>1. SUFFICES ASSUME aleph[item] = "forgotten" PROVE FALSE
    OBVIOUS
  <2>2. <<item, owner[item]>> \in forgetSent
    BY <1>1, <2>1 DEF IInv, OnAleph
  <2>3. owner[item] \in Wallets
    BY <2>2 DEF IInv, TypeOK
  <2> QED  BY <1>1, <2>2, <2>3 DEF IInv, SentIsPast, TypeOK
<1> QED  BY <1>1, <1>2 DEF IInv, GuestsInOrder

LEMMA ReadMetadataStep == ASSUME IInv, ReadMetadata PROVE IInv'
<1> USE DEF messageVars, guestVars
<1>1. /\ pc = "metadata"
      /\ UNCHANGED <<launch, cand, item, signer, passphrase, wallet, switches,
                     messageVars, guestVars>>
      /\ regView' \subseteq registered /\ regView' \subseteq Instances
      /\ busy' \in BOOLEAN
      /\ \/ pc' = "finish" /\ item \in registered
         \/ pc' = "dialable"
         \/ pc' \in Closing
  BY FailEnds, RefreshedIsRegistered DEF ReadMetadata, IInv, TypeOK, GuestsInOrder
<1>2. TypeOK'
  BY <1>1 DEF IInv, TypeOK, Labels, Closing
<1>3. ItemIsCurrent' /\ OnAleph' /\ SentIsPast' /\ GuestsInOrder'
  BY <1>1
  DEF IInv, ItemIsCurrent, OnAleph, SentIsPast, begun, GuestsInOrder, Closing
<1>4. Progress' /\ Success'
  BY <1>1, EndedIsQuiet, RegisteredIsServing
  DEF IInv, Progress, Success, Confirmed, Unlocked, HasConfig, HasPost, Successful
<1> QED  BY <1>2, <1>3, <1>4 DEF IInv

LEMMA FallbackStep == ASSUME IInv, PublishFallback PROVE IInv'
<1> USE DEF runVars, panelVars, messageVars
<1>1. /\ pc = "fallback" /\ item \in Instances /\ item \in configured
      /\ UNCHANGED <<runVars, panelVars, messageVars, config, unlocked, configured,
                     unreachable>>
      /\ registered' \in {registered, registered \cup {item}}
      /\ \/ pc' = "gate" /\ item \in registered'
         \/ pc' \in Closing
  BY FailEnds, LaunchFields, ControllerAssumption
  DEF PublishFallback, IInv, ItemIsCurrent, TypeOK, LaunchType, Instances,
      Progress, HasConfig
<1>2. TypeOK'
  BY <1>1 DEF IInv, TypeOK, Labels, Closing
<1>3. ItemIsCurrent' /\ OnAleph' /\ SentIsPast'
  BY <1>1 DEF IInv, ItemIsCurrent, OnAleph, SentIsPast, begun, Closing
<1>4. GuestsInOrder'
  BY <1>1 DEF IInv, GuestsInOrder
<1>5. Progress' /\ Success'
  BY <1>1, EndedIsQuiet
  DEF IInv, Progress, Success, Confirmed, Unlocked, HasConfig, HasPost, Successful
<1> QED  BY <1>2, <1>3, <1>4, <1>5 DEF IInv

LEMMA GateStep == ASSUME IInv, ReachabilityGate PROVE IInv'
<1> USE DEF runVars, panelVars, messageVars
<1>1. /\ pc = "gate" /\ item \in Instances
      /\ UNCHANGED <<runVars, panelVars, messageVars, config, unlocked, configured,
                     registered>>
      /\ unreachable' \in {unreachable, unreachable \cup {item}}
      /\ pc' = "handoffDone" \/ pc' \in Closing
  BY FailEnds, LaunchFields, ControllerAssumption
  DEF ReachabilityGate, IInv, ItemIsCurrent, TypeOK, LaunchType, Instances
<1>2. TypeOK'
  BY <1>1 DEF IInv, TypeOK, Labels, Closing
<1>3. ItemIsCurrent' /\ OnAleph' /\ SentIsPast' /\ GuestsInOrder'
  BY <1>1
  DEF IInv, ItemIsCurrent, OnAleph, SentIsPast, begun, GuestsInOrder, Closing
<1>4. Progress' /\ Success'
  BY <1>1, EndedIsQuiet
  DEF IInv, Progress, Success, Confirmed, Unlocked, HasConfig, HasPost, Successful
<1> QED  BY <1>2, <1>3, <1>4 DEF IInv

LEMMA HandoffStep == ASSUME IInv, HandoffDone PROVE IInv'
<1> USE DEF panelVars, messageVars
<1>1. /\ pc = "handoffDone" /\ pc' = "finish" /\ busy' = FALSE
      /\ UNCHANGED <<launch, cand, item, signer, passphrase, panelVars, messageVars,
                     unlocked, configured, registered, unreachable>>
      /\ config' \subseteq config
  BY DEF HandoffDone
<1>2. TypeOK'
  BY <1>1 DEF IInv, TypeOK, Labels
<1>3. ItemIsCurrent' /\ OnAleph' /\ SentIsPast'
  BY <1>1 DEF IInv, ItemIsCurrent, OnAleph, SentIsPast, begun
<1>4. GuestsInOrder'
  BY <1>1 DEF IInv, GuestsInOrder
<1>5. Progress' /\ Success'
  BY <1>1
  DEF IInv, Progress, Success, Confirmed, Unlocked, HasConfig, HasPost, Successful
<1> QED  BY <1>2, <1>3, <1>4, <1>5 DEF IInv

LEMMA FinishStep == ASSUME IInv, Finish PROVE IInv'
<1> USE DEF runVars, messageVars, guestVars
<1>1. /\ pc = "finish" /\ pc' = "completed"
      /\ UNCHANGED <<runVars, wallet, switches, messageVars, guestVars>>
      /\ regView' \subseteq registered /\ regView' \subseteq Instances
  BY RefreshedIsRegistered DEF Finish, IInv
<1>2. TypeOK'
  BY <1>1 DEF IInv, TypeOK, Labels
<1>3. ItemIsCurrent' /\ OnAleph' /\ SentIsPast' /\ GuestsInOrder'
  BY <1>1 DEF IInv, ItemIsCurrent, OnAleph, SentIsPast, begun, GuestsInOrder
<1>4. Progress' /\ Success'
  BY <1>1
  DEF IInv, Progress, Success, Confirmed, Unlocked, HasConfig, HasPost, Successful
<1> QED  BY <1>2, <1>3, <1>4 DEF IInv

(* The two ways in which the catch of an attempt finds that it succeeded.  *)
LEMMA RecoverStep == ASSUME IInv, Recover \/ RecoverRefresh PROVE IInv'
<1> USE DEF messageVars, guestVars
<1>1. /\ pc \in {"recover", "recoverRefresh"}
      /\ UNCHANGED <<launch, cand, item, signer, passphrase, wallet, switches,
                     messageVars, guestVars>>
      /\ busy' \in BOOLEAN
  BY DEF Recover, RecoverRefresh, panelVars, IInv, TypeOK
<1>2. regView' \subseteq registered /\ regView' \subseteq Instances
  BY RefreshedIsRegistered
  DEF Recover, RecoverRefresh, panelVars, IInv, TypeOK, GuestsInOrder
<1>3. \/ pc' \in Successful /\ item \in registered
      \/ pc' \in {"recoverRefresh", "cleanupConfig"}
  BY <1>2 DEF Recover, RecoverRefresh, Successful
<1>4. TypeOK'
  BY <1>1, <1>2, <1>3 DEF IInv, TypeOK, Labels, Successful
<1>5. ItemIsCurrent' /\ OnAleph' /\ SentIsPast' /\ GuestsInOrder'
  BY <1>1, <1>2, <1>3
  DEF IInv, ItemIsCurrent, OnAleph, SentIsPast, begun, GuestsInOrder, Successful
<1>6. Progress' /\ Success'
  BY <1>1, <1>3, RegisteredIsServing
  DEF IInv, Progress, Success, Confirmed, Unlocked, HasConfig, HasPost, Successful
<1> QED  BY <1>4, <1>5, <1>6 DEF IInv

LEMMA CleanupStep == ASSUME IInv, CleanupConfig PROVE IInv'
<1> USE DEF runVars, panelVars, messageVars
<1>1. /\ pc = "cleanupConfig" /\ pc' = "forget"
      /\ UNCHANGED <<runVars, panelVars, messageVars, unlocked, configured,
                     registered, unreachable>>
      /\ config' \subseteq config
  BY DEF CleanupConfig
<1>2. TypeOK'
  BY <1>1 DEF IInv, TypeOK, Labels
<1>3. ItemIsCurrent' /\ OnAleph' /\ SentIsPast'
  BY <1>1 DEF IInv, ItemIsCurrent, OnAleph, SentIsPast, begun
<1>4. GuestsInOrder'
  BY <1>1 DEF IInv, GuestsInOrder
<1>5. Progress' /\ Success'
  BY <1>1
  DEF IInv, Progress, Success, Confirmed, Unlocked, HasConfig, HasPost, Successful
<1> QED  BY <1>2, <1>3, <1>4, <1>5 DEF IInv

-----------------------------------------------------------------------------
(* Around the deploy. *)

LEMMA PanelStep == ASSUME IInv, WalletChanges \/ TimerRefresh PROVE IInv'
<1> USE DEF runVars, messageVars, guestVars
<1>1. UNCHANGED <<runVars, pc, messageVars, guestVars>>
  BY DEF WalletChanges, TimerRefresh
<1>2. /\ wallet' \in Wallets \cup {NoWallet} /\ switches' \in 0..MaxSwitches
      /\ regView' \subseteq registered /\ regView' \subseteq Instances
  BY RefreshedIsRegistered, ControllerAssumption
  DEF WalletChanges, TimerRefresh, IInv, TypeOK, GuestsInOrder
<1>3. TypeOK'
  BY <1>1, <1>2 DEF IInv, TypeOK
<1>4. ItemIsCurrent' /\ OnAleph' /\ SentIsPast' /\ GuestsInOrder'
  BY <1>1, <1>2 DEF IInv, ItemIsCurrent, OnAleph, SentIsPast, begun, GuestsInOrder
<1>5. Progress' /\ Success'
  BY <1>1 DEF IInv, Progress, Success
<1> QED  BY <1>3, <1>4, <1>5 DEF IInv

(* Aleph forgets no message of the attempt under way: nobody asked for it. *)
LEMMA AlephStep ==
    ASSUME IInv, NEW i \in Instances, AlephProcesses(i) \/ AlephForgets(i)
    PROVE  IInv'
<1> USE DEF runVars, panelVars, guestVars
<1>1. /\ UNCHANGED <<runVars, pc, panelVars, owner, cleaned, forgetSent, guestVars>>
      /\ aleph[i] # "absent"
      /\ \/ /\ aleph[i] = "pending"
            /\ \E s \in {"processed", "rejected"} : aleph' = [aleph EXCEPT ![i] = s]
         \/ /\ aleph[i] = "processed" /\ <<i, owner[i]>> \in forgetSent
            /\ aleph' = [aleph EXCEPT ![i] = "forgotten"]
  BY DEF AlephProcesses, AlephForgets
<1>2. TypeOK'
  BY <1>1 DEF IInv, TypeOK
<1>3. ItemIsCurrent' /\ SentIsPast'
  BY <1>1 DEF IInv, ItemIsCurrent, SentIsPast
<1>4. OnAleph'
  BY <1>1 DEF IInv, OnAleph, TypeOK, begun
<1>5. GuestsInOrder'
  BY <1>1 DEF IInv, GuestsInOrder, TypeOK
<1>6. pc \notin {"create", "failed"} /\ aleph[item] = "processed" =>
          aleph'[item] = "processed"
  <2>1. SUFFICES ASSUME pc \notin {"create", "failed"}, aleph[item] = "processed"
                 PROVE  aleph'[item] = "processed"
    OBVIOUS
  <2>2. item = cand /\ cand \in Nat
    BY <2>1 DEF IInv, ItemIsCurrent, TypeOK
  <2>3. i # item
    <3>1. <<i, owner[i]>> \in forgetSent => i < cand
      BY <2>1 DEF IInv, TypeOK, SentIsPast
    <3> QED  BY <1>1, <2>1, <2>2, <3>1
  <2>4. \A s : aleph' = [aleph EXCEPT ![i] = s] => aleph'[item] = aleph[item]
    BY <2>3 DEF IInv, TypeOK
  <2> QED  BY <1>1, <2>1, <2>4
<1>7. Progress' /\ Success'
  BY <1>1, <1>6 DEF IInv, Progress, Success, Confirmed, Unlocked, HasConfig,
                    HasPost, Successful
<1> QED  BY <1>2, <1>3, <1>4, <1>5, <1>7 DEF IInv

LEMMA GuestStep ==
    ASSUME IInv, NEW i \in Instances, GuestReadsConfig(i) \/ GuestRegisters(i)
    PROVE  IInv'
<1> USE DEF runVars, panelVars, messageVars
<1>1. /\ UNCHANGED <<runVars, pc, panelVars, messageVars, config, unlocked,
                     unreachable>>
      /\ \/ /\ aleph[i] = "processed" /\ config # {}
            /\ launch.confidential => i \in unlocked
            /\ configured' = configured \cup {i} /\ registered' = registered
         \/ /\ i \in configured /\ configured' = configured
            /\ registered' = registered \cup {i}
  BY DEF GuestReadsConfig, GuestRegisters
<1>2. TypeOK'
  BY <1>1 DEF IInv, TypeOK
<1>3. ItemIsCurrent' /\ OnAleph' /\ SentIsPast'
  BY <1>1 DEF IInv, ItemIsCurrent, OnAleph, SentIsPast, begun
<1>4. GuestsInOrder'
  BY <1>1 DEF IInv, GuestsInOrder
<1>5. Progress' /\ Success'
  BY <1>1 DEF IInv, Progress, Success
<1> QED  BY <1>2, <1>3, <1>4, <1>5 DEF IInv

LEMMA Inductive == ASSUME IInv, [Next]_vars PROVE IInv'
<1>1. CASE DeployStep
  BY <1>1, BroadcastStep, QuietStep, UnlockStep, ConfigureStep, PushStep,
     AwaitServiceStep, PublishConfigStep, ReadMetadataStep, FallbackStep, GateStep,
     HandoffStep, FinishStep, RecoverStep, CleanupStep, ForgetStep
  DEF DeployStep
<1>2. CASE World
  BY <1>2, PanelStep, AlephStep, GuestStep DEF World
<1>3. CASE UNCHANGED vars
  <2> USE DEF vars, runVars, panelVars, messageVars, guestVars
  <2>1. TypeOK' /\ ItemIsCurrent'
    BY <1>3 DEF IInv, TypeOK, ItemIsCurrent
  <2>2. OnAleph' /\ SentIsPast' /\ GuestsInOrder'
    BY <1>3 DEF IInv, OnAleph, SentIsPast, begun, GuestsInOrder
  <2>3. Progress' /\ Success'
    BY <1>3 DEF IInv, Progress, Success
  <2> QED  BY <2>1, <2>2, <2>3 DEF IInv
<1> QED  BY <1>1, <1>2, <1>3 DEF Next

(* The inductive invariant of the panel's deploy is an invariant.          *)
THEOREM Invariance == Spec => []IInv
BY InitInv, Inductive, PTL DEF Spec

(* Type correctness, for any deployments, accounts and candidates.         *)
THEOREM TypeCorrect == Spec => []TypeOK
<1>1. IInv => TypeOK
  BY DEF IInv
<1> QED  BY <1>1, Invariance, PTL

(* CompletedIsServing for any deployments, accounts, candidates and wallet *)
(* changes: whichever way the deploy takes to success, it stands for a     *)
(* guest that serves and that nobody asked Aleph to forget.                *)
THEOREM CompletedServes == Spec => []CompletedIsServing
<1>1. IInv => CompletedIsServing
  <2>1. SUFFICES ASSUME IInv, pc = "completed" PROVE CompletedIsServing
    BY DEF CompletedIsServing
  <2>2. item \in Instances /\ item = cand
    BY <2>1, LaunchFields, ControllerAssumption
    DEF IInv, ItemIsCurrent, TypeOK, LaunchType, Instances
  <2>3. \A w \in Wallets : <<item, w>> \notin forgetSent
    BY <2>1, <2>2 DEF IInv, SentIsPast, TypeOK, Instances
  <2> QED  BY <2>1, <2>3 DEF IInv, Success, Successful, CompletedIsServing
<1> QED  BY <1>1, Invariance, PTL

(* PassphraseSpent in the same generality: a confidential deploy that      *)
(* succeeds, recovered or not, has unlocked its guest, and no deploy that  *)
(* is over keeps the passphrase.                                           *)
THEOREM PassphraseGone == Spec => []PassphraseSpent
<1>1. IInv => PassphraseSpent
  <2>1. SUFFICES ASSUME IInv PROVE PassphraseSpent
    OBVIOUS
  <2>2. pc = "failed" => ~passphrase
    BY <2>1 DEF IInv, ItemIsCurrent
  <2>3. pc = "completed" => ~passphrase
    BY <2>1 DEF IInv, ItemIsCurrent, Success, Successful
  <2>4. pc = "completed" /\ launch.confidential => item \in unlocked
    BY <2>1 DEF IInv, Success, Successful
  <2> QED  BY <2>2, <2>3, <2>4 DEF PassphraseSpent
<1> QED  BY <1>1, Invariance, PTL

-----------------------------------------------------------------------------
(* The refinement of InstanceOwnership *)

over == {"failed", "finish", "completed"}

LEMMA OwnershipInit == Init => Ownership!Init
BY DEF Init, Ownership!Init

(* A step within an attempt, or around the deploy.                         *)
LEMMA OwnershipQuiet ==
    ASSUME UNCHANGED <<item, cleaned>>,
           pc' = pc \/ {pc, pc'} \cap over = {} \/ {pc, pc'} \subseteq Successful
    PROVE  UNCHANGED Ownership!ownershipVars
BY DEF Ownership!ownershipVars, over, Successful

(* An attempt that ends well, at its first try or in its catch.            *)
LEMMA OwnershipReturn ==
    ASSUME IInv, UNCHANGED <<item, cleaned>>,
           pc \notin over \cup {"create"}, pc' \in Successful
    PROVE  Ownership!Next
<1>1. item # NoInstance
  BY ControllerAssumption, LaunchFields
  DEF IInv, ItemIsCurrent, TypeOK, over, LaunchType, Instances
<1> QED  BY <1>1 DEF Ownership!Next, Ownership!Return, over, Successful

LEMMA OwnershipBroadcast ==
    ASSUME IInv, Broadcast
    PROVE  [Ownership!Next]_(Ownership!ownershipVars)
<1>1. /\ pc = "create" /\ item = NoInstance /\ cand \in Instances
      /\ cand \notin cleaned /\ UNCHANGED cleaned
  BY LaunchFields, ControllerAssumption
  DEF Broadcast, IInv, ItemIsCurrent, TypeOK, LaunchType, Instances, SentIsPast
<1>2. CASE item' = cand /\ pc' = "inspect"
  BY <1>1, <1>2 DEF Ownership!Next, Ownership!Take
<1>3. CASE UNCHANGED item /\ pc' = "create"
  BY <1>1, <1>3, OwnershipQuiet DEF over
<1>4. CASE UNCHANGED item /\ pc' = "failed"
  BY <1>1, <1>4 DEF Ownership!Next, Ownership!Fail
<1> QED  BY <1>1, <1>2, <1>3, <1>4 DEF Broadcast, NextCandidate

LEMMA OwnershipStep ==
    ASSUME IInv, DeployStep
    PROVE  [Ownership!Next]_(Ownership!ownershipVars)
<1> USE DEF runVars, messageVars
<1>1. CASE Inspect \/ PublishPorts \/ NotifyCrn \/ AwaitRuntime \/ AwaitSetup
           \/ AwaitActivation \/ AwaitSignal \/ CheckDialable \/ AwaitRegistration
  BY <1>1, FailEnds, OwnershipQuiet
  DEF Inspect, PublishPorts, NotifyCrn, AwaitRuntime, AwaitSetup, AwaitActivation,
      AwaitSignal, CheckDialable, AwaitRegistration, over, Closing
<1>2. CASE UnlockGuest \/ PushService \/ PushRelay \/ PublishConfig
           \/ PublishFallback \/ ReachabilityGate
  BY <1>2, FailEnds, OwnershipQuiet
  DEF UnlockGuest, PushService, PushRelay, Pushed, PublishConfig, PublishFallback,
      ReachabilityGate, over, Closing
<1>3. CASE Configure \/ AwaitService \/ ReadMetadata \/ HandoffDone \/ Recover
           \/ RecoverRefresh
  <2>1. /\ UNCHANGED <<item, cleaned>> /\ pc \notin over \cup {"create"}
        /\ pc' \in Successful \/ pc' \notin over
    BY <1>3, FailEnds
    DEF Configure, AwaitService, ReadMetadata, HandoffDone, Recover, RecoverRefresh,
        over, Closing, Successful
  <2>2. CASE pc' \in Successful
    BY <2>1, <2>2, OwnershipReturn
  <2>3. CASE pc' \notin over
    BY <2>1, <2>3, OwnershipQuiet
  <2> QED  BY <2>1, <2>2, <2>3
<1>4. CASE Finish \/ CleanupConfig
  BY <1>4, OwnershipQuiet DEF Finish, CleanupConfig, over, Successful
<1>5. CASE ForgetAttempt
  <2>1. /\ pc = "forget" /\ pc' \in {"create", "failed"} /\ item # NoInstance
        /\ item' = NoInstance /\ cleaned' = cleaned \cup {item}
    BY <1>5, LaunchFields, ControllerAssumption
    DEF ForgetAttempt, NextCandidate, IInv, ItemIsCurrent, TypeOK, LaunchType, Instances
  <2> QED  BY <2>1 DEF Ownership!Next, Ownership!Release
<1>6. CASE Broadcast
  BY <1>6, OwnershipBroadcast
<1> QED  BY <1>1, <1>2, <1>3, <1>4, <1>5, <1>6 DEF DeployStep

(* For any deployments, accounts and wallet changes the browser's deploy   *)
(* answers for one instance at a time, fails holding none, and succeeds    *)
(* with the one it holds.                                                  *)
THEOREM Refinement == Spec => ImplementsOwnership
<1>1. ASSUME IInv, [Next]_vars PROVE [Ownership!Next]_(Ownership!ownershipVars)
  <2>1. CASE DeployStep
    BY <1>1, <2>1, OwnershipStep
  <2>2. CASE World \/ UNCHANGED vars
    <3>1. UNCHANGED <<item, cleaned, pc>>
      BY <2>2 DEF World, WalletChanges, TimerRefresh, AlephProcesses, AlephForgets,
                  GuestReadsConfig, GuestRegisters, vars, runVars, messageVars
    <3> QED  BY <3>1 DEF Ownership!ownershipVars
  <2> QED  BY <1>1, <2>1, <2>2 DEF Next
<1> QED
  BY <1>1, OwnershipInit, Invariance, PTL
  DEF Spec, ImplementsOwnership, Ownership!Spec

-----------------------------------------------------------------------------
(***************************************************************************)
(* RootfsPublication: the image a deploy is offered                        *)
(***************************************************************************)

(* The records of a run, and the state by its type.                        *)
RunType == [pc: {"idle", "build", "upload", "provide", "gateway", "pin", "wait",
                 "artifacts", "cleanup", "primary", "latest", "versioned"} \cup Ended,
            plan: Plans \cup {None}, left: 0 .. 3, host: Nat, attempt: Nat,
            next: {"primary", "failed"}, told: BOOLEAN]

RootfsPlain == /\ RootfsTypeOK
         /\ panel.manifest \in [of: Runs, hash: BOOLEAN] \cup {None}
         /\ refresh \in [Refreshes -> [at: {"idle", "verify", "resolve", "show"},
                                       manifest: [of: Runs, hash: BOOLEAN] \cup {None},
                                       verified: BOOLEAN,
                                       status: Statuses \cup {"unknown"}]]

Writing == {"primary", "latest", "versioned"}

(* A run is told nothing before it begins, and keeps the plan it began     *)
(* with.                                                                   *)
Begun(r) ==
    /\ at(r, "idle") => ~run[r].told
    /\ run[r].pc \notin {"idle", "failed"} => run[r].plan \in Plans
    /\ at(r, "build") => run[r].left >= 1

(* The STORE is what the plan asks for.                                    *)
StoreFits(r) ==
    /\ store[r] # "none"
    /\ run[r].plan.requireProcessed => store[r] \in Stored

Ready(r) == StoreFits(r) /\ (~withImage(r) => ~run[r].told)

(* From the wait on there is a STORE, and from the end of the wait on one   *)
(* that fits. A run that skips the upload writes manifests too.            *)
Uploaded(r) ==
    /\ at(r, "wait") => store[r] # "none"
    /\ at(r, "artifacts") => StoreFits(r)
    /\ at(r, "cleanup") /\ run[r].next = "primary" => StoreFits(r)
    /\ run[r].pc \in Writing /\ hasPublication(r) => StoreFits(r)

(* On the pin path a run that was told of a rejection is on its way out.   *)
Heeded(r) ==
    run[r].told => \/ at(r, "failed") \/ at(r, "cancelled")
                   \/ at(r, "cleanup") /\ run[r].next = "failed"
                   \/ withImage(r)

RunsFit == \A r \in Runs : Begun(r) /\ Uploaded(r) /\ Heeded(r)

(* The run a manifest names has gone too far to be told anything.          *)
ManifestsFit ==
    \A f \in Files : validManifest(manifests[f]) =>
        LET r == manifests[f].of IN
        /\ Ready(r)
        /\ run[r].plan \in Plans
        /\ run[r].pc \in {"latest", "versioned"} \cup Ended

(* A refresh holds the manifest it asks about, and a deploy remembers what *)
(* was ready.                                                              *)
PageFits ==
    /\ \A t \in Refreshes :
         /\ refresh[t].at \in {"verify", "resolve"} =>
              validManifest(refresh[t].manifest) /\ refresh[t].status = "unknown"
         /\ refresh[t].at = "show" /\ validManifest(refresh[t].manifest) /\ refresh[t].status = "processed" =>
              store[refresh[t].manifest.of] \in Stored
    /\ panel.health = "rootfs-ready" =>
         validManifest(panel.manifest) /\ store[panel.manifest.of] \in Stored
    /\ start.at = "preparing" => store[start.checked] \in Stored /\ start.checked \in Runs
    /\ start.seen => store[start.image] \in Stored /\ start.image \in Runs

StartType == [at: {"idle", "preparing", "deploying"}, checked: Runs \cup {None},
              image: Runs \cup {None}, seen: BOOLEAN]

(* The inductive invariant                                                 *)
RootfsInv == RootfsPlain /\ RunsFit /\ ManifestsFit /\ PageFits

(* What a step of r does to its own record and to its STORE.               *)
Settled(r) == run[r].pc \in {"latest", "versioned"} \cup Ended

RunMoves(r) ==
    /\ \E new \in RunType : run' = [run EXCEPT ![r] = new]
    /\ Settled(r) => Settled(r)' /\ run'[r].plan = run[r].plan /\ run'[r].told = run[r].told

StoreMoves(r) ==
    /\ \E new \in Statuses : store' = [store EXCEPT ![r] = new]
    /\ store[r] # "none" => store'[r] # "none"
    /\ store[r] \in Stored => store'[r] \in Stored

(* What is left of a run when its process ends.                            *)
Remains(r, to) == [NotBegun EXCEPT !.pc = to, !.plan = run[r].plan, !.told = run[r].told]

LEMMA EndRecord ==
  ASSUME RootfsInv, NEW r \in Runs, NEW to \in Ended
  PROVE  /\ Remains(r, to) \in RunType /\ Remains(r, to).pc = to
         /\ Remains(r, to).plan = run[r].plan /\ Remains(r, to).told = run[r].told
<1>a. run[r].plan \in Plans \cup {None} /\ run[r].told \in BOOLEAN
  BY DEF RootfsInv, RootfsPlain, RootfsTypeOK
<1>b. NotBegun \in RunType
  BY DEF RunType, NotBegun
<1> DEFINE n1 == [NotBegun EXCEPT !.pc = to]
           n2 == [n1 EXCEPT !.plan = run[r].plan]
           n3 == [n2 EXCEPT !.told = run[r].told]
<1> HIDE DEF NotBegun
<1>c. n1 \in RunType /\ n1.pc = to
  BY <1>b DEF RunType, Ended
<1>d. n2 \in RunType /\ n2.pc = to /\ n2.plan = run[r].plan
  BY <1>a, <1>c DEF RunType
<1>e. n3 \in RunType /\ n3.pc = to /\ n3.plan = run[r].plan /\ n3.told = run[r].told
  BY <1>a, <1>d DEF RunType
<1>f. QED
  BY <1>e DEF Remains

(* A run may end wherever it stands.                                       *)
LEMMA EndsFits ==
  ASSUME RootfsInv, NEW r \in Runs, NEW to \in {"failed", "cancelled"}, run[r].pc \notin Ended,
         at(r, "idle") => to = "failed",
         run' = ends(r, to)
  PROVE  RunMoves(r) /\ Begun(r)' /\ Uploaded(r)' /\ Heeded(r)'
<1>0. run \in [Runs -> RunType] /\ Begun(r)
  BY DEF RootfsInv, RootfsPlain, RootfsTypeOK, RunType, RunsFit
<1> DEFINE new == Remains(r, to)
<1>1. new \in RunType /\ new.pc = to /\ new.plan = run[r].plan /\ new.told = run[r].told
  BY EndRecord DEF Ended
<1>2. run' = [run EXCEPT ![r] = new]
  BY DEF ends, Remains
<1> HIDE DEF new
<1>3. run'[r] = new
  BY <1>0, <1>2
<1>4. RunMoves(r)
  BY <1>1, <1>2, <1>3 DEF RunMoves, Settled, Ended
<1>5. Begun(r)'
  BY <1>0, <1>1, <1>3 DEF Begun, at, Ended
<1>6. Uploaded(r)'
  BY <1>1, <1>3 DEF Uploaded, at, Writing
<1>7. Heeded(r)'
  BY <1>1, <1>3 DEF Heeded, at
<1>8. QED
  BY <1>4, <1>5, <1>6, <1>7

(* One record is assigned.                                                 *)
LEMMA Assigned ==
  ASSUME RootfsInv, NEW r \in Runs, NEW x \in RunType, run' = [run EXCEPT ![r] = x],
         Settled(r) => /\ x.pc \in {"latest", "versioned"} \cup Ended
                       /\ x.plan = run[r].plan /\ x.told = run[r].told
  PROVE  run'[r] = x /\ RunMoves(r)
<1>1. run \in [Runs -> RunType]
  BY DEF RootfsInv, RootfsPlain, RootfsTypeOK, RunType
<1>2. run'[r] = x
  BY <1>1
<1>3. QED
  BY <1>2 DEF RunMoves, Settled

(* What is shown of every step of r.                                       *)
Fine(r) == RunMoves(r) /\ StoreMoves(r) /\ Begun(r)' /\ Uploaded(r)' /\ Heeded(r)'

LEMMA StoreStays ==
  ASSUME RootfsInv, NEW r \in Runs, store' = store
  PROVE  StoreMoves(r)
<1>1. store \in [Runs -> Statuses] /\ store[r] \in Statuses
  BY DEF RootfsInv, RootfsPlain, RootfsTypeOK
<1>2. store' = [store EXCEPT ![r] = store[r]]
  BY <1>1
<1>3. QED
  BY <1>1, <1>2 DEF StoreMoves

PCs == {"idle", "build", "upload", "provide", "gateway", "pin", "wait",
        "artifacts", "cleanup", "primary", "latest", "versioned"} \cup Ended

(* y is x but for its place, and perhaps its counters. *)
Moved(x, y) == y \in RunType /\ y.plan = x.plan /\ y.told = x.told

(* The facts a step of r needs of the state before it. *)
LEMMA Before ==
  ASSUME RootfsInv, NEW r \in Runs
  PROVE  /\ run \in [Runs -> RunType] /\ run[r] \in RunType
         /\ run[r].plan \in Plans \cup {None} /\ run[r].left \in 0 .. 3
         /\ run[r].host \in Nat /\ run[r].attempt \in Nat /\ run[r].told \in BOOLEAN
         /\ store \in [Runs -> Statuses] /\ store[r] \in Statuses
         /\ Begun(r) /\ Uploaded(r) /\ Heeded(r)
<1>1. run \in [Runs -> RunType] /\ run[r] \in RunType /\ store \in [Runs -> Statuses]
  BY DEF RootfsInv, RootfsPlain, RootfsTypeOK, RunType
<1>2. Begun(r) /\ Uploaded(r) /\ Heeded(r)
  BY DEF RootfsInv, RunsFit
<1>3. QED
  BY <1>1, <1>2 DEF RunType

(* Building                                                                *)
LEMMA BuildingFits ==
  ASSUME RootfsInv, RootfsParameters, NEW r \in Runs,
         (\E p \in Plans : Start(r, p) \/ Refuse(r, p)) \/ Build(r) \/ BuildFails(r)
  PROVE  Fine(r)
<1>0. run[r] \in RunType /\ run[r].left \in 0 .. 3 /\ Begun(r) /\ Uploaded(r) /\ Heeded(r)
  BY Before
<1>1. StoreMoves(r)
  <2>1. store' = store
    BY DEF Start, Refuse, Build, BuildFails
  <2>2. QED
    BY <2>1, StoreStays
<1>2. ASSUME NEW p \in Plans, Start(r, p) PROVE Fine(r)
  <2> PICK o \in RunType : o = run[r]
    BY <1>0
  <2> DEFINE x == [o EXCEPT !.pc = "build", !.plan = p, !.left = commands(p)]
  <2>1. commands(p) \in 0 .. 3 /\ commands(p) >= 1
    BY DEF commands
  <2>2. x \in RunType /\ x.pc = "build" /\ x.plan = p /\ x.left = commands(p) /\ x.told = o.told
    BY <2>1 DEF RunType
  <2>3. run' = [run EXCEPT ![r] = x] /\ at(r, "idle")
    BY <1>2 DEF Start
  <2> HIDE DEF x
  <2>4. run'[r] = x /\ RunMoves(r)
    BY <2>2, <2>3, Assigned DEF Settled, at, Ended
  <2>5. QED
    BY <1>0, <1>1, <2>1, <2>2, <2>3, <2>4 DEF Fine, Begun, Uploaded, Heeded, at, Writing
<1>3. ASSUME NEW p \in Plans, Refuse(r, p) PROVE Fine(r)
  BY <1>1, <1>3, EndsFits DEF Refuse, Fine, at, Ended
<1>4. CASE Build(r)
  <2> DEFINE to == CASE run[r].left > 1 -> "build"
                     [] run[r].left = 1 /\ run[r].plan.skipUpload -> "primary"
                     [] OTHER -> "upload"
  <2>1. /\ to \in {"build", "primary", "upload"}
        /\ to = "build" => run[r].left > 1
        /\ to = "primary" => run[r].plan.skipUpload
    BY <1>0
  <2> PICK o \in RunType : o = run[r]
    BY <1>0
  <2> DEFINE x == [o EXCEPT !.left = o.left - 1, !.pc = to]
  <2>2. at(r, "build") /\ run[r].left \in 1 .. 3
    BY <1>0, <1>4 DEF Build, Begun
  <2>a. o.left - 1 \in 0 .. 3
    BY <2>2
  <2>3. Moved(o, x) /\ x.pc = to /\ x.left = o.left - 1
    BY <2>1, <2>a DEF RunType, PCs, Moved
  <2>4. run' = [run EXCEPT ![r] = x]
    BY <1>4 DEF Build
  <2> HIDE DEF x, to
  <2>5. run'[r] = x /\ RunMoves(r)
    BY <2>2, <2>3, <2>4, Assigned DEF Settled, at, Ended, Moved
  <2>6. Begun(r)'
    BY <1>0, <2>1, <2>2, <2>3, <2>5 DEF Begun, at, Moved
  <2>7. Uploaded(r)'
    BY <2>1, <2>3, <2>5 DEF Uploaded, at, Writing, hasPublication, Moved
  <2>8. Heeded(r)'
    BY <1>0, <2>2, <2>3, <2>5 DEF Heeded, at, withImage, Moved
  <2>9. QED
    BY <1>1, <2>5, <2>6, <2>7, <2>8 DEF Fine
<1>5. CASE BuildFails(r)
  BY <1>1, <1>5, EndsFits DEF BuildFails, Fine, at, Ended
<1>6. QED
  BY <1>2, <1>3, <1>4, <1>5

(* Where a run goes before it cleans up or writes.                         *)
UnderWay(r) == run[r].pc \in {"build", "upload", "provide", "gateway", "pin", "wait", "artifacts", "primary"}

(* A run moves on, to a place its STORE allows.                            *)
LEMMA MovesFits ==
  ASSUME RootfsInv, NEW r \in Runs, UnderWay(r), StoreMoves(r),
         NEW x, Moved(run[r], x), run' = [run EXCEPT ![r] = x],
         x.pc \notin {"idle", "build"},
         x.pc = "wait" => store'[r] # "none",
         x.pc = "artifacts" \/ (x.pc = "cleanup" /\ x.next = "primary") \/ (x.pc \in Writing /\ hasPublication(r))
           => StoreFits(r)'
  PROVE  Fine(r)
<1>1. Begun(r) /\ Uploaded(r) /\ Heeded(r) /\ ~Settled(r)
  BY Before DEF UnderWay, Settled, Ended
<1>2. run'[r] = x /\ RunMoves(r)
  BY <1>1, Assigned DEF Moved
<1>3. Begun(r)'
  BY <1>1, <1>2 DEF Begun, Moved, at, UnderWay
<1>4. Uploaded(r)'
  BY <1>2 DEF Uploaded, at, Writing, hasPublication, Moved
<1>5. Heeded(r)'
  BY <1>1, <1>2 DEF Heeded, at, withImage, Moved, UnderWay
<1>6. QED
  BY <1>2, <1>3, <1>4, <1>5 DEF Fine

(* The same by goes, leaves, ends and nextHost.                            *)
LEMMA GoesFits ==
  ASSUME RootfsInv, NEW r \in Runs, UnderWay(r), StoreMoves(r),
         NEW to \in PCs \ {"idle", "build", "cleanup"}, run' = goes(r, to),
         to = "wait" => store'[r] # "none",
         to = "artifacts" \/ (to \in Writing /\ hasPublication(r)) => StoreFits(r)'
  PROVE  Fine(r)
<1> PICK o \in RunType : o = run[r]
  BY Before
<1> DEFINE x == [o EXCEPT !.pc = to]
<1>1. Moved(o, x) /\ x.pc = to
  BY DEF RunType, PCs, Moved
<1>2. run' = [run EXCEPT ![r] = x]
  BY Before DEF goes
<1> HIDE DEF x
<1>3. QED
  BY <1>1, <1>2, MovesFits

LEMMA LeavesFits ==
  ASSUME RootfsInv, NEW r \in Runs, UnderWay(r), StoreMoves(r),
         NEW next \in {"primary", "failed"}, run' = leaves(r, next),
         next = "primary" => StoreFits(r)'
  PROVE  Fine(r)
<1> PICK o \in RunType : o = run[r]
  BY Before
<1> DEFINE x == [o EXCEPT !.pc = "cleanup", !.next = next]
<1>1. Moved(o, x) /\ x.pc = "cleanup" /\ x.next = next
  BY DEF RunType, Moved
<1>2. run' = [run EXCEPT ![r] = x]
  BY DEF leaves
<1> HIDE DEF x
<1>3. QED
  BY <1>1, <1>2, MovesFits DEF Writing

LEMMA FailsFits ==
  ASSUME RootfsInv, NEW r \in Runs, ~at(r, "idle"), run[r].pc \notin Ended, StoreMoves(r),
         NEW to \in {"failed", "cancelled"}, run' = ends(r, to)
  PROVE  Fine(r)
BY EndsFits DEF Fine

LEMMA NextHostFits ==
  ASSUME RootfsInv, NEW r \in Runs, UnderWay(r), StoreMoves(r), run' = nextHost(r)
  PROVE  Fine(r)
<1>1. CASE run[r].host = ApiHosts
  <2>1. CASE withImage(r)
    BY <1>1, <2>1, FailsFits DEF nextHost, givesUp, UnderWay, at, Ended
  <2>2. CASE ~withImage(r)
    BY <1>1, <2>2, LeavesFits DEF nextHost, givesUp
  <2>3. QED
    BY <2>1, <2>2
<1>2. CASE run[r].host # ApiHosts
  <2> PICK o \in RunType : o = run[r]
    BY Before
  <2> DEFINE to == IF withImage(r) THEN "upload" ELSE "pin"
             x == [o EXCEPT !.host = o.host + 1, !.pc = to]
  <2>1. o.host + 1 \in Nat /\ to \in {"upload", "pin"}
    BY DEF RunType
  <2> HIDE DEF to
  <2>2. Moved(o, x) /\ x.pc = to
    BY <2>1 DEF RunType, Moved
  <2>3. run' = [run EXCEPT ![r] = x]
    BY <1>2 DEF nextHost, to
  <2> HIDE DEF x
  <2>4. QED
    BY <2>1, <2>2, <2>3, MovesFits DEF Writing
<1>3. QED
  BY <1>1, <1>2

(* The host answers something else, with the attempts or hosts counted.    *)
LEMMA AttemptFits ==
  ASSUME RootfsInv, NEW r \in Runs, UnderWay(r), at(r, "wait"), store' = store,
         run' = [run EXCEPT ![r].attempt = @ + 1]
  PROVE  Fine(r)
<1> PICK o \in RunType : o = run[r]
  BY Before
<1> DEFINE x == [o EXCEPT !.attempt = o.attempt + 1]
<1>1. o.attempt + 1 \in Nat
  BY DEF RunType
<1>2. Moved(o, x) /\ x.pc = o.pc
  BY <1>1 DEF RunType, Moved
<1>3. run' = [run EXCEPT ![r] = x]
  BY Before
<1> HIDE DEF x
<1>4. store'[r] # "none"
  BY Before DEF Uploaded
<1>5. QED
  BY <1>2, <1>3, <1>4, MovesFits, StoreStays DEF at, Writing

(* A STORE that is sent is one Aleph was given, and none is taken back.    *)
LEMMA SentFits ==
  ASSUME RootfsInv, NEW r \in Runs, store' = [store EXCEPT ![r] = sent(r)]
  PROVE  StoreMoves(r) /\ store'[r] # "none"
<1>1. store \in [Runs -> Statuses] /\ store[r] \in Statuses
  BY Before
<1>2. sent(r) \in Statuses /\ store'[r] = sent(r)
  BY <1>1 DEF sent, Statuses
<1>3. QED
  BY <1>1, <1>2 DEF StoreMoves, sent, Stored

(* Giving the image to IPFS.                                               *)
LEMMA UploadFits ==
  ASSUME RootfsInv, NEW r \in Runs,
         Add(r) \/ AddFails(r) \/ StartNode(r) \/ Provide(r) \/ ProvideFails(r)
  PROVE  Fine(r)
<1>0. StoreMoves(r) /\ UnderWay(r)
  <2>1. store' = store /\ run[r].pc \in {"upload", "provide"}
    BY DEF Add, AddFails, StartNode, Provide, ProvideFails, at
  <2>2. QED
    BY <2>1, StoreStays DEF UnderWay
<1> PICK o \in RunType : o = run[r]
  BY Before
<1>1. CASE Add(r)
  <2> DEFINE x == [o EXCEPT !.pc = "gateway", !.host = 1]
  <2>1. Moved(o, x) /\ x.pc = "gateway"
    BY DEF RunType, Moved
  <2>2. run' = [run EXCEPT ![r] = x]
    BY <1>1 DEF Add
  <2> HIDE DEF x
  <2>3. QED
    BY <1>0, <2>1, <2>2, MovesFits DEF Writing
<1>2. CASE AddFails(r) /\ run[r].host < addUrls(r)
  <2> DEFINE x == [o EXCEPT !.host = o.host + 1]
  <2>1. o.host + 1 \in Nat
    BY DEF RunType
  <2>2. Moved(o, x) /\ x.pc = "upload"
    BY <1>2, <2>1 DEF RunType, Moved, AddFails, at
  <2>3. run' = [run EXCEPT ![r] = x]
    BY <1>2, Before DEF AddFails
  <2> HIDE DEF x
  <2>4. QED
    BY <1>0, <2>2, <2>3, MovesFits DEF Writing
<1>3. CASE AddFails(r) /\ ~(run[r].host < addUrls(r))
  BY <1>0, <1>3, FailsFits DEF AddFails, UnderWay, at, Ended
<1>4. CASE StartNode(r)
  BY <1>0, <1>4, GoesFits DEF StartNode, PCs, Writing
<1>5. CASE Provide(r)
  BY <1>0, <1>5, GoesFits DEF Provide, PCs, Writing
<1>6. CASE ProvideFails(r)
  BY <1>0, <1>6, FailsFits DEF ProvideFails, UnderWay, at, Ended
<1>7. QED
  BY <1>1, <1>2, <1>3, <1>4, <1>5, <1>6

(* A host takes the message, with or without the image.                    *)
LEMMA WaitFits ==
  ASSUME RootfsInv, NEW r \in Runs, UnderWay(r), store' = [store EXCEPT ![r] = sent(r)],
         run' = [run EXCEPT ![r] = [@ EXCEPT !.pc = "wait", !.attempt = 1]]
  PROVE  Fine(r)
<1> PICK o \in RunType : o = run[r]
  BY Before
<1> DEFINE x == [o EXCEPT !.pc = "wait", !.attempt = 1]
<1>1. Moved(o, x) /\ x.pc = "wait"
  BY DEF RunType, Moved
<1>2. run' = [run EXCEPT ![r] = x]
  OBVIOUS
<1> HIDE DEF x
<1>3. QED
  BY <1>1, <1>2, SentFits, MovesFits DEF Writing

(* A rejection the run is told of, after which it gives up or, with the    *)
(* image in the message, goes on.                                          *)
LEMMA ToldFits ==
  ASSUME RootfsInv, NEW r \in Runs, run[r].pc \in {"pin", "wait"}, StoreMoves(r),
         \/ run' = [leaves(r, "failed") EXCEPT ![r].told = TRUE]
         \/ withImage(r) /\ run' = [nextHost(r) EXCEPT ![r].told = TRUE]
  PROVE  Fine(r)
<1> PICK o \in RunType : o = run[r]
  BY Before
<1>0. run \in [Runs -> RunType] /\ Begun(r) /\ ~Settled(r)
  BY Before DEF Settled, Ended
<1>a. ASSUME NEW y \in RunType, y.plan = o.plan, run' = [[run EXCEPT ![r] = y] EXCEPT ![r].told = TRUE],
             \/ y.pc = "cleanup" /\ y.next = "failed"
             \/ withImage(r) /\ y.pc \in {"upload", "failed"}
      PROVE  Fine(r)
  <2> DEFINE x == [y EXCEPT !.told = TRUE]
  <2>1. x \in RunType /\ x.plan = o.plan /\ x.pc = y.pc /\ x.next = y.next
    BY <1>a DEF RunType
  <2>2. run' = [run EXCEPT ![r] = x]
    BY <1>0, <1>a
  <2> HIDE DEF x
  <2>3. run'[r] = x /\ RunMoves(r)
    BY <1>0, <2>1, <2>2, Assigned
  <2>4. Begun(r)'
    BY <1>0, <1>a, <2>1, <2>3 DEF Begun, at
  <2>5. Uploaded(r)'
    BY <1>a, <2>1, <2>3 DEF Uploaded, at, Writing
  <2>6. Heeded(r)'
    BY <1>a, <2>1, <2>3 DEF Heeded, at, withImage
  <2>7. QED
    BY <2>3, <2>4, <2>5, <2>6 DEF Fine
<1>1. CASE run' = [leaves(r, "failed") EXCEPT ![r].told = TRUE]
  <2> DEFINE y == [o EXCEPT !.pc = "cleanup", !.next = "failed"]
  <2>1. y \in RunType /\ y.plan = o.plan /\ y.pc = "cleanup" /\ y.next = "failed"
    BY DEF RunType
  <2>2. run' = [[run EXCEPT ![r] = y] EXCEPT ![r].told = TRUE]
    BY <1>1 DEF leaves
  <2> HIDE DEF y
  <2>3. QED
    BY <1>a, <2>1, <2>2
<1>2. CASE withImage(r) /\ run' = [nextHost(r) EXCEPT ![r].told = TRUE] /\ run[r].host = ApiHosts
  <2> DEFINE y == Remains(r, "failed")
  <2>1. y \in RunType /\ y.plan = o.plan /\ y.pc = "failed"
    BY EndRecord DEF Ended
  <2>2. run' = [[run EXCEPT ![r] = y] EXCEPT ![r].told = TRUE]
    BY <1>2 DEF nextHost, givesUp, ends, Remains
  <2> HIDE DEF y
  <2>3. QED
    BY <1>2, <1>a, <2>1, <2>2
<1>3. CASE withImage(r) /\ run' = [nextHost(r) EXCEPT ![r].told = TRUE] /\ run[r].host # ApiHosts
  <2> DEFINE y == [o EXCEPT !.host = o.host + 1, !.pc = "upload"]
  <2>1. o.host + 1 \in Nat
    BY DEF RunType
  <2>2. y \in RunType /\ y.plan = o.plan /\ y.pc = "upload"
    BY <2>1 DEF RunType
  <2>3. run' = [[run EXCEPT ![r] = y] EXCEPT ![r].told = TRUE]
    BY <1>3 DEF nextHost
  <2> HIDE DEF y
  <2>4. QED
    BY <1>3, <1>a, <2>2, <2>3
<1>4. QED
  BY <1>1, <1>2, <1>3

(* Whatever a host does with the message, its STORE fits the wait.         *)
LEMMA PinFits ==
  ASSUME RootfsInv, NEW r \in Runs,
         \/ Gateway(r) \/ GatewayTimesOut(r) \/ Pin(r) \/ PinRejected(r) \/ PinFails(r)
         \/ AddFile(r) \/ AddFileFails(r)
  PROVE  Fine(r)
<1>0. UnderWay(r) /\ store \in [Runs -> Statuses] /\ store[r] \in Statuses
  <2>1. run[r].pc \in {"gateway", "pin", "upload"}
    BY DEF Gateway, GatewayTimesOut, Pin, PinRejected, PinFails, AddFile, AddFileFails, at
  <2>2. QED
    BY <2>1, Before DEF UnderWay
<1> PICK o \in RunType : o = run[r]
  BY Before
<1>1. CASE Gateway(r)
  <2> DEFINE x == [o EXCEPT !.pc = "pin", !.host = 1]
  <2>1. Moved(o, x) /\ x.pc = "pin"
    BY DEF RunType, Moved
  <2>2. run' = [run EXCEPT ![r] = x] /\ store' = store
    BY <1>1 DEF Gateway
  <2> HIDE DEF x
  <2>3. QED
    BY <1>0, <2>1, <2>2, StoreStays, MovesFits DEF Writing
<1>2. CASE GatewayTimesOut(r)
  BY <1>0, <1>2, StoreStays, LeavesFits DEF GatewayTimesOut
<1>3. CASE Pin(r)
  BY <1>0, <1>3, WaitFits DEF Pin
<1>4. CASE PinRejected(r)
  <2>1. StoreMoves(r)
    BY <1>0, <1>4 DEF PinRejected, StoreMoves, Statuses, Stored
  <2>2. QED
    BY <1>4, <2>1, ToldFits DEF PinRejected, at
<1>5. CASE PinFails(r)
  BY <1>0, <1>5, StoreStays, SentFits, NextHostFits DEF PinFails
<1>6. CASE AddFile(r)
  BY <1>0, <1>6, WaitFits DEF AddFile
<1>7. CASE AddFileFails(r)
  BY <1>0, <1>7, StoreStays, SentFits, NextHostFits DEF AddFileFails
<1>8. QED
  BY <1>1, <1>2, <1>3, <1>4, <1>5, <1>6, <1>7

(* A wait that is over leaves a processed STORE, or a plan that does not   *)
(* ask for one.                                                            *)
LEMMA LookupFits ==
  ASSUME RootfsInv, NEW r \in Runs, Lookup(r) \/ LookupFails(r)
  PROVE  Fine(r)
<1>0. UnderWay(r) /\ at(r, "wait") /\ store' = store /\ StoreMoves(r) /\ store[r] # "none"
  <2>1. at(r, "wait") /\ store' = store
    BY DEF Lookup, LookupFails
  <2>2. QED
    BY <2>1, StoreStays, Before DEF UnderWay, at, Uploaded
<1>a. ASSUME StoreFits(r), run' = goes(r, "artifacts") PROVE Fine(r)
  <2>1. run'[r].plan = run[r].plan
    <3> PICK o \in RunType : o = run[r]
      BY Before
    <3> DEFINE x == [o EXCEPT !.pc = "artifacts"]
    <3>1. Moved(o, x)
      BY DEF RunType, Moved
    <3>2. run' = [run EXCEPT ![r] = x]
      BY <1>a, Before DEF goes
    <3> HIDE DEF x
    <3>3. QED
      BY <3>1, <3>2, Before DEF Moved
  <2>2. StoreFits(r)'
    BY <1>0, <1>a, <2>1 DEF StoreFits
  <2>3. QED
    BY <1>0, <1>a, <2>2, GoesFits DEF PCs
<1>1. ASSUME NEW answer \in answers(r), Lookup(r),
             run' = CASE answer = "processed" -> goes(r, "artifacts")
                      [] answer = "rejected" -> [afterRejection(r) EXCEPT ![r].told = TRUE]
                      [] answer \notin {"processed", "rejected"} /\ run[r].attempt < WaitAttempts ->
                           [run EXCEPT ![r].attempt = @ + 1]
                      [] OTHER -> IF mayStayPending(r) THEN goes(r, "artifacts") ELSE nextHost(r)
      PROVE  Fine(r)
  <2>1. CASE answer = "processed"
    <3>1. store[r] = "processed"
      BY <2>1 DEF answers
    <3>2. StoreFits(r)
      BY <3>1 DEF StoreFits, Stored
    <3>3. QED
      BY <1>1, <1>a, <2>1, <3>2
  <2>2. CASE answer = "rejected"
    <3>1. run' = [afterRejection(r) EXCEPT ![r].told = TRUE]
      BY <1>1, <2>2
    <3>2. CASE withImage(r)
      BY <1>0, <3>1, <3>2, ToldFits DEF afterRejection, at
    <3>3. CASE ~withImage(r)
      BY <1>0, <3>1, <3>3, ToldFits DEF afterRejection, at
    <3>4. QED
      BY <3>2, <3>3
  <2>3. CASE answer \notin {"processed", "rejected"} /\ run[r].attempt < WaitAttempts
    <3>1. run' = [run EXCEPT ![r].attempt = @ + 1]
      BY <1>1, <2>3
    <3>2. QED
      BY <1>0, <3>1, AttemptFits
  <2>4. CASE answer \notin {"processed", "rejected"} /\ ~(run[r].attempt < WaitAttempts)
    <3>1. run' = IF mayStayPending(r) THEN goes(r, "artifacts") ELSE nextHost(r)
      BY <1>1, <2>4
    <3>2. mayStayPending(r) => StoreFits(r)
      BY <1>0 DEF mayStayPending, StoreFits
    <3>3. QED
      BY <1>0, <1>a, <3>1, <3>2, NextHostFits
  <2>5. QED
    BY <2>1, <2>2, <2>3, <2>4
<1>2. CASE Lookup(r)
  BY <1>1, <1>2 DEF Lookup
<1>3. CASE LookupFails(r)
  BY <1>0, <1>3, AttemptFits, NextHostFits DEF LookupFails
<1>4. QED
  BY <1>2, <1>3

(* A run writes the manifest that names its own STORE, where it fits.      *)
LEMMA WritingFits ==
  ASSUME RootfsInv, NEW r \in Runs,
         \/ WriteArtifacts(r) \/ CleanUp(r) \/ WriteManifest(r) \/ WriteFails(r) \/ Cancel(r)
  PROVE  Fine(r)
<1>0. store' = store /\ StoreMoves(r) /\ Begun(r) /\ Uploaded(r) /\ Heeded(r) /\ run \in [Runs -> RunType]
  <2>1. store' = store
    BY DEF WriteArtifacts, CleanUp, WriteManifest, WriteFails, Cancel
  <2>2. QED
    BY <2>1, StoreStays, Before
<1>1. PICK o \in RunType : o = run[r]
  BY Before
<1>a. ASSUME NEW to \in {"primary", "latest", "versioned"}, run' = goes(r, to),
             run[r].pc \in {"cleanup", "primary", "latest"}, hasPublication(r) => StoreFits(r),
             ~withImage(r) => ~run[r].told, Settled(r) => to # "primary"
      PROVE  Fine(r)
  <2> DEFINE x == [o EXCEPT !.pc = to]
  <2>1. Moved(o, x) /\ x.pc = to
    BY DEF RunType, Moved
  <2>2. run' = [run EXCEPT ![r] = x]
    BY <1>0, <1>1, <1>a DEF goes
  <2> HIDE DEF x
  <2>3. run'[r] = x /\ RunMoves(r)
    BY <1>1, <1>a, <2>1, <2>2, Assigned DEF Moved
  <2>4. Begun(r)'
    BY <1>0, <1>1, <1>a, <2>1, <2>3 DEF Begun, at, Moved
  <2>5. Uploaded(r)'
    BY <1>0, <1>1, <1>a, <2>1, <2>3 DEF Uploaded, at, Writing, Moved, StoreFits, hasPublication
  <2>6. Heeded(r)'
    BY <1>1, <1>a, <2>1, <2>3 DEF Heeded, withImage, Moved
  <2>7. QED
    BY <1>0, <2>3, <2>4, <2>5, <2>6 DEF Fine
<1>2. CASE WriteArtifacts(r)
  <2>1. UnderWay(r) /\ StoreFits(r)
    BY <1>0, <1>2 DEF WriteArtifacts, UnderWay, at, Uploaded
  <2> DEFINE x == [o EXCEPT !.pc = "cleanup", !.next = "primary"]
  <2>2. ASSUME run' = leaves(r, "primary") PROVE StoreFits(r)'
    <3>1. Moved(o, x)
      BY DEF RunType, Moved
    <3>2. run' = [run EXCEPT ![r] = x]
      BY <1>1, <2>2 DEF leaves
    <3> HIDE DEF x
    <3>3. QED
      BY <1>0, <1>1, <2>1, <3>1, <3>2 DEF Moved, StoreFits
  <2>3. QED
    BY <1>0, <1>2, <2>1, <2>2, LeavesFits DEF WriteArtifacts
<1>3. CASE CleanUp(r)
  <2>1. CASE run[r].next = "failed"
    BY <1>0, <1>3, <2>1, FailsFits DEF CleanUp, at, Ended
  <2>2. CASE run[r].next # "failed"
    <3>1. run[r].next = "primary" /\ run[r].pc = "cleanup" /\ run' = goes(r, "primary")
      BY <1>1, <1>3, <2>2 DEF CleanUp, at, RunType
    <3>2. StoreFits(r) /\ (~withImage(r) => ~run[r].told)
      BY <1>0, <3>1 DEF Uploaded, Heeded, at
    <3>3. QED
      BY <1>a, <3>1, <3>2 DEF Settled, Ended
  <2>3. QED
    BY <2>1, <2>2
<1>4. CASE WriteManifest(r) /\ ~at(r, "versioned")
  <2>1. /\ run[r].pc \in {"primary", "latest"}
        /\ run' = goes(r, IF at(r, "primary") THEN "latest" ELSE "versioned")
    BY <1>4 DEF WriteManifest, at
  <2>2. (hasPublication(r) => StoreFits(r)) /\ (~withImage(r) => ~run[r].told)
    BY <1>0, <2>1 DEF Uploaded, Heeded, at, Writing
  <2>3. QED
    BY <1>a, <2>1, <2>2
<1>5. CASE WriteManifest(r) /\ at(r, "versioned")
  <2>1. run' = [run EXCEPT ![r] = Remains(r, "done")]
    BY <1>5 DEF WriteManifest, at, ends, Remains
  <2> DEFINE x == Remains(r, "done")
  <2>2. Moved(o, x) /\ x.pc = "done"
    BY <1>1, EndRecord DEF Ended, Moved
  <2> HIDE DEF x
  <2>3. run'[r] = x /\ RunMoves(r)
    BY <1>1, <2>1, <2>2, Assigned DEF Moved, Ended, x
  <2>4. Begun(r)' /\ Uploaded(r)'
    BY <1>0, <1>1, <1>5, <2>2, <2>3 DEF Begun, at, Moved, Uploaded, Writing
  <2>5. Heeded(r)'
    BY <1>0, <1>1, <1>5, <2>2, <2>3 DEF Heeded, at, withImage, Moved
  <2>6. QED
    BY <1>0, <2>3, <2>4, <2>5 DEF Fine
<1>6. CASE WriteFails(r)
  BY <1>0, <1>6, FailsFits DEF WriteFails, at, Ended
<1>7. CASE Cancel(r)
  BY <1>0, <1>7, FailsFits DEF Cancel, at, Ended
<1>8. QED
  BY <1>2, <1>3, <1>4, <1>5, <1>6, <1>7

(* Every step of a run                                                     *)
LEMMA RunStepFits ==
  ASSUME RootfsInv, RootfsParameters, NEW r \in Runs, RunStep(r)
  PROVE  Fine(r)
BY BuildingFits, UploadFits, PinFits, LookupFits, WritingFits DEF RunStep

(* Aleph touches the STOREs alone, and takes no processed one back.        *)
LEMMA AlephFits ==
  ASSUME RootfsInv, NEW r \in Runs, Aleph(r)
  PROVE  StoreMoves(r) /\ UNCHANGED <<run, held, serving, manifests, page, faults>>
BY Before DEF Aleph, AlephPins, AlephRejects, AlephRemoves, StoreMoves, Statuses, Stored

(* A step of r leaves the other runs and their STOREs alone.               *)
LEMMA OthersStay ==
  ASSUME RootfsInv, NEW r \in Runs, StoreMoves(r), RunMoves(r) \/ run' = run, NEW q \in Runs
  PROVE  /\ run' \in [Runs -> RunType] /\ store' \in [Runs -> Statuses]
         /\ q # r => run'[q] = run[q] /\ store'[q] = store[q]
         /\ store[q] # "none" => store'[q] # "none"
         /\ store[q] \in Stored => store'[q] \in Stored
<1>1. run \in [Runs -> RunType] /\ store \in [Runs -> Statuses]
  BY Before
<1>2. run' \in [Runs -> RunType] /\ (q # r => run'[q] = run[q])
  BY <1>1 DEF RunMoves
<1>3. store' \in [Runs -> Statuses] /\ (q # r => store'[q] = store[q])
  BY <1>1 DEF StoreMoves
<1>4. QED
  BY <1>2, <1>3 DEF StoreMoves

(* The steps of a run and of Aleph keep each part of the invariant.        *)
LEMMA RunsFitNext ==
  ASSUME RootfsInv, RootfsParameters, NEW r \in Runs, RunStep(r) \/ Aleph(r)
  PROVE  RunsFit'
<1> SUFFICES ASSUME NEW q \in Runs PROVE Begun(q)' /\ Uploaded(q)' /\ Heeded(q)'
  BY DEF RunsFit
<1>0. Begun(q) /\ Uploaded(q) /\ Heeded(q)
  BY Before
<1>1. CASE RunStep(r) /\ q = r
  BY <1>1, RunStepFits DEF Fine
<1>2. CASE RunStep(r) /\ q # r
  <2>1. run'[q] = run[q] /\ store'[q] = store[q]
    BY <1>2, RunStepFits, OthersStay DEF Fine
  <2>2. QED
    BY <1>0, <2>1 DEF Begun, Uploaded, Heeded, at, withImage, hasPublication, StoreFits
<1>3. CASE Aleph(r)
  <2>1. run' = run /\ (store[q] # "none" => store'[q] # "none") /\ (store[q] \in Stored => store'[q] \in Stored)
    BY <1>3, AlephFits, OthersStay
  <2>2. QED
    BY <1>0, <2>1 DEF Begun, Uploaded, Heeded, at, withImage, hasPublication, StoreFits
<1>4. QED
  BY <1>1, <1>2, <1>3

(* The manifests change in WriteManifest alone.                            *)
LEMMA ManifestsChange ==
  ASSUME RootfsInv, RootfsParameters, NEW r \in Runs, RunStep(r)
  PROVE  \/ manifests' = manifests
         \/ /\ run[r].pc \in Writing /\ fileOf(r) \in Files
            /\ manifests' = [manifests EXCEPT ![fileOf(r)] = manifestOf(r)]
            /\ run'[r].pc \in {"latest", "versioned", "done"} /\ run'[r].plan = run[r].plan
            /\ run'[r].told = run[r].told /\ store' = store
<1>1. CASE WriteManifest(r)
  <2>1. run[r].pc \in Writing /\ store' = store /\ manifests' = [manifests EXCEPT ![fileOf(r)] = manifestOf(r)]
    BY <1>1 DEF WriteManifest, Writing
  <2>2. run[r].plan \in Plans
    BY <2>1, Before DEF Begun, Writing
  <2>3. run[r].plan.version \in Versions
    BY <2>2 DEF RootfsParameters, PlanType
  <2>4. fileOf(r) \in Files
    BY <2>1, <2>3 DEF fileOf, Files, Writing, at
  <2>5. PICK o \in RunType : o = run[r]
    BY Before
  <2>6. CASE ~at(r, "versioned")
    <3> DEFINE to == IF at(r, "primary") THEN "latest" ELSE "versioned"
               x == [o EXCEPT !.pc = to]
    <3>1. run' = goes(r, to)
      BY <1>1, <2>6 DEF WriteManifest, at
    <3>2. to \in {"latest", "versioned"}
      OBVIOUS
    <3> HIDE DEF to
    <3>3. Moved(o, x) /\ x.pc = to
      BY <3>2 DEF RunType, Moved
    <3>4. run' = [run EXCEPT ![r] = x]
      BY <2>5, <3>1, Before DEF goes
    <3> HIDE DEF x
    <3>5. run'[r] = x
      BY <3>4, Before
    <3>6. QED
      BY <2>1, <2>4, <2>5, <3>2, <3>3, <3>5 DEF Moved
  <2>7. CASE at(r, "versioned")
    <3>1. run' = [run EXCEPT ![r] = Remains(r, "done")]
      BY <1>1, <2>7 DEF WriteManifest, at, ends, Remains
    <3>2. run'[r] = Remains(r, "done")
      BY <3>1, Before
    <3>3. QED
      BY <2>1, <2>4, <3>2, EndRecord DEF Ended
  <2>8. QED
    BY <2>6, <2>7
<1>2. CASE ~WriteManifest(r)
  BY <1>2 DEF RunStep, Start, Refuse, Build, BuildFails, Add, AddFails, StartNode, Provide, ProvideFails,
              Gateway, GatewayTimesOut, Pin, PinRejected, PinFails, AddFile, AddFileFails, Lookup, LookupFails,
              WriteArtifacts, CleanUp, WriteFails, Cancel
<1>3. QED
  BY <1>1, <1>2

(* A manifest that fits goes on fitting, whatever its run does.            *)
ManifestFits(m) == Ready(m.of) /\ run[m.of].plan \in Plans /\ Settled(m.of)

LEMMA ManifestStays ==
  ASSUME RootfsInv, NEW r \in Runs, StoreMoves(r), RunMoves(r) \/ run' = run,
         NEW m, m.of \in Runs, ManifestFits(m)
  PROVE  ManifestFits(m)'
<1> DEFINE q == m.of
<1>1. /\ run'[q].plan = run[q].plan /\ run'[q].told = run[q].told /\ Settled(q)'
      /\ store'[q] # "none" /\ (store[q] \in Stored => store'[q] \in Stored)
  <2>1. CASE q = r
    BY <2>1, OthersStay DEF RunMoves, ManifestFits, Ready, StoreFits, Settled
  <2>2. CASE q # r
    BY <2>2, OthersStay DEF ManifestFits, Ready, StoreFits, Settled
  <2>3. QED
    BY <2>1, <2>2
<1>2. QED
  BY <1>1 DEF ManifestFits, Ready, StoreFits, withImage

LEMMA ManifestsFitNext ==
  ASSUME RootfsInv, RootfsParameters, NEW r \in Runs, RunStep(r) \/ Aleph(r)
  PROVE  ManifestsFit' /\ manifests' \in [Files -> [of: Runs, hash: BOOLEAN] \cup {None}]
<1>0. manifests \in [Files -> [of: Runs, hash: BOOLEAN] \cup {None}]
  BY DEF RootfsInv, RootfsPlain, RootfsTypeOK
<1>1. StoreMoves(r) /\ (RunMoves(r) \/ run' = run)
  BY RunStepFits, AlephFits DEF Fine
<1>2. ASSUME NEW f \in Files, validManifest(manifests[f])
      PROVE  manifests[f].of \in Runs /\ ManifestFits(manifests[f])
  BY <1>0, <1>2 DEF RootfsInv, ManifestsFit, ManifestFits, Settled, validManifest
<1>3. ASSUME NEW f \in Files, validManifest(manifests[f]) PROVE ManifestFits(manifests[f])'  \/ manifests'[f] # manifests[f]
  <2> DEFINE m == manifests[f]
  <2>1. PICK c : c = m
    OBVIOUS
  <2>2. ManifestFits(c)'
    BY <1>1, <1>2, <1>3, <2>1, ManifestStays
  <2>3. QED
    BY <2>1, <2>2 DEF ManifestFits, Ready, StoreFits, withImage, Settled
<1>4. CASE manifests' = manifests
  BY <1>0, <1>3, <1>4 DEF ManifestsFit, ManifestFits, Settled, validManifest
<1>5. CASE /\ run[r].pc \in Writing /\ fileOf(r) \in Files
           /\ manifests' = [manifests EXCEPT ![fileOf(r)] = manifestOf(r)]
           /\ run'[r].pc \in {"latest", "versioned", "done"} /\ run'[r].plan = run[r].plan
           /\ run'[r].told = run[r].told /\ store' = store
  <2> DEFINE m == manifestOf(r)
  <2>1. m \in [of: Runs, hash: BOOLEAN] /\ m.of = r /\ (m.hash => hasPublication(r))
    BY DEF manifestOf, hasPublication
  <2>2. manifests'[fileOf(r)] = m /\ \A f \in Files : f # fileOf(r) => manifests'[f] = manifests[f]
    BY <1>0, <1>5
  <2>3. manifests' \in [Files -> [of: Runs, hash: BOOLEAN] \cup {None}]
    BY <1>0, <1>5, <2>1
  <2>4. ASSUME m.hash PROVE Ready(r)' /\ run'[r].plan \in Plans /\ Settled(r)'
    <3>1. StoreFits(r) /\ (~withImage(r) => ~run[r].told) /\ run[r].plan \in Plans
      BY <1>5, <2>1, <2>4, Before DEF Uploaded, Heeded, Begun, Writing, at
    <3>2. QED
      BY <1>5, <3>1 DEF Ready, StoreFits, withImage, Settled, Ended
  <2>5. ASSUME NEW f \in Files, validManifest(manifests[f])'
        PROVE  ManifestFits(manifests[f])'
    <3>1. CASE f = fileOf(r)
      BY <2>1, <2>2, <2>4, <2>5, <3>1 DEF ManifestFits, validManifest, Ready, StoreFits, withImage, Settled
    <3>2. CASE f # fileOf(r)
      BY <1>3, <2>2, <2>5, <3>2 DEF validManifest
    <3>3. QED
      BY <3>1, <3>2
  <2>6. QED
    BY <2>3, <2>5 DEF ManifestsFit, ManifestFits, Settled
<1>6. QED
  BY <1>4, <1>5, ManifestsChange, AlephFits

LEMMA PlainNext ==
  ASSUME RootfsInv, RootfsParameters, NEW r \in Runs, RunStep(r) \/ Aleph(r)
  PROVE  RootfsPlain'
<1>1. run' \in [Runs -> RunType] /\ store' \in [Runs -> Statuses]
  BY RunStepFits, AlephFits, OthersStay DEF Fine
<1>2. manifests' \in [Files -> [of: Runs, hash: BOOLEAN] \cup {None}]
  BY ManifestsFitNext
<1>3. panel' = panel /\ refresh' = refresh /\ start' = start
  BY AlephFits DEF RunStep, Start, Refuse, Build, BuildFails, Add, AddFails, StartNode, Provide, ProvideFails,
         Gateway, GatewayTimesOut, Pin, PinRejected, PinFails, AddFile, AddFileFails, Lookup, LookupFails,
         WriteArtifacts, CleanUp, WriteManifest, WriteFails, Cancel, page
<1>4. held' \subseteq Runs
  BY AlephFits DEF RunStep, Start, Refuse, Build, BuildFails, Add, AddFails, StartNode, Provide, ProvideFails,
         Gateway, GatewayTimesOut, Pin, PinRejected, PinFails, AddFile, AddFileFails, Lookup, LookupFails,
         WriteArtifacts, CleanUp, WriteManifest, WriteFails, Cancel, RootfsInv, RootfsPlain, RootfsTypeOK
<1>5. serving' \subseteq Runs
  BY AlephFits DEF RunStep, Start, Refuse, Build, BuildFails, Add, AddFails, StartNode, Provide, ProvideFails,
         Gateway, GatewayTimesOut, Pin, PinRejected, PinFails, AddFile, AddFileFails, Lookup, LookupFails,
         WriteArtifacts, CleanUp, WriteManifest, WriteFails, Cancel, RootfsInv, RootfsPlain, RootfsTypeOK
<1>6. faults' \in 0 .. MaxFaults
  <2>1. faults \in 0 .. MaxFaults /\ MaxFaults \in Nat
    BY DEF RootfsInv, RootfsPlain, RootfsTypeOK, RootfsParameters
  <2>2. faults' = faults \/ (faults < MaxFaults /\ faults' = faults + 1)
    BY AlephFits DEF RunStep, Start, Refuse, Build, BuildFails, Add, AddFails, StartNode, Provide, ProvideFails,
         Gateway, GatewayTimesOut, Pin, PinRejected, PinFails, AddFile, AddFileFails, Lookup, LookupFails,
         WriteArtifacts, CleanUp, WriteManifest, WriteFails, Cancel, Failing
  <2>3. QED
    BY <2>1, <2>2
<1>x. start \in StartType /\ start' = start
  BY <1>3 DEF RootfsInv, RootfsPlain, RootfsTypeOK, StartType
<1>7. RootfsTypeOK'
  BY <1>1, <1>2, <1>4, <1>5, <1>6, <1>x DEF RootfsTypeOK, RunType, StartType
<1>8. QED
  BY <1>3, <1>7 DEF RootfsInv, RootfsPlain

LEMMA PageFitsNext ==
  ASSUME RootfsInv, RootfsParameters, NEW r \in Runs, RunStep(r) \/ Aleph(r)
  PROVE  PageFits'
<1>1. panel' = panel /\ refresh' = refresh /\ start' = start
  BY AlephFits DEF RunStep, Start, Refuse, Build, BuildFails, Add, AddFails, StartNode, Provide, ProvideFails,
         Gateway, GatewayTimesOut, Pin, PinRejected, PinFails, AddFile, AddFileFails, Lookup, LookupFails,
         WriteArtifacts, CleanUp, WriteManifest, WriteFails, Cancel, page
<1>2. \A q \in Runs : store[q] \in Stored => store'[q] \in Stored
  BY RunStepFits, AlephFits, OthersStay DEF Fine
<1>3. /\ \A t \in Refreshes : refresh[t].manifest \in [of: Runs, hash: BOOLEAN] \cup {None}
      /\ panel.manifest \in [of: Runs, hash: BOOLEAN] \cup {None}
      /\ start \in StartType
  BY DEF RootfsInv, RootfsPlain, RootfsTypeOK, StartType
<1>4. QED
  BY <1>1, <1>2, <1>3 DEF RootfsInv, PageFits, validManifest, StartType

(* A refresh shows what it has looked up, though the file may be another   *)
(* one by then: the lookups are of the manifest it holds.                  *)
RefreshType == [at: {"idle", "verify", "resolve", "show"},
                manifest: [of: Runs, hash: BOOLEAN] \cup {None},
                verified: BOOLEAN, status: Statuses \cup {"unknown"}]

RefreshFits(x) ==
    /\ x.at \in {"verify", "resolve"} => validManifest(x.manifest) /\ x.status = "unknown"
    /\ x.at = "show" /\ validManifest(x.manifest) /\ x.status = "processed" =>
         store[x.manifest.of] \in Stored

LEMMA RefreshAssigned ==
  ASSUME RootfsInv, NEW t \in Refreshes, NEW x \in RefreshType, RefreshFits(x),
         refresh' = [refresh EXCEPT ![t] = x], UNCHANGED <<publisher, panel, start, faults>>
  PROVE  RootfsInv'
<1>1. refresh \in [Refreshes -> RefreshType]
  BY DEF RootfsInv, RootfsPlain, RefreshType
<1>2. refresh' \in [Refreshes -> RefreshType] /\ \A s \in Refreshes : refresh'[s] = IF s = t THEN x ELSE refresh[s]
  BY <1>1
<1>3. UNCHANGED <<run, held, serving, store, manifests, panel, start, faults>>
  BY DEF publisher
<1>4. RootfsPlain'
  BY <1>2, <1>3 DEF RootfsInv, RootfsPlain, RootfsTypeOK, RefreshType
<1>5. RunsFit' /\ ManifestsFit'
  BY <1>3 DEF RootfsInv, RunsFit, Begun, Uploaded, Heeded, at, withImage, hasPublication, StoreFits, ManifestsFit, Ready
<1>6. \A s \in Refreshes : RefreshFits(refresh[s])
  BY DEF RootfsInv, PageFits, RefreshFits
<1>7. PageFits'
  BY <1>2, <1>3, <1>6 DEF RootfsInv, PageFits, RefreshFits
<1>8. QED
  BY <1>4, <1>5, <1>7 DEF RootfsInv

(* So do the steps of the page.                                            *)
LEMMA PageNext ==
  ASSUME RootfsInv, RootfsParameters, NEW t \in Refreshes, Page(t)
  PROVE  RootfsInv'
<1>0. PICK o \in RefreshType : o = refresh[t]
  BY DEF RootfsInv, RootfsPlain, RefreshType
<1>z. NotRead \in RefreshType /\ NotRead.status = "unknown" /\ NotRead.at = "idle" /\ RefreshFits(NotRead)
  BY DEF NotRead, RefreshType, RefreshFits
<1>1. PICK n \in RefreshType : n = NotRead /\ n.status = "unknown" /\ n.at = "idle" /\ RefreshFits(n)
  BY <1>z
<1>2. CASE ResolveManifest(t)
  <2>1. PICK m \in offered :
          refresh' = [refresh EXCEPT ![t] =
                        [NotRead EXCEPT !.at = IF validManifest(m) THEN "verify" ELSE "show", !.manifest = m]]
    BY <1>2 DEF ResolveManifest
  <2>2. m \in [of: Runs, hash: BOOLEAN] \cup {None}
    BY DEF offered, RootfsInv, RootfsPlain, RootfsTypeOK, RootfsParameters, Files
  <2> DEFINE at1 == IF validManifest(m) THEN "verify" ELSE "show"
             x == [n EXCEPT !.at = at1, !.manifest = m]
  <2>3. at1 \in {"verify", "show"} /\ (at1 = "verify" => validManifest(m))
    OBVIOUS
  <2>4. refresh' = [refresh EXCEPT ![t] = x]
    BY <1>1, <2>1
  <2> HIDE DEF at1
  <2>5. x \in RefreshType /\ x.at = at1 /\ x.manifest = m /\ x.status = "unknown"
    BY <1>1, <2>2, <2>3 DEF RefreshType
  <2> HIDE DEF x
  <2>6. RefreshFits(x)
    BY <2>3, <2>5 DEF RefreshFits
  <2>7. QED
    BY <1>2, <2>4, <2>5, <2>6, RefreshAssigned DEF ResolveManifest
<1>a. refresh[t].at \in {"verify", "resolve"} => validManifest(o.manifest) /\ o.status = "unknown" /\ o.manifest.of \in Runs
  BY <1>0 DEF RootfsInv, PageFits, validManifest, RefreshType
<1>b. \A r \in Runs : answers(r) \subseteq Statuses \cup {"unknown"} /\ ("processed" \in answers(r) => store[r] \in Stored)
  BY DEF answers, Statuses, Stored, RootfsInv, RootfsPlain, RootfsTypeOK
<1>3. CASE Verify(t)
  <2>1. PICK answer \in answers(o.manifest.of) :
          refresh' = [refresh EXCEPT ![t] = [o EXCEPT !.at = "resolve", !.verified = answer # "unknown"]]
    BY <1>0, <1>3 DEF Verify
  <2> DEFINE b == answer # "unknown"
             x == [o EXCEPT !.at = "resolve", !.verified = b]
  <2>2. b \in BOOLEAN
    OBVIOUS
  <2> HIDE DEF b
  <2>3. x \in RefreshType /\ x.at = "resolve" /\ x.manifest = o.manifest /\ x.status = o.status
    BY <2>2 DEF RefreshType
  <2>4. refresh' = [refresh EXCEPT ![t] = x]
    BY <2>1 DEF b
  <2> HIDE DEF x
  <2>5. RefreshFits(x)
    BY <1>3, <1>a, <2>3 DEF RefreshFits, Verify
  <2>6. QED
    BY <1>3, <2>3, <2>4, <2>5, RefreshAssigned DEF Verify
<1>4. CASE Resolve(t)
  <2>1. PICK answer \in answers(o.manifest.of) :
          refresh' = [refresh EXCEPT ![t] = [o EXCEPT !.at = "show", !.status = answer]]
    BY <1>0, <1>4 DEF Resolve
  <2> DEFINE x == [o EXCEPT !.at = "show", !.status = answer]
  <2>2. o.manifest.of \in Runs /\ answer \in Statuses \cup {"unknown"}
        /\ (answer = "processed" => store[o.manifest.of] \in Stored)
    BY <1>4, <1>a, <1>b DEF Resolve
  <2>3. x \in RefreshType /\ x.at = "show" /\ x.manifest = o.manifest /\ x.status = answer
    BY <2>2 DEF RefreshType
  <2> HIDE DEF x
  <2>4. RefreshFits(x)
    BY <2>2, <2>3 DEF RefreshFits
  <2>5. QED
    BY <1>4, <2>1, <2>3, <2>4, RefreshAssigned DEF Resolve, x
<1>5. CASE RefreshFails(t)
  BY <1>1, <1>5, RefreshAssigned DEF RefreshFails
<1>6. CASE Show(t)
  <2> DEFINE y == [manifest |-> refresh[t].manifest,
                   health |-> rootfsHealth(refresh[t].manifest, refresh[t].verified, refresh[t].status)]
  <2>1. panel' = y /\ refresh' = [refresh EXCEPT ![t] = NotRead] /\ UNCHANGED <<run, held, serving, store, manifests, start, faults>>
    BY <1>6 DEF Show, publisher
  <2>2. refresh \in [Refreshes -> RefreshType]
    BY DEF RootfsInv, RootfsPlain, RefreshType
  <2>3. refresh' \in [Refreshes -> RefreshType] /\ \A s \in Refreshes : refresh'[s] = IF s = t THEN NotRead ELSE refresh[s]
    BY <1>1, <2>1, <2>2
  <2>5. y.manifest \in [of: Runs, hash: BOOLEAN] \cup {None}
    BY <1>0 DEF RefreshType
  <2>6. RootfsPlain'
    BY <2>1, <2>3, <2>5 DEF RootfsInv, RootfsPlain, RootfsTypeOK, RefreshType
  <2>7. RunsFit' /\ ManifestsFit'
    BY <2>1 DEF RootfsInv, RunsFit, Begun, Uploaded, Heeded, at, withImage, hasPublication, StoreFits, ManifestsFit, Ready
  <2>8. y.health = "rootfs-ready" =>
          validManifest(refresh[t].manifest) /\ refresh[t].status = "processed"
    BY DEF rootfsHealth
  <2>9. \A s \in Refreshes : RefreshFits(refresh[s])
    BY DEF RootfsInv, PageFits, RefreshFits
  <2>10. panel'.health = "rootfs-ready" =>
           validManifest(panel'.manifest) /\ store[panel'.manifest.of] \in Stored
    BY <1>6, <2>1, <2>8, <2>9 DEF RefreshFits, Show
  <2>11. PageFits'
    BY <1>1, <2>1, <2>3, <2>9, <2>10 DEF PageFits, RefreshFits, validManifest, RootfsInv
  <2>12. QED
    BY <2>6, <2>7, <2>11 DEF RootfsInv
<1>7. QED
  BY <1>2, <1>3, <1>4, <1>5, <1>6 DEF Page

(* And so do those of the deploy, which takes from the panel what the panel *)
(* shows as ready.                                                         *)
LEMMA StartNext ==
  ASSUME RootfsInv, RootfsParameters, Deploy \/ ReadImage \/ DeployIsOver
  PROVE  RootfsInv'
<1>1. UNCHANGED <<run, held, serving, store, manifests, panel, refresh, faults>>
  BY DEF Deploy, ReadImage, DeployIsOver, publisher
<1>2. deployable => panel.manifest.of \in Runs /\ store[panel.manifest.of] \in Stored
  <2>1. deployable => panel.health = "rootfs-ready"
    BY DEF deployable, tone
  <2>2. panel.health = "rootfs-ready" =>
          panel.manifest \in [of: Runs, hash: BOOLEAN] /\ store[panel.manifest.of] \in Stored
    BY DEF RootfsInv, RootfsPlain, PageFits, validManifest
  <2>3. QED
    BY <2>1, <2>2
<1>3. NotStarted \in StartType /\ NotStarted.at = "idle" /\ ~NotStarted.seen
  BY DEF NotStarted, StartType
<1>4. /\ start' \in StartType
      /\ start'.at = "preparing" => store[start'.checked] \in Stored /\ start'.checked \in Runs
      /\ start'.seen => store[start'.image] \in Stored /\ start'.image \in Runs
  <2>1. CASE Deploy
    <3>1. start' = [NotStarted EXCEPT !.at = "preparing", !.checked = panel.manifest.of]
      BY <2>1 DEF Deploy
    <3>2. panel.manifest.of \in Runs /\ store[panel.manifest.of] \in Stored
      BY <1>2, <2>1 DEF Deploy
    <3>3. QED
      BY <3>1, <3>2 DEF NotStarted, StartType
  <2>2. CASE ReadImage
    <3>1. PICK i \in Runs, confidential \in BOOLEAN :
            /\ ~confidential => validManifest(panel.manifest) /\ panel.manifest.of = i
            /\ start' = [NotStarted EXCEPT !.at = "deploying", !.image = i,
                           !.seen = (i = start.checked \/ (~confidential /\ deployable))]
      BY <2>2 DEF ReadImage
    <3> DEFINE seen == i = start.checked \/ (~confidential /\ deployable)
    <3>2. seen => store[i] \in Stored
      <4>1. CASE i = start.checked
        BY <2>2, <4>1 DEF RootfsInv, PageFits, ReadImage
      <4>2. CASE ~confidential /\ deployable
        BY <1>2, <3>1, <4>2
      <4>3. QED
        BY <4>1, <4>2
    <3>3. seen \in BOOLEAN
      OBVIOUS
    <3> HIDE DEF seen
    <3>4. start' = [NotStarted EXCEPT !.at = "deploying", !.image = i, !.seen = seen]
      BY <3>1 DEF seen
    <3>5. QED
      BY <3>2, <3>3, <3>4 DEF NotStarted, StartType
  <2>3. CASE DeployIsOver
    BY <1>3, <2>3 DEF DeployIsOver
  <2>4. QED
    BY <2>1, <2>2, <2>3
<1>5. RootfsPlain'
  BY <1>1, <1>4 DEF RootfsInv, RootfsPlain, RootfsTypeOK, StartType
<1>6. RunsFit' /\ ManifestsFit'
  BY <1>1 DEF RootfsInv, RunsFit, Begun, Uploaded, Heeded, at, withImage, hasPublication, StoreFits, ManifestsFit, Ready
<1>7. PageFits'
  BY <1>1, <1>4 DEF RootfsInv, PageFits, validManifest
<1>8. QED
  BY <1>5, <1>6, <1>7 DEF RootfsInv

(* The inductive invariant is an invariant.                                *)
THEOREM RootfsInvariance == RootfsSpec => []RootfsInv
<1>1. RootfsInit => RootfsInv
  <2> SUFFICES ASSUME RootfsInit PROVE RootfsInv
    OBVIOUS
  <2>1. NotBegun \in RunType
    BY DEF NotBegun, RunType
  <2>2. RootfsTypeOK
    BY <2>1, RootfsAssumption DEF RootfsInit, RootfsTypeOK, RunType, Statuses, RootfsParameters, NotStarted
  <2>3. RootfsPlain
    <3>1. NotRead \in RefreshType
      BY DEF NotRead, RefreshType
    <3>2. QED
      BY <2>2, <3>1 DEF RootfsInit, RootfsPlain, RefreshType
  <2>4. RunsFit
    BY DEF RootfsInit, RunsFit, Begun, Uploaded, Heeded, NotBegun, at, Writing
  <2>5. ManifestsFit /\ PageFits
    BY DEF RootfsInit, ManifestsFit, validManifest, PageFits, NotRead, NotStarted
  <2>6. QED
    BY <2>3, <2>4, <2>5 DEF RootfsInv
<1>2. ASSUME RootfsInv, [RootfsNext]_rootfsVars PROVE RootfsInv'
  <2>1. ASSUME NEW r \in Runs, RunStep(r) \/ Aleph(r) PROVE RootfsInv'
    BY <1>2, <2>1, RootfsAssumption, PlainNext, RunsFitNext, ManifestsFitNext, PageFitsNext DEF RootfsInv
  <2>2. ASSUME NEW t \in Refreshes, Page(t) PROVE RootfsInv'
    BY <1>2, <2>2, RootfsAssumption, PageNext
  <2>3. CASE UNCHANGED rootfsVars
    BY <1>2, <2>3 DEF rootfsVars, RootfsInv, RootfsPlain, RootfsTypeOK, RunsFit, Begun, Uploaded, Heeded, at, withImage, hasPublication,
           StoreFits, ManifestsFit, Ready, PageFits
  <2>4. ASSUME Deploy \/ ReadImage \/ DeployIsOver PROVE RootfsInv'
    BY <1>2, <2>4, RootfsAssumption, StartNext
  <2>5. QED
    BY <1>2, <2>1, <2>2, <2>3, <2>4 DEF RootfsNext
<1>3. QED
  BY <1>1, <1>2, PTL DEF RootfsSpec

(* The type invariant holds.                                               *)
THEOREM RootfsTypeCorrect == RootfsSpec => []RootfsTypeOK
<1>1. RootfsInv => RootfsTypeOK
  BY DEF RootfsInv, RootfsPlain
<1>2. QED
  BY <1>1, RootfsInvariance, PTL

(* A manifest with a hash names a STORE that Aleph was given, processed if *)
(* the run insists, and on the pin path none it was told is rejected.      *)
THEOREM PublishedStored == RootfsSpec => []PublishedIsStored
<1>1. RootfsInv => PublishedIsStored
  BY DEF RootfsInv, ManifestsFit, PublishedIsStored, Published, Ready, StoreFits
<1>2. QED
  BY <1>1, RootfsInvariance, PTL

(* A deploy uses an image that Aleph has processed, if it is the one the   *)
(* guard let pass or one the panel showed as ready when it was read,       *)
(* whatever is published while the panel looks a hash up.                  *)
THEOREM DeployedStored == RootfsSpec => []DeployedWasStored
<1>1. RootfsInv => DeployedWasStored
  BY DEF RootfsInv, PageFits, DeployedWasStored
<1>2. QED
  BY <1>1, RootfsInvariance, PTL
==============================================================================
