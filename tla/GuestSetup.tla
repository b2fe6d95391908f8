----------------------------- MODULE GuestSetup -----------------------------
(***************************************************************************)
(* The first boot of a relay guest (packages/rootfs/reference): a setup    *)
(* server waits for its configuration on two ways at once. A deployer      *)
(* posts it to /configure (push), or publishes it in an Aleph aggregate    *)
(* the guest polls and acknowledges with a signal post (pull). A shell     *)
(* script applies it, marks the guest ready and starts the relay; another  *)
(* unit announces the AutoTLS addresses once their certificate is there.   *)
(*                                                                         *)
(* The two reference profiles share this shape and differ in the places    *)
(* where a definition names one of them. Every disk write of the script    *)
(* that another process looks at is a step; the guest reboots anywhere.    *)
(***************************************************************************)
EXTENDS Naturals, FiniteSets

CONSTANTS
    Profiles,       \* profiles of the instance
    Configs,        \* configurations a deployer may send
    Requests,       \* POST requests to /configure
    MaxAttempts,    \* attempts of waitForVmBootstrapConfigSignal
    MaxFailures,    \* bound on reads, scripts and broadcasts that fail
    MaxReboots,     \* bound on reboots
    None

ConfigType ==
    [ ipv4: BOOLEAN,    \* has runtime.publicIpv4
      ports: BOOLEAN,   \* has the mapped TCP and WS ports
      proxy: BOOLEAN,   \* has a proxy host name
      start: BOOLEAN ]  \* not no_start

Kinds == {"direct", "proxy", "autotls"}
Certificates == {"proxy", "autotls"}

EnvType == [cfg: Configs, announce: SUBSET (Kinds \X Configs)]

Threads == {"poll"} \cup Requests

ASSUME GuestAssumption ==
    /\ Profiles \subseteq {"uc-go-peer", "orbitdb-relay"}
    /\ Configs \subseteq ConfigType
    /\ IsFiniteSet(Requests) /\ "poll" \notin Requests
    /\ None \notin Threads /\ None \notin EnvType
    /\ MaxAttempts \in Nat \ {0} /\ MaxFailures \in Nat /\ MaxReboots \in Nat

VARIABLES
    profile,
    handoff,        \* "push", "pull" or "both": how deployers reach the guest
    locator,        \* the marker is in authorized_keys
    record,         \* the record under the deployment token, status pending
    signals,        \* signal posts listed
    deployer,       \* [pc, attempts]
    env,            \* ENV_FILE: [cfg, announce], None before the first script
    ready,          \* READY_FILE exists
    autotlsReady,   \* AUTOTLS_READY_FILE exists
    metadata,       \* METADATA_FILE and METADATA_ERROR_FILE
    relay,          \* the environment the relay service runs with
    zoned,          \* the relay knows its AutoTLS host names
    serving,        \* certificates that a TLS handshake finds
    server,         \* setup service: "on", "stopping" or "off"
    thread,         \* threads of the setup server
    lock,           \* holder of CONFIGURE_LOCK
    generating,     \* background threads in _generate_metadata_files
    refresh,        \* the AutoTLS refresh unit
    failures, reboots,
    applied         \* history: times READY_FILE was written

deployVars == <<handoff, locator, record, signals, deployer>>
fileVars == <<env, ready, autotlsReady>>
relayVars == <<relay, zoned, serving>>
serverVars == <<server, thread, lock, generating>>
bounds == <<failures, reboots>>
vars == <<profile, deployVars, fileVars, metadata, relayVars, serverVars,
          refresh, bounds, applied>>

-----------------------------------------------------------------------------
(* describe: what the guest reports of itself *)

NoMetadata == [ready |-> FALSE, addrs |-> {}, error |-> FALSE]

(* tls_endpoint_serves, on the local listener *)
certificateServes(kind) == kind \in serving

(* build_probe_multiaddrs and build_grouped_multiaddrs *)
multiaddrs ==
    {k \in Certificates : IF k = "proxy" THEN relay.cfg.proxy ELSE zoned}

(* The browser addresses, less the ones whose certificate is not served. *)
describedBrowser == {k \in multiaddrs : certificateServes(k)}

(* The script fails when the relay has not told its peer id. *)
describable == relay # None

(* uc-go-peer leaves one of the two files, METADATA_FILE or the error ... *)
ucDescribedInto(old) ==
    [old EXCEPT !.ready = describable, !.error = ~describable,
                !.addrs = IF describable THEN describedBrowser ELSE @]

(* ... orbitdb-relay only ever adds to them. *)
orbitDescribedInto(old) ==
    [old EXCEPT !.ready = @ \/ describable, !.error = @ \/ ~describable,
                !.addrs = IF describable THEN describedBrowser ELSE @]

describedInto(old) ==
    IF profile = "uc-go-peer" THEN ucDescribedInto(old) ELSE orbitDescribedInto(old)

GenerateMetadata ==
    /\ generating > 0
    /\ generating' = generating - 1
    /\ metadata' = describedInto(metadata)
    /\ UNCHANGED <<profile, deployVars, fileVars, relayVars, server, thread,
                   lock, refresh, bounds, applied>>

-----------------------------------------------------------------------------
(* Ways to a configuration *)

(* _build_configure_args, and the checks of do_POST *)
ucUsable(cfg) == cfg.ipv4

(* _build_configure_args_from_record, and the checks of do_POST *)
orbitUsable(cfg) == cfg.ipv4 /\ cfg.ports

usable(cfg) == IF profile = "uc-go-peer" THEN ucUsable(cfg) ELSE orbitUsable(cfg)

(* _load_vm_bootstrap_record: the locator in authorized_keys leads to the  *)
(* aggregate, and the record has to be of this guest and pending.          *)
recordFound == locator /\ record # None

at(t, pc) == server # "off" /\ thread[t].pc = pc
goes(t, pc) == [thread EXCEPT ![t].pc = pc]

(* One round of _poll_bootstrap_config_loop. A record that is missing or   *)
(* unusable is looked for again.                                           *)
Poll ==
    /\ at("poll", "loop")
    /\ \/ ready /\ thread' = goes("poll", "ended")
       \/ /\ ~ready /\ recordFound /\ usable(record)
          /\ thread' = [thread EXCEPT !["poll"] = [pc |-> "acquire", cfg |-> record]]
    /\ UNCHANGED <<profile, deployVars, fileVars, metadata, relayVars, server,
                   lock, generating, refresh, bounds, applied>>

(* A read that fails in a way _load_vm_bootstrap_record does not catch (a  *)
(* connection reset, an answer cut short, one that is no aggregate) ends   *)
(* the daemon thread: nobody polls until the guest is booted again.        *)
PollDies ==
    /\ at("poll", "loop") /\ ~ready /\ locator
    /\ failures < MaxFailures
    /\ failures' = failures + 1
    /\ thread' = goes("poll", "died")
    /\ UNCHANGED <<profile, deployVars, fileVars, metadata, relayVars, server,
                   lock, generating, refresh, reboots, applied>>

(* do_POST: uc-go-peer goes through _run_configure_process, orbitdb-relay  *)
(* runs the script right away.                                             *)
ucPosted == "acquire"
orbitPosted == "write"

(* What is unusable is answered 400. *)
Post(r, cfg) ==
    /\ handoff # "pull" /\ deployer.pc = "wait"
    /\ server = "on" /\ thread[r].pc = "idle"
    /\ thread' = [thread EXCEPT ![r] =
           [pc |-> IF ~usable(cfg) THEN "ended"
                   ELSE IF profile = "uc-go-peer" THEN ucPosted ELSE orbitPosted,
            cfg |-> cfg]]
    /\ UNCHANGED <<profile, deployVars, fileVars, metadata, relayVars, server,
                   lock, generating, refresh, bounds, applied>>

(* Mutant: whoever has the lock configures, ready or not. *)
Acquire_NoCheck(t) ==
    /\ at(t, "acquire") /\ lock = None
    /\ thread' = goes(t, "write") /\ lock' = t
    /\ UNCHANGED <<profile, deployVars, fileVars, metadata, relayVars, server,
                   generating, refresh, bounds, applied>>

(* Mutant: a record that lost is acknowledged all the same. *)
Acquire_SignalsAnyway(t) ==
    /\ at(t, "acquire") /\ lock = None
    /\ \/ ready /\ UNCHANGED lock
          /\ thread' = goes(t, IF t = "poll" THEN "signal" ELSE "ended")
       \/ ~ready /\ thread' = goes(t, "write") /\ lock' = t
    /\ UNCHANGED <<profile, deployVars, fileVars, metadata, relayVars, server,
                   generating, refresh, bounds, applied>>

(* The head of _run_configure_process *)
Acquire(t) ==
    /\ at(t, "acquire") /\ lock = None
    /\ \/ ready /\ thread' = goes(t, "ended") /\ UNCHANGED lock
       \/ ~ready /\ thread' = goes(t, "write") /\ lock' = t
    /\ UNCHANGED <<profile, deployVars, fileVars, metadata, relayVars, server,
                   generating, refresh, bounds, applied>>

released(t) == IF lock = t THEN None ELSE lock

(* Mutant: a poll that failed is over. *)
Fails_GivesUp(t) ==
    /\ failures < MaxFailures
    /\ failures' = failures + 1
    /\ thread' = goes(t, "ended")
    /\ lock' = released(t)

(* A step that fails ends a request; the poll thread goes round again. *)
Fails(t) ==
    /\ failures < MaxFailures
    /\ failures' = failures + 1
    /\ thread' = goes(t, IF t = "poll" THEN "loop" ELSE "ended")
    /\ lock' = released(t)

-----------------------------------------------------------------------------
(* The configure script (external: shell) as a thread runs it *)

(* It drops what an earlier run learnt about AutoTLS and writes the        *)
(* environment, with the announced addresses of the new configuration.     *)
ScriptWrites(t) ==
    /\ at(t, "write")
    /\ LET cfg == thread[t].cfg IN
         env' = [cfg |-> cfg,
                 announce |-> {<<"direct", cfg>>} \cup
                    IF profile = "orbitdb-relay" /\ cfg.proxy
                    THEN {<<"proxy", cfg>>} ELSE {}]
    /\ autotlsReady' = FALSE
    /\ thread' = goes(t, "touch")
    /\ UNCHANGED <<profile, deployVars, ready, metadata, relayVars, server,
                   lock, generating, refresh, bounds, applied>>

ScriptTouches(t) ==
    /\ at(t, "touch")
    /\ ready' = TRUE
    /\ applied' = applied + 1
    /\ thread' = goes(t, "start")
    /\ UNCHANGED <<profile, deployVars, env, autotlsReady, metadata, relayVars,
                   server, lock, generating, refresh, bounds>>

(* It restarts the relay and the AutoTLS unit, unless told not to. *)
ScriptStarts(t) ==
    /\ at(t, "start")
    /\ thread' = goes(t, "report")
    /\ IF thread[t].cfg.start
       THEN /\ relay' = env
            /\ zoned' = FALSE /\ serving' = {}
            /\ refresh' = [pc |-> "due", env |-> None]
       ELSE UNCHANGED <<relayVars, refresh>>
    /\ UNCHANGED <<profile, deployVars, fileVars, metadata, server, lock,
                   generating, bounds, applied>>

(* set -e: any of its commands may end it early. *)
ScriptFails(t) ==
    /\ at(t, "write") \/ at(t, "start")
    /\ Fails(t)
    /\ UNCHANGED <<profile, deployVars, fileVars, metadata, relayVars, server,
                   generating, refresh, reboots, applied>>

-----------------------------------------------------------------------------
(* After the script *)

(* uc-go-peer starts a thread that describes the relay, and so does the    *)
(* request of orbitdb-relay; the poll thread of orbitdb-relay describes it *)
(* itself. Both clear the files of an earlier run first.                   *)
Reports(t) ==
    /\ at(t, "report")
    /\ IF profile = "orbitdb-relay" /\ t = "poll"
       THEN /\ metadata' = describedInto(NoMetadata)
            /\ UNCHANGED generating
       ELSE /\ metadata' = NoMetadata
            /\ generating' = generating + 1
    /\ thread' = goes(t, IF t = "poll" THEN "signal" ELSE "ended")
    /\ lock' = IF t = "poll" THEN lock ELSE released(t)
    /\ UNCHANGED <<profile, deployVars, fileVars, relayVars, server, refresh,
                   bounds, applied>>

(* BOOTSTRAP_CONFIG_SIGNAL_POST_TYPE *)
signalType ==
    IF profile = "uc-go-peer" THEN "vm-bootstrap-config-status"
    ELSE "vm-bootstrap-config-signal"

signalOf(cfg, addrs) == [type |-> signalType, cfg |-> cfg, addrs |-> addrs]

(* The _fresh_metadata_payload a signal is made from: uc-go-peer describes *)
(* the relay again, orbitdb-relay reads the file.                          *)
metadataForSignal ==
    IF profile = "uc-go-peer" THEN describedInto(metadata) ELSE metadata

(* _publish_vm_bootstrap_config_signal *)
Signals ==
    /\ at("poll", "signal")
    /\ metadata' = metadataForSignal
    /\ metadata'.ready
    /\ signals' = signals \cup {signalOf(thread["poll"].cfg, metadata'.addrs)}
    /\ thread' = goes("poll", "ended")
    /\ lock' = released("poll")
    /\ UNCHANGED <<profile, handoff, locator, record, deployer, fileVars,
                   relayVars, server, generating, refresh, bounds, applied>>

(* There is nothing to report yet, or the broadcast fails, Aleph having    *)
(* listed the post or not.                                                 *)
SignalFails ==
    /\ at("poll", "signal")
    /\ metadata' = metadataForSignal
    /\ Fails("poll")
    /\ \/ UNCHANGED signals
       \/ /\ metadata'.ready
          /\ signals' = signals \cup {signalOf(thread["poll"].cfg, metadata'.addrs)}
    /\ UNCHANGED <<profile, handoff, locator, record, deployer, fileVars,
                   relayVars, server, generating, refresh, reboots, applied>>

-----------------------------------------------------------------------------
(* The deployer *)

(* publishVmBootstrapConfig, in a pull *)
PublishRecord(cfg) ==
    /\ handoff # "push" /\ record = None /\ deployer.pc = "wait"
    /\ record' = cfg
    /\ UNCHANGED <<profile, handoff, locator, signals, deployer, fileVars,
                   metadata, relayVars, serverVars, refresh, bounds, applied>>

(* fetchVmBootstrapConfigSignals, of the post type the core asks for *)
matching == {s \in signals : s.type = "vm-bootstrap-config-status"}

(* One attempt of waitForVmBootstrapConfigSignal *)
Await ==
    /\ record # None /\ deployer.pc = "wait"
    /\ deployer' =
         IF matching # {} THEN [deployer EXCEPT !.pc = "heard"]
         ELSE IF deployer.attempts + 1 = MaxAttempts
         THEN [deployer EXCEPT !.pc = "gaveup", !.attempts = @ + 1]
         ELSE [deployer EXCEPT !.attempts = @ + 1]
    /\ UNCHANGED <<profile, handoff, locator, record, signals, fileVars,
                   metadata, relayVars, serverVars, refresh, bounds, applied>>

(* A deployer that posted polls GET /metadata. uc-go-peer describes the    *)
(* relay for every answer and falls back to the last file ...              *)
UcGetMetadata ==
    /\ profile = "uc-go-peer" /\ server = "on" /\ ready
    /\ metadata' = describedInto(metadata)
    /\ IF metadata'.ready \/ metadata.ready
       THEN deployer' = [deployer EXCEPT !.pc = "heard"]
       ELSE UNCHANGED deployer
    /\ UNCHANGED server

(* ... orbitdb-relay answers from the files, and stops its setup service   *)
(* after the first answer that is not "pending".                           *)
OrbitGetMetadata ==
    /\ profile = "orbitdb-relay" /\ server = "on"
    /\ metadata.ready \/ metadata.error
    /\ deployer' = [deployer EXCEPT !.pc = IF metadata.ready THEN "heard" ELSE "gaveup"]
    /\ server' = "stopping"
    /\ UNCHANGED metadata

GetMetadata ==
    /\ deployer.pc = "wait"
    /\ \E r \in Requests : thread[r].pc = "ended"
    /\ UcGetMetadata \/ OrbitGetMetadata
    /\ UNCHANGED <<profile, handoff, locator, record, signals, fileVars,
                   relayVars, thread, lock, generating, refresh, bounds, applied>>

(* systemctl stop, a second later: threads and scripts die with it. *)
StopService ==
    /\ server = "stopping"
    /\ server' = "off"
    /\ thread' = [t \in Threads |-> [thread[t] EXCEPT !.pc = "ended"]]
    /\ lock' = None
    /\ generating' = 0
    /\ UNCHANGED <<profile, deployVars, fileVars, metadata, relayVars, refresh,
                   bounds, applied>>

-----------------------------------------------------------------------------
(* The AutoTLS refresh unit *)

(* It starts when the guest is ready and its own work is not done yet: by  *)
(* the script, at boot, again after a failure (uc-go-peer), and by a timer *)
(* (orbitdb-relay).                                                        *)
RefreshStarts ==
    /\ refresh.pc = "due"
    /\ refresh' = IF ready /\ ~autotlsReady THEN [pc |-> "waiting", env |-> env]
                  ELSE [refresh EXCEPT !.pc = "off"]
    /\ UNCHANGED <<profile, deployVars, fileVars, metadata, relayVars,
                   serverVars, bounds, applied>>

TimerFires ==
    /\ profile = "orbitdb-relay" /\ refresh.pc = "off"
    /\ ready /\ ~autotlsReady
    /\ refresh' = [refresh EXCEPT !.pc = "due"]
    /\ UNCHANGED <<profile, deployVars, fileVars, metadata, relayVars,
                   serverVars, bounds, applied>>

(* build_announce_addrs: the host names in the log, and the proxy *)
ucAnnounce(old) ==
    old.announce \cup {<<"autotls", old.cfg>>} \cup
    IF old.cfg.proxy THEN {<<"proxy", old.cfg>>} ELSE {}

(* listener_presents_certificate, on the port of the relay *)
listenerPresents == certificateServes("autotls")

(* build_secure_addrs, if the listener presents a certificate; if not, the *)
(* addresses of an earlier run are dropped.                                *)
orbitAnnounce(old) ==
    IF listenerPresents THEN old.announce \cup {<<"autotls", old.cfg>>}
    ELSE {a \in old.announce : a[1] # "autotls"}

(* wait_for_exact_hosts or wait_for_autotls_zone has its answer: the new   *)
(* list, made from the environment read at the start, is written.          *)
RefreshWrites ==
    /\ refresh.pc = "waiting" /\ zoned
    /\ LET new == IF profile = "uc-go-peer" THEN ucAnnounce(refresh.env)
                  ELSE orbitAnnounce(refresh.env)
       IN  /\ env' = [env EXCEPT !.announce = new]
           /\ refresh' = [refresh EXCEPT !.pc =
                IF new # refresh.env.announce THEN "restart" ELSE "finish"]
    /\ UNCHANGED <<profile, deployVars, ready, autotlsReady, metadata,
                   relayVars, serverVars, bounds, applied>>

RefreshRestarts ==
    /\ refresh.pc = "restart"
    /\ relay' = env /\ zoned' = FALSE /\ serving' = {}
    /\ refresh' = [refresh EXCEPT !.pc = "finish"]
    /\ UNCHANGED <<profile, deployVars, fileVars, metadata, serverVars, bounds,
                   applied>>

(* Mutant: orbitdb-relay marks itself done whatever the probe said. *)
RefreshFinishes_Always ==
    /\ refresh.pc = "finish"
    /\ autotlsReady' = TRUE
    /\ refresh' = [pc |-> "off", env |-> None]
    /\ UNCHANGED <<profile, deployVars, env, ready, metadata, relayVars,
                   serverVars, bounds, applied>>

(* orbitdb-relay marks itself done only with the AutoTLS addresses in. *)
RefreshFinishes ==
    /\ refresh.pc = "finish"
    /\ autotlsReady' = (autotlsReady \/ profile = "uc-go-peer"
                        \/ \E cfg \in Configs : <<"autotls", cfg>> \in env.announce)
    /\ refresh' = [pc |-> "off", env |-> None]
    /\ UNCHANGED <<profile, deployVars, env, ready, metadata, relayVars,
                   serverVars, bounds, applied>>

(* The wait ran out: uc-go-peer restarts the unit, the timer of            *)
(* orbitdb-relay fires again.                                              *)
RefreshFails ==
    /\ refresh.pc = "waiting" /\ ~zoned
    /\ failures < MaxFailures
    /\ failures' = failures + 1
    /\ refresh' = [pc |-> IF profile = "uc-go-peer" THEN "due" ELSE "off", env |-> None]
    /\ UNCHANGED <<profile, deployVars, fileVars, metadata, relayVars,
                   serverVars, reboots, applied>>

-----------------------------------------------------------------------------
(* The surroundings *)

Zoned ==
    /\ relay # None /\ ~zoned
    /\ zoned' = TRUE
    /\ UNCHANGED <<profile, deployVars, fileVars, metadata, relay, serving,
                   serverVars, refresh, bounds, applied>>

Certified(kind) ==
    /\ relay # None /\ kind \notin serving
    /\ IF kind = "proxy" THEN relay.cfg.proxy ELSE zoned
    /\ serving' = serving \cup {kind}
    /\ UNCHANGED <<profile, deployVars, fileVars, metadata, relay, zoned,
                   serverVars, refresh, bounds, applied>>

(* The setup service starts unless the guest is ready, the relay and the   *)
(* AutoTLS unit start if it is; /run is empty.                             *)
Reboot ==
    /\ reboots < MaxReboots
    /\ reboots' = reboots + 1
    /\ metadata' = NoMetadata
    /\ server' = IF ready THEN "off" ELSE "on"
    /\ thread' = [t \in Threads |->
           IF t = "poll" THEN [pc |-> "loop", cfg |-> None]
           ELSE IF thread[t].pc = "idle" THEN thread[t]
           ELSE [thread[t] EXCEPT !.pc = "ended"]]
    /\ lock' = None /\ generating' = 0
    /\ relay' = IF ready THEN env ELSE None
    /\ zoned' = FALSE /\ serving' = {}
    /\ refresh' = [pc |-> IF ready THEN "due" ELSE "off", env |-> None]
    /\ UNCHANGED <<profile, deployVars, fileVars, failures, applied>>

Init ==
    /\ profile \in Profiles
    /\ handoff \in {"push", "pull", "both"}
    /\ locator = (handoff # "push")
    /\ record = None
    /\ signals = {}
    /\ deployer = [pc |-> "wait", attempts |-> 0]
    /\ env = None
    /\ ready = FALSE /\ autotlsReady = FALSE
    /\ metadata = NoMetadata
    /\ relay = None /\ zoned = FALSE /\ serving = {}
    /\ server = "on"
    /\ thread = [t \in Threads |-> [pc |-> IF t = "poll" THEN "loop" ELSE "idle", cfg |-> None]]
    /\ lock = None /\ generating = 0
    /\ refresh = [pc |-> "off", env |-> None]
    /\ failures = 0 /\ reboots = 0
    /\ applied = 0

Configure(t) ==
    Acquire(t) \/ ScriptWrites(t) \/ ScriptTouches(t) \/ ScriptStarts(t) \/ Reports(t)

Refresh == RefreshStarts \/ TimerFires \/ RefreshWrites \/ RefreshRestarts \/ RefreshFinishes

Deployer ==
    \/ \E cfg \in Configs : PublishRecord(cfg) \/ \E r \in Requests : Post(r, cfg)
    \/ Await \/ GetMetadata

Faults ==
    \/ \E t \in Threads : ScriptFails(t)
    \/ PollDies \/ SignalFails \/ RefreshFails \/ Reboot

Next ==
    \/ Poll \/ Signals \/ GenerateMetadata \/ StopService
    \/ \E t \in Threads : Configure(t)
    \/ Refresh \/ Deployer \/ Faults
    \/ Zoned \/ \E k \in Certificates : Certified(k)

Spec ==
    /\ Init /\ [][Next]_vars
    /\ WF_vars(Poll) /\ WF_vars(Signals)
    /\ \A t \in Threads : WF_vars(Configure(t))
    /\ WF_vars(Refresh)

-----------------------------------------------------------------------------
(* Properties *)

TypeOK ==
    /\ profile \in Profiles /\ handoff \in {"push", "pull", "both"}
    /\ record \in Configs \cup {None}
    /\ deployer \in [pc: {"wait", "heard", "gaveup"}, attempts: 0..MaxAttempts]
    /\ env \in EnvType \cup {None} /\ relay \in EnvType \cup {None}
    /\ ready => env # None
    /\ relay # None => ready
    /\ lock # None => thread[lock].pc \in {"write", "touch", "start", "report", "signal"}
    /\ refresh.pc \in {"off", "due", "waiting", "restart", "finish"}
    /\ generating \in 0..Cardinality(Threads)

(* However many requests arrive, and however often the guest reboots, a    *)
(* guest of uc-go-peer is configured once.                                 *)
OneConfiguration == profile = "uc-go-peer" => applied <= 1

(* What a guest of uc-go-peer acknowledges stays true: the relay it        *)
(* answers for runs with the configuration of the record, not with one     *)
(* that was posted meanwhile.                                              *)
AcknowledgedIsApplied ==
    \A s \in signals : profile = "uc-go-peer" =>
        /\ ready /\ env.cfg = s.cfg
        /\ relay # None => relay.cfg = s.cfg

(* A usable record that the guest can find is applied at last, or another  *)
(* configuration is, whatever script, describe or signal failed before:    *)
(* the poll thread goes round again. Only a read that killed that thread   *)
(* keeps the record waiting, and only until the next boot.                 *)
RecordIsApplied ==
    (record # None /\ locator /\ usable(record)) ~>
        (ready \/ thread["poll"].pc = "died")

(* Once the AutoTLS certificate is there for good, the relay announces its *)
(* AutoTLS addresses: a refresh that came too early is not the last one.   *)
(* (Of a guest that was configured once: a refresh that a second script    *)
(* overtakes writes what it read before, and marks itself done.)           *)
CertificateIsAnnounced ==
    <>[]("autotls" \in serving /\ applied = 1) =>
        <>[](relay # None => <<"autotls", relay.cfg>> \in relay.announce)

(* "configure failed, will retry" (the poll loop of both servers): a       *)
(* configuration that was pulled and applied is acknowledged.              *)
PulledIsAcknowledged ==
    handoff = "pull" /\ ready /\ at("poll", "ended") => signals # {}

(* "The first path to succeed wins; the other becomes a no-op once         *)
(* READY_FILE exists and CONFIGURE_LOCK serialises them."                  *)
(* (orbitdb-relay-setup-server.py, main)                                   *)
FirstPathWins == applied <= 1
=============================================================================
