------------------------ MODULE ConfigAggregate_proofs ------------------------
(***************************************************************************)
(* What an account's aggregates keep, for any number of deploys, clocks    *)
(* and pages, and in whatever order Aleph processes what it took: the      *)
(* ports of every instance, and the record of a deploy that waits for its  *)
(* guest.                                                                  *)
(***************************************************************************)
EXTENDS ConfigAggregate, FiniteSetTheorems, TLAPS

USE DEF account

Labels ==
    {"ports", "signPorts", "record", "config", "signConfig", "wait", "delete", "signDelete",
     "list", "forget", "done"}
Records == [createdAt: Nat, expiresAt: Nat]
Contents == UNION {[S -> (SUBSET Flags) \cup Records] : S \in SUBSET Deploys}
Outs == [key: Keys, content: Contents, time: Nat]
Messages == [n: Nat, key: Keys, content: Contents, time: Nat]
States ==
    [pc: Labels, ports: Nat, config: Nat, record: Records \cup {None}, out: Outs \cup {None},
     current: Nat \cup {None}, page: Nat, since: Nat, stale: SUBSET Nat, owed: SUBSET Nat]

Typed ==
    /\ now \in 0..MaxTime /\ sent \in Nat
    /\ forgets \subseteq [stale: SUBSET Nat, owed: SUBSET Nat]
    /\ messages \subseteq Messages
    /\ deploy \in [Deploys -> States]

Signs(d) == deploy[d].pc \in {"signPorts", "signConfig", "signDelete"}

(* Numbers tell messages apart, so that every set of them has a newest.    *)
Numbered ==
    /\ processed \subseteq 1..sent
    /\ \A m \in messages : m.n \in 1..sent /\ m.time <= now
    /\ \A m, o \in messages : m.n = o.n => m = o
    /\ \A S \in SUBSET messages : S # {} => \E m \in S : \A o \in S \ {m} : later(m, o)

(* A message about ports is about one instance and has all of its ports.   *)
PortContent(c) ==
    \E d \in Deploys :
        /\ DOMAIN c = {d} /\ c[d] \subseteq Flags /\ requiredInstancePortForwards(d) \subseteq c[d]

(* A record is in no message before it is made, and every message that has *)
(* one about a deploy that publishes or waits has the deploy's own.        *)
RecordContent(c) ==
    \A d \in DOMAIN c :
        /\ deploy[d].pc \notin {"ports", "signPorts", "record", "config"}
        /\ deploy[d].pc \in {"signConfig", "wait"} => c[d] = deploy[d].record
        /\ c[d] \in Records

Sound(m) ==
    /\ m.key = "port-forwarding" => PortContent(m.content)
    /\ m.key = "vm-bootstrap-config" => RecordContent(m.content)

Sealed(d) ==
    /\ Signs(d) => deploy[d].out \in Outs /\ Sound(deploy[d].out) /\ deploy[d].out.time <= now
    /\ deploy[d].pc = "signPorts" =>
         /\ deploy[d].out.key = "port-forwarding" /\ d \in DOMAIN deploy[d].out.content
    /\ deploy[d].pc = "signConfig" =>
         /\ deploy[d].out.key = "vm-bootstrap-config" /\ d \in DOMAIN deploy[d].out.content
         /\ deploy[d].record.createdAt <= deploy[d].out.time
    /\ deploy[d].pc \in {"config", "signConfig", "wait"} =>
         /\ deploy[d].record \in Records
         /\ deploy[d].record.expiresAt = deploy[d].record.createdAt + Life
         /\ deploy[d].record.createdAt <= now

(* A cleanup lists configuration messages, and only when they are old.     *)
Prunable(S) ==
    /\ S \subseteq 1..sent
    /\ \A m \in messages : m.n \in S => m.key = "vm-bootstrap-config" /\ m.time + Retention <= now

Old(d) ==
    /\ Prunable(deploy[d].stale) /\ deploy[d].since <= now
    /\ deploy[d].ports \in 0..sent /\ deploy[d].current \in (1..sent) \cup {None}

Flights == \A f \in forgets : Prunable(f.stale)

Published(d) ==
    /\ deploy[d].ports # 0 =>
         \E m \in messages :
             m.n = deploy[d].ports /\ m.key = "port-forwarding" /\ d \in DOMAIN m.content
    /\ deploy[d].pc = "wait" /\ now < deploy[d].record.expiresAt =>
         \E m \in messages :
             /\ m.n = deploy[d].config
             /\ m.key = "vm-bootstrap-config" /\ d \in DOMAIN m.content
             /\ deploy[d].record.createdAt <= m.time

IInv ==
    /\ Typed /\ Numbered /\ Flights
    /\ \A m \in messages : Sound(m)
    /\ \A d \in Deploys : Sealed(d) /\ Old(d) /\ Published(d)

-----------------------------------------------------------------------------
(* What aggregate(key) returns: under every name the value of some message *)
(* about it, as long as every set of messages has a newest one.            *)
LEMMA AggregateDomain ==
  ASSUME NEW key, NEW m \in messages, m.key = key, m.n \in processed, NEW s \in DOMAIN m.content
  PROVE  s \in DOMAIN aggregate(key)
BY DEF aggregate

LEMMA AggregateValue ==
  ASSUME Numbered, NEW key, NEW s \in DOMAIN aggregate(key)
  PROVE  \E m \in messages :
            m.key = key /\ s \in DOMAIN m.content /\ aggregate(key)[s] = m.content[s]
<1> DEFINE own == {m \in messages : m.key = key /\ m.n \in processed}
           about(t) == {m \in own : t \in DOMAIN m.content}
           newest(t) == CHOOSE m \in about(t) : \A o \in about(t) \ {m} : later(m, o)
<1>1. s \in UNION {DOMAIN m.content : m \in own} /\ aggregate(key)[s] = newest(s).content[s]
  <2>1. aggregate(key) = [t \in UNION {DOMAIN m.content : m \in own} |-> newest(t).content[t]]
    BY DEF aggregate
  <2> HIDE DEF newest, own
  <2>2. QED
    BY <2>1
<1>2. about(s) # {} /\ about(s) \in SUBSET messages
  BY <1>1
<1>3. \E m \in about(s) : \A o \in about(s) \ {m} : later(m, o)
  <2> HIDE DEF about
  <2>1. QED
    BY <1>2 DEF Numbered
<1>4. newest(s) \in about(s)
  <2> HIDE DEF about
  <2>1. QED
    BY <1>3
<1>5. QED
  BY <1>1, <1>4

LEMMA ContentsDef ==
  ASSUME NEW c
  PROVE  c \in Contents <=> c \in [DOMAIN c -> (SUBSET Flags) \cup Records] /\ DOMAIN c \subseteq Deploys
BY DEF Contents

LEMMA AggregateTyped ==
  ASSUME Typed, Numbered, NEW key
  PROVE  aggregate(key) \in Contents
<1>1. ASSUME NEW s \in DOMAIN aggregate(key)
      PROVE  s \in Deploys /\ aggregate(key)[s] \in (SUBSET Flags) \cup Records
  <2>1. PICK m \in messages : s \in DOMAIN m.content /\ aggregate(key)[s] = m.content[s]
    BY AggregateValue
  <2>2. m.content \in Contents
    BY DEF Typed, Messages
  <2>3. QED
    BY <2>1, <2>2, ContentsDef
<1>2. aggregate(key) \in [DOMAIN aggregate(key) -> (SUBSET Flags) \cup Records]
  <2>1. aggregate(key) = [s \in DOMAIN aggregate(key) |-> aggregate(key)[s]]
    BY DEF aggregate
  <2>2. QED
    BY <1>1, <2>1
<1>3. QED
  BY <1>1, <1>2, ContentsDef

(* What a deploy reads of the configuration is sound to publish again.     *)
LEMMA ConfigRead ==
  ASSUME IInv, NEW s \in DOMAIN aggregate("vm-bootstrap-config")
  PROVE  /\ s \in Deploys
         /\ deploy[s].pc \notin {"ports", "signPorts", "record", "config"}
         /\ deploy[s].pc \in {"signConfig", "wait"} =>
               aggregate("vm-bootstrap-config")[s] = deploy[s].record
         /\ aggregate("vm-bootstrap-config")[s] \in Records
<1>1. PICK m \in messages :
        /\ m.key = "vm-bootstrap-config" /\ s \in DOMAIN m.content
        /\ aggregate("vm-bootstrap-config")[s] = m.content[s]
  BY AggregateValue DEF IInv
<1>2. RecordContent(m.content)
  BY <1>1 DEF IInv, Sound
<1>3. s \in Deploys
  BY <1>1, ContentsDef DEF IInv, Typed, Messages
<1>4. QED
  BY <1>1, <1>2, <1>3 DEF RecordContent

LEMMA Required ==
  ASSUME NEW d \in Deploys
  PROVE  requiredInstancePortForwards(d) \subseteq Flags
BY AggregateAssumption DEF requiredInstancePortForwards, Flags

LEMMA PortsRead ==
  ASSUME IInv, NEW d \in Deploys
  PROVE  LET c == createPortForwardAggregateContent(d, aggregate("port-forwarding"))
         IN  c \in Contents /\ PortContent(c) /\ d \in DOMAIN c
<1> DEFINE a == aggregate("port-forwarding")
           read == IF d \in DOMAIN a THEN a[d] ELSE {}
           c == createPortForwardAggregateContent(d, a)
<1>1. c = [s \in {d} |-> read \cup requiredInstancePortForwards(d)]
  BY DEF createPortForwardAggregateContent, mergePortFlagMaps
<1>2. read \subseteq Flags
  <2>1. CASE d \in DOMAIN a
    <3>1. PICK m \in messages :
            m.key = "port-forwarding" /\ d \in DOMAIN m.content /\ a[d] = m.content[d]
      BY <2>1, AggregateValue DEF IInv
    <3>2. PortContent(m.content)
      BY <3>1 DEF IInv, Sound
    <3>3. QED
      BY <2>1, <3>1, <3>2 DEF PortContent
  <2>2. QED
    BY <2>1
<1> HIDE DEF read, a, c
<1>3. DOMAIN c = {d} /\ c[d] = read \cup requiredInstancePortForwards(d)
  BY <1>1
<1>4. c \in [{d} -> (SUBSET Flags) \cup Records]
  BY <1>1, <1>2, Required
<1>5. c \in Contents
  BY <1>3, <1>4, ContentsDef
<1>6. PortContent(c)
  BY <1>2, <1>3, Required DEF PortContent
<1>7. QED
  BY <1>3, <1>5, <1>6 DEF c, a

-----------------------------------------------------------------------------
(* What a deploy does to its own state, and what that means for contents   *)
(* which others hold.                                                      *)
Early == {"ports", "signPorts", "record", "config"}

Advances(d) ==
    \/ deploy[d].pc \in Early
    \/ /\ deploy'[d].pc \notin Early
       /\ deploy'[d].pc \in {"signConfig", "wait"} =>
            deploy[d].pc \in {"signConfig", "wait"} /\ deploy'[d].record = deploy[d].record

LEMMA ContentKept ==
  ASSUME NEW d \in Deploys, Advances(d),
         \A e \in Deploys : e # d => deploy'[e] = deploy[e]
  PROVE  \A m : m.content \in Contents /\ Sound(m) =>
            /\ m.key = "port-forwarding" => PortContent(m.content)
            /\ m.key = "vm-bootstrap-config" =>
                 \A e \in DOMAIN m.content :
                    /\ deploy'[e].pc \notin {"ports", "signPorts", "record", "config"}
                    /\ deploy'[e].pc \in {"signConfig", "wait"} => m.content[e] = deploy'[e].record
                    /\ m.content[e] \in Records
BY ContentsDef DEF Advances, Early, Sound, RecordContent

LEMMA OwnStep ==
  ASSUME IInv, NEW d \in Deploys, UNCHANGED now, Typed', Numbered', Flights',
         \A e \in Deploys : e # d => deploy'[e] = deploy[e],
         Advances(d),
         \A m \in messages' \ messages : Sound(m)',
         Sealed(d)', \A e \in Deploys : Old(e)' /\ Published(e)'
  PROVE  IInv'
<1>1. ASSUME NEW m \in messages' PROVE Sound(m)'
  <2>1. CASE m \in messages
    <3>1. m.content \in Contents /\ Sound(m)
      BY <2>1 DEF IInv, Typed, Messages
    <3>2. QED
      BY <3>1, ContentKept DEF Sound, RecordContent, PortContent
  <2>2. QED
    BY <2>1
<1>2. ASSUME NEW e \in Deploys, e # d PROVE Sealed(e)'
  <2>1. deploy'[e] = deploy[e] /\ Sealed(e)
    BY <1>2 DEF IInv
  <2>2. Signs(e) => deploy[e].out \in Outs /\ Sound(deploy[e].out)
    BY <2>1 DEF Sealed
  <2>3. Signs(e) => Sound(deploy[e].out)'
    BY <2>1, <2>2, ContentKept DEF Sound, RecordContent, PortContent, Outs
  <2>4. QED
    BY <2>1, <2>3 DEF Sealed, Signs
<1>3. QED
  BY <1>1, <1>2 DEF IInv

-----------------------------------------------------------------------------
(* Steps that only read, wait or give up                                   *)
LEMMA QuietStep ==
  ASSUME IInv, NEW d \in Deploys, NEW D \in States,
         UNCHANGED <<now, account>>, deploy' = [deploy EXCEPT ![d] = D],
         Advances(d), Sealed(d)', Old(d)', Published(d)'
  PROVE  IInv'
<1>1. /\ deploy' \in [Deploys -> States]
      /\ \A e \in Deploys : e # d => deploy'[e] = deploy[e]
  BY DEF IInv, Typed
<1>2. Typed' /\ Numbered'
  BY <1>1 DEF IInv, Typed, Numbered, later
<1>3. ASSUME NEW e \in Deploys PROVE Old(e)' /\ Published(e)'
  BY <1>1 DEF IInv, Old, Published, Prunable
<1>4. Flights'
  BY DEF IInv, Flights, Prunable
<1>5. QED
  BY <1>1, <1>2, <1>3, <1>4, OwnStep

(* The unsigned message of a step that reads the aggregate                 *)
LEMMA SigningStep ==
  ASSUME IInv, NEW d \in Deploys, NEW pc \in {"signPorts", "signConfig", "signDelete"},
         NEW key \in Keys, NEW c \in Contents, deploy' = signing(d, pc, key, c),
         UNCHANGED <<now, account>>, Advances(d),
         key = "port-forwarding" => PortContent(c),
         key = "vm-bootstrap-config" => RecordContent(c)',
         pc = "signPorts" => key = "port-forwarding" /\ d \in DOMAIN c,
         pc = "signConfig" =>
            /\ deploy[d].pc = "config" /\ key = "vm-bootstrap-config" /\ d \in DOMAIN c
  PROVE  IInv'
<1>0. PICK D : D = [deploy[d] EXCEPT !.pc = pc, !.out = [key |-> key, content |-> c, time |-> now]]
  OBVIOUS
<1>1. deploy[d] \in States /\ now \in Nat /\ Sealed(d) /\ Old(d) /\ Published(d)
  BY AggregateAssumption DEF IInv, Typed
<1>2. [key |-> key, content |-> c, time |-> now] \in Outs
  BY <1>1 DEF Outs
<1>3. /\ D \in States /\ D.pc = pc /\ D.out = [key |-> key, content |-> c, time |-> now]
      /\ D.record = deploy[d].record /\ D.ports = deploy[d].ports
      /\ D.stale = deploy[d].stale /\ D.since = deploy[d].since /\ D.current = deploy[d].current
  BY <1>0, <1>1, <1>2 DEF States, Labels
<1>4. deploy' = [deploy EXCEPT ![d] = D]
  BY <1>0 DEF signing
<1>5. deploy'[d] = D
  BY <1>4 DEF IInv, Typed
<1>6. Sealed(d)'
  <2>0. D.out.key = key /\ D.out.content = c
    BY <1>3
  <2>1. Sound(D.out)'
    <3>1. key = "port-forwarding" => PortContent(D.out.content)
      BY <2>0
    <3>2. key = "vm-bootstrap-config" => RecordContent(D.out.content)'
      BY <2>0
    <3>3. QED
      BY <2>0, <3>1, <3>2 DEF Sound, PortContent
  <2>2. pc = "signConfig" => deploy[d].record.createdAt <= now
    BY <1>1 DEF Sealed
  <2>3. QED
    BY <1>1, <1>2, <1>3, <1>5, <2>1, <2>2 DEF Sealed, Signs, IInv, Typed
<1>7. Old(d)' /\ Published(d)'
  BY <1>1, <1>3, <1>5 DEF Old, Prunable, Published
<1>8. QED
  BY <1>3, <1>4, <1>6, <1>7, QuietStep

LEMMA ReadPortsStep ==
  ASSUME IInv, NEW d \in Deploys, ReadPorts(d)
  PROVE  IInv'
<1>0. PICK c : c = createPortForwardAggregateContent(d, aggregate("port-forwarding"))
  OBVIOUS
<1>1. c \in Contents /\ PortContent(c) /\ d \in DOMAIN c
  BY <1>0, PortsRead
<1>2. /\ deploy[d].pc = "ports" /\ UNCHANGED <<now, account>>
      /\ deploy' = signing(d, "signPorts", "port-forwarding", c)
  BY <1>0 DEF ReadPorts, at
<1>3. Advances(d)
  BY <1>2 DEF Advances, Early
<1>4. QED
  BY <1>1, <1>2, <1>3, SigningStep DEF Keys

LEMMA ReadConfigStep ==
  ASSUME IInv, NEW d \in Deploys, ReadConfig(d)
  PROVE  IInv'
<1> DEFINE a == aggregate("vm-bootstrap-config")
<1>0. PICK c : c = createVmBootstrapConfigAggregateContent(d, deploy[d].record, a)
  OBVIOUS
<1>1. /\ deploy[d].pc = "config" /\ UNCHANGED <<now, account>>
      /\ deploy' = signing(d, "signConfig", "vm-bootstrap-config", c)
  BY <1>0 DEF ReadConfig, at
<1>2. deploy[d].record \in Records
  BY <1>1 DEF IInv, Sealed
<1>3. /\ DOMAIN c \subseteq DOMAIN a \cup {d} /\ d \in DOMAIN c
      /\ c[d] = deploy[d].record
      /\ \A s \in DOMAIN c : s # d => s \in DOMAIN a /\ c[s] = a[s]
      /\ c = [s \in DOMAIN c |-> c[s]]
  BY <1>0 DEF createVmBootstrapConfigAggregateContent, normalizeVmBootstrapConfigAggregate, with
<1> HIDE DEF a
<1>4. \A s \in DOMAIN c : s \in Deploys /\ c[s] \in Records
  BY <1>2, <1>3, ConfigRead DEF a
<1>5. c \in Contents
  <2>1. c \in [DOMAIN c -> (SUBSET Flags) \cup Records]
    BY <1>3, <1>4
  <2>2. QED
    BY <1>4, <2>1, ContentsDef
<1>6. /\ deploy'[d].pc = "signConfig" /\ deploy'[d].record = deploy[d].record
      /\ \A e \in Deploys : e # d => deploy'[e] = deploy[e]
  BY <1>1 DEF IInv, Typed, States, signing
<1>7. RecordContent(c)'
  BY <1>3, <1>4, <1>6, ConfigRead DEF RecordContent, a
<1>8. Advances(d)
  BY <1>1 DEF Advances, Early
<1>9. QED
  BY <1>1, <1>3, <1>5, <1>7, <1>8, SigningStep DEF Keys

LEMMA ReadDeleteStep ==
  ASSUME IInv, NEW d \in Deploys, ReadDelete(d)
  PROVE  IInv'
<1> DEFINE a == aggregate("vm-bootstrap-config")
<1>0. PICK c : c = without(normalizeVmBootstrapConfigAggregate(a), d)
  OBVIOUS
<1>1. /\ deploy[d].pc = "delete" /\ UNCHANGED <<now, account>>
      /\ deploy' = signing(d, "signDelete", "vm-bootstrap-config", c)
  BY <1>0 DEF ReadDelete, at
<1>2. /\ DOMAIN c \subseteq DOMAIN a \ {d}
      /\ \A s \in DOMAIN c : c[s] = a[s]
      /\ c = [s \in DOMAIN c |-> c[s]]
  BY <1>0 DEF normalizeVmBootstrapConfigAggregate, without
<1> HIDE DEF a
<1>3. \A s \in DOMAIN c : s \in Deploys /\ c[s] \in Records
  BY <1>2, ConfigRead DEF a
<1>4. c \in Contents
  <2>1. c \in [DOMAIN c -> (SUBSET Flags) \cup Records]
    BY <1>2, <1>3
  <2>2. QED
    BY <1>3, <2>1, ContentsDef
<1>5. /\ deploy'[d].pc = "signDelete"
      /\ \A e \in Deploys : e # d => deploy'[e] = deploy[e]
  BY <1>1 DEF IInv, Typed, States, signing
<1>6. RecordContent(c)'
  BY <1>2, <1>3, <1>5, ConfigRead DEF RecordContent, a
<1>7. Advances(d)
  BY <1>1, <1>5 DEF Advances, Early
<1>8. QED
  BY <1>1, <1>4, <1>6, <1>7, SigningStep DEF Keys

LEMMA FreshType ==
  ASSUME NEW pc \in Labels, NEW ports \in Nat
  PROVE  /\ Fresh(pc, ports) \in States
         /\ Fresh(pc, ports).pc = pc /\ Fresh(pc, ports).ports = ports
         /\ Fresh(pc, ports).stale = {} /\ Fresh(pc, ports).since = 0
         /\ Fresh(pc, ports).current = None
BY DEF Fresh, States

(* The attempt drops what it has read and made.                            *)
LEMMA DropStep ==
  ASSUME IInv, NEW d \in Deploys, NEW pc \in {"delete", "done"},
         UNCHANGED <<now, account>>, deploy' = drops(d, pc)
  PROVE  IInv'
<1> DEFINE D == Fresh(pc, deploy[d].ports)
<1>1. deploy[d].ports \in Nat /\ now \in Nat
  BY AggregateAssumption DEF IInv, Typed, States
<1>2. /\ D \in States /\ D.pc = pc /\ D.ports = deploy[d].ports
      /\ D.stale = {} /\ D.since = 0 /\ D.current = None
  BY <1>1, FreshType DEF Labels
<1>3. deploy' = [deploy EXCEPT ![d] = D]
  BY DEF drops
<1> HIDE DEF D
<1>4. deploy'[d] = D
  BY <1>3 DEF IInv, Typed
<1>5. Advances(d) /\ Sealed(d)' /\ Old(d)' /\ Published(d)'
  BY <1>1, <1>2, <1>4 DEF IInv, Advances, Early, Sealed, Signs, Old, Prunable, Published
<1>6. QED
  BY <1>2, <1>3, <1>5, QuietStep

LEMMA MakeRecordStep ==
  ASSUME IInv, NEW d \in Deploys, MakeRecord(d)
  PROVE  IInv'
<1> DEFINE r == [createdAt |-> now, expiresAt |-> now + Life]
           D == [deploy[d] EXCEPT !.pc = "config", !.record = r]
<1>1. now \in Nat /\ deploy[d] \in States /\ Old(d) /\ Published(d)
  BY AggregateAssumption DEF IInv, Typed
<1>2. r \in Records /\ r.createdAt = now /\ r.expiresAt = now + Life
  BY <1>1, AggregateAssumption DEF Records
<1> HIDE DEF r
<1>3. /\ D \in States /\ D.pc = "config" /\ D.record = r /\ D.ports = deploy[d].ports
      /\ D.stale = deploy[d].stale /\ D.since = deploy[d].since /\ D.current = deploy[d].current
  BY <1>1, <1>2 DEF States, Labels
<1>4. /\ deploy[d].pc = "record" /\ UNCHANGED <<now, account>>
      /\ deploy' = [deploy EXCEPT ![d] = D]
  BY DEF MakeRecord, at, r
<1> HIDE DEF D
<1>5. deploy'[d] = D
  BY <1>4 DEF IInv, Typed
<1>6. Advances(d)
  BY <1>4 DEF Advances, Early
<1>7. Sealed(d)' /\ Old(d)' /\ Published(d)'
  BY <1>1, <1>2, <1>3, <1>4, <1>5 DEF Sealed, Signs, Old, Prunable, Published
<1>8. QED
  BY <1>3, <1>4, <1>6, <1>7, QuietStep

LEMMA StartListingStep ==
  ASSUME IInv, NEW d \in Deploys, StartListing(d)
  PROVE  IInv'
<1> DEFINE owed == {m.n : m \in {x \in messages : isStale(x, d, now)}}
           D == [deploy[d] EXCEPT !.page = 1, !.since = now, !.owed = owed]
<1>1. now \in Nat /\ deploy[d] \in States /\ Old(d) /\ Published(d)
  BY AggregateAssumption DEF IInv, Typed
<1>2. owed \in SUBSET Nat
  BY DEF IInv, Typed, Messages
<1>3. deploy' = [deploy EXCEPT ![d] = D] /\ deploy[d].pc = "list" /\ UNCHANGED <<now, account>>
  BY DEF StartListing, at
<1> HIDE DEF owed
<1>4. /\ D \in States /\ D.pc = deploy[d].pc /\ D.ports = deploy[d].ports
      /\ D.current = deploy[d].current /\ D.stale = deploy[d].stale /\ D.since = now
  BY <1>1, <1>2 DEF States
<1> HIDE DEF D
<1>5. deploy'[d] = D
  BY <1>3 DEF IInv, Typed
<1>6. Advances(d) /\ Sealed(d)' /\ Old(d)' /\ Published(d)'
  BY <1>1, <1>3, <1>4, <1>5 DEF Advances, Early, Sealed, Signs, Old, Prunable, Published
<1>7. QED
  BY <1>3, <1>4, <1>6, QuietStep

(* One page of the history                                                 *)
LEMMA ReadPageStep ==
  ASSUME IInv, NEW d \in Deploys, ReadPage(d)
  PROVE  IInv'
<1>1. now \in Nat /\ deploy[d] \in States /\ Old(d) /\ Published(d) /\ Retention \in Nat
  BY AggregateAssumption DEF IInv, Typed
<1>2. PICK read : read = pageOf(deploy[d].page)
  OBVIOUS
<1>3. PICK stale :
        stale = deploy[d].stale \cup {m.n : m \in {x \in read : isStale(x, d, deploy[d].since)}}
  OBVIOUS
<1>4. /\ deploy[d].pc = "list" /\ UNCHANGED <<now, account>>
      /\ \/ deploy' = over(d)
         \/ \E pc \in {"list", "forget"} :
              deploy' = [deploy EXCEPT ![d].stale = stale, ![d].page = @ + 1, ![d].pc = pc]
  BY <1>2, <1>3 DEF ReadPage, at
<1>5. read \subseteq messages
  BY <1>2 DEF pageOf
<1>6. /\ stale \subseteq 1..sent
      /\ \A m \in messages : m.n \in stale => m.key = "vm-bootstrap-config" /\ m.time + Retention <= now
  <2>1. ASSUME NEW x \in read, isStale(x, d, deploy[d].since)
        PROVE  x \in messages /\ x.n \in 1..sent /\ x.key = "vm-bootstrap-config" /\ x.time + Retention <= now
    <3>1. x \in messages /\ x.n \in 1..sent /\ x.time \in Nat /\ deploy[d].since \in Nat
      BY <1>1, <1>5 DEF IInv, Typed, Numbered, Messages, States
    <3>2. x.key = "vm-bootstrap-config" /\ x.time + Retention <= deploy[d].since
      BY <2>1 DEF isStale
    <3>3. QED
      BY <1>1, <3>1, <3>2 DEF Old
  <2>2. stale \subseteq 1..sent
    BY <1>1, <1>3, <2>1 DEF Old, Prunable
  <2>3. ASSUME NEW m \in messages, m.n \in stale
        PROVE  m.key = "vm-bootstrap-config" /\ m.time + Retention <= now
    <3>1. CASE m.n \in deploy[d].stale
      BY <1>1, <3>1 DEF Old, Prunable
    <3>2. CASE \E x \in read : isStale(x, d, deploy[d].since) /\ x.n = m.n
      <4>1. PICK x \in messages :
              x.n = m.n /\ x.key = "vm-bootstrap-config" /\ x.time + Retention <= now
        BY <2>1, <3>2
      <4>2. x = m
        BY <4>1 DEF IInv, Numbered
      <4>3. QED
        BY <4>1, <4>2
    <3>3. QED
      BY <1>3, <2>3, <3>1, <3>2
  <2>4. QED
    BY <2>2, <2>3
<1>7. CASE deploy' = over(d)
  BY <1>4, <1>7, DropStep DEF over
<1>8. CASE \E pc \in {"list", "forget"} :
              deploy' = [deploy EXCEPT ![d].stale = stale, ![d].page = @ + 1, ![d].pc = pc]
  <2>1. PICK pc \in {"list", "forget"} :
              deploy' = [deploy EXCEPT ![d].stale = stale, ![d].page = @ + 1, ![d].pc = pc]
    BY <1>8
  <2>2. PICK D : D = [deploy[d] EXCEPT !.stale = stale, !.page = @ + 1, !.pc = pc]
    OBVIOUS
  <2>3. /\ D \in States /\ D.pc = pc /\ D.ports = deploy[d].ports /\ D.stale = stale
        /\ D.current = deploy[d].current /\ D.since = deploy[d].since
    <3>1. stale \in SUBSET Nat /\ deploy[d].page + 1 \in Nat
      BY <1>1, <1>6 DEF IInv, Typed, States
    <3>2. QED
      BY <1>1, <2>2, <3>1 DEF States, Labels
  <2>4. deploy' = [deploy EXCEPT ![d] = D]
    BY <2>1, <2>2
  <2>5. deploy'[d] = D
    BY <2>4 DEF IInv, Typed
  <2>6. Advances(d) /\ Sealed(d)' /\ Old(d)' /\ Published(d)'
    BY <1>1, <1>4, <1>6, <2>3, <2>5 DEF Advances, Early, Sealed, Signs, Old, Prunable, Published
  <2>7. QED
    BY <1>4, <2>3, <2>4, <2>6, QuietStep
<1>9. QED
  BY <1>4, <1>7, <1>8

-----------------------------------------------------------------------------
(* Steps that add a message or take messages out                           *)
LEMMA TakenStep ==
  ASSUME IInv, NEW d \in Deploys, Signs(d), NEW applied \in BOOLEAN, Taken(d, applied),
         NEW D \in States, deploy' = [deploy EXCEPT ![d] = D],
         D.pc \in {"record", "wait", "list", "delete", "done"},
         D.pc = "record" => deploy[d].pc = "signPorts",
         D.pc = "wait" =>
            deploy[d].pc = "signConfig" /\ D.record = deploy[d].record /\ D.config = sent',
         D.ports # deploy[d].ports => deploy[d].pc = "signPorts" /\ D.ports = sent',
         D.stale \in {deploy[d].stale, {}}, D.since <= now,
         D.current \in {deploy[d].current, sent', None}
  PROVE  IInv'
<1>1. /\ now \in Nat /\ sent \in Nat /\ deploy[d] \in States
      /\ Sealed(d) /\ Old(d) /\ Published(d) /\ Numbered
  BY AggregateAssumption DEF IInv, Typed
<1>2. Signs(d) /\ sent' = sent + 1 /\ UNCHANGED <<now, forgets>>
  BY DEF Taken
<1>3. PICK out \in Outs : out = deploy[d].out
  BY <1>1, <1>2 DEF Sealed
<1>4. PICK new \in Messages :
        /\ messages' = messages \cup {new}
        /\ new.n = sent' /\ new.key = out.key /\ new.content = out.content /\ new.time = out.time
  <2>1. PICK new : new = [n |-> sent', key |-> out.key, content |-> out.content, time |-> out.time]
    OBVIOUS
  <2>2. new \in Messages /\ new.n = sent' /\ new.key = out.key /\ new.content = out.content
        /\ new.time = out.time
    BY <1>1, <1>2, <2>1 DEF Messages, Outs
  <2>3. messages' = messages \cup {new}
    BY <1>3, <2>1 DEF Taken
  <2>4. QED
    BY <2>2, <2>3
<1>5. Sound(new)
  BY <1>1, <1>2, <1>3, <1>4 DEF Sealed, Sound, RecordContent, PortContent
<1>6. processed' \subseteq 1..sent'
  BY <1>1, <1>2 DEF Taken, Numbered
<1>7. deploy'[d] = D /\ \A e \in Deploys : e # d => deploy'[e] = deploy[e]
  BY DEF IInv, Typed
<1>8. Typed'
  BY <1>1, <1>2, <1>4 DEF IInv, Typed
<1>9. Numbered'
  <2>1. new.time <= now
    BY <1>1, <1>2, <1>3, <1>4 DEF Sealed
  <2>2. \A m \in messages' : m.n \in 1..sent' /\ m.time <= now'
    BY <1>1, <1>2, <1>4, <2>1 DEF Numbered
  <2>2a. \A m, o \in messages' : m.n = o.n => m = o
    BY <1>1, <1>2, <1>4 DEF Numbered
  <2>3. ASSUME NEW S \in SUBSET (messages \cup {new}), S # {}
        PROVE  \E m \in S : \A o \in S \ {m} : later(m, o)
    <3>1. \A m \in messages \cup {new} : m.n \in Nat /\ m.time \in Nat
      BY <1>4 DEF IInv, Typed, Messages
    <3>2. CASE S \ {new} = {}
      BY <2>3, <3>2
    <3>3. CASE new \notin S
      BY <1>1, <2>3, <3>3 DEF Numbered
    <3>4. CASE S \ {new} # {} /\ new \in S
      <4>1. S \ {new} \in SUBSET messages
        OBVIOUS
      <4>2. PICK m \in S \ {new} : \A o \in (S \ {new}) \ {m} : later(m, o)
        BY <1>1, <3>4, <4>1 DEF Numbered
      <4>3. m \in messages /\ m.n < new.n
        BY <1>1, <1>2, <1>4, <4>1, <4>2 DEF Numbered
      <4>4. CASE later(m, new)
        BY <4>2, <4>4
      <4>5. CASE ~later(m, new)
        <5>1. new.time >= m.time
          BY <3>1, <4>3, <4>5 DEF later
        <5>2. ASSUME NEW o \in S \ {new} PROVE later(new, o)
          <6>1. o = m \/ later(m, o)
            BY <4>2
          <6>2. o \in messages /\ o.n < new.n
            BY <1>1, <1>2, <1>4, <4>1 DEF Numbered
          <6>3. QED
            BY <3>1, <4>3, <5>1, <6>1, <6>2 DEF later
        <5>3. QED
          BY <3>4, <5>2
      <4>6. QED
        BY <4>4, <4>5
    <3>5. QED
      BY <3>2, <3>3, <3>4
  <2>4. QED
    BY <1>4, <1>6, <2>2, <2>2a, <2>3 DEF Numbered, later
<1>10. Advances(d)
  BY <1>2, <1>7 DEF Advances, Early, Signs
<1>11. ASSUME NEW m \in messages' \ messages PROVE Sound(m)'
  <2>1. m = new /\ m.content \in Contents
    BY <1>4 DEF Messages
  <2>2. QED
    BY <1>5, <1>7, <1>10, <2>1, ContentKept DEF Sound, RecordContent, PortContent
<1>12. Sealed(d)'
  BY <1>1, <1>2, <1>7 DEF Sealed, Signs
<1>13. ASSUME NEW S, Prunable(S) PROVE Prunable(S)'
  <2>1. new.n \notin S
    BY <1>1, <1>2, <1>4, <1>13 DEF Prunable
  <2>2. S \subseteq 1..sent'
    BY <1>1, <1>2, <1>13 DEF Prunable
  <2>3. QED
    BY <1>2, <1>4, <1>13, <2>1, <2>2 DEF Prunable
<1>14. ASSUME NEW e \in Deploys PROVE Old(e)'
  <2>1. /\ Prunable(deploy[e].stale) /\ deploy[e].since <= now
        /\ deploy[e].ports \in 0..sent /\ deploy[e].current \in (1..sent) \cup {None}
    BY DEF IInv, Old
  <2>2. CASE e # d
    <3>1. deploy'[e].ports \in 0..sent' /\ deploy'[e].current \in (1..sent') \cup {None}
      BY <1>1, <1>2, <1>7, <2>1, <2>2
    <3>2. QED
      BY <1>2, <1>7, <1>13, <2>1, <2>2, <3>1 DEF Old
  <2>3. CASE e = d
    <3>1. D.ports \in 0..sent' /\ D.current \in (1..sent') \cup {None}
      BY <1>1, <1>2, <2>1, <2>3
    <3>2. Prunable({})
      BY DEF Prunable
    <3>3. Prunable(D.stale)'
      BY <1>13, <2>1, <2>3, <3>2
    <3>4. QED
      BY <1>2, <1>7, <2>3, <3>1, <3>3 DEF Old
  <2>4. QED
    BY <2>2, <2>3
<1>15. Flights'
  BY <1>2, <1>13 DEF IInv, Flights
<1>16. ASSUME NEW e \in Deploys PROVE Published(e)'
  <2>1. CASE e # d
    BY <1>2, <1>4, <1>7, <2>1 DEF IInv, Published
  <2>2. CASE e = d
    <3>1. D.ports # 0 =>
            \E m \in messages' :
               m.n = D.ports /\ m.key = "port-forwarding" /\ d \in DOMAIN m.content
      BY <1>1, <1>3, <1>4 DEF Sealed, Published
    <3>2. D.pc = "wait" =>
             /\ new.n = D.config
             /\ new.key = "vm-bootstrap-config" /\ d \in DOMAIN new.content
             /\ D.record.createdAt <= new.time
      BY <1>1, <1>2, <1>3, <1>4 DEF Sealed, Signs
    <3>3. QED
      BY <1>4, <1>7, <2>2, <3>1, <3>2 DEF Published
  <2>3. QED
    BY <2>1, <2>2
<1>17. QED
  BY <1>2, <1>7, <1>8, <1>9, <1>10, <1>11, <1>12, <1>14, <1>15, <1>16, OwnStep

LEMMA BroadcastStep ==
  ASSUME IInv, NEW d \in Deploys, Broadcast(d)
  PROVE  IInv'
<1>1. PICK applied \in BOOLEAN : Taken(d, applied)
  BY DEF Broadcast
<1>2. /\ now \in Nat /\ sent \in Nat /\ sent' = sent + 1 /\ deploy[d] \in States /\ Signs(d)
      /\ deploy[d].since <= now
  BY <1>1, AggregateAssumption DEF IInv, Typed, Old, Broadcast, Taken, Signs
<1>3. PICK pc \in Labels : pc = after(deploy[d].pc)
  BY <1>2 DEF Signs, after, Labels
<1>4. PICK ports \in Nat : ports = IF at(d, "signPorts") THEN sent' ELSE deploy[d].ports
  BY <1>2 DEF States
<1>5. PICK config \in Nat : config = IF at(d, "signConfig") THEN sent' ELSE deploy[d].config
  BY <1>2 DEF States
<1>6. PICK current \in Nat \cup {None} :
        current = IF at(d, "signDelete") THEN sent' ELSE deploy[d].current
  <2>1. deploy[d].current \in Nat \cup {None} /\ sent' \in Nat
    BY <1>2 DEF States
  <2>2. CASE at(d, "signDelete")
    BY <2>1, <2>2
  <2>3. CASE ~at(d, "signDelete")
    BY <2>1, <2>3
  <2>4. QED
    BY <2>2, <2>3
<1>7. PICK D : D = [deploy[d] EXCEPT !.pc = pc, !.out = None, !.ports = ports, !.config = config,
                                     !.current = current]
  OBVIOUS
<1>8. /\ D \in States /\ D.pc = pc /\ D.ports = ports /\ D.config = config /\ D.current = current
      /\ D.record = deploy[d].record /\ D.stale = deploy[d].stale /\ D.since = deploy[d].since
  BY <1>2, <1>7 DEF States
<1>9. deploy' = [deploy EXCEPT ![d] = D]
  BY <1>3, <1>4, <1>5, <1>6, <1>7 DEF Broadcast
<1>10. /\ pc \in {"record", "wait", "list"}
       /\ pc = "record" => deploy[d].pc = "signPorts"
       /\ pc = "wait" => deploy[d].pc = "signConfig"
  BY <1>2, <1>3 DEF Signs, after
<1>11. QED
  BY <1>1, <1>2, <1>4, <1>5, <1>6, <1>8, <1>9, <1>10, TakenStep DEF at

LEMMA RefusedStep ==
  ASSUME IInv, NEW d \in Deploys, Refused(d)
  PROVE  IInv'
<1>1. PICK pc \in {"delete", "done"} : deploy' = drops(d, pc)
  BY DEF Refused, over
<1>2. CASE UNCHANGED <<now, account>>
  BY <1>1, <1>2, DropStep
<1>3. CASE Taken(d, FALSE)
  <2>1. /\ deploy[d].ports \in Nat /\ now \in Nat /\ Signs(d)
    BY AggregateAssumption DEF IInv, Typed, States, Refused, Signs
  <2>2. PICK D \in States :
          /\ D = Fresh(pc, deploy[d].ports) /\ D.pc = pc /\ D.ports = deploy[d].ports
          /\ D.stale = {} /\ D.since = 0 /\ D.current = None
    BY <2>1, FreshType DEF Labels
  <2>3. deploy' = [deploy EXCEPT ![d] = D]
    BY <1>1, <2>2 DEF drops
  <2>4. D.since <= now
    BY <2>1, <2>2
  <2>5. QED
    BY <1>3, <2>1, <2>2, <2>3, <2>4, TakenStep
<1>4. QED
  BY <1>2, <1>3 DEF Refused

(* The FORGET is sent: what it names is old.                               *)
LEMMA ForgetStep ==
  ASSUME IInv, NEW d \in Deploys, Forget(d)
  PROVE  IInv'
<1>1. /\ now \in Nat /\ deploy \in [Deploys -> States] /\ Old(d) /\ Published(d) /\ Flights
      /\ deploy[d].pc = "forget" /\ UNCHANGED <<now, messages, sent, processed>>
  BY AggregateAssumption DEF IInv, Typed, Forget, at
<1>2. PICK f \in [stale: SUBSET Nat, owed: SUBSET Nat] :
        f.stale = deploy[d].stale /\ forgets' = forgets \cup {f}
  BY <1>1 DEF Forget, States
<1>3. PICK D \in States :
        /\ D = Fresh("done", deploy[d].ports)
        /\ D.pc = "done" /\ D.ports = deploy[d].ports
        /\ D.stale = {} /\ D.since = 0 /\ D.current = None
  <2>1. deploy[d].ports \in Nat /\ "done" \in Labels
    BY <1>1 DEF States, Labels
  <2>2. QED
    BY <2>1, FreshType
<1>4. deploy' = [deploy EXCEPT ![d] = D]
  BY <1>3 DEF Forget, over, drops
<1>5. /\ deploy' \in [Deploys -> States] /\ deploy'[d] = D
      /\ \A e \in Deploys : e # d => deploy'[e] = deploy[e]
  BY <1>1, <1>4
<1>6. Typed' /\ Numbered'
  BY <1>1, <1>2, <1>5 DEF IInv, Typed, Numbered, later
<1>7. Flights'
  BY <1>1, <1>2 DEF Flights, Old, Prunable
<1>8. Advances(d) /\ Sealed(d)' /\ Old(d)' /\ Published(d)'
  BY <1>1, <1>3, <1>5 DEF Advances, Early, Sealed, Signs, Old, Prunable, Published
<1>9. \A e \in Deploys : Old(e)' /\ Published(e)'
  BY <1>1, <1>5, <1>8 DEF IInv, Old, Prunable, Published
<1>10. QED
  BY <1>1, <1>5, <1>6, <1>7, <1>8, <1>9, OwnStep

(* A FORGET is applied: it takes nothing out that anyone waits for.        *)
LEMMA AlephForgetsStep ==
  ASSUME IInv, NEW f \in forgets, AlephForgets(f)
  PROVE  IInv'
<1>1. /\ now \in Nat /\ deploy \in [Deploys -> States] /\ Typed /\ Numbered
      /\ Prunable(f.stale) /\ UNCHANGED <<now, sent, processed>>
      /\ messages' = {m \in messages : m.n \notin f.stale} /\ forgets' \subseteq forgets
  BY AggregateAssumption DEF IInv, Typed, Flights, AlephForgets
<1>2. ASSUME NEW e \in Deploys
      PROVE  /\ deploy'[e] \in States
             /\ deploy'[e].pc = deploy[e].pc /\ deploy'[e].ports = deploy[e].ports
             /\ deploy'[e].record = deploy[e].record /\ deploy'[e].out = deploy[e].out
             /\ deploy'[e].current = deploy[e].current /\ deploy'[e].since = deploy[e].since
             /\ deploy'[e].stale = deploy[e].stale /\ deploy'[e].config = deploy[e].config
  BY <1>1 DEF AlephForgets, States
<1>3. Typed'
  <2>1. deploy' = [e \in Deploys |-> deploy'[e]]
    BY DEF AlephForgets
  <2>2. deploy' \in [Deploys -> States]
    BY <1>2, <2>1
  <2>3. QED
    BY <1>1, <2>2 DEF Typed
<1>4. Numbered'
  BY <1>1 DEF Numbered, later
<1>5. ASSUME NEW c, c \in Contents, RecordContent(c) PROVE RecordContent(c)'
  BY <1>2, <1>5, ContentsDef DEF RecordContent
<1>6. ASSUME NEW m \in messages' PROVE Sound(m)'
  <2>1. m.content \in Contents /\ Sound(m)
    BY <1>1 DEF IInv, Typed, Messages
  <2>2. QED
    BY <1>5, <2>1 DEF Sound, PortContent
<1>7. ASSUME NEW e \in Deploys PROVE Sealed(e)'
  <2>1. PICK out : out = deploy[e].out
    OBVIOUS
  <2>2. Sealed(e) /\ deploy'[e].out = out /\ deploy'[e].pc = deploy[e].pc
        /\ deploy'[e].record = deploy[e].record
    BY <1>2, <2>1 DEF IInv
  <2>3. Signs(e) => out \in Outs /\ Sound(out) /\ out.time <= now
    BY <2>1, <2>2 DEF Sealed
  <2>4. Signs(e) => Sound(out)'
    BY <1>5, <2>3 DEF Sound, PortContent, Outs
  <2>5. QED
    BY <1>1, <2>1, <2>2, <2>3, <2>4 DEF Sealed, Signs, Sound, PortContent, RecordContent
<1>8. Flights' /\ \A e \in Deploys : Old(e)'
  BY <1>1, <1>2 DEF IInv, Flights, Old, Prunable
<1>9. ASSUME NEW e \in Deploys PROVE Published(e)'
  <2>1. Published(e) /\ \A m \in messages : m.key = "port-forwarding" => m \in messages'
    BY <1>1 DEF IInv, Prunable
  <2>2. deploy'[e].ports # 0 =>
           \E m \in messages' :
              m.n = deploy'[e].ports /\ m.key = "port-forwarding" /\ e \in DOMAIN m.content
    BY <1>2, <2>1 DEF Published
  <2>3. ASSUME deploy'[e].pc = "wait", now' < deploy'[e].record.expiresAt
        PROVE  \E m \in messages' :
                  /\ m.n = deploy'[e].config
                  /\ m.key = "vm-bootstrap-config" /\ e \in DOMAIN m.content
                  /\ deploy'[e].record.createdAt <= m.time
    <3>1. deploy[e].pc = "wait"
      BY <1>2, <2>3
    <3>2. PICK m \in messages :
            /\ m.n = deploy[e].config
            /\ m.key = "vm-bootstrap-config" /\ e \in DOMAIN m.content
            /\ deploy[e].record.createdAt <= m.time
      BY <1>1, <1>2, <2>1, <2>3, <3>1 DEF Published
    <3>3. /\ deploy[e].record.createdAt \in Nat /\ m.time \in Nat
          /\ deploy[e].record.expiresAt = deploy[e].record.createdAt + Life
      BY <3>1 DEF IInv, Sealed, Records, Typed, Messages
    <3>4. ~(m.time + Retention <= now)
      BY <1>1, <1>2, <2>3, <3>2, <3>3, AggregateAssumption
    <3>5. m \in messages'
      BY <1>1, <3>4 DEF Prunable
    <3>6. QED
      BY <1>2, <3>2, <3>5
  <2>4. QED
    BY <2>2, <2>3 DEF Published
<1>10. QED
  BY <1>3, <1>4, <1>6, <1>7, <1>8, <1>9 DEF IInv

(* Nothing of this depends on which messages are in force.                 *)
LEMMA AlephProcessesStep ==
  ASSUME IInv, NEW n \in 1..sent, AlephProcesses(n)
  PROVE  IInv'
<1>1. processed' \subseteq 1..sent /\ UNCHANGED <<now, messages, sent, forgets, deploy>>
  BY DEF AlephProcesses, IInv, Numbered
<1>2. Typed' /\ Numbered'
  BY <1>1 DEF IInv, Typed, Numbered, later
<1>3. Flights' /\ \A m \in messages' : Sound(m)'
  BY <1>1 DEF IInv, Flights, Prunable, Sound, PortContent, RecordContent
<1>4. \A d \in Deploys : Sealed(d)' /\ Old(d)' /\ Published(d)'
  BY <1>1 DEF IInv, Sound, PortContent, RecordContent, Sealed, Signs, Old, Prunable, Published
<1>5. QED
  BY <1>2, <1>3, <1>4 DEF IInv

LEMMA TickStep ==
  ASSUME IInv, Tick
  PROVE  IInv'
<1>1. /\ now \in Nat /\ now' = now + 1 /\ now' \in 0..MaxTime
      /\ UNCHANGED <<account, deploy>>
  BY AggregateAssumption DEF IInv, Typed, Tick
<1>2. Typed' /\ Numbered'
  <2>1. \A m \in messages : m.time \in Nat
    BY DEF IInv, Typed, Messages
  <2>2. QED
    BY <1>1, <2>1 DEF IInv, Typed, Numbered, later
<1>3. \A m : Sound(m)' <=> Sound(m)
  BY <1>1 DEF Sound, PortContent, RecordContent
<1>4. \A S : Prunable(S) => Prunable(S)'
  <2>1. \A m \in messages : m.time + Retention <= now => m.time + Retention <= now'
    BY <1>1, AggregateAssumption DEF IInv, Typed, Messages
  <2>2. QED
    BY <1>1, <2>1 DEF Prunable
<1>5. ASSUME NEW d \in Deploys PROVE Sealed(d)' /\ Old(d)' /\ Published(d)'
  <2>1. Sealed(d) /\ Old(d) /\ Published(d)
    BY DEF IInv
  <2>2. PICK s \in States : s = deploy[d] /\ s = deploy'[d]
    BY <1>1 DEF IInv, Typed
  <2>3. Sealed(d)'
    <3>1. Signs(d) => s.out \in Outs /\ Sound(s.out) /\ s.out.time <= now
      BY <2>1, <2>2 DEF Sealed
    <3>2. Signs(d) => s.out.time <= now'
      BY <1>1, <3>1 DEF Outs
    <3>3. s.pc \in {"config", "signConfig", "wait"} => s.record.createdAt <= now'
      BY <1>1, <2>1, <2>2 DEF Sealed, Records
    <3>4. Signs(d) => Sound(s.out)'
      BY <1>3, <3>1
    <3>5. QED
      BY <1>1, <2>1, <2>2, <3>1, <3>2, <3>3, <3>4 DEF Sealed, Signs, Sound, PortContent, RecordContent
  <2>4. Old(d)'
    <3>1. s.since <= now' /\ s.since \in Nat
      BY <1>1, <2>1, <2>2 DEF Old, States
    <3>2. QED
      BY <1>1, <1>4, <2>1, <2>2, <3>1 DEF Old
  <2>5. Published(d)'
    <3>1. s.pc = "wait" => s.record.expiresAt \in Nat
      BY <2>1, <2>2 DEF Sealed, Records
    <3>2. QED
      BY <1>1, <2>1, <2>2, <3>1 DEF Published
  <2>6. QED
    BY <2>3, <2>4, <2>5
<1>6. Flights'
  BY <1>1, <1>4 DEF IInv, Flights
<1>7. QED
  BY <1>1, <1>2, <1>3, <1>5, <1>6 DEF IInv

-----------------------------------------------------------------------------
(* The inductive invariant is an invariant.                                *)
THEOREM Invariance == Spec => []IInv
<1>1. Init => IInv
  <2> SUFFICES ASSUME Init PROVE IInv
    OBVIOUS
  <2>1. PICK F \in States :
          /\ F = Fresh("ports", 0)
          /\ F.pc = "ports" /\ F.ports = 0 /\ F.stale = {} /\ F.since = 0 /\ F.current = None
    BY FreshType DEF Labels
  <2>2. deploy = [d \in Deploys |-> F] /\ now = 0 /\ messages = {} /\ sent = 0
       /\ processed = {} /\ forgets = {}
    BY <2>1 DEF Init
  <2>3. Typed
    <3>1. deploy \in [Deploys -> States]
      BY <2>1, <2>2
    <3>2. 0 \in 0..MaxTime
      BY AggregateAssumption
    <3>3. QED
      BY <2>2, <3>1, <3>2 DEF Typed
  <2>4. Numbered /\ Flights /\ \A m \in messages : Sound(m)
    BY <2>2 DEF Numbered, Flights
  <2>5. ASSUME NEW d \in Deploys PROVE Sealed(d) /\ Old(d) /\ Published(d)
    <3>1. deploy[d] = F
      BY <2>2
    <3>2. Sealed(d)
      BY <2>1, <3>1 DEF Sealed, Signs
    <3>3. Old(d)
      <4>1. /\ deploy[d].stale = {} /\ deploy[d].since = 0 /\ deploy[d].ports = 0
            /\ deploy[d].current = None
        BY <2>1, <3>1
      <4>2. now = 0 /\ messages = {} /\ sent = 0
        BY <2>2
      <4>3. QED
        BY <4>1, <4>2 DEF Old, Prunable
    <3>4. Published(d)
      BY <2>1, <3>1 DEF Published
    <3>5. QED
      BY <3>2, <3>3, <3>4
  <2>6. QED
    BY <2>3, <2>4, <2>5 DEF IInv
<1>2. ASSUME IInv, [Next]_vars PROVE IInv'
  <2>1. CASE UNCHANGED vars
    <3>1. Typed' /\ Numbered'
      BY <1>2, <2>1 DEF vars, IInv, Typed, Numbered, later
    <3>2. Flights' /\ \A m \in messages' : Sound(m)'
      BY <1>2, <2>1 DEF vars, IInv, Flights, Prunable, Sound, PortContent, RecordContent
    <3>3. ASSUME NEW d \in Deploys PROVE Sealed(d)' /\ Old(d)' /\ Published(d)'
      BY <1>2, <2>1 DEF vars, IInv, Sound, PortContent, RecordContent, Sealed, Signs, Old, Prunable,
         Published
    <3>4. QED
      BY <3>1, <3>2, <3>3 DEF IInv
  <2>2. CASE Tick
    BY <1>2, <2>2, TickStep
  <2>3. ASSUME NEW d \in Deploys, Step(d) PROVE IInv'
    <3>1. CASE EndWait(d) \/ CleanupFails(d)
      BY <1>2, <3>1, DropStep DEF EndWait, CleanupFails, over
    <3>2. QED
      BY <1>2, <2>3, <3>1, ReadPortsStep, MakeRecordStep, ReadConfigStep, ReadDeleteStep,
         BroadcastStep, RefusedStep, StartListingStep, ReadPageStep, ForgetStep DEF Step
  <2>4. QED
    BY <1>2, <2>1, <2>2, <2>3, AlephProcessesStep, AlephForgetsStep DEF Next
<1>3. QED
  BY <1>1, <1>2, PTL DEF Spec

(* Clock, messages and what deploys remember of them keep their types.     *)
THEOREM TypeCorrect == Spec => []TypeOK
<1>1. IInv => TypeOK
  BY DEF IInv, Typed, Numbered, Messages, Old, TypeOK
<1>2. QED
  BY <1>1, Invariance, PTL

(* Whatever the other deploys publish and whatever the cleanups forget,    *)
(* the aggregate goes on saying the ports of every instance whose message  *)
(* about them was processed (aggregate-publication.ts,                     *)
(* ensureInstancePortForwards).                                            *)
THEOREM PortsStay == Spec => []PortsKept
<1>1. IInv => PortsKept
  <2> SUFFICES ASSUME IInv, NEW d \in Deploys, deploy[d].ports \in processed
               PROVE  /\ d \in DOMAIN aggregate("port-forwarding")
                      /\ requiredInstancePortForwards(d) \subseteq aggregate("port-forwarding")[d]
    BY DEF PortsKept
  <2>1. d \in DOMAIN aggregate("port-forwarding")
    <3>1. deploy[d].ports # 0
      BY DEF IInv, Numbered
    <3>2. QED
      BY <3>1, AggregateDomain DEF IInv, Published
  <2>2. PICK m \in messages :
          /\ m.key = "port-forwarding" /\ d \in DOMAIN m.content
          /\ aggregate("port-forwarding")[d] = m.content[d]
    BY <2>1, AggregateValue DEF IInv
  <2>3. PortContent(m.content)
    BY <2>2 DEF IInv, Sound
  <2>4. QED
    BY <2>1, <2>2, <2>3 DEF PortContent
<1>2. QED
  BY <1>1, Invariance, PTL

(* Once Aleph has processed the configuration of a deploy, the guest finds *)
(* the record for as long as the deploy waits for it and the record is     *)
(* valid: no other deploy publishes it away, and no cleanup forgets it     *)
(* (bootstrap-config.ts, publishVmBootstrapConfig). That it is processed   *)
(* is a condition: the deploy waits whether it is or not.                  *)
THEOREM RecordReadable == Spec => []RecordStaysReadable
<1>1. IInv => RecordStaysReadable
  <2> SUFFICES ASSUME IInv, NEW d \in Deploys, at(d, "wait"), deploy[d].config \in processed,
                      now < deploy[d].record.expiresAt
               PROVE  /\ d \in DOMAIN aggregate("vm-bootstrap-config")
                      /\ aggregate("vm-bootstrap-config")[d] = deploy[d].record
    BY DEF RecordStaysReadable
  <2>1. d \in DOMAIN aggregate("vm-bootstrap-config")
    BY AggregateDomain DEF IInv, Published, at
  <2>2. QED
    BY <2>1, ConfigRead DEF at
<1>2. QED
  BY <1>1, Invariance, PTL

-----------------------------------------------------------------------------
(* Pages                                                                   *)
ahead(m) == {o \in messages : later(o, m)}
rank(m) == Cardinality(ahead(m))

(* Messages of different numbers stand in a strict total order.            *)
LEMMA Order ==
  ASSUME Typed, Numbered, NEW m \in messages, NEW o \in messages
  PROVE  /\ ~later(m, m)
         /\ m # o => later(m, o) \/ later(o, m)
         /\ \A x \in messages : later(m, o) /\ later(o, x) => later(m, x)
<1>1. \A x \in messages : x.n \in Nat /\ x.time \in Nat
  BY DEF Typed, Messages
<1>2. m # o => m.n # o.n
  BY DEF Numbered
<1>3. QED
  BY <1>1, <1>2 DEF later

LEMMA RankBound ==
  ASSUME Typed, Numbered, IsFiniteSet(messages), NEW m \in messages
  PROVE  /\ IsFiniteSet(ahead(m)) /\ rank(m) \in Nat /\ rank(m) < Cardinality(messages)
         /\ \A o \in messages : later(o, m) => rank(o) < rank(m)
<1>1. ASSUME NEW x \in messages PROVE IsFiniteSet(ahead(x)) /\ rank(x) \in Nat
  BY FS_Subset, FS_CardinalityType DEF ahead, rank
<1>2. ASSUME NEW x \in messages, NEW S \in SUBSET messages, ahead(x) \subseteq S, x \in S
      PROVE  rank(x) < Cardinality(S)
  <2>1. x \notin ahead(x) /\ IsFiniteSet(S)
    BY <1>2, Order, FS_Subset DEF ahead
  <2>2. Cardinality(ahead(x) \cup {x}) = rank(x) + 1
    BY <1>1, <2>1, FS_AddElement DEF rank
  <2>3. ahead(x) \cup {x} \in SUBSET S
    BY <1>2
  <2>4. rank(x) + 1 <= Cardinality(S)
    BY <2>1, <2>2, <2>3, FS_Subset
  <2>5. QED
    BY <1>1, <2>1, <2>4, FS_CardinalityType
<1>3. rank(m) < Cardinality(messages)
  BY <1>2 DEF ahead
<1>4. ASSUME NEW o \in messages, later(o, m) PROVE rank(o) < rank(m)
  <2>1. ahead(o) \subseteq ahead(m) /\ o \in ahead(m) /\ ahead(m) \in SUBSET messages
    BY <1>4, Order DEF ahead
  <2>2. QED
    BY <1>2, <2>1 DEF rank
<1>5. QED
  BY <1>1, <1>3, <1>4

(* The ranks of n messages are 0, ..., n - 1.                              *)
LEMMA RankHit ==
  ASSUME Typed, Numbered, IsFiniteSet(messages), NEW i \in 0..(Cardinality(messages) - 1)
  PROVE  \E m \in messages : rank(m) = i
<1> DEFINE N == Cardinality(messages)
           f == [m \in messages |-> rank(m)]
<1>1. N \in Nat
  BY FS_CardinalityType
<1>2. f \in [messages -> 0..(N - 1)]
  BY <1>1, RankBound
<1>3. ASSUME NEW m \in messages, NEW o \in messages, f[m] = f[o] PROVE m = o
  BY <1>3, Order, RankBound
<1>4. f \in Injection(messages, 0..(N - 1))
  <2>1. \A m, o \in messages : f[m] = f[o] => m = o
    BY <1>3
  <2> HIDE DEF f
  <2>2. QED
    BY <1>2, <2>1 DEF Injection, IsInjective
<1>5. IsFiniteSet(0..(N - 1)) /\ Cardinality(0..(N - 1)) = N
  BY <1>1, FS_Interval, FS_EmptySet
<1>6. f \in Surjection(messages, 0..(N - 1))
  BY <1>4, <1>5, FS_Injection
<1>7. QED
  BY <1>6 DEF Surjection

(* After a page that is not full there is no message.                      *)
LEMMA ShortPage ==
  ASSUME Typed, Numbered, IsFiniteSet(messages), NEW page \in Nat \ {0},
         Cardinality(pageOf(page)) < PageSize, NEW m \in messages
  PROVE  rank(m) < page * PageSize
<1>0. PageSize \in Nat \ {0} /\ (page - 1) * PageSize \in Nat
      /\ page * PageSize = (page - 1) * PageSize + PageSize
  BY AggregateAssumption
<1>1. SUFFICES ASSUME rank(m) >= page * PageSize PROVE FALSE
  BY <1>0, RankBound
<1> DEFINE first == (page - 1) * PageSize
           next == page * PageSize
           I == first..(next - 1)
           f == [x \in pageOf(page) |-> rank(x)]
<1>2. \A x : x \in pageOf(page) <=> x \in messages /\ first <= rank(x) /\ rank(x) < next
  BY DEF pageOf, rank, ahead
<1>3. first \in Nat /\ next \in Nat /\ next = first + PageSize
  BY <1>0
<1>4. IsFiniteSet(pageOf(page))
  BY FS_Subset DEF pageOf
<1> HIDE DEF first, next
<1>5. \A x \in messages : rank(x) \in Nat
  BY RankBound
<1>6. f \in [pageOf(page) -> I]
  BY <1>2, <1>3, <1>5
<1>7. ASSUME NEW i \in I PROVE \E x \in pageOf(page) : f[x] = i
  <2>1. i \in 0..(Cardinality(messages) - 1)
    <3>1. next < Cardinality(messages)
      BY <1>0, <1>1, <1>3, <1>5, RankBound, FS_CardinalityType DEF next
    <3>2. QED
      BY <1>3, <3>1, FS_CardinalityType
  <2>2. PICK x \in messages : rank(x) = i
    BY <2>1, RankHit
  <2>3. x \in pageOf(page)
    BY <1>2, <1>3, <2>2
  <2>4. QED
    BY <2>2, <2>3
<1>8. f \in Surjection(pageOf(page), I)
  BY <1>6, <1>7 DEF Surjection
<1>9. Cardinality(I) <= Cardinality(pageOf(page))
  BY <1>4, <1>8, FS_Surjection
<1>10. Cardinality(I) = PageSize
  BY <1>0, <1>3, FS_Interval
<1>11. QED
  BY <1>0, <1>4, <1>9, <1>10, FS_CardinalityType

LEMMA AllSent ==
  ASSUME Typed, Numbered
  PROVE  IsFiniteSet(messages) /\ Cardinality(messages) <= sent
<1> DEFINE f == [m \in messages |-> m.n]
<1>1. sent \in Nat /\ IsFiniteSet(1..sent) /\ Cardinality(1..sent) = sent
  BY FS_Interval DEF Typed
<1>2. f \in Injection(messages, 1..sent)
  <2>1. f \in [messages -> 1..sent] /\ \A m, o \in messages : f[m] = f[o] => m = o
    BY DEF Numbered
  <2> HIDE DEF f
  <2>2. QED
    BY <2>1 DEF Injection, IsInjective
<1>3. QED
  BY <1>1, <1>2, FS_Injection

-----------------------------------------------------------------------------
(* What a scan has not read yet stands on its later pages, whatever is     *)
(* broadcast meanwhile.                                                    *)
Unread(d) ==
    \A m \in messages : m.n \in deploy[d].owed \ deploy[d].stale =>
        isStale(m, d, deploy[d].since) /\ rank(m) >= (deploy[d].page - 1) * PageSize

Pruning(f) ==
    /\ f.owed \subseteq 1..sent
    /\ sent <= PageSize * MaxPages => \A m \in messages : m.n \in f.owed => m.n \in f.stale

Scanned(d) ==
    /\ deploy[d].owed \subseteq 1..sent
    /\ deploy[d].pc \notin {"list", "forget"} => deploy[d].page = 0
    /\ deploy[d].pc = "list" /\ deploy[d].page > 0 => Unread(d)
    /\ deploy[d].pc = "forget" /\ sent <= PageSize * MaxPages =>
         \A m \in messages : m.n \in deploy[d].owed => m.n \in deploy[d].stale

(* The state of a scan is its own business, unless another one forgets.    *)
LEMMA OthersScan ==
  ASSUME IInv, NEW d \in Deploys, Scanned(d), Typed', Numbered',
         messages \subseteq messages', sent' >= sent,
         \A m \in messages' \ messages : m.n \notin 1..sent,
         deploy'[d] = deploy[d]
  PROVE  Scanned(d)'
<1>1. Typed /\ Numbered /\ sent \in Nat /\ sent' \in Nat
  BY DEF IInv, Typed
<1>2. IsFiniteSet(messages')
  <2>1. sent' \in Nat /\ IsFiniteSet(1..sent') /\ Cardinality(1..sent') = sent'
    BY <1>1, FS_Interval
  <2> DEFINE f == [m \in messages' |-> m.n]
  <2>2. f \in [messages' -> 1..sent'] /\ \A m, o \in messages' : f[m] = f[o] => m = o
    BY DEF Numbered
  <2> HIDE DEF f
  <2>3. f \in Injection(messages', 1..sent')
    BY <2>2 DEF Injection, IsInjective
  <2>4. QED
    BY <2>1, <2>3, FS_Injection
<1>3. ASSUME NEW m \in messages PROVE rank(m) <= rank(m)' /\ rank(m) \in Nat /\ rank(m)' \in Nat
  <2>1. ahead(m) \in SUBSET ahead(m)' /\ ahead(m)' \in SUBSET messages'
    BY DEF ahead, later
  <2>2. IsFiniteSet(ahead(m)')
    BY <1>2, <2>1, FS_Subset
  <2>3. QED
    BY <2>1, <2>2, FS_Subset, FS_CardinalityType DEF rank
<1>4. deploy'[d].owed \subseteq 1..sent'
  BY <1>1 DEF Scanned
<1>5. ASSUME NEW m \in messages', m.n \in deploy'[d].owed PROVE m \in messages
  BY <1>5 DEF Scanned
<1>6. ASSUME deploy'[d].pc = "list", deploy'[d].page > 0 PROVE Unread(d)'
  <2>1. Unread(d) /\ (deploy[d].page - 1) * PageSize \in Nat
    <3>1. deploy[d].page - 1 \in Nat
      BY <1>6 DEF IInv, Typed, States
    <3>2. QED
      BY <1>6, <3>1, AggregateAssumption DEF Scanned
  <2>2. ASSUME NEW m \in messages', m.n \in deploy'[d].owed \ deploy'[d].stale
        PROVE  isStale(m, d, deploy[d].since)' /\ rank(m)' >= (deploy'[d].page - 1) * PageSize
    <3>1. m \in messages
      BY <1>5, <2>2
    <3>2. isStale(m, d, deploy[d].since) /\ rank(m) >= (deploy[d].page - 1) * PageSize
      BY <2>1, <2>2, <3>1 DEF Unread
    <3>3. rank(m)' >= (deploy[d].page - 1) * PageSize
      BY <1>3, <2>1, <3>1, <3>2
    <3>4. QED
      BY <3>2, <3>3 DEF isStale
  <2>3. QED
    BY <2>2 DEF Unread
<1>7. ASSUME deploy'[d].pc = "forget", sent' <= PageSize * MaxPages
      PROVE  \A m \in messages' : m.n \in deploy'[d].owed => m.n \in deploy'[d].stale
  <2>1. PageSize * MaxPages \in Nat
    BY AggregateAssumption
  <2>2. sent <= PageSize * MaxPages
    BY <1>1, <1>7, <2>1
  <2>3. QED
    BY <1>5, <1>7, <2>2 DEF Scanned
<1>8. QED
  BY <1>4, <1>6, <1>7 DEF Scanned

LEMMA ReadPageScans ==
  ASSUME IInv, NEW d \in Deploys, Scanned(d), ReadPage(d), IInv'
  PROVE  Scanned(d)'
<1>1. PICK s \in States : s = deploy[d]
  BY DEF IInv, Typed
<1>2. PICK t \in States : t = deploy'[d]
  BY DEF IInv, Typed
<1>3. s.pc = "list" /\ s.page \in Nat \ {0} /\ UNCHANGED <<now, account>>
  <2>1. s.pc = "list" /\ s.page > 0 /\ UNCHANGED <<now, account>>
    BY <1>1, Zenon DEF ReadPage, at
  <2>2. QED
    BY <2>1 DEF States
<1>4. PICK read : read = pageOf(s.page)
  OBVIOUS
<1>5. PICK stale : stale = s.stale \cup {m.n : m \in {x \in read : isStale(x, d, s.since)}}
  OBVIOUS
<1>6. PICK last \in BOOLEAN : last = (Cardinality(read) < PageSize \/ s.page = MaxPages)
  OBVIOUS
<1>7. deploy' = IF last /\ stale = {} THEN over(d)
                ELSE [deploy EXCEPT ![d].stale = stale, ![d].page = @ + 1,
                         ![d].pc = IF last THEN "forget" ELSE "list"]
  BY <1>1, <1>4, <1>5, <1>6 DEF ReadPage
<1>8. \/ t.pc = "done" /\ t.owed = {} /\ t.page = 0
      \/ /\ t.pc = IF last THEN "forget" ELSE "list"
         /\ t.page = s.page + 1 /\ t.stale = stale /\ t.owed = s.owed /\ t.since = s.since
         /\ t.current = s.current
  <2>1. CASE last /\ stale = {}
    <3>1. t = Fresh("done", deploy[d].ports)
      BY <1>2, <1>7, <2>1 DEF over, drops, IInv, Typed
    <3>2. QED
      BY <3>1 DEF Fresh
  <2>2. CASE ~(last /\ stale = {})
    BY <1>1, <1>2, <1>7, <2>2 DEF IInv, Typed, States
  <2>3. QED
    BY <2>1, <2>2
<1>9. CASE t.pc = "done" /\ t.owed = {} /\ t.page = 0
  BY <1>2, <1>9 DEF Scanned
<1>10. CASE /\ t.pc = IF last THEN "forget" ELSE "list"
            /\ t.page = s.page + 1 /\ t.stale = stale /\ t.owed = s.owed /\ t.since = s.since
            /\ t.current = s.current
  <2>1. Typed /\ Numbered /\ IsFiniteSet(messages) /\ Cardinality(messages) <= sent /\ sent \in Nat
    BY AllSent DEF IInv, Typed
  <2>2. (s.page - 1) * PageSize \in Nat /\ s.page * PageSize \in Nat /\ PageSize \in Nat
    BY <1>3, AggregateAssumption
  <2>3. ASSUME NEW m \in messages, m.n \in s.owed \ stale
        PROVE  isStale(m, d, s.since) /\ rank(m) >= s.page * PageSize
    <3>1. isStale(m, d, s.since) /\ rank(m) >= (s.page - 1) * PageSize
      BY <1>1, <1>3, <1>5, <2>3 DEF Scanned, Unread
    <3>2. m \notin read
      BY <1>5, <2>3, <3>1
    <3>3. rank(m) \in Nat
      BY <2>1, RankBound
    <3>4. QED
      BY <1>4, <2>2, <3>1, <3>2, <3>3 DEF pageOf, rank, ahead
  <2>4. t.owed \subseteq 1..sent
    BY <1>1, <1>10 DEF Scanned
  <2>5. CASE ~last
    <3>1. Unread(d)'
      <4>1. ASSUME NEW m \in messages', m.n \in t.owed \ t.stale
            PROVE  isStale(m, d, t.since)' /\ rank(m)' >= (t.page - 1) * PageSize
        <5>1. isStale(m, d, s.since) /\ rank(m) >= s.page * PageSize
          BY <1>3, <1>10, <2>3, <4>1
        <5>2. t.page - 1 = s.page
          BY <1>3, <1>10
        <5>3. rank(m)' = rank(m)
          BY <1>3 DEF rank, ahead, later
        <5>4. isStale(m, d, t.since)'
          BY <1>1, <1>2, <1>10, <5>1 DEF isStale
        <5>5. QED
          BY <5>1, <5>2, <5>3, <5>4
      <4>2. QED
        BY <1>2, <4>1 DEF Unread, isStale
    <3>2. QED
      BY <1>2, <1>3, <1>10, <2>4, <2>5, <3>1 DEF Scanned
  <2>6. CASE last
    <3>1. ASSUME sent <= PageSize * MaxPages, NEW m \in messages, m.n \in s.owed, m.n \notin stale
          PROVE  FALSE
      <4>1. rank(m) >= s.page * PageSize /\ rank(m) < Cardinality(messages) /\ rank(m) \in Nat
        BY <2>1, <2>3, <3>1, RankBound
      <4>2. CASE Cardinality(read) < PageSize
        <5>1. rank(m) < s.page * PageSize
          BY <1>3, <1>4, <2>1, <4>2, ShortPage
        <5>2. QED
          BY <2>2, <4>1, <5>1
      <4>3. CASE s.page = MaxPages
        <5>1. s.page * PageSize = PageSize * MaxPages
          BY <4>3, AggregateAssumption
        <5>2. QED
          BY <2>1, <2>2, <3>1, <4>1, <5>1, FS_CardinalityType
      <4>4. QED
        BY <1>6, <2>6, <4>2, <4>3
    <3>2. QED
      BY <1>2, <1>3, <1>10, <2>4, <2>6, <3>1 DEF Scanned
  <2>7. QED
    BY <2>5, <2>6
<1>11. QED
  BY <1>8, <1>9, <1>10

LEMMA ForgetScans ==
  ASSUME IInv, NEW d \in Deploys, NEW f, Scanned(d), AlephForgets(f)
  PROVE  Scanned(d)'
<1>1. deploy'[d] = [deploy[d] EXCEPT !.owed = {}] /\ deploy[d] \in States
  BY DEF AlephForgets, IInv, Typed
<1>2. deploy'[d].owed = {} /\ deploy'[d].pc = deploy[d].pc /\ deploy'[d].page = deploy[d].page
  BY <1>1 DEF States
<1>3. QED
  BY <1>2 DEF Scanned, Unread

(* A scan begins with what is stale, and everything is on its first page   *)
(* or a later one; the other steps of a deploy leave it without a scan.    *)
LEMMA OwnScan ==
  ASSUME IInv, NEW d \in Deploys, Scanned(d), IInv', Step(d), ~ReadPage(d)
  PROVE  Scanned(d)'
<1>1. PICK s \in States : s = deploy[d]
  BY DEF IInv, Typed
<1>2. PICK t \in States : t = deploy'[d]
  BY DEF IInv, Typed
<1>3. CASE StartListing(d)
  <2>1. PICK owed : owed = {m.n : m \in {x \in messages : isStale(x, d, now)}}
    OBVIOUS
  <2>2. /\ s.pc = "list" /\ UNCHANGED <<now, account>>
        /\ deploy' = [deploy EXCEPT ![d].page = 1, ![d].since = now, ![d].owed = owed]
    BY <1>1, <1>3, <2>1 DEF StartListing, at
  <2>3. t.pc = "list" /\ t.page = 1 /\ t.since = now /\ t.owed = owed /\ t.current = s.current
    BY <1>1, <1>2, <2>2 DEF IInv, Typed, States
  <2>4. owed \subseteq 1..sent
    BY <2>1 DEF IInv, Numbered
  <2>5. ASSUME NEW m \in messages, m.n \in owed PROVE isStale(m, d, now)
    <3>1. PICK x \in messages : isStale(x, d, now) /\ x.n = m.n
      BY <2>1, <2>5
    <3>2. QED
      BY <3>1 DEF IInv, Numbered
  <2>6. Unread(d)'
    <3>1. ASSUME NEW m \in messages', m.n \in t.owed \ t.stale
          PROVE  isStale(m, d, t.since)' /\ rank(m)' >= (t.page - 1) * PageSize
      <4>1. isStale(m, d, t.since)'
        BY <1>1, <1>2, <2>2, <2>3, <2>5, <3>1 DEF isStale
      <4>2. rank(m)' \in Nat
        <5>1. m \in messages /\ rank(m) \in Nat
          BY <2>2, <3>1, AllSent, RankBound DEF IInv, Typed, Numbered
        <5>2. rank(m)' = rank(m)
          BY <2>2 DEF rank, ahead, later
        <5>3. QED
          BY <5>1, <5>2
      <4>3. (t.page - 1) * PageSize = 0
        BY <2>3, AggregateAssumption
      <4>4. QED
        BY <4>1, <4>2, <4>3
    <3>2. QED
      BY <1>2, <3>1 DEF Unread, isStale
  <2>7. QED
    BY <1>2, <2>2, <2>3, <2>4, <2>6 DEF Scanned
<1>4. CASE Broadcast(d)
  <2>1. /\ deploy' = [deploy EXCEPT ![d].pc = after(@), ![d].out = None,
                        ![d].ports = IF at(d, "signPorts") THEN sent' ELSE @,
                        ![d].config = IF at(d, "signConfig") THEN sent' ELSE @,
                        ![d].current = IF at(d, "signDelete") THEN sent' ELSE @]
        /\ sent' = sent + 1 /\ s.pc \in {"signPorts", "signConfig", "signDelete"}
    BY <1>1, <1>4 DEF Broadcast, Taken
  <2>2. /\ t.pc = after(s.pc) /\ t.page = s.page /\ t.owed = s.owed
    BY <1>1, <1>2, <2>1 DEF IInv, Typed, States
  <2>3. s.pc \notin {"list", "forget"} /\ t.pc # "forget"
    BY <2>1, <2>2 DEF after
  <2>4. s.page = 0 /\ t.owed \subseteq 1..sent'
    BY <1>1, <2>1, <2>2 DEF Scanned, IInv, Typed
  <2>5. QED
    BY <1>2, <2>2, <2>3, <2>4 DEF Scanned
<1>5. ASSUME NEW pc \in {"delete", "done"}, deploy' = drops(d, pc) PROVE Scanned(d)'
  <2>1. t = Fresh(pc, deploy[d].ports)
    BY <1>2, <1>5 DEF drops, IInv, Typed
  <2>2. t.owed = {} /\ t.pc = pc /\ t.page = 0
    BY <2>1 DEF Fresh
  <2>3. QED
    BY <1>2, <2>2 DEF Scanned
<1>6. CASE Refused(d) \/ EndWait(d) \/ CleanupFails(d) \/ Forget(d)
  BY <1>5, <1>6 DEF Refused, EndWait, CleanupFails, Forget, over
<1>7. CASE ReadPorts(d) \/ MakeRecord(d) \/ ReadConfig(d) \/ ReadDelete(d)
  <2>1. UNCHANGED <<now, account>>
    BY <1>7 DEF ReadPorts, MakeRecord, ReadConfig, ReadDelete
  <2>2. /\ t.owed = s.owed /\ t.pc \notin {"list", "forget"} /\ t.page = 0
    BY <1>1, <1>2, <1>7 DEF Scanned, ReadPorts, MakeRecord, ReadConfig, ReadDelete, signing,
       IInv, Typed, States, at
  <2>3. QED
    BY <1>1, <1>2, <2>1, <2>2 DEF Scanned
<1>8. QED
  BY <1>3, <1>4, <1>6, <1>7 DEF Step

(* What a FORGET names that is taken and not yet applied                   *)
LEMMA FlightsStep ==
  ASSUME IInv, IInv', \A d \in Deploys : Scanned(d), \A f \in forgets : Pruning(f), [Next]_vars,
         NEW f \in forgets'
  PROVE  Pruning(f)'
<1>1. sent \in Nat /\ sent' \in Nat /\ PageSize * MaxPages \in Nat
  BY AggregateAssumption DEF IInv, Typed
<1>2. ASSUME NEW d \in Deploys, Forget(d) PROVE Pruning(f)'
  <2>1. /\ at(d, "forget") /\ UNCHANGED <<messages, sent>>
        /\ f \in forgets \/ (f.stale = deploy[d].stale /\ f.owed = deploy[d].owed)
    BY <1>2 DEF Forget
  <2>2. QED
    BY <1>2, <2>1 DEF Pruning, Scanned, at
<1>3. CASE /\ f \in forgets /\ sent <= sent'
           /\ \A m \in messages' \ messages : m.n \notin 1..sent
  BY <1>1, <1>3 DEF Pruning
<1>4. ASSUME NEW d \in Deploys, NEW applied \in BOOLEAN, Taken(d, applied) PROVE Pruning(f)'
  <2>1. PICK out : out = deploy[d].out
    OBVIOUS
  <2>2. /\ sent' = sent + 1 /\ f \in forgets
        /\ messages' = messages \cup
             {[n |-> sent', key |-> out.key, content |-> out.content, time |-> out.time]}
    BY <1>4, <2>1 DEF Taken
  <2>3. \A m \in messages' \ messages : m.n = sent + 1
    BY <2>2
  <2>4. QED
    BY <1>1, <1>3, <2>2, <2>3
<1>5. CASE UNCHANGED <<messages, sent, forgets>>
  BY <1>1, <1>3, <1>5
<1>6. ASSUME NEW g \in forgets, AlephForgets(g) PROVE Pruning(f)'
  BY <1>1, <1>3, <1>6 DEF AlephForgets
<1>7. ASSUME NEW d \in Deploys, Step(d), ~Forget(d) PROVE Pruning(f)'
  BY <1>4, <1>5, <1>7 DEF Step, ReadPorts, MakeRecord, ReadConfig, ReadDelete, Broadcast, Refused,
     EndWait, StartListing, ReadPage, CleanupFails
<1>8. QED
  BY <1>2, <1>5, <1>6, <1>7 DEF Next, Tick, AlephProcesses, vars

LEMMA AllScans ==
  Spec => []((\A d \in Deploys : Scanned(d)) /\ (\A f \in forgets : Pruning(f)))
<1>1. ASSUME Init PROVE (\A d \in Deploys : Scanned(d)) /\ (\A f \in forgets : Pruning(f))
  BY <1>1 DEF Init, Fresh, Scanned
<1>2. ASSUME IInv, IInv', \A d \in Deploys : Scanned(d), \A f \in forgets : Pruning(f), [Next]_vars
      PROVE  (\A d \in Deploys : Scanned(d))'
  <2>1. SUFFICES ASSUME NEW d \in Deploys PROVE Scanned(d)'
    OBVIOUS
  <2>2. Scanned(d) /\ Typed' /\ Numbered' /\ sent \in Nat
    BY <1>2 DEF IInv, Typed
  <2>3. CASE UNCHANGED <<messages, sent, deploy>>
    BY <1>2, <2>2, <2>3, OthersScan
  <2>4. CASE \E f \in forgets : AlephForgets(f)
    BY <1>2, <2>2, <2>4, ForgetScans
  <2>5. ASSUME NEW e \in Deploys, Step(e) PROVE Scanned(d)'
    <3>1. CASE d = e /\ ReadPage(e)
      BY <1>2, <2>2, <3>1, ReadPageScans
    <3>2. CASE d = e /\ ~ReadPage(e)
      BY <1>2, <2>2, <2>5, <3>2, OwnScan
    <3>3. CASE d # e
      <4>1. deploy'[d] = deploy[d]
        BY <1>2, <2>5, <3>3 DEF Step, ReadPorts, MakeRecord, ReadConfig, ReadDelete, Broadcast,
           Refused, EndWait, StartListing, ReadPage, Forget, CleanupFails, signing, over, drops,
           IInv, Typed
      <4>2. ASSUME NEW applied \in BOOLEAN, Taken(e, applied) PROVE Scanned(d)'
        <5>1. sent' = sent + 1
          BY <4>2 DEF Taken
        <5>2. PICK out : out = deploy[e].out
          OBVIOUS
        <5>3. messages' = messages \cup
                {[n |-> sent', key |-> out.key, content |-> out.content, time |-> out.time]}
          BY <4>2, <5>2 DEF Taken
        <5>4. \A m \in messages' \ messages : m.n = sent + 1
          BY <5>1, <5>3
        <5>5. messages \subseteq messages' /\ \A m \in messages' \ messages : m.n \notin 1..sent
          BY <2>2, <5>3, <5>4
        <5>6. QED
          BY <1>2, <2>2, <4>1, <5>1, <5>5, OthersScan
      <4>3. CASE UNCHANGED <<messages, sent>>
        BY <1>2, <2>2, <4>1, <4>3, OthersScan
      <4>4. QED
        BY <2>5, <4>2, <4>3 DEF Step, ReadPorts, MakeRecord, ReadConfig, ReadDelete, Broadcast,
           Refused, EndWait, StartListing, ReadPage, Forget, CleanupFails
    <3>4. QED
      BY <3>1, <3>2, <3>3
  <2>6. QED
    BY <1>2, <2>3, <2>4, <2>5 DEF Next, Tick, AlephProcesses, vars
<1>3. ASSUME IInv, IInv', \A d \in Deploys : Scanned(d), \A f \in forgets : Pruning(f), [Next]_vars
      PROVE  (\A f \in forgets : Pruning(f))'
  BY <1>3, FlightsStep
<1>4. QED
  BY <1>1, <1>2, <1>3, Invariance, PTL DEF Spec

(* A cleanup's FORGET that is applied, at once or late, leaves no          *)
(* superseded message older than six hours that was there when its scan    *)
(* began, whatever is broadcast between two of its pages and however they  *)
(* are cut.                                                                *)
THEOREM CleanupComplete == Spec => CleanupIsComplete
<1> DEFINE P == sent <= PageSize * MaxPages =>
                  \A f \in forgets \ forgets' : \A m \in messages' : m.n \notin f.owed
<1>1. ASSUME \A f \in forgets : Pruning(f), [Next]_vars PROVE [P]_vars
  <2>1. SUFFICES ASSUME Next, sent <= PageSize * MaxPages,
                        NEW f \in forgets \ forgets', NEW m \in messages'
                 PROVE  m.n \notin f.owed
    BY <1>1
  <2>2. AlephForgets(f)
    <3>1. \E g \in forgets : AlephForgets(g)
      BY <2>1 DEF Next, Tick, AlephProcesses, Step, ReadPorts, MakeRecord, ReadConfig, ReadDelete,
         Broadcast, Refused, Taken, EndWait, StartListing, ReadPage, Forget, CleanupFails
    <3>2. QED
      BY <3>1 DEF AlephForgets
  <2>3. m \in messages /\ m.n \notin f.stale
    BY <2>2 DEF AlephForgets
  <2>4. QED
    BY <1>1, <2>1, <2>3 DEF Pruning
<1>2. QED
  BY <1>1, AllScans, PTL DEF Spec, CleanupIsComplete
=============================================================================
