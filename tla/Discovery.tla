------------------------------ MODULE Discovery ------------------------------
(***************************************************************************)
(* Discovery of relays (packages/aleph-bootstrap): an app reads the shared *)
(* channel of bootstrap posts page by page, newest first, until a page     *)
(* brings addresses it can dial. Posts arrive late and are forgotten       *)
(* between two pages, so the pages of one scan are not those of one list.  *)
(*                                                                         *)
(* Publishers sign a post (publishRelayBootstrapRegistration in            *)
(* packages/core) and send it; Aleph lists it some time later.             *)
(*                                                                         *)
(* Keys stand for the signatures made with them, a set of addresses for    *)
(* its hash. A post's profile stands for its version too: both are         *)
(* compared, and neither is looked into.                                   *)
(***************************************************************************)
EXTENDS Naturals, Sequences, FiniteSets

CONSTANTS
    Writers,        \* publishers and what each of them publishes
    Options,        \* the ways discovery is called
    MaxPosts,       \* bound on the posts ever signed
    MaxTime,        \* bound on the clock
    MaxAge,         \* maxAgeMs
    CompactLimit,   \* compactMultiaddrLimit
    Absent          \* an optional field that is absent

AddrType ==
    [ public: BOOLEAN,          \* not a private, loopback or local host
      peerId: BOOLEAN,          \* ends in /p2p/<id>
      certhash: BOOLEAN,
      transport: {"tcp443-tls-ws", "tls-ws", "wss", "ws", "webtransport",
                  "webrtc-direct", "tcp"},
      host: STRING ]

WriterType ==
    [ supported: BOOLEAN,       \* posts of the type relay-bootstrap-v2
      sender: STRING,           \* the key the message is signed with
      reg: STRING \cup {Absent},          \* registrationId
      peer: STRING,
      profile: STRING,
      addrs: Seq(AddrType),
      owner: STRING \cup {Absent},        \* ownerAddress
      ownerKey: STRING \cup {Absent},     \* key of the ownerSigner
      publisherKey: STRING \cup {Absent}, \* key of the publisherSigner
      expiresAt: Nat \cup {Absent},
      now: BOOLEAN,             \* args.now is given: one clock reading
      malformed: SUBSET {"authorization", "relayProof"} ]  \* do not parse

OptionType ==
    [ pagination: Nat \ {0},
      maxPages: Nat \ {0},
      profile: STRING \cup {Absent},
      registrationId: STRING \cup {Absent},
      requireDualKeyAttestation: BOOLEAN,
      verifyDualKeyAttestation: BOOLEAN,
      browserDialableOnly: BOOLEAN,
      allowInsecureWebSockets: BOOLEAN ]

ASSUME DiscoveryAssumption ==
    /\ \A w \in Writers : w \in WriterType
    /\ \A o \in Options : o \in OptionType
    /\ MaxPosts \in Nat /\ MaxTime \in Nat /\ MaxAge \in Nat
    /\ CompactLimit \in Nat \ {0}

VARIABLES
    now,            \* Date.now()
    drafts,         \* posts being signed: writer and time of the relay proof
    signed,         \* number of posts signed so far
    sent,           \* posts that Aleph does not list yet
    channel,        \* posts that Aleph lists
    options,        \* options of the scan
    pc,             \* where the scan is
    page,           \* offset + 1
    collected,      \* collectedPosts
    result,         \* the addresses returned
    atStart,        \* history: the channel when the scan began
    disturbed       \* history: a post was forgotten, or one skipped, since

publishVars == <<drafts, signed, sent>>
scanVars == <<options, pc, page, collected, result, atStart>>
discoveryVars == <<now, publishVars, channel, scanVars, disturbed>>

-----------------------------------------------------------------------------
(* Addresses *)

isSecureWebSocket(a) == a.transport \in {"tcp443-tls-ws", "tls-ws", "wss"}

isBrowserDialable(a, allowInsecure) ==
    \/ a.transport \in {"webtransport", "webrtc-direct"} /\ a.certhash
    \/ isSecureWebSocket(a)
    \/ a.transport = "ws" /\ allowInsecure

filterPublic(addrs, browserOnly, allowInsecure) ==
    {a \in addrs : /\ a.public /\ a.peerId
                   /\ browserOnly => isBrowserDialable(a, allowInsecure)}

(* browserMultiaddrPreference *)
preference ==
    [t \in {"tcp443-tls-ws", "tls-ws", "webtransport", "webrtc-direct", "wss",
            "ws", "tcp"} |->
        CASE t = "tcp443-tls-ws" -> 0
          [] t = "tls-ws" -> 1
          [] t = "webtransport" -> 2
          [] t = "webrtc-direct" -> 3
          [] t \in {"wss", "ws"} -> 4
          [] OTHER -> 5]

(* browserMultiaddrTransport *)
transportOf(a) ==
    IF a.transport \in {"webtransport", "webrtc-direct", "tcp"}
    THEN a.transport ELSE "websocket"

(* Mutant: the addresses are cut in the order the relay reports them. *)
selectCompact_InOrder(addrs) ==
    LET usable == {i \in DOMAIN addrs :
                     addrs[i] \in filterPublic({addrs[i]}, TRUE, TRUE)}
        before(j, i) == /\ transportOf(addrs[j]) = transportOf(addrs[i])
                        /\ j < i
    IN  {addrs[i] : i \in {k \in usable :
            Cardinality({j \in usable : before(j, k)}) < CompactLimit}}

(* selectCompactRelayBootstrapMultiaddrs: of every transport the addresses *)
(* preferred most, at most CompactLimit of them, plaintext /ws included.   *)
selectCompact(addrs) ==
    LET usable == {i \in DOMAIN addrs :
                     addrs[i] \in filterPublic({addrs[i]}, TRUE, TRUE)}
        rank(i) == preference[addrs[i].transport]
        before(j, i) == /\ transportOf(addrs[j]) = transportOf(addrs[i])
                        /\ rank(j) < rank(i) \/ (rank(j) = rank(i) /\ j < i)
    IN  {addrs[i] : i \in {k \in usable :
            Cardinality({j \in usable : before(j, k)}) < CompactLimit}}

-----------------------------------------------------------------------------
(* Publication *)

(* signRelayBootstrapAuthorization, by the owner key *)
authorizationOf(w) ==
    IF w.owner # Absent /\ w.ownerKey # Absent
    THEN [owner |-> w.owner, publisher |-> w.sender, peer |-> w.peer,
          expiresAt |-> w.expiresAt, key |-> w.ownerKey]
    ELSE Absent

(* signRelayBootstrapProof, by the publisher key *)
proofOf(w, time) ==
    IF w.publisherKey # Absent
    THEN [peer |-> w.peer, reg |-> w.reg, profile |-> w.profile,
          addrs |-> selectCompact(w.addrs), updatedAt |-> time,
          key |-> w.publisherKey]
    ELSE Absent

(* buildRelayBootstrapPostContent; serial tells posts of one writer apart  *)
(* and is the order Aleph lists posts of the same millisecond in.          *)
postOf(w, proofTime, time) ==
    [ serial |-> signed + 1, supported |-> w.supported, sender |-> w.sender,
      reg |-> w.reg, peer |-> w.peer, profile |-> w.profile,
      owner |-> w.owner, publisher |-> w.sender,
      authorization |-> authorizationOf(w),
      relayProof |-> proofOf(w, proofTime), malformed |-> w.malformed,
      addrs |-> selectCompact(w.addrs), updatedAt |-> time ]

(* publishRelayBootstrapRegistration signs the relay proof with a first    *)
(* reading of the clock ...                                                *)
SignProof(w) ==
    /\ \A d \in drafts : d.writer # w
    /\ signed + Cardinality(drafts) < MaxPosts
    /\ drafts' = drafts \cup {[writer |-> w, time |-> now]}
    /\ UNCHANGED <<now, signed, sent, channel, scanVars, disturbed>>

(* ... and stamps the post with a second one, unless it was given args.now. *)
(* A post without addresses is not sent.                                   *)
Send(d) ==
    LET w == d.writer
        post == postOf(w, d.time, IF w.now THEN d.time ELSE now)
    IN  /\ drafts' = drafts \ {d}
        /\ signed' = signed + 1
        /\ sent' = IF post.addrs = {} THEN sent ELSE sent \cup {post}
        /\ UNCHANGED <<now, channel, scanVars, disturbed>>

(* Aleph lists a post that was sent, at once or later, in the order of its *)
(* own time.                                                               *)
Listed(p) ==
    /\ sent' = sent \ {p}
    /\ channel' = channel \cup {p}
    /\ UNCHANGED <<now, drafts, signed, scanVars, disturbed>>

(* A FORGET by the sender of the post. *)
Forgotten(p) ==
    /\ channel' = channel \ {p}
    /\ disturbed' = (disturbed \/ pc = "page")
    /\ UNCHANGED <<now, publishVars, scanVars>>

-----------------------------------------------------------------------------
(* Selection *)

(* compareRelayBootstrapPostRecency *)
newer(p, q) ==
    \/ p.updatedAt > q.updatedAt
    \/ p.updatedAt = q.updatedAt /\ p.serial > q.serial

(* relayBootstrapRecordIdentity *)
identity(p) == IF p.reg # Absent THEN <<"registration", p.reg>> ELSE <<"sender", p.sender>>

(* fetchAlephBootstrapPosts, as the API answers it *)
pageOf(n) ==
    LET rank(p) == Cardinality({q \in channel : newer(q, p)})
    IN  {p \in channel : /\ (n - 1) * options.pagination <= rank(p)
                         /\ rank(p) < n * options.pagination}

(* normalizeRelayBootstrapContent: a signed record that does not parse     *)
(* counts as absent, so that the post counts as signed by the wallet only. *)
normalized(p) ==
    LET parsed(field) == IF field \in p.malformed THEN Absent ELSE p[field]
    IN  [p EXCEPT !.authorization = parsed("authorization"),
                  !.relayProof = parsed("relayProof")]

(* usableRelayBootstrapPosts *)
usableOf(posts) == {normalized(p) : p \in {q \in posts : q.supported}}

(* selectCurrentRelayBootstrapPosts *)
selectCurrent(posts) ==
    LET recent == {p \in posts : now - p.updatedAt <= MaxAge}
    IN  {p \in recent : \A q \in recent : identity(q) = identity(p) => ~newer(q, p)}

(* filterRelayBootstrapPostsByProfile, filterRelayBootstrapPostsByRegistration *)
inScope(posts) ==
    {p \in posts : /\ options.profile \in {Absent, p.profile}
                   /\ options.registrationId \in {Absent, p.reg}}

verifyAuthorization(auth) ==
    /\ auth.key = auth.owner
    /\ auth.expiresAt = Absent \/ now <= auth.expiresAt

verifyProof(proof, publisher, peer) == proof.key = publisher /\ proof.peer = peer

(* verifyRelayBootstrapDualKeyContent *)
verifyDualKey(p) ==
    LET auth == p.authorization
        proof == p.relayProof
    IN  /\ verifyAuthorization(auth)
        /\ verifyProof(proof, p.publisher, p.peer)
        /\ p.owner \in {Absent, auth.owner}
        /\ auth.publisher = p.publisher
        /\ auth.peer = p.peer
        /\ proof.reg = p.reg /\ proof.profile = p.profile
        /\ proof.updatedAt = p.updatedAt
        /\ proof.addrs = p.addrs

(* relayBootstrapTrustMode *)
isDualKey(p) == p.authorization # Absent /\ p.relayProof # Absent

(* filterTrustedRelayBootstrapPosts *)
trusted(posts) ==
    {p \in posts :
        IF isDualKey(p)
        THEN options.verifyDualKeyAttestation => verifyDualKey(p)
        ELSE ~options.requireDualKeyAttestation}

(* relayBootstrapPostsToMultiaddrs *)
multiaddrsOf(posts) ==
    filterPublic(UNION {p.addrs : p \in posts}, options.browserDialableOnly,
                 options.allowInsecureWebSockets)

(* Mutant: what an earlier page brought is not considered again. *)
addressesIn_PageOnly(posts) ==
    multiaddrsOf(trusted(inScope(selectCurrent(posts \cap pageOf(page)))))

addressesIn(posts) == multiaddrsOf(trusted(inScope(selectCurrent(posts))))

-----------------------------------------------------------------------------
(* discoverAlephBootstrapMultiaddrs *)

Begin ==
    /\ pc = "idle"
    /\ pc' = "page"
    /\ atStart' = channel
    /\ UNCHANGED <<now, publishVars, channel, options, page, collected, result,
                   disturbed>>

(* Mutant: a page without an address ends the scan. *)
ReadPage_StopsOnNoAddress ==
    /\ pc = "page"
    /\ LET usable == usableOf(pageOf(page)) IN
         /\ collected' = collected \cup usable
         /\ result' = addressesIn(collected')
         /\ disturbed' = (disturbed \/ \E p \in pageOf(page) : ~p.supported)
         /\ pc' = "done"
         /\ UNCHANGED page
    /\ UNCHANGED <<now, publishVars, channel, options, atStart>>

(* One page: its usable posts join those of the pages before, and all of   *)
(* them are selected anew. The scan ends with the first page that leaves   *)
(* an address, with a page that is not full, or with the last one allowed. *)
ReadPage ==
    /\ pc = "page"
    /\ LET usable == usableOf(pageOf(page))
           more == /\ Cardinality(usable) >= options.pagination
                   /\ page < options.maxPages
       IN  /\ collected' = collected \cup usable
           /\ result' = addressesIn(collected')
           /\ disturbed' = (disturbed \/ \E p \in pageOf(page) : ~p.supported)
           /\ IF result' = {} /\ more
              THEN page' = page + 1 /\ UNCHANGED pc
              ELSE pc' = "done" /\ UNCHANGED page
    /\ UNCHANGED <<now, publishVars, channel, options, atStart>>

(* A lookup that fails throws. *)
LookupFails ==
    /\ pc = "page"
    /\ pc' = "failed"
    /\ UNCHANGED <<now, publishVars, channel, options, page, collected, result,
                   atStart, disturbed>>

Tick ==
    /\ now < MaxTime
    /\ now' = now + 1
    /\ UNCHANGED <<publishVars, channel, scanVars, disturbed>>

DiscoveryInit ==
    /\ now = 0
    /\ drafts = {}
    /\ signed = 0
    /\ sent = {}
    /\ channel = {}
    /\ options \in Options
    /\ pc = "idle"
    /\ page = 1
    /\ collected = {}
    /\ result = {}
    /\ atStart = {}
    /\ disturbed = FALSE

Publish ==
    \/ \E w \in Writers : SignProof(w)
    \/ \E d \in drafts : Send(d)
    \/ \E p \in sent : Listed(p)
    \/ \E p \in channel : Forgotten(p)

Scan == Begin \/ ReadPage \/ LookupFails

DiscoveryNext == Publish \/ Scan \/ Tick

DiscoverySpec == DiscoveryInit /\ [][DiscoveryNext]_discoveryVars

-----------------------------------------------------------------------------
(* Properties *)

DiscoveryTypeOK ==
    /\ now \in 0..MaxTime
    /\ drafts \subseteq [writer: Writers, time: 0..MaxTime]
    /\ signed \in 0..MaxPosts
    /\ \A p \in sent \cup channel \cup collected \cup atStart :
         /\ p.serial \in 1..signed
         /\ p.updatedAt \in 0..now
         /\ p.addrs # {}
    /\ options \in Options
    /\ pc \in {"idle", "page", "done", "failed"}
    /\ page \in 1..options.maxPages
    /\ disturbed \in BOOLEAN

(* A scan that comes back empty before its last page has not overlooked    *)
(* anything: whatever was published meanwhile, no relay listed when it     *)
(* began has an address it should have returned. (Not so when a post was   *)
(* forgotten between two pages, which moves the rest up, or when a post of *)
(* another type was skipped, which makes a full page look like the last.)  *)
EmptyIsComplete ==
    pc = "done" /\ result = {} /\ page < options.maxPages /\ ~disturbed =>
        /\ usableOf(atStart) \subseteq collected
        /\ addressesIn(usableOf(atStart) \cup collected) = {}

(* However the pages moved under the scan, no address it returns is from a *)
(* post that a newer post of the same registration had replaced when the   *)
(* scan began.                                                             *)
NothingSuperseded ==
    pc = "done" /\ ~disturbed =>
        \A a \in result : \E p \in collected :
            /\ a \in p.addrs
            /\ \A q \in usableOf(atStart) : identity(q) = identity(p) => ~newer(q, p)

(* What a publisher signs with both keys verifies when it is read, as long *)
(* as the proof and the post carry the same time and the authorization has *)
(* not expired; and a relay that a browser can dial has an address a       *)
(* browser can dial left in its post, whatever the cut left out.           *)
PostsAreUsable ==
    \A p \in channel : \E w \in Writers :
        /\ p.sender = w.sender /\ p.reg = w.reg
        /\ /\ isDualKey(p) /\ p.malformed = {}
           /\ w.owner = w.ownerKey /\ w.sender = w.publisherKey
           /\ w.expiresAt = Absent \/ now <= w.expiresAt
           /\ p.relayProof.updatedAt = p.updatedAt
           => verifyDualKey(p)
        /\ (\E i \in DOMAIN w.addrs : /\ w.addrs[i].transport # "wss"
                                      /\ w.addrs[i] \in filterPublic({w.addrs[i]}, TRUE, FALSE))
           => filterPublic(p.addrs, TRUE, FALSE) # {}

(* "So a single legacy record ... would blind discovery for everyone,      *)
(* permanently. ... the answer here is to skip the record" (index.ts,      *)
(* above unsupportedRelayBootstrapReason): a scan that ends before its     *)
(* last page, with no post forgotten meanwhile, has read every usable post *)
(* that was listed when it began, records of other types or not.           *)
LegacyDoesNotBlind ==
    pc = "done" /\ result = {} /\ page < options.maxPages
       /\ atStart \subseteq channel
       => usableOf(atStart) \subseteq collected
=============================================================================
