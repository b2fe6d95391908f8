----------------------------- MODULE MCDiscovery -----------------------------
(* Instances of Discovery for TLC. *)
EXTENDS Discovery

Addr(transport) ==
    [public |-> TRUE, peerId |-> TRUE, certhash |-> FALSE,
     transport |-> transport, host |-> "relay"]

Local == [Addr("tls-ws") EXCEPT !.public = FALSE, !.host = "localhost"]

(* Plaintext ports reported before the one behind the TLS proxy. *)
Guest ==
    [ supported |-> TRUE, sender |-> "guest", reg |-> "relay", peer |-> "peer",
      profile |-> "orbitdb-relay",
      addrs |-> <<Local, Addr("ws"), [Addr("ws") EXCEPT !.host = "ip6"], Addr("tls-ws")>>,
      owner |-> Absent, ownerKey |-> Absent, publisherKey |-> Absent,
      expiresAt |-> Absent, now |-> FALSE, malformed |-> {} ]

(* The deploy runner: owner and publisher key, two readings of the clock,  *)
(* and the relay at its next address.                                      *)
Runner ==
    [Guest EXCEPT !.addrs = <<Addr("tcp443-tls-ws")>>,
                  !.sender = "publisher", !.owner = "owner", !.ownerKey = "owner",
                  !.publisherKey = "publisher", !.expiresAt = 1]

(* A relay that has only a plaintext port, under its sender alone, whose   *)
(* authorization is of another version and does not parse.                 *)
Plain ==
    [Guest EXCEPT !.sender = "plain", !.reg = Absent, !.profile = "uc-go-peer",
                  !.addrs = <<Addr("ws")>>, !.publisherKey = "plain", !.now = TRUE,
                  !.owner = "owner", !.ownerKey = "owner",
                  !.malformed = {"authorization"}]

Legacy == [Guest EXCEPT !.supported = FALSE, !.sender = "old", !.reg = Absent]

MCWriters == {Guest, Runner, Plain}
MCLegacyWriters == {Guest, Legacy}

Base ==
    [ pagination |-> 1, maxPages |-> 3, profile |-> Absent, registrationId |-> Absent,
      requireDualKeyAttestation |-> FALSE, verifyDualKeyAttestation |-> TRUE,
      browserDialableOnly |-> TRUE, allowInsecureWebSockets |-> FALSE ]

MCOptions ==
    { Base,
      [Base EXCEPT !.pagination = 2, !.maxPages = 2, !.profile = "orbitdb-relay",
                   !.requireDualKeyAttestation = TRUE],
      [Base EXCEPT !.registrationId = "relay", !.verifyDualKeyAttestation = FALSE] }

MCLegacyOptions == {Base}
=============================================================================
