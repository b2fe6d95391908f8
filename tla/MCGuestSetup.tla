---------------------------- MODULE MCGuestSetup ----------------------------
(* Instances of GuestSetup for TLC. *)
EXTENDS GuestSetup

(* Without the mapped ports, which orbitdb-relay cannot do without. *)
Bare == [ipv4 |-> TRUE, ports |-> FALSE, proxy |-> FALSE, start |-> TRUE]

MCConfigs == {Bare, [Bare EXCEPT !.ports = TRUE, !.proxy = TRUE]}

MCProfiles == {"uc-go-peer", "orbitdb-relay"}
MCOrbit == {"orbitdb-relay"}
MCUc == {"uc-go-peer"}
=============================================================================
