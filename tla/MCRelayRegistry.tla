--------------------------- MODULE MCRelayRegistry ---------------------------
(* Instances of RelayRegistry for TLC. *)
EXTENDS RelayRegistry, TLC

CONSTANTS i1, i2, r1, r2

MCProfiles == [i \in {i1, i2} |-> "uc-go-peer"]

MCPlan(mode, i) ==
    [mode |-> mode, reg |-> registrationOf(i, profileOf[i]),
     forgetPrevious |-> TRUE, reconcileOwner |-> TRUE]

(* Relays of both profiles. *)
MixedProfiles == (i1 :> "uc-go-peer") @@ (i2 :> "orbitdb-relay")

(* A deploy registers i1. *)
OneDeploy == r1 :> MCPlan("deploy", i1)

(* A deploy registers i1, and another run registers i2. *)
Deploys == (r1 :> MCPlan("deploy", i1)) @@ (r2 :> MCPlan("refresh", i2))

(* The refresh is given the name of i2 and not its instance hash. *)
NamedRefresh ==
    [Deploys EXCEPT ![r2].reg.named = TRUE]
=============================================================================
