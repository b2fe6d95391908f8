------------------------- MODULE InstanceOwnership -------------------------
(***************************************************************************)
(* What one deployment run promises about the Aleph INSTANCE messages it   *)
(* pays for, whatever the steps in between are:                            *)
(*   - it answers for at most one confirmed instance at a time: it takes   *)
(*     the next one only after the previous one was released;              *)
(*   - an instance that was released is never taken or returned again;     *)
(*   - it fails only when it holds nothing, and returns only what it holds.*)
(* The deploy executor of packages/node (DeployExecutor) and the deploy of *)
(* the browser panel (ControllerDeploy) both implement this specification. *)
(***************************************************************************)
CONSTANTS
    Instances,      \* identities of the instances a run may create
    NoInstance      \* stands for "nothing held", not one of Instances

VARIABLES
    held,           \* the confirmed instance the run answers for
    released,       \* the instances the run has given up
    outcome         \* "running", "returned" or "failed"

ownershipVars == <<held, released, outcome>>

Init ==
    /\ held = NoInstance
    /\ released = {}
    /\ outcome \in {"running", "failed"}

Take(i) ==
    /\ outcome = "running"
    /\ held = NoInstance
    /\ i \notin released
    /\ held' = i
    /\ UNCHANGED <<released, outcome>>

(* Giving up the held instance may be the last thing the run does. *)
Release ==
    /\ outcome = "running"
    /\ held # NoInstance
    /\ released' = released \cup {held}
    /\ held' = NoInstance
    /\ outcome' \in {"running", "failed"}

(* An instance that was never confirmed may be given up as well. *)
Discard(i) ==
    /\ outcome = "running"
    /\ held = NoInstance
    /\ i \notin released
    /\ released' = released \cup {i}
    /\ outcome' \in {"running", "failed"}
    /\ UNCHANGED held

Return ==
    /\ outcome = "running"
    /\ held # NoInstance
    /\ outcome' = "returned"
    /\ UNCHANGED <<held, released>>

Fail ==
    /\ outcome = "running"
    /\ held = NoInstance
    /\ outcome' = "failed"
    /\ UNCHANGED <<held, released>>

Next ==
    \/ \E i \in Instances : Take(i) \/ Discard(i)
    \/ Release
    \/ Return
    \/ Fail

Spec == Init /\ [][Next]_ownershipVars
=============================================================================
