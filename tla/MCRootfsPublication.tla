------------------------ MODULE MCRootfsPublication ------------------------
(* Instances of RootfsPublication for TLC. *)
EXTENDS RootfsPublication, TLC

CONSTANTS r1, r2, t1

MCRuns == {r1, r2}
MCRefreshes == {t1}
MCVersions == {"v1"}
MCSources == {"latest", "v1"}

OnGithub == [githubActions |-> TRUE, docker |-> TRUE, daemon |-> TRUE, virtCustomize |-> FALSE]
NoDaemon == [OnGithub EXCEPT !.daemon = FALSE]

MCPlan == [valid |-> TRUE, version |-> "v1", assets |-> FALSE, buildDriver |-> "auto",
           toolchain |-> OnGithub, driver |-> "ipfs-add", skipUpload |-> FALSE,
           requireProcessed |-> FALSE]

MCPlans ==
    {MCPlan,
     [MCPlan EXCEPT !.driver = "helia", !.requireProcessed = TRUE],
     [MCPlan EXCEPT !.driver = "aleph-api-ipfs", !.requireProcessed = TRUE, !.assets = TRUE],
     [MCPlan EXCEPT !.skipUpload = TRUE],
     [MCPlan EXCEPT !.toolchain = NoDaemon]}

(* Runs that do not insist on a processed STORE. *)
MCLaxPlans == {[MCPlan EXCEPT !.driver = "aleph-api-ipfs"], [MCPlan EXCEPT !.driver = "helia"]}

Symmetry == Permutations(MCRuns)
=============================================================================
