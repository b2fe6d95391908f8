-------------------------- MODULE MCDeployExecutor --------------------------
(* Instances of DeployExecutor for TLC. *)
EXTENDS DeployExecutor

BasePlan ==
    [ profile |-> "orbitdb-relay", placement |-> "ranked",
      candidates |-> 2, maxCrnAttempts |-> 2,
      confidential |-> FALSE, publishPorts |-> TRUE, autoConfigure |-> TRUE,
      verify |-> TRUE, customDomain |-> FALSE, preserve |-> FALSE ]

(* One plan per way the profile and the options change the control flow. *)
MCPlans ==
    { BasePlan,
      [BasePlan EXCEPT !.customDomain = TRUE],
      [BasePlan EXCEPT !.profile = "uc-go-peer", !.verify = FALSE,
                       !.preserve = TRUE],
      [BasePlan EXCEPT !.profile = "uc-go-peer", !.autoConfigure = FALSE,
                       !.candidates = 3, !.maxCrnAttempts = 3],
      [BasePlan EXCEPT !.confidential = TRUE],
      [BasePlan EXCEPT !.profile = "ucan-store", !.customDomain = TRUE],
      [BasePlan EXCEPT !.profile = "other", !.publishPorts = FALSE,
                       !.placement = "scheduler",
                       !.candidates = 1, !.maxCrnAttempts = 1],
      [BasePlan EXCEPT !.placement = "crnHash", !.candidates = 0] }
=============================================================================
