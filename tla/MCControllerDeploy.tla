------------------------- MODULE MCControllerDeploy -------------------------
(* Instances of ControllerDeploy for TLC. *)
EXTENDS ControllerDeploy

BaseLaunch ==
    [ profile |-> "orbitdb-relay", supportsAggregate |-> TRUE, ports |-> TRUE,
      confidential |-> FALSE, https |-> TRUE, showInstances |-> TRUE,
      candidates |-> 2 ]

(* One launch per way the profile and the image change the control flow. *)
MCLaunches ==
    { BaseLaunch,
      [BaseLaunch EXCEPT !.confidential = TRUE],
      [BaseLaunch EXCEPT !.profile = "uc-go-peer", !.supportsAggregate = FALSE],
      [BaseLaunch EXCEPT !.supportsAggregate = FALSE, !.https = FALSE,
                         !.showInstances = FALSE],
      [BaseLaunch EXCEPT !.supportsAggregate = FALSE],
      [BaseLaunch EXCEPT !.profile = "ucan-store", !.ports = FALSE],
      [BaseLaunch EXCEPT !.profile = "none", !.supportsAggregate = FALSE],
      [BaseLaunch EXCEPT !.candidates = 0] }
=============================================================================
