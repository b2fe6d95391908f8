--------------------------- MODULE MCEphemeralVms ---------------------------
(* Two runners, started by one `up` or by two for different repositories, one *)
(* of them with a forget key; or a relay under test.                          *)
EXTENDS EphemeralVms, TLC

CONSTANTS r1, r2, s1, ra, rb, n1, n2

RunnersDef == {r1, r2}
RelaysDef == {s1}
OneRepo == (r1 :> ra) @@ (r2 :> ra)
TwoRepos == (r1 :> ra) @@ (r2 :> rb)
OneUp == (r1 :> {}) @@ (r2 :> {r1})
TwoUps == (r1 :> {}) @@ (r2 :> {})
OnePrefix == (ra :> {r1, r2})
OwnPrefix == (ra :> {r1}) @@ (rb :> {r2})
(* The prefix of owner/repo is one of every runner of owner/repo-x. *)
LongerPrefix == (ra :> {r1, r2}) @@ (rb :> {r2})
OwnName == (r1 :> n1) @@ (r2 :> n2)
(* Two names cut to the same sixty-four characters. *)
SameName == (r1 :> n1) @@ (r2 :> n1)
KeyedDef == {r1}

=============================================================================
