---------------------------- MODULE MCRetention ----------------------------
(* Instances of Retention for TLC: the third deployment reuses the rootfs  *)
(* image of the first, the second has a site as well.                      *)
EXTENDS Retention

MCRecord ==
    << [instance |-> "i1", rootfs |-> "R", site |-> "none"],
       [instance |-> "i2", rootfs |-> "S", site |-> "w"],
       [instance |-> "i3", rootfs |-> "R", site |-> "none"] >>

MCHashes == {"i1", "i2", "i3", "R", "S", "w"}
NoExtra == [r \in Runs |-> {}]
LastExtra == [NoExtra EXCEPT ![MaxRun] = {"S"}]
=============================================================================
