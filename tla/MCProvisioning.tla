---------------------------- MODULE MCProvisioning ----------------------------
(***************************************************************************)
(* Small instances of Provisioning for TLC.                                *)
(***************************************************************************)
EXTENDS Provisioning

None == {}
Gpu == {"gpu"}
Cpu == {"cpu"}
Both == {"gpu", "cpu"}

OnlySet == {TRUE}
SetOrUnset == {TRUE, FALSE}
================================================================================
