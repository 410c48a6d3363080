-------------------------- MODULE MCSdkTransaction --------------------------
(* Instances of SdkTransaction for TLC. *)
EXTENDS SdkTransaction
=============================================================================
