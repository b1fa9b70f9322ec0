-------------------------- MODULE MCSdmmcStorage --------------------------
(* Instances of SdmmcStorage for TLC. *)
EXTENDS SdmmcStorage

=============================================================================
