---------------------------- MODULE MCSelfUpdate ----------------------------
(* The instance of SelfUpdate that TLC checks; its constants are bounds.   *)
EXTENDS SelfUpdate

=============================================================================
