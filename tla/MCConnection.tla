---------------------------- MODULE MCConnection ----------------------------
(* The instance of Connection that TLC checks.  It has a liveness property *)
(* and so uses no symmetry, though the turns are interchangeable.          *)
EXTENDS Connection

=============================================================================
