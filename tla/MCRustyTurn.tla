----------------------------- MODULE MCRustyTurn -----------------------------
(* The instance of RustyTurn that TLC checks; its constants are bounds.    *)
EXTENDS RustyTurn

=============================================================================
