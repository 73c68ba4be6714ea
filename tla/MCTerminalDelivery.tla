------------------------- MODULE MCTerminalDelivery -------------------------
(* The instance of TerminalDelivery that TLC checks.                       *)
EXTENDS TerminalDelivery
=============================================================================
