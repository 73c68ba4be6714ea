---------------------------- MODULE MCRoomStream ----------------------------
(* The instance of RoomStream that TLC checks.                             *)
EXTENDS RoomStream, TLC

\* Publishers are alike, and so are the events that are not terminal.
Symmetry == Permutations(Publishers) \cup Permutations(Events \ Terminal)
=============================================================================
