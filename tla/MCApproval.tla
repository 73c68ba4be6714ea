---------------------------- MODULE MCApproval ----------------------------
(* The instance of Approval for TLC: the requests and the answers are      *)
(* interchangeable.                                                        *)
EXTENDS Approval, TLC

Symmetry == Permutations(Clients) \cup Permutations(Answers)
=============================================================================
