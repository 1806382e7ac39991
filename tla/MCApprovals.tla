------------------------------ MODULE MCApprovals ------------------------------
(* Instances of Approvals for TLC. *)
EXTENDS Approvals, TLC

CONSTANTS d1, ann, bob, c1, c2

ThreeSteps == {<<{bob}, {ann, bob}, {bob}>>}
AnyCall    == Permutations({c1, c2})
================================================================================
