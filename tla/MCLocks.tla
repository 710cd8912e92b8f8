------------------------------- MODULE MCLocks -------------------------------
(* Instances of Locks for TLC. *)
EXTENDS Locks, TLC

CONSTANTS r1, r2, r3, p1, p2, p3

ThreeRunners == {r1, r2, r3}
TwoRunners == {r1, r2}

ThreePids == {p1, p2, p3}
TwoPids == {p1, p2}
=============================================================================
