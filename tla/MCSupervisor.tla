----------------------------- MODULE MCSupervisor -----------------------------
(* Instances of Supervisor for TLC. *)
EXTENDS Supervisor, TLC

CONSTANTS A, B, C, x, y, s, t, u

OneEach == [d \in Dinds |-> 1]
ABigOne == [d \in Dinds |-> IF d = A THEN 2 ELSE 1]
SubnetSymmetry == Permutations(Subnets)
RoomSymmetry == Permutations(Clients) \union Permutations(Subnets) \union Permutations({B, C})
=============================================================================
