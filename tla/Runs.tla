---------------------------------- MODULE Runs ----------------------------------
(***************************************************************************)
(* What starting a target promises: it runs as one container at most, from *)
(* a spec the policy passed on the daemon it runs on, and a container only *)
(* ever gives way to another by going down first.                          *)
(***************************************************************************)
CONSTANT Allowed   (* <<daemon, spec>> pairs the policy passes             *)
VARIABLE runs      (* the containers of the target that run: <<daemon, spec>> *)

Init == runs = {}
Up(box) == runs = {} /\ box \in Allowed /\ runs' = {box}
Down == runs' = {}
Next == Down \/ \E box \in Allowed : Up(box)
Spec == Init /\ [][Next]_runs
=============================================================================
