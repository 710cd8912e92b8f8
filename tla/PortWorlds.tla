------------------------------- MODULE PortWorlds -------------------------------
(***************************************************************************)
(* Every world the allocator can be told about, over a few ports: one      *)
(* question at a time, from a blank one.                                   *)
(***************************************************************************)
EXTENDS Ports, FiniteSets

VARIABLES
  wanted,     (* the labels the spec declares, the editor among them       *)
  previous,   (* the target's state file                                   *)
  published,  (* the ports somebody holds                                  *)
  own         (* those of them that are the target's                       *)

vars == <<wanted, previous, published, own>>

(* No two labels of one map share a port, and a map that is not empty has  *)
(* the editor: allocatePorts and movePort are the only writers of the      *)
(* state file.                                                             *)
Apart(map) == \A k, l \in Labels : k # l /\ map[k] = map[l] => map[k] = NoPort

Blank ==
  /\ wanted = {Editor}
  /\ previous = EmptyMap
  /\ published = {}
  /\ own = {}

Ask ==
  /\ Blank
  /\ wanted' \in {w \in SUBSET Labels : Editor \in w}
  /\ previous' \in {m \in PortMap : Apart(m) /\ (m # EmptyMap => m[Editor] # NoPort)}
  /\ published' \in SUBSET HostPorts
  /\ own' \in SUBSET published'

Forget ==
  /\ ~Blank
  /\ wanted' = {Editor} /\ previous' = EmptyMap /\ published' = {} /\ own' = {}

Init == Blank
Next == Ask \/ Forget
Spec == Init /\ [][Next]_vars

Avail == Available(published, own)
Answers == Allocations(wanted, previous, Avail)

(* What the next start makes of a move, as long as the moved map's ports   *)
(* are in a set that start finds.                                          *)
IsKept(label, port, found) ==
  CanMove(previous, label, port, published, own) =>
    LET moved == MovePort(previous, label, port)
        listed == {l \in Labels : moved[l] # NoPort}
    IN PortsOf(moved) \subseteq found => Allocations(listed, moved, Avail) = {moved}

(* A move survives the next start (allocatePorts prefers the port a label  *)
(* had): as long as nobody takes its ports, and they are from the base on, *)
(* the labels the moved map lists get exactly that map.                    *)
MoveOutlivesARestart ==
  \A label \in Labels, port \in HostPorts : IsKept(label, port, Avail)

(* The same of every move, as desolate.ts:1347-1348 has it ("a stopped one *)
(* keeps the new port for its next start").  The code does not keep it: a  *)
(* move may name a port below the base, which no start allocates, so the   *)
(* next one gives the label another although nobody took its port.         *)
EveryMoveOutlivesARestart ==
  \A label \in Labels, port \in HostPorts : IsKept(label, port, NotAnothers(published, own))
=============================================================================
