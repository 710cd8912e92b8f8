-------------------------------- MODULE Ports --------------------------------
(***************************************************************************)
(* Which host port each of a target's labels gets: the pure functions of   *)
(* vscode-image/ports.ts.  A label is the editor or a container port the   *)
(* project declares; a port map gives each label a host port or none.      *)
(***************************************************************************)
EXTENDS Integers

CONSTANTS
  HostPorts,   (* the ports the ingress forwards, 1024 to 65535            *)
  Base,        (* DESOLATE_PORT_BASE: the lowest port allocated by itself  *)
  Labels,      (* every label a target may have                            *)
  Editor,      (* the label every target has                               *)
  Rank,        (* the order a map lists its labels in, the editor first    *)
  NoPort       (* the label is not in the map                              *)

ASSUME PortsAssumption ==
  /\ HostPorts \subseteq Nat
  /\ Base \in Nat
  /\ NoPort \notin HostPorts
  /\ Editor \in Labels
  /\ Rank \in [Labels -> Nat]
  /\ \A k, l \in Labels : Rank[k] = Rank[l] => k = l
  /\ \A l \in Labels \ {Editor} : Rank[Editor] < Rank[l]

PortMap == [Labels -> HostPorts \union {NoPort}]
EmptyMap == [l \in Labels |-> NoPort]

(* A port nobody holds, or one this target's own relays or own forwards    *)
(* hold.                                                                   *)
NotAnothers(published, own) == (HostPorts \ published) \union (HostPorts \intersect own)

(* The fault to seed: a move onto another label's port.                    *)
MovesAnywhere(previous, label, port, published, own) ==
  previous[label] # NoPort /\ port \in NotAnothers(published, own)

PortsOf(map) == {map[l] : l \in Labels} \ {NoPort}
Before(map, l) == {map[k] : k \in {j \in Labels : Rank[j] < Rank[l]}}

(* available(): a port from the base on that is nobody else's.             *)
Available(published, own) == {p \in NotAnothers(published, own) : p >= Base}

(* allocatePorts: label after label, the port it had if that is still      *)
(* available, otherwise the lowest available one.  No map is an allocation *)
(* when the ports run out, which is the code's PortsExhaustedError.        *)
IsAllocation(map, wanted, previous, available) ==
  \A l \in Labels :
    IF l \notin wanted THEN map[l] = NoPort
    ELSE LET free == available \ Before(map, l)
         IN  IF previous[l] \in free
             THEN map[l] = previous[l]
             ELSE /\ map[l] \in free
                  /\ \A p \in free : map[l] <= p

Allocations(wanted, previous, available) ==
  {map \in PortMap : IsAllocation(map, wanted, previous, available)}

(* movePort: the label is in the map, the port is one the ingress forwards *)
(* and nobody else's, below the base or not, and is no other label's of    *)
(* this target.                                                            *)
CanMove(previous, label, port, published, own) ==
  /\ previous[label] # NoPort
  /\ port \in NotAnothers(published, own)
  /\ \A l \in Labels \ {label} : previous[l] # port

MovePort(previous, label, port) == [previous EXCEPT ![label] = port]
=============================================================================
