---------------------------- MODULE ForwardsProofs ----------------------------
(* What holds of Forwards for all targets, runners, ports and labels.      *)
EXTENDS Forwards, TLAPS

(* A map with a label moved is a map. *)
LEMMA MovePortIsMap ==
  ASSUME NEW map \in PortMap, NEW l \in Labels, NEW p \in HostPorts
  PROVE  MovePort(map, l, p) \in PortMap
BY DEF PortMap, MovePort

(* What a map's labels name are ports. *)
LEMMA PortsOfAreHostPorts ==
  ASSUME NEW map \in PortMap
  PROVE  PortsOf(map) \subseteq HostPorts
BY DEF PortMap, PortsOf

LEMMA EmptyMapIsMap == EmptyMap \in PortMap
BY DEF PortMap, EmptyMap

(* The record of a runner that runs nothing is one a runner may have. *)
LEMMA IdleIsRunState == Idle \in RunState
<1>1. 0 \in 0..(ClaimAttempts - 1)
  BY ForwardsAssumption
<1>2. NoMove \in [label : Labels, port : HostPorts \union {NoPort}]
  BY PortsAssumption DEF NoMove
<1> QED
  BY <1>1, <1>2, EmptyMapIsMap DEF Idle, RunState

(* A step of one runner keeps the type of all of them. *)
LEMMA StepsKeepsTypes ==
  ASSUME run \in [Runners -> RunState], NEW r \in Runners, NEW next \in RunState, Steps(r, next)
  PROVE  run' \in [Runners -> RunState]
BY DEF Steps

LEMMA FinishKeepsTypes ==
  ASSUME run \in [Runners -> RunState], NEW r \in Runners, Finish(r)
  PROVE  run' \in [Runners -> RunState]
BY StepsKeepsTypes, IdleIsRunState DEF Finish

(* The fields of a runner's record. *)
LEMMA FieldTypes ==
  ASSUME NEW s \in RunState
  PROVE  /\ s.target \in Targets \union {NoTarget}
         /\ s.before \in PortMap
         /\ s.map \in PortMap
         /\ s.move \in [label : Labels, port : HostPorts \union {NoPort}]
         /\ s.wanted \subseteq Labels
         /\ s.todo \subseteq HostPorts
         /\ s.claimed \subseteq HostPorts
         /\ s.lost \subseteq HostPorts
         /\ s.own \subseteq HostPorts
         /\ s.round \in 0..(ClaimAttempts - 1)
BY DEF RunState

(* Every variable has its type initially, and every step keeps it. *)
LEMMA TypeInitially == Init => TypeOK
BY IdleIsRunState, EmptyMapIsMap DEF Init, TypeOK

LEMMA BeginKeepsTypes ==
  ASSUME TypeOK, NEW r \in Runners, NEW t \in Targets, BeginSome(r, t)
  PROVE  TypeOK'
<1> USE DEF TypeOK
<1>1. ASSUME NEW wanted \in SUBSET Declares[t], NEW rebuild \in BOOLEAN, BeginRun(r, t, wanted, rebuild)
      PROVE  TypeOK'
  <2>1. wanted \subseteq Labels /\ OwnedBy(t) \subseteq HostPorts /\ saved[t] \in PortMap
    BY ForwardsAssumption DEF OwnedBy
  <2>2. [[Idle EXCEPT !.at = "look", !.phase = "allocate", !.before = saved[t],
                      !.wanted = wanted, !.held = OwnedBy(t)]
          EXCEPT !.cmd = "run", !.target = t] \in RunState
    BY <2>1, IdleIsRunState, Zenon DEF RunState, Commands, Locked
  <2>3. run' \in [Runners -> RunState]
    BY <1>1, <2>2, StepsKeepsTypes DEF BeginRun, Begin
  <2> QED BY <1>1, <2>3 DEF BeginRun
<1>2. ASSUME NEW cmd \in {"stop", "stopAll", "purge"}
      PROVE  [[Idle EXCEPT !.at = "load", !.phase = "withdraw"]
               EXCEPT !.cmd = cmd, !.target = t] \in RunState
  <2>1. cmd \in Commands \union {"none"}
    BY DEF Commands, Locked, Unlocked
  <2> QED BY <2>1, IdleIsRunState, Zenon DEF RunState
<1>3. ASSUME NEW cmd \in {"stop", "stopAll"}, BeginStop(r, t, cmd) PROVE TypeOK'
  <2>1. run' \in [Runners -> RunState]
    BY <1>2, <1>3, StepsKeepsTypes DEF BeginStop, Begin
  <2> QED BY <1>3, <2>1 DEF BeginStop
<1>4. ASSUME BeginPurge(r, t) PROVE TypeOK'
  <2>1. run' \in [Runners -> RunState]
    BY <1>2, <1>4, StepsKeepsTypes DEF BeginPurge, Begin
  <2> QED BY <1>4, <2>1 DEF BeginPurge
<1>5. ASSUME NEW l \in Labels, NEW p \in HostPorts, BeginMove(r, t, l, p) PROVE TypeOK'
  <2>1. [label |-> l, port |-> p] \in [label : Labels, port : HostPorts \union {NoPort}]
    OBVIOUS
  <2>2. [[Idle EXCEPT !.at = "look", !.move = [label |-> l, port |-> p]]
          EXCEPT !.cmd = "move", !.target = t] \in RunState
    BY <2>1, IdleIsRunState, Zenon DEF RunState, Commands, Unlocked
  <2>3. run' \in [Runners -> RunState]
    BY <1>5, <2>2, StepsKeepsTypes DEF BeginMove, Begin
  <2> QED BY <1>5, <2>3 DEF BeginMove
<1> QED BY <1>1, <1>3, <1>4, <1>5 DEF BeginSome

(* Whoever does something does it for a target, and a move that is saved   *)
(* goes to a port.                                                         *)
HasTarget == \A r \in Runners : run[r].at # "idle" => run[r].target \in Targets
HasPort == \A r \in Runners : run[r].at = "saveMove" => run[r].move.port \in HostPorts

LEMMA RelaysArePorts ==
  ASSUME TypeOK, NEW T \in SUBSET Targets
  PROVE  UNION {relays[u] : u \in T} \subseteq HostPorts
BY DEF TypeOK

LEMMA LookKeepsTypes ==
  ASSUME TypeOK, NEW r \in Runners, LookPublished(r)
  PROVE  TypeOK'
<1> DEFINE ports == {p \in HostPorts : owner[p] # Free} \union UNION {relays[u] : u \in SameDaemon(run[r].target)}
<1>1. run[r] \in RunState
  BY DEF TypeOK
<1>2. SameDaemon(run[r].target) \in SUBSET Targets
  BY <1>1, ForwardsAssumption, FieldTypes DEF SameDaemon, LookPublished, TypeOK
<1>3. ports \in SUBSET HostPorts
  BY <1>2, RelaysArePorts
<1> HIDE DEF ports
<1>4. [run[r] EXCEPT !.published = ports, !.at = "lookOwn"] \in RunState
  BY <1>1, <1>3, Zenon DEF RunState
<1>5. Steps(r, [run[r] EXCEPT !.published = ports, !.at = "lookOwn"])
  BY DEF LookPublished, ports
<1>6. run' \in [Runners -> RunState]
  BY <1>4, <1>5, StepsKeepsTypes DEF TypeOK
<1> QED BY <1>6 DEF LookPublished, TypeOK

LEMMA AllocateKeepsTypes ==
  ASSUME TypeOK, NEW r \in Runners, Allocate(r)
  PROVE  TypeOK'
<1> USE DEF TypeOK
<1>1. run[r] \in RunState
  OBVIOUS
<1>2. ASSUME NEW map \in PortMap
      PROVE  [run[r] EXCEPT !.map = map, !.published = {}, !.own = OwnedBy(run[r].target),
                            !.todo = PortsOf(map), !.at = "claim"] \in RunState
  <2>1. OwnedBy(run[r].target) \in SUBSET HostPorts /\ PortsOf(map) \in SUBSET HostPorts
    BY PortsOfAreHostPorts DEF OwnedBy
  <2> QED BY <1>1, <2>1, Zenon DEF RunState
<1>3. run' \in [Runners -> RunState]
  BY <1>2, StepsKeepsTypes, FinishKeepsTypes DEF Allocate, Allocations
<1> QED BY <1>3 DEF Allocate

LEMMA MoveKeepsTypes ==
  ASSUME TypeOK, HasTarget, HasPort, NEW r \in Runners, PlanMove(r) \/ SaveMove(r)
  PROVE  TypeOK'
<1> USE DEF TypeOK
<1> DEFINE t == run[r].target
           m == run[r].move
<1>1. run[r] \in RunState /\ t \in Targets
  BY DEF HasTarget, PlanMove, SaveMove
<1>2. CASE PlanMove(r)
  <2>1. ASSUME CanMove(saved[t], m.label, m.port, run[r].published, OwnPorts(t))
        PROVE  [run[r] EXCEPT !.before = saved[t], !.published = {},
                              !.map = MovePort(saved[t], m.label, m.port), !.at = "saveMove"] \in RunState
    <3>1. m.label \in Labels /\ m.port \in HostPorts
      BY <2>1, <1>1, FieldTypes DEF CanMove, NotAnothers
    <3>2. saved[t] \in PortMap /\ MovePort(saved[t], m.label, m.port) \in PortMap
      BY <1>1, <3>1, MovePortIsMap
    <3> QED BY <1>1, <3>2, Zenon DEF RunState
  <2>2. run' \in [Runners -> RunState]
    BY <1>2, <2>1, StepsKeepsTypes, FinishKeepsTypes DEF PlanMove
  <2> QED BY <1>2, <2>2 DEF PlanMove
<1>3. CASE SaveMove(r)
  <2>1. m.port \in HostPorts
    BY <1>3 DEF HasPort, SaveMove
  <2>2. NoMove \in [label : Labels, port : HostPorts \union {NoPort}]
    BY PortsAssumption DEF NoMove
  <2>3. [run[r] EXCEPT !.phase = "moveClaim", !.todo = {m.port}, !.move = NoMove, !.at = "claim"] \in RunState
    BY <1>1, <2>1, <2>2, Zenon DEF RunState
  <2>4. run' \in [Runners -> RunState]
    BY <1>3, <2>3, StepsKeepsTypes, FinishKeepsTypes DEF SaveMove
  <2>5. saved' \in [Targets -> PortMap]
    BY <1>1, <1>3, FieldTypes DEF SaveMove
  <2> QED BY <1>3, <2>4, <2>5 DEF SaveMove
<1> QED BY <1>2, <1>3

LEMMA ClaimKeepsTypes ==
  ASSUME TypeOK, HasTarget, NEW r \in Runners, NEW p \in HostPorts,
         Link(r, p) \/ ClaimRead(r, p) \/ Rename(r, p)
  PROVE  TypeOK'
<1> USE DEF TypeOK
<1> DEFINE rest == run[r].todo \ {p}
           more == run[r].claimed \union {p}
           gone == run[r].lost \union {p}
<1>1. run[r] \in RunState /\ run[r].target \in Targets
  BY DEF HasTarget, Link, ClaimRead, Rename
<1>2. rest \in SUBSET HostPorts /\ more \in SUBSET HostPorts /\ gone \in SUBSET HostPorts
  BY <1>1, FieldTypes
<1> HIDE DEF rest, more, gone
<1>3. /\ [run[r] EXCEPT !.todo = rest, !.claimed = more] \in RunState
      /\ [run[r] EXCEPT !.at = "claimRead"] \in RunState
      /\ [run[r] EXCEPT !.at = "rename"] \in RunState
      /\ [run[r] EXCEPT !.at = "claim", !.todo = rest, !.lost = gone] \in RunState
      /\ [run[r] EXCEPT !.at = "claim", !.todo = rest, !.claimed = more] \in RunState
  BY <1>1, <1>2, Zenon DEF RunState
<1>4. CASE Link(r, p)
  <2>1. run' \in [Runners -> RunState]
    BY <1>3, <1>4, StepsKeepsTypes DEF Link, rest, more
  <2> QED BY <1>1, <1>4, <2>1 DEF Link
<1>5. CASE ClaimRead(r, p)
  <2>1. run' \in [Runners -> RunState]
    BY <1>3, <1>5, StepsKeepsTypes DEF ClaimRead, rest, gone
  <2> QED BY <1>5, <2>1 DEF ClaimRead
<1>6. CASE Rename(r, p)
  <2>1. run' \in [Runners -> RunState]
    BY <1>3, <1>6, StepsKeepsTypes DEF Rename, rest, more
  <2> QED BY <1>1, <1>6, <2>1 DEF Rename
<1> QED BY <1>4, <1>5, <1>6

LEMMA ClaimedKeepsTypes ==
  ASSUME TypeOK, HasTarget, NEW r \in Runners, AllClaimed(r) \/ SomeLost(r)
  PROVE  TypeOK'
<1> USE DEF TypeOK
<1>1. run[r] \in RunState /\ run[r].target \in Targets
  BY DEF HasTarget, AllClaimed, SomeLost
<1>2. ToGiveBack(r) \in SUBSET HostPorts /\ 0 \in 0..(ClaimAttempts - 1)
  BY <1>1, FieldTypes, ForwardsAssumption DEF ToGiveBack
<1>3. /\ [run[r] EXCEPT !.at = "up", !.wanted = {}, !.round = 0,
                        !.own = {}, !.held = {}, !.claimed = {}] \in RunState
      /\ [run[r] EXCEPT !.at = "relays", !.claimed = {}] \in RunState
      /\ [run[r] EXCEPT !.phase = "giveBack", !.todo = ToGiveBack(r), !.own = {},
                        !.claimed = {}, !.lost = {}, !.at = "release"] \in RunState
  BY <1>1, <1>2, Zenon DEF RunState
<1>4. CASE AllClaimed(r)
  <2>1. run' \in [Runners -> RunState]
    BY <1>3, <1>4, StepsKeepsTypes, FinishKeepsTypes DEF AllClaimed
  <2>2. saved' \in [Targets -> PortMap]
    BY <1>1, <1>4, FieldTypes DEF AllClaimed
  <2>3. served' \subseteq Targets
    BY <1>1, <1>4 DEF AllClaimed
  <2> QED BY <1>4, <2>1, <2>2, <2>3 DEF AllClaimed
<1>5. CASE SomeLost(r)
  <2>1. run' \in [Runners -> RunState]
    BY <1>3, <1>5, StepsKeepsTypes, FinishKeepsTypes DEF SomeLost
  <2> QED BY <1>5, <2>1 DEF SomeLost
<1> QED BY <1>4, <1>5

LEMMA ReleaseKeepsTypes ==
  ASSUME TypeOK, NEW r \in Runners, NEW p \in HostPorts, ReleaseRead(r, p) \/ Unlink(r, p)
  PROVE  TypeOK'
<1> USE DEF TypeOK
<1> DEFINE rest == run[r].todo \ {p}
<1>1. run[r] \in RunState /\ rest \in SUBSET HostPorts
  BY FieldTypes
<1> HIDE DEF rest
<1>2. /\ [run[r] EXCEPT !.at = "unlink"] \in RunState
      /\ [run[r] EXCEPT !.todo = rest] \in RunState
      /\ [run[r] EXCEPT !.at = "release", !.todo = rest] \in RunState
  BY <1>1, Zenon DEF RunState
<1>3. run' \in [Runners -> RunState]
  BY <1>2, StepsKeepsTypes DEF ReleaseRead, Unlink, rest
<1> QED BY <1>3 DEF ReleaseRead, Unlink

LEMMA ReleasedKeepsTypes ==
  ASSUME TypeOK, NEW r \in Runners, AllReleased(r)
  PROVE  TypeOK'
<1> USE DEF TypeOK
<1>1. run[r] \in RunState /\ PortsOf(run[r].map) \in SUBSET HostPorts
  BY FieldTypes, PortsOfAreHostPorts
<1>2. MayTryAgain(r) => NextRound(r) \in 0..(ClaimAttempts - 1)
  BY <1>1, FieldTypes, ForwardsAssumption DEF MayTryAgain, NextRound
<1>3. MayTryAgain(r) =>
        [run[r] EXCEPT !.phase = "allocate", !.round = NextRound(r), !.map = EmptyMap, !.at = "look"] \in RunState
  BY <1>1, <1>2, EmptyMapIsMap, Zenon DEF RunState
<1>4. /\ [run[r] EXCEPT !.phase = "publish", !.todo = PortsOf(run[r].map),
                        !.before = EmptyMap, !.at = "claim"] \in RunState
      /\ [run[r] EXCEPT !.at = "last", !.before = EmptyMap] \in RunState
  BY <1>1, EmptyMapIsMap, Zenon DEF RunState
<1>5. run' \in [Runners -> RunState]
  BY <1>3, <1>4, StepsKeepsTypes, FinishKeepsTypes DEF AllReleased
<1> QED BY <1>5 DEF AllReleased

LEMMA RestKeepsTypes ==
  ASSUME TypeOK, HasTarget, NEW r \in Runners,
         BringUp(r) \/ RecreateRelays(r) \/ Fail(r) \/ LoadMap(r) \/ EndStop(r) \/ EndPurge(r)
  PROVE  TypeOK'
<1> USE DEF TypeOK
<1> DEFINE ports == PortsOf(run[r].map)
           old == PortsOf(run[r].before) \ ports
           found == saved[run[r].target]
<1>1. run[r] \in RunState /\ run[r].target \in Targets
  BY DEF HasTarget, BringUp, RecreateRelays, Fail, LoadMap, EndStop, EndPurge
<1>2. /\ ports \in SUBSET HostPorts
      /\ old \in SUBSET HostPorts
      /\ found \in PortMap
      /\ PortsOf(found) \in SUBSET HostPorts
  BY <1>1, FieldTypes, PortsOfAreHostPorts
<1> HIDE DEF ports, old, found
<1>3. /\ [run[r] EXCEPT !.at = "relays"] \in RunState
      /\ [run[r] EXCEPT !.phase = "retire", !.todo = old, !.at = "release"] \in RunState
      /\ [run[r] EXCEPT !.before = found, !.todo = PortsOf(found), !.at = "release"] \in RunState
  BY <1>1, <1>2, Zenon DEF RunState
<1>4. run' \in [Runners -> RunState]
  BY <1>3, StepsKeepsTypes, FinishKeepsTypes
  DEF BringUp, RecreateRelays, Fail, LoadMap, EndStop, EndPurge, ports, old, found
<1>5. saved' \in [Targets -> PortMap]
  BY <1>1, EmptyMapIsMap DEF BringUp, RecreateRelays, Fail, LoadMap, EndStop, EndPurge
<1>6. relays' \in [Targets -> SUBSET HostPorts]
  BY <1>1, <1>2 DEF BringUp, RecreateRelays, Fail, LoadMap, EndStop, EndPurge, ports
<1> QED BY <1>1, <1>4, <1>5, <1>6 DEF BringUp, RecreateRelays, Fail, LoadMap, EndStop, EndPurge

(* A step is its runner's own.  It keeps its target until it ends; only    *)
(* the plan of a move leads to its saving, and only reading a file that is *)
(* the target's own to its replacement or removal.                         *)
HasRead(r, p) ==
  /\ IsNext(r, p)
  /\ owner[p] = run[r].target
  /\ owner' = owner
  /\ run'[r].todo = run[r].todo
  /\ run'[r].phase = run[r].phase
  /\ run'[r].before = run[r].before
  /\ run'[r].map = run[r].map

Keeps(r) ==
  /\ run[r].at # "idle"
  /\ \A q \in Runners \ {r} : run'[q] = run[q]
  /\ \/ run'[r] = Idle
     \/ /\ run'[r].target = run[r].target
        /\ run'[r].at = "saveMove" => run'[r].move.port \in HostPorts
        /\ run'[r].at \in {"rename", "unlink"} => \E p \in HostPorts : HasRead(r, p)

LEMMA StepsChangesOne ==
  ASSUME TypeOK, NEW r \in Runners, NEW next, Steps(r, next)
  PROVE  run'[r] = next /\ \A q \in Runners \ {r} : run'[q] = run[q]
BY DEF Steps, TypeOK

LEMMA FinishChangesOne ==
  ASSUME TypeOK, NEW r \in Runners, Finish(r)
  PROVE  run'[r] = Idle /\ \A q \in Runners \ {r} : run'[q] = run[q]
BY StepsChangesOne DEF Finish

LEMMA StepKeeps ==
  ASSUME TypeOK, NEW r \in Runners, Step(r)
  PROVE  Keeps(r)
<1> USE DEF Keeps
<1> DEFINE Same(next) == next.target = run[r].target /\ next.at \notin {"saveMove", "rename", "unlink"}
<1>1. run[r] \in RunState
  BY DEF TypeOK
<1>steps. ASSUME NEW next, Steps(r, next), Same(next), run[r].at # "idle" PROVE Keeps(r)
  BY <1>steps, StepsChangesOne
<1>ends. ASSUME Finish(r), run[r].at # "idle" PROVE Keeps(r)
  BY <1>ends, FinishChangesOne
<1>2. CASE LookPublished(r)
  <2>1. ASSUME NEW ports PROVE Same([run[r] EXCEPT !.published = ports, !.at = "lookOwn"])
    BY <1>1 DEF RunState
  <2> HIDE DEF Same
  <2> QED BY <1>2, <1>steps, <2>1 DEF LookPublished
<1>3. CASE Allocate(r)
  <2>1. ASSUME NEW map, NEW own, NEW todo
        PROVE  Same([run[r] EXCEPT !.map = map, !.published = {}, !.own = own, !.todo = todo, !.at = "claim"])
    BY <1>1 DEF RunState
  <2> HIDE DEF Same
  <2> QED BY <1>3, <1>steps, <1>ends, <2>1 DEF Allocate
<1>4. CASE PlanMove(r)
  <2> DEFINE m == run[r].move
             before == saved[run[r].target]
             map == MovePort(before, m.label, m.port)
             next == [run[r] EXCEPT !.before = before, !.published = {}, !.map = map, !.at = "saveMove"]
  <2>1. next.target = run[r].target /\ next.move = m /\ next.at = "saveMove"
    BY <1>1 DEF RunState
  <2>2. CASE m.port \in HostPorts /\ Steps(r, next)
    <3> HIDE DEF next
    <3> QED BY <1>4, <2>1, <2>2, StepsChangesOne DEF PlanMove
  <2> QED BY <1>4, <1>ends, <2>2 DEF PlanMove, CanMove, NotAnothers
<1>5. CASE SaveMove(r)
  <2>1. ASSUME NEW todo
        PROVE  Same([run[r] EXCEPT !.phase = "moveClaim", !.todo = todo, !.move = NoMove, !.at = "claim"])
    BY <1>1 DEF RunState
  <2> HIDE DEF Same
  <2> QED BY <1>5, <1>steps, <1>ends, <2>1 DEF SaveMove
<1>6. ASSUME NEW p \in HostPorts, Link(r, p) PROVE Keeps(r)
  <2>0. run[r].at = "claim"
    BY <1>6 DEF Link
  <2>1. ASSUME NEW todo, NEW claimed
        PROVE  /\ Same([run[r] EXCEPT !.todo = todo, !.claimed = claimed])
               /\ Same([run[r] EXCEPT !.at = "claimRead"])
    BY <1>1, <2>0 DEF RunState
  <2> HIDE DEF Same
  <2> QED BY <1>6, <1>steps, <2>1 DEF Link
<1>7. ASSUME NEW p \in HostPorts, ClaimRead(r, p) PROVE Keeps(r)
  <2> DEFINE next == [run[r] EXCEPT !.at = "rename"]
  <2>1. ASSUME NEW todo, NEW lost
        PROVE  Same([run[r] EXCEPT !.at = "claim", !.todo = todo, !.lost = lost])
    BY <1>1, <1>7 DEF RunState, ClaimRead
  <2>2. /\ next.at = "rename"
        /\ next.target = run[r].target
        /\ next.todo = run[r].todo
        /\ next.phase = run[r].phase
        /\ next.before = run[r].before
        /\ next.map = run[r].map
    BY <1>1 DEF RunState
  <2> HIDE DEF Same, next
  <2>3. CASE IsOwnFile(r, p)
    <3>1. Steps(r, next)
      BY <1>7, <2>3 DEF ClaimRead, next
    <3>2. HasRead(r, p)
      BY <1>7, <2>2, <2>3, <3>1, StepsChangesOne DEF HasRead, ClaimRead, IsOwnFile
    <3> QED BY <1>7, <2>2, <3>1, <3>2, StepsChangesOne DEF ClaimRead
  <2>4. CASE ~IsOwnFile(r, p)
    BY <1>7, <1>steps, <2>1, <2>4 DEF ClaimRead
  <2> QED BY <2>3, <2>4
<1>8. ASSUME NEW p \in HostPorts, Rename(r, p) PROVE Keeps(r)
  <2>1. ASSUME NEW todo, NEW claimed
        PROVE  Same([run[r] EXCEPT !.at = "claim", !.todo = todo, !.claimed = claimed])
    BY <1>1 DEF RunState
  <2> HIDE DEF Same
  <2> QED BY <1>8, <1>steps, <2>1 DEF Rename
<1>9. CASE AllClaimed(r)
  <2>1. /\ Same([run[r] EXCEPT !.at = "up", !.wanted = {}, !.round = 0, !.own = {}, !.held = {}, !.claimed = {}])
        /\ Same([run[r] EXCEPT !.at = "relays", !.claimed = {}])
    BY <1>1 DEF RunState
  <2> HIDE DEF Same
  <2> QED BY <1>9, <1>steps, <1>ends, <2>1 DEF AllClaimed
<1>10. CASE SomeLost(r)
  <2>1. ASSUME NEW todo
        PROVE  Same([run[r] EXCEPT !.phase = "giveBack", !.todo = todo, !.own = {},
                              !.claimed = {}, !.lost = {}, !.at = "release"])
    BY <1>1 DEF RunState
  <2> HIDE DEF Same
  <2> QED BY <1>10, <1>steps, <1>ends, <2>1 DEF SomeLost
<1>11. ASSUME NEW p \in HostPorts, ReleaseRead(r, p) PROVE Keeps(r)
  <2> DEFINE next == [run[r] EXCEPT !.at = "unlink"]
  <2>1. ASSUME NEW todo, NEW lost
        PROVE  Same([run[r] EXCEPT !.todo = todo])
    BY <1>1, <1>11 DEF RunState, ReleaseRead
  <2>2. /\ next.at = "unlink"
        /\ next.target = run[r].target
        /\ next.todo = run[r].todo
        /\ next.phase = run[r].phase
        /\ next.before = run[r].before
        /\ next.map = run[r].map
    BY <1>1 DEF RunState
  <2> HIDE DEF Same, next
  <2>3. CASE IsOwnFile(r, p)
    <3>1. Steps(r, next)
      BY <1>11, <2>3 DEF ReleaseRead, next
    <3>2. HasRead(r, p)
      BY <1>11, <2>2, <2>3, <3>1, StepsChangesOne DEF HasRead, ReleaseRead, IsOwnFile
    <3> QED BY <1>11, <2>2, <3>1, <3>2, StepsChangesOne DEF ReleaseRead
  <2>4. CASE ~IsOwnFile(r, p)
    BY <1>11, <1>steps, <2>1, <2>4 DEF ReleaseRead
  <2> QED BY <2>3, <2>4
<1>12. ASSUME NEW p \in HostPorts, Unlink(r, p) PROVE Keeps(r)
  <2>1. ASSUME NEW todo
        PROVE  Same([run[r] EXCEPT !.at = "release", !.todo = todo])
    BY <1>1 DEF RunState
  <2> HIDE DEF Same
  <2> QED BY <1>12, <1>steps, <2>1 DEF Unlink
<1>13. CASE AllReleased(r)
  <2>1. ASSUME NEW round, NEW todo
        PROVE  /\ Same([run[r] EXCEPT !.phase = "allocate", !.round = round, !.map = EmptyMap, !.at = "look"])
               /\ Same([run[r] EXCEPT !.phase = "publish", !.todo = todo, !.before = EmptyMap, !.at = "claim"])
               /\ Same([run[r] EXCEPT !.at = "last", !.before = EmptyMap])
    BY <1>1 DEF RunState
  <2> HIDE DEF Same
  <2> QED BY <1>13, <1>steps, <1>ends, <2>1 DEF AllReleased
<1>14. CASE BringUp(r)
  <2>1. Same([run[r] EXCEPT !.at = "relays"])
    BY <1>1 DEF RunState
  <2> HIDE DEF Same
  <2> QED BY <1>14, <1>steps, <2>1 DEF BringUp
<1>15. CASE RecreateRelays(r)
  <2>1. ASSUME NEW todo
        PROVE  Same([run[r] EXCEPT !.phase = "retire", !.todo = todo, !.at = "release"])
    BY <1>1 DEF RunState
  <2> HIDE DEF Same
  <2> QED BY <1>15, <1>steps, <2>1 DEF RecreateRelays
<1>16. CASE Fail(r)
  BY <1>16, <1>ends DEF Fail
<1>17. CASE LoadMap(r)
  <2>1. ASSUME NEW before, NEW todo
        PROVE  Same([run[r] EXCEPT !.before = before, !.todo = todo, !.at = "release"])
    BY <1>1 DEF RunState
  <2> HIDE DEF Same
  <2> QED BY <1>17, <1>steps, <2>1 DEF LoadMap
<1>18. CASE EndStop(r)
  BY <1>18, <1>ends DEF EndStop
<1>19. CASE EndPurge(r)
  BY <1>19, <1>ends DEF EndPurge
<1> QED
  BY <1>2, <1>3, <1>4, <1>5, <1>6, <1>7, <1>8, <1>9, <1>10, <1>11, <1>12, <1>13, <1>14, <1>15,
     <1>16, <1>17, <1>18, <1>19 DEF Step

(* TypeOK is inductive together with what it says nothing of: that whoever *)
(* does something does it for a target, to a port.                         *)
Typed == TypeOK /\ HasTarget /\ HasPort

LEMMA TypedInitially == Init => Typed
<1>1. Init => HasTarget /\ HasPort
  BY DEF Init, HasTarget, HasPort, Idle
<1> QED BY <1>1, TypeInitially DEF Typed

LEMMA BeginChangesOne ==
  ASSUME TypeOK, NEW r \in Runners, NEW t \in Targets, BeginSome(r, t)
  PROVE  /\ \A q \in Runners \ {r} : run'[q] = run[q]
         /\ run'[r].target = t
         /\ run'[r].at \in {"look", "load"}
         /\ owner' = owner
         /\ Undisturbed(t)
<1> DEFINE Starts(next) == next.target = t /\ next.at \in {"look", "load"}
           Goal == /\ \A q \in Runners \ {r} : run'[q] = run[q]
                   /\ run'[r].target = t
                   /\ run'[r].at \in {"look", "load"}
                   /\ owner' = owner
                   /\ Undisturbed(t)
<1>1. ASSUME NEW next, Steps(r, next), Starts(next), Undisturbed(t), owner' = owner PROVE Goal
  BY <1>1, StepsChangesOne
<1>2. ASSUME NEW wanted \in SUBSET Declares[t], NEW rebuild \in BOOLEAN, BeginRun(r, t, wanted, rebuild)
      PROVE  Goal
  <2>1. ASSUME NEW before, NEW held
        PROVE  Starts([[Idle EXCEPT !.at = "look", !.phase = "allocate", !.before = before,
                                    !.wanted = wanted, !.held = held]
                        EXCEPT !.cmd = "run", !.target = t])
    BY IdleIsRunState DEF RunState
  <2> HIDE DEF Starts, Goal
  <2> QED BY <1>2, <1>1, <2>1 DEF BeginRun, Begin
<1>3. ASSUME NEW cmd
      PROVE  Starts([[Idle EXCEPT !.at = "load", !.phase = "withdraw"] EXCEPT !.cmd = cmd, !.target = t])
  BY IdleIsRunState DEF RunState
<1>4. ASSUME NEW cmd \in {"stop", "stopAll"}, BeginStop(r, t, cmd) PROVE Goal
  <2> HIDE DEF Starts, Goal
  <2> QED BY <1>4, <1>1, <1>3 DEF BeginStop, Begin
<1>5. ASSUME BeginPurge(r, t) PROVE Goal
  <2> HIDE DEF Starts, Goal
  <2> QED BY <1>5, <1>1, <1>3 DEF BeginPurge, Begin
<1>6. ASSUME NEW l \in Labels, NEW p \in HostPorts, BeginMove(r, t, l, p) PROVE Goal
  <2>1. ASSUME NEW move
        PROVE  Starts([[Idle EXCEPT !.at = "look", !.move = move] EXCEPT !.cmd = "move", !.target = t])
    BY IdleIsRunState DEF RunState
  <2> HIDE DEF Starts, Goal
  <2> QED BY <1>6, <1>1, <2>1 DEF BeginMove, Begin
<1> HIDE DEF Goal
<1>7. Goal
  BY <1>2, <1>4, <1>5, <1>6 DEF BeginSome
<1> QED BY <1>7 DEF Goal

LEMMA TypedStep ==
  ASSUME Typed, [Next]_vars
  PROVE  Typed'
<1> USE DEF Typed, HasTarget, HasPort
<1>1. CASE UNCHANGED vars
  BY <1>1 DEF vars, TypeOK
<1>2. ASSUME NEW r \in Runners, NEW t \in Targets, BeginSome(r, t) PROVE Typed'
  BY <1>2, BeginKeepsTypes, BeginChangesOne
<1>3. ASSUME NEW r \in Runners, Step(r) PROVE Typed'
  <2>1. TypeOK'
    BY <1>3, LookKeepsTypes, AllocateKeepsTypes, MoveKeepsTypes, ClaimKeepsTypes, ClaimedKeepsTypes,
       ReleaseKeepsTypes, ReleasedKeepsTypes, RestKeepsTypes DEF Step
  <2>2. Keeps(r)
    BY <1>3, StepKeeps
  <2>3. HasTarget' /\ HasPort'
    BY <2>2 DEF Keeps, Idle
  <2> QED BY <2>1, <2>3
<1>4. ASSUME NEW r \in Runners, Kill(r) PROVE Typed'
  <2>1. Finish(r) /\ TypeOK'
    BY <1>4, FinishKeepsTypes DEF Kill, TypeOK
  <2> QED BY <2>1, FinishChangesOne DEF Idle
<1>5. ASSUME NEW t \in Targets, DindStops(t) PROVE Typed'
  BY <1>5 DEF DindStops, TypeOK
<1> QED BY <1>1, <1>2, <1>3, <1>4, <1>5 DEF Next

(* The variables of the registry and its runners keep their types. *)
THEOREM ForwardsTypeCorrect == Spec => []TypeOK
<1>1. Typed => TypeOK
  BY DEF Typed
<1> QED BY <1>1, TypedInitially, TypedStep, PTL DEF Spec

(* While the commands of a target take turns, no two runners work for the  *)
(* same one, and a file that is about to be replaced or removed still      *)
(* names the target of whoever read it.                                    *)
Apart == \A q, r \in Runners : q # r /\ run[q].target \in Targets => run[q].target # run[r].target
ReadHolds ==
  \A r \in Runners, p \in HostPorts :
    run[r].at \in {"rename", "unlink"} /\ IsNext(r, p) => owner[p] = run[r].target
Exclusive == Typed /\ Apart /\ ReadHolds

(* A loop has one next port. *)
LEMMA OneNextPort ==
  ASSUME NEW r \in Runners, NEW p, NEW q, IsNext(r, p), IsNext(r, q)
  PROVE  p = q
<1>1. PICK k \in Labels : LoopMap(r)[k] = p /\ \A l \in Labels : LoopMap(r)[l] \in run[r].todo => Rank[k] <= Rank[l]
  BY DEF IsNext
<1>2. PICK l \in Labels : LoopMap(r)[l] = q /\ \A j \in Labels : LoopMap(r)[j] \in run[r].todo => Rank[l] <= Rank[j]
  BY DEF IsNext
<1>3. Rank[k] <= Rank[l] /\ Rank[l] <= Rank[k]
  BY <1>1, <1>2 DEF IsNext
<1>4. k = l
  BY <1>3, PortsAssumption
<1> QED BY <1>1, <1>2, <1>4

(* A step takes no forward but a free one or its own target's. *)
LEMMA StepTakesItsOwn ==
  ASSUME Exclusive, NEW r \in Runners, Step(r), NEW p \in HostPorts, owner'[p] # owner[p]
  PROVE  owner[p] = Free \/ (owner[p] = run[r].target /\ run'[r] # run[r])
<1> USE DEF Exclusive, Typed, TypeOK
<1>1. ASSUME NEW q \in HostPorts, Link(r, q)
      PROVE  owner[p] = Free
  BY <1>1 DEF Link, CanLink
<1>2. ASSUME NEW q \in HostPorts, Rename(r, q)
      PROVE  FALSE
  BY <1>2 DEF Rename, ReadHolds
<1>3. ASSUME NEW q \in HostPorts, Unlink(r, q)
      PROVE  owner[p] = run[r].target /\ run'[r] # run[r]
  <2> DEFINE next == [run[r] EXCEPT !.at = "release", !.todo = run[r].todo \ {q}]
  <2>1. owner[p] = run[r].target /\ run[r].at = "unlink"
    BY <1>3 DEF Unlink, ReadHolds
  <2>2. run[r] \in RunState
    OBVIOUS
  <2>3. next.at = "release"
    BY <2>2 DEF RunState
  <2>4. Steps(r, next)
    BY <1>3 DEF Unlink
  <2> HIDE DEF next
  <2>5. run'[r] = next
    BY <2>4, StepsChangesOne
  <2> QED BY <2>1, <2>3, <2>5
<1> QED
  BY <1>1, <1>2, <1>3 DEF Step, LookPublished, Allocate, PlanMove, SaveMove, ClaimRead, AllClaimed,
     SomeLost, ReleaseRead, AllReleased, BringUp, RecreateRelays, Fail, LoadMap, EndStop, EndPurge

LEMMA ExclusiveInitially == Init => Exclusive
<1>1. Init => Apart /\ ReadHolds
  BY ForwardsAssumption DEF Init, Apart, ReadHolds, Idle
<1> QED BY <1>1, TypedInitially DEF Exclusive

(* What is next stays next for a runner whose loop does not move. *)
LEMMA NextStays ==
  ASSUME NEW r \in Runners, NEW p \in HostPorts, IsNext(r, p)',
         run'[r].todo = run[r].todo, run'[r].phase = run[r].phase,
         run'[r].before = run[r].before, run'[r].map = run[r].map
  PROVE  IsNext(r, p)
BY DEF IsNext, LoopMap

LEMMA ExclusiveStep ==
  ASSUME OneAtATime, Exclusive, [Next]_vars
  PROVE  Exclusive'
<1> USE DEF Exclusive
<1>1. Typed' /\ TypeOK
  BY TypedStep DEF Typed
<1>2. CASE UNCHANGED vars
  BY <1>1, <1>2 DEF vars, Apart, ReadHolds, IsNext, LoopMap
<1>3. ASSUME NEW r \in Runners, NEW t \in Targets, BeginSome(r, t) PROVE Exclusive'
  <2>1. /\ \A q \in Runners \ {r} : run'[q] = run[q]
        /\ run'[r].target = t
        /\ run'[r].at \in {"look", "load"}
        /\ owner' = owner
        /\ \A q \in Runners : run[q].target # t
    BY <1>1, <1>3, BeginChangesOne DEF Undisturbed
  <2>2. Apart'
    BY <2>1 DEF Apart
  <2>3. ASSUME NEW q \in Runners, NEW p \in HostPorts, run'[q].at \in {"rename", "unlink"}, IsNext(q, p)'
        PROVE  owner'[p] = run'[q].target
    BY <2>1, <2>3, NextStays DEF ReadHolds
  <2> QED BY <1>1, <2>2, <2>3 DEF ReadHolds
<1>4. ASSUME NEW r \in Runners, Step(r) PROVE Exclusive'
  <2>1. Keeps(r)
    BY <1>1, <1>4, StepKeeps
  <2>2. run[r].target \in Targets
    BY <2>1 DEF Keeps, Typed, HasTarget
  <2>3. Apart'
    BY <2>1, ForwardsAssumption DEF Keeps, Apart, Idle
  <2>4. ASSUME NEW q \in Runners, NEW p \in HostPorts, run'[q].at \in {"rename", "unlink"}, IsNext(q, p)'
        PROVE  owner'[p] = run'[q].target
    <3>1. CASE q # r
      <4>1. IsNext(q, p) /\ run'[q] = run[q]
        BY <2>1, <2>4, <3>1, NextStays DEF Keeps
      <4>2. owner[p] = run[q].target /\ run[q].target \in Targets
        BY <2>4, <4>1 DEF ReadHolds, Typed, HasTarget
      <4>3. owner[p] # Free /\ owner[p] # run[r].target
        BY <2>2, <3>1, <4>2, ForwardsAssumption DEF Apart
      <4> QED BY <1>4, <4>1, <4>2, <4>3, StepTakesItsOwn
    <3>2. CASE q = r
      <4>1. PICK read \in HostPorts : HasRead(r, read)
        BY <2>1, <2>4, <3>2 DEF Keeps, Idle
      <4>2. p = read
        BY <2>4, <3>2, <4>1, NextStays, OneNextPort DEF HasRead
      <4> QED BY <2>1, <2>4, <3>2, <4>1, <4>2 DEF Keeps, HasRead, Idle
    <3> QED BY <3>1, <3>2
  <2> QED BY <1>1, <2>3, <2>4 DEF ReadHolds
<1>5. ASSUME NEW r \in Runners, Kill(r) PROVE Exclusive'
  <2>1. run'[r] = Idle /\ (\A q \in Runners \ {r} : run'[q] = run[q]) /\ owner' = owner
    BY <1>1, <1>5, FinishChangesOne DEF Kill
  <2>2. Apart'
    BY <2>1, ForwardsAssumption DEF Apart, Idle
  <2>3. ASSUME NEW q \in Runners, NEW p \in HostPorts, run'[q].at \in {"rename", "unlink"}, IsNext(q, p)'
        PROVE  owner'[p] = run'[q].target
    <3>1. run'[q] = run[q]
      BY <2>1, <2>3 DEF Idle
    <3> QED BY <2>1, <2>3, <3>1, NextStays DEF ReadHolds
  <2> QED BY <1>1, <2>2, <2>3 DEF ReadHolds
<1>6. ASSUME NEW t \in Targets, DindStops(t) PROVE Exclusive'
  BY <1>1, <1>6 DEF DindStops, Apart, ReadHolds, IsNext, LoopMap
<1> QED BY <1>2, <1>3, <1>4, <1>5, <1>6 DEF Next

(* As long as the commands of a target take turns, no runner replaces or   *)
(* removes a forward of another target (ingress-files.ts:12-13).           *)
THEOREM ForwardsAreTheirOwners == OneAtATime => (Spec => OnlyItsOwnerTakesAForward)
<1> SUFFICES ASSUME OneAtATime PROVE Spec => OnlyItsOwnerTakesAForward
  OBVIOUS
<1> DEFINE Taken == \A p \in HostPorts :
             owner[p] # Free /\ owner'[p] # owner[p] =>
               \E r \in Runners : run[r].target = owner[p] /\ run'[r] # run[r]
<1>1. ASSUME Exclusive, [Next]_vars PROVE [Taken]_vars
  <2> SUFFICES ASSUME NEW p \in HostPorts, owner[p] # Free, owner'[p] # owner[p]
               PROVE  \E r \in Runners : run[r].target = owner[p] /\ run'[r] # run[r]
    OBVIOUS
  <2>1. ASSUME NEW r \in Runners, NEW t \in Targets, BeginSome(r, t) PROVE owner' = owner
    BY <1>1, <2>1, BeginChangesOne DEF Exclusive, Typed
  <2>2. ASSUME NEW r \in Runners, Kill(r) PROVE owner' = owner
    BY <2>2 DEF Kill
  <2>3. ASSUME NEW t \in Targets, DindStops(t) PROVE owner' = owner
    BY <2>3 DEF DindStops
  <2>4. CASE UNCHANGED vars
    BY <2>4 DEF vars
  <2>5. CASE Next
    <3>1. PICK r \in Runners : Step(r)
      BY <2>1, <2>2, <2>3, <2>5 DEF Next
    <3> QED BY <1>1, <3>1, StepTakesItsOwn
  <2> QED BY <1>1, <2>4, <2>5
<1>2. Spec => []Exclusive
  BY ExclusiveInitially, ExclusiveStep, PTL DEF Spec
<1>3. OnlyItsOwnerTakesAForward <=> [][Taken]_vars
  BY DEF OnlyItsOwnerTakesAForward
<1> HIDE DEF Taken
<1> QED BY <1>1, <1>2, <1>3, PTL DEF Spec

(* ingress-files.ts:87-88 under the same condition: what a release is      *)
(* about to remove is what it read.                                        *)
THEOREM ReleasesRemoveWhatTheyRead == OneAtATime => (Spec => []ReleaseRemovesWhatItRead)
<1> SUFFICES ASSUME OneAtATime PROVE Spec => []ReleaseRemovesWhatItRead
  OBVIOUS
<1>1. Exclusive => ReleaseRemovesWhatItRead
  BY DEF Exclusive, ReadHolds, ReleaseRemovesWhatItRead
<1> QED BY <1>1, ExclusiveInitially, ExclusiveStep, PTL DEF Spec

-----------------------------------------------------------------------------
(* What a runner's step is for; what it has put in place for its target    *)
(* when it comes there; and what it has taken that it may have to give     *)
(* back.                                                                   *)
Claiming == {"claim", "claimRead", "rename"}
InOrder(r) ==
  LET s == run[r] IN
  /\ s.at = "idle" => s.phase = "none"
  /\ s.at \in {"look", "lookOwn"} => \/ s.cmd = "run" /\ s.phase = "allocate" /\ Editor \in s.wanted
                                     \/ s.cmd # "run" /\ s.phase = "none"
  /\ s.at = "saveMove" => s.phase = "none"
  /\ s.at \in Claiming => \/ s.phase \in {"moveClaim", "publish"}
                          \/ s.cmd = "run" /\ s.phase = "allocate" /\ Editor \in s.wanted
  /\ s.at \in {"release", "unlink"} => \/ s.phase \in {"retire", "withdraw"}
                                       \/ s.cmd = "run" /\ s.phase = "giveBack" /\ Editor \in s.wanted
  /\ s.at \in {"up", "relays"} => s.phase \in {"allocate", "moveClaim"}
  /\ s.at \in {"load", "last"} => s.phase = "withdraw"
Placing(r) ==
  LET s == run[r] IN
  /\ s.target \in served => s.cmd = "move" /\ s.at \in {"look", "lookOwn", "saveMove"}
  /\ (s.at \in Claiming \union {"saveMove", "up", "relays"} \/ s.phase = "retire") => PortsOf(s.map) # {}
  /\ (s.at \in {"up", "relays"} \/ s.phase \in {"moveClaim", "retire", "publish"}) => saved[s.target] = s.map
  /\ s.phase \in {"retire", "publish"} => relays[s.target] = PortsOf(s.map)
  /\ s.phase = "publish" =>
       \A p \in PortsOf(s.map) : p \in s.todo \/ p \in s.lost \/ owner[p] = s.target
Giving(r) ==
  LET s == run[r] IN
  /\ s.phase = "allocate" /\ s.at \in {"look", "lookOwn"} => OwnedBy(s.target) \subseteq s.held
  /\ s.phase = "allocate" /\ s.at \in Claiming =>
       s.own \subseteq s.held /\ OwnedBy(s.target) \subseteq s.held \union s.claimed
  /\ s.phase = "giveBack" => OwnedBy(s.target) \subseteq s.held \union s.todo
Going(r) == InOrder(r) /\ Placing(r) /\ Giving(r)
Serving == Exclusive /\ (\A r \in Runners : Going(r)) /\ ServedIsForwarded

(* An allocation, and a move, give a label a port. *)
LEMMA AllocationsGivePorts ==
  ASSUME NEW wanted, Editor \in wanted, NEW previous, NEW published, NEW own,
         NEW map \in Allocations(wanted, previous, Available(published, own))
  PROVE  PortsOf(map) # {}
<1>1. map[Editor] \in HostPorts
  BY PortsAssumption DEF Allocations, IsAllocation, Available, NotAnothers
<1> QED BY <1>1, PortsAssumption DEF PortsOf
LEMMA MovesGivePorts ==
  ASSUME NEW previous \in PortMap, NEW label \in Labels, NEW port \in HostPorts
  PROVE  PortsOf(MovePort(previous, label, port)) # {}
<1>1. MovePort(previous, label, port)[label] = port
  BY DEF PortMap, MovePort
<1> QED BY <1>1, PortsAssumption DEF PortsOf

(* A runner that has ended is in order, and has nothing to place.          *)
LEMMA IdleGoes ==
  ASSUME TypeOK, NEW r \in Runners, run[r] = Idle
  PROVE  Going(r)
<1>1. Idle.at = "idle" /\ Idle.phase = "none" /\ Idle.target \notin served
  BY ForwardsAssumption DEF Idle, TypeOK
<1> QED BY <1>1 DEF Going, InOrder, Placing, Giving, Claiming
LEMMA IdleGoesOn ==
  ASSUME TypeOK, TypeOK', NEW r \in Runners, Finish(r)
  PROVE  Going(r)'
<1>1. run'[r] = Idle
  BY FinishChangesOne
<1>2. Idle.at = "idle" /\ Idle.phase = "none" /\ Idle.target \notin served'
  BY ForwardsAssumption DEF Idle, TypeOK
<1> QED BY <1>1, <1>2 DEF Going, InOrder, Placing, Giving, Claiming

(* A step changes what is its own target's only. *)
LEMMA StepChangesItsOwn ==
  ASSUME TypeOK, HasTarget, NEW r \in Runners, Step(r)
  PROVE  /\ \A u \in Targets \ {run[r].target} :
              saved'[u] = saved[u] /\ relays'[u] = relays[u] /\ (u \in served' => u \in served)
         /\ \A p \in HostPorts : owner'[p] \in {owner[p], run[r].target, Free}
         /\ run[r].cmd = "move" /\ run[r].at \in {"look", "lookOwn", "saveMove"} /\ run[r].target \in served' =>
              UNCHANGED <<owner, saved, relays>>
         /\ run[r].target \in served' /\ run[r].target \notin served =>
              AllClaimed(r) /\ run[r].phase = "publish" /\ UNCHANGED <<owner, saved, relays>>
<1> USE DEF TypeOK
<1>1. ASSUME NEW u \in Targets, u # run[r].target
      PROVE  saved'[u] = saved[u] /\ relays'[u] = relays[u] /\ (u \in served' => u \in served)
  BY <1>1 DEF Step, LookPublished, Allocate, PlanMove, SaveMove, Link, ClaimRead, Rename, AllClaimed,
     SomeLost, ReleaseRead, Unlink, AllReleased, BringUp, RecreateRelays, Fail, LoadMap, EndStop, EndPurge
<1>2. ASSUME NEW p \in HostPorts PROVE owner'[p] \in {owner[p], run[r].target, Free}
  BY <1>2 DEF Step, LookPublished, Allocate, PlanMove, SaveMove, Link, ClaimRead, Rename, AllClaimed,
     SomeLost, ReleaseRead, Unlink, AllReleased, BringUp, RecreateRelays, Fail, LoadMap, EndStop, EndPurge
<1>3. ASSUME run[r].cmd = "move", run[r].at \in {"look", "lookOwn", "saveMove"}, run[r].target \in served'
      PROVE  UNCHANGED <<owner, saved, relays>>
  BY <1>3 DEF Step, LookPublished, Allocate, PlanMove, SaveMove, Link, ClaimRead, Rename, AllClaimed,
     SomeLost, ReleaseRead, Unlink, AllReleased, BringUp, RecreateRelays, Fail, LoadMap, EndStop, EndPurge
<1>4. ASSUME run[r].target \in served', run[r].target \notin served
      PROVE  AllClaimed(r) /\ run[r].phase = "publish" /\ UNCHANGED <<owner, saved, relays>>
  BY <1>4 DEF Step, LookPublished, Allocate, PlanMove, SaveMove, Link, ClaimRead, Rename, AllClaimed,
     SomeLost, ReleaseRead, Unlink, AllReleased, BringUp, RecreateRelays, Fail, LoadMap, EndStop, EndPurge
<1> QED BY <1>1, <1>2, <1>3, <1>4

(* Each of a runner's own steps leaves it in order. *)
LEMMA LooksGo ==
  ASSUME TypeOK, NEW r \in Runners, Going(r), LookPublished(r)
  PROVE  Going(r)'
<1> DEFINE ports == {p \in HostPorts : owner[p] # Free} \union UNION {relays[u] : u \in SameDaemon(run[r].target)}
           next == [run[r] EXCEPT !.published = ports, !.at = "lookOwn"]
<1> HIDE DEF ports
<1>1. run[r] \in RunState
  BY DEF TypeOK
<1>2. /\ next.at = "lookOwn"
      /\ next.cmd = run[r].cmd /\ next.target = run[r].target /\ next.phase = run[r].phase
      /\ next.wanted = run[r].wanted /\ next.held = run[r].held
  BY <1>1 DEF RunState
<1>3. run'[r] = next
  BY StepsChangesOne DEF LookPublished, ports
<1>4. run[r].at = "look" /\ UNCHANGED <<owner, saved, relays, served>>
  BY DEF LookPublished
<1> HIDE DEF next
<1>5. InOrder(r)'
  BY <1>2, <1>3, <1>4 DEF Going, InOrder, Claiming
<1>6. Placing(r)'
  BY <1>2, <1>3, <1>4 DEF Going, InOrder, Placing, Claiming
<1>7. Giving(r)'
  BY <1>2, <1>3, <1>4 DEF Going, InOrder, Giving, Claiming, OwnedBy
<1> QED BY <1>5, <1>6, <1>7 DEF Going

LEMMA AllocationsGo ==
  ASSUME TypeOK, TypeOK', NEW r \in Runners, Going(r), Allocate(r)
  PROVE  Going(r)'
<1> DEFINE t == run[r].target
           found == Allocations(run[r].wanted, saved[t], Available(run[r].published, OwnPorts(t)))
<1>1. run[r] \in RunState
  BY DEF TypeOK
<1>2. CASE Finish(r)
  BY <1>2, IdleGoesOn
<1>3. ASSUME NEW map \in found,
             Steps(r, [run[r] EXCEPT !.map = map, !.published = {}, !.own = OwnedBy(t),
                                     !.todo = PortsOf(map), !.at = "claim"])
      PROVE  Going(r)'
  <2> DEFINE next == [run[r] EXCEPT !.map = map, !.published = {}, !.own = OwnedBy(t),
                                    !.todo = PortsOf(map), !.at = "claim"]
  <2>1. /\ next.at = "claim" /\ next.map = map /\ next.own = OwnedBy(t)
        /\ next.cmd = run[r].cmd /\ next.target = t /\ next.phase = run[r].phase
        /\ next.wanted = run[r].wanted /\ next.held = run[r].held
    BY <1>1 DEF RunState
  <2>2. run'[r] = next
    BY <1>3, StepsChangesOne
  <2> HIDE DEF next
  <2>3. /\ run[r].at = "lookOwn" /\ run[r].cmd = "run"
        /\ UNCHANGED <<owner, saved, relays, served>>
    BY DEF Allocate
  <2>4. run[r].phase = "allocate" /\ Editor \in run[r].wanted /\ OwnedBy(t) \subseteq run[r].held
    BY <2>3 DEF Going, InOrder, Giving
  <2>5. PortsOf(map) # {}
    BY <1>3, <2>4, AllocationsGivePorts
  <2>6. t \notin served
    BY <2>3 DEF Going, Placing
  <2>7. InOrder(r)'
    BY <2>1, <2>2, <2>3, <2>4 DEF InOrder, Claiming
  <2>8. Placing(r)'
    BY <2>1, <2>2, <2>3, <2>4, <2>5, <2>6 DEF Placing, Claiming
  <2>9. Giving(r)'
    BY <2>1, <2>2, <2>3, <2>4 DEF Giving, Claiming, OwnedBy
  <2> QED BY <2>7, <2>8, <2>9 DEF Going
<1> QED BY <1>2, <1>3 DEF Allocate

LEMMA MovesGo ==
  ASSUME TypeOK, TypeOK', HasTarget, NEW r \in Runners, Going(r), PlanMove(r) \/ SaveMove(r)
  PROVE  Going(r)'
<1> DEFINE t == run[r].target
           m == run[r].move
<1>1. run[r] \in RunState /\ t \in Targets /\ m.label \in Labels
  BY FieldTypes DEF TypeOK, HasTarget, PlanMove, SaveMove
<1>2. CASE Finish(r)
  BY <1>2, IdleGoesOn
<1>3. ASSUME PlanMove(r), ~Finish(r) PROVE Going(r)'
  <2> DEFINE map == MovePort(saved[t], m.label, m.port)
             next == [run[r] EXCEPT !.before = saved[t], !.published = {}, !.map = map, !.at = "saveMove"]
  <2>1. CanMove(saved[t], m.label, m.port, run[r].published, OwnPorts(t)) /\ Steps(r, next)
    BY <1>3 DEF PlanMove
  <2>2. /\ run[r].at = "lookOwn" /\ run[r].cmd = "move"
        /\ UNCHANGED <<owner, saved, relays, served>>
    BY <1>3 DEF PlanMove
  <2>3. PortsOf(map) # {}
    <3>1. saved[t] \in PortMap /\ m.port \in HostPorts
      BY <1>1, <2>1 DEF TypeOK, CanMove, NotAnothers
    <3> QED BY <1>1, <3>1, MovesGivePorts
  <2> HIDE DEF map
  <2>4. /\ next.at = "saveMove" /\ next.map = map
        /\ next.cmd = run[r].cmd /\ next.phase = run[r].phase
    BY <1>1 DEF RunState
  <2>5. run'[r] = next
    BY <2>1, StepsChangesOne
  <2> HIDE DEF next
  <2>6. run[r].phase = "none"
    BY <2>2 DEF Going, InOrder
  <2>7. InOrder(r)'
    BY <2>4, <2>5, <2>6 DEF InOrder, Claiming
  <2>8. Placing(r)'
    BY <2>2, <2>3, <2>4, <2>5, <2>6 DEF Placing, Claiming
  <2>9. Giving(r)'
    BY <2>4, <2>5, <2>6 DEF Giving
  <2> QED BY <2>7, <2>8, <2>9 DEF Going
<1>4. ASSUME SaveMove(r), ~Finish(r) PROVE Going(r)'
  <2> DEFINE next == [run[r] EXCEPT !.phase = "moveClaim", !.todo = {m.port}, !.move = NoMove, !.at = "claim"]
  <2>1. /\ next.at = "claim" /\ next.phase = "moveClaim" /\ next.map = run[r].map
        /\ next.target = t
    BY <1>1 DEF RunState
  <2>2. run'[r] = next
    BY <1>4, StepsChangesOne DEF SaveMove
  <2> HIDE DEF next
  <2>3. run[r].at = "saveMove" /\ saved'[t] = run[r].map /\ t \notin served'
    BY <1>1, <1>4 DEF SaveMove, TypeOK
  <2>4. InOrder(r)'
    BY <2>1, <2>2 DEF InOrder, Claiming
  <2>5. Placing(r)'
    BY <2>1, <2>2, <2>3 DEF Going, Placing, Claiming
  <2>6. Giving(r)'
    BY <2>1, <2>2 DEF Giving
  <2> QED BY <2>4, <2>5, <2>6 DEF Going
<1> QED BY <1>2, <1>3, <1>4

(* A file that is taken is what the loop asked for. *)
LEMMA TakenGoes ==
  ASSUME TypeOK, NEW r \in Runners, NEW p \in HostPorts, Going(r), run[r].at \in Claiming,
         run[r].target \in Targets,
         owner' = [owner EXCEPT ![p] = run[r].target], UNCHANGED <<saved, relays, served>>,
         NEW next, run'[r] = next,
         next.cmd = run[r].cmd, next.target = run[r].target, next.at = "claim",
         next.phase = run[r].phase, next.map = run[r].map, next.wanted = run[r].wanted,
         next.own = run[r].own, next.held = run[r].held, next.lost = run[r].lost,
         next.todo = run[r].todo \ {p}, next.claimed = run[r].claimed \union {p}
  PROVE  Going(r)'
<1>1. \A q \in HostPorts : owner'[q] = IF q = p THEN run[r].target ELSE owner[q]
  BY DEF TypeOK
<1>2. OwnedBy(run[r].target)' \subseteq OwnedBy(run[r].target) \union {p}
  BY <1>1 DEF OwnedBy
<1>3. InOrder(r)'
  BY DEF Going, InOrder, Claiming
<1>4. Placing(r)'
  <2>1. run[r].target \notin served /\ PortsOf(run[r].map) # {}
    BY DEF Going, Placing, Claiming
  <2>2. run[r].phase = "publish" =>
          \A q \in PortsOf(run[r].map) : q \in next.todo \/ q \in next.lost \/ owner'[q] = next.target
    BY <1>1, PortsOfAreHostPorts, FieldTypes DEF Going, Placing, TypeOK
  <2>3. run[r].phase \in {"moveClaim", "retire", "publish"} => saved[run[r].target] = run[r].map
    BY DEF Going, Placing
  <2>4. run[r].phase \in {"retire", "publish"} => relays[run[r].target] = PortsOf(run[r].map)
    BY DEF Going, Placing
  <2> QED BY <2>1, <2>2, <2>3, <2>4 DEF Placing
<1>5. Giving(r)'
  <2>1. run[r].phase # "giveBack"
    BY DEF Going, InOrder, Claiming
  <2> QED BY <1>2, <2>1 DEF Going, Giving, Claiming, OwnedBy
<1> QED BY <1>3, <1>4, <1>5 DEF Going

LEMMA ClaimsGo ==
  ASSUME TypeOK, HasTarget, NEW r \in Runners, Going(r), NEW p \in HostPorts,
         Link(r, p) \/ ClaimRead(r, p) \/ Rename(r, p)
  PROVE  Going(r)'
<1> DEFINE rest == run[r].todo \ {p}
           more == run[r].claimed \union {p}
           gone == run[r].lost \union {p}
<1>1. /\ run[r] \in RunState /\ run[r].target \in Targets
      /\ run[r].at \in Claiming
  BY DEF TypeOK, HasTarget, Claiming, Link, ClaimRead, Rename
<1>2. /\ run[r].phase # "giveBack" /\ PortsOf(run[r].map) # {}
      /\ run[r].target \notin served
  BY <1>1 DEF Going, InOrder, Placing, Claiming
<1>3. ASSUME Link(r, p), CanLink(p) PROVE Going(r)'
  <2> DEFINE next == [run[r] EXCEPT !.todo = rest, !.claimed = more]
  <2>1. /\ next.cmd = run[r].cmd /\ next.target = run[r].target /\ next.at = run[r].at
        /\ next.phase = run[r].phase /\ next.map = run[r].map /\ next.wanted = run[r].wanted
        /\ next.own = run[r].own /\ next.held = run[r].held /\ next.lost = run[r].lost
        /\ next.todo = rest /\ next.claimed = more
    BY <1>1 DEF RunState
  <2>2. run'[r] = next
    BY <1>3, StepsChangesOne DEF Link
  <2> HIDE DEF next
  <2> QED BY <1>1, <1>3, <2>1, <2>2, TakenGoes DEF Link
<1>4. ASSUME Rename(r, p) PROVE Going(r)'
  <2> DEFINE next == [run[r] EXCEPT !.at = "claim", !.todo = rest, !.claimed = more]
  <2>1. /\ next.cmd = run[r].cmd /\ next.target = run[r].target /\ next.at = "claim"
        /\ next.phase = run[r].phase /\ next.map = run[r].map /\ next.wanted = run[r].wanted
        /\ next.own = run[r].own /\ next.held = run[r].held /\ next.lost = run[r].lost
        /\ next.todo = rest /\ next.claimed = more
    BY <1>1 DEF RunState
  <2>2. run'[r] = next
    BY <1>4, StepsChangesOne DEF Rename
  <2> HIDE DEF next
  <2> QED BY <1>1, <1>4, <2>1, <2>2, TakenGoes DEF Rename
<1>5. ASSUME NEW at \in Claiming, Steps(r, [run[r] EXCEPT !.at = at]), UNCHANGED <<owner, saved, relays, served>>
      PROVE  Going(r)'
  <2> DEFINE next == [run[r] EXCEPT !.at = at]
  <2>1. /\ next.cmd = run[r].cmd /\ next.target = run[r].target /\ next.at = at
        /\ next.phase = run[r].phase /\ next.map = run[r].map /\ next.wanted = run[r].wanted
        /\ next.own = run[r].own /\ next.held = run[r].held /\ next.lost = run[r].lost
        /\ next.todo = run[r].todo /\ next.claimed = run[r].claimed
    BY <1>1 DEF RunState
  <2>2. run'[r] = next
    BY <1>5, StepsChangesOne
  <2> HIDE DEF next
  <2>3. InOrder(r)'
    BY <1>1, <1>5, <2>1, <2>2 DEF Going, InOrder, Claiming
  <2>4. Placing(r)'
    BY <1>1, <1>2, <1>5, <2>1, <2>2 DEF Going, Placing, Claiming
  <2>5. Giving(r)'
    BY <1>1, <1>2, <1>5, <2>1, <2>2 DEF Going, Giving, Claiming, OwnedBy
  <2> QED BY <2>3, <2>4, <2>5 DEF Going
<1>6. ASSUME ClaimRead(r, p), ~IsOwnFile(r, p) PROVE Going(r)'
  <2> DEFINE next == [run[r] EXCEPT !.at = "claim", !.todo = rest, !.lost = gone]
  <2>1. /\ next.cmd = run[r].cmd /\ next.target = run[r].target /\ next.at = "claim"
        /\ next.phase = run[r].phase /\ next.map = run[r].map /\ next.wanted = run[r].wanted
        /\ next.own = run[r].own /\ next.held = run[r].held /\ next.lost = gone
        /\ next.todo = rest /\ next.claimed = run[r].claimed
    BY <1>1 DEF RunState
  <2>2. run'[r] = next
    BY <1>6, StepsChangesOne DEF ClaimRead
  <2> HIDE DEF next
  <2>3. UNCHANGED <<owner, saved, relays, served>>
    BY <1>6 DEF ClaimRead
  <2>4. InOrder(r)'
    BY <1>1, <2>1, <2>2 DEF Going, InOrder, Claiming
  <2>5. Placing(r)'
    BY <1>1, <1>2, <2>1, <2>2, <2>3 DEF Going, Placing
  <2>6. Giving(r)'
    BY <1>1, <1>2, <2>1, <2>2, <2>3 DEF Going, Giving, Claiming, OwnedBy
  <2> QED BY <2>4, <2>5, <2>6 DEF Going
<1>7. CASE Link(r, p)
  <2>1. "claimRead" \in Claiming
    BY DEF Claiming
  <2> QED BY <1>3, <1>5, <1>7, <2>1 DEF Link
<1>8. CASE ClaimRead(r, p)
  <2>1. "rename" \in Claiming
    BY DEF Claiming
  <2> QED BY <1>5, <1>6, <1>8, <2>1 DEF ClaimRead
<1> QED BY <1>4, <1>7, <1>8

LEMMA ClaimedGo ==
  ASSUME TypeOK, TypeOK', HasTarget, NEW r \in Runners, Going(r), AllClaimed(r) \/ SomeLost(r)
  PROVE  Going(r)'
<1>1. /\ run[r] \in RunState /\ run[r].target \in Targets
      /\ run[r].at = "claim" /\ run[r].todo = {}
      /\ UNCHANGED <<owner, relays>>
  BY DEF TypeOK, HasTarget, AllClaimed, SomeLost
<1>2. run[r].target \notin served /\ PortsOf(run[r].map) # {}
  BY <1>1 DEF Going, Placing, Claiming
<1>3. CASE Finish(r)
  BY <1>3, IdleGoesOn
<1>4. ASSUME AllClaimed(r), run[r].phase = "allocate" PROVE Going(r)'
  <2> DEFINE next == [run[r] EXCEPT !.at = "up", !.wanted = {}, !.round = 0,
                                    !.own = {}, !.held = {}, !.claimed = {}]
  <2>1. /\ next.at = "up" /\ next.target = run[r].target
        /\ next.phase = run[r].phase /\ next.map = run[r].map
    BY <1>1 DEF RunState
  <2>2. run'[r] = next /\ saved'[run[r].target] = run[r].map /\ served' = served
    BY <1>1, <1>4, StepsChangesOne DEF AllClaimed, TypeOK
  <2> HIDE DEF next
  <2>3. InOrder(r)'
    BY <1>4, <2>1, <2>2 DEF InOrder, Claiming
  <2>4. Placing(r)'
    BY <1>2, <1>4, <2>1, <2>2 DEF Placing, Claiming
  <2>5. Giving(r)'
    BY <1>4, <2>1, <2>2 DEF Giving, Claiming
  <2> QED BY <2>3, <2>4, <2>5 DEF Going
<1>5. ASSUME AllClaimed(r), run[r].phase = "moveClaim" PROVE Going(r)'
  <2> DEFINE next == [run[r] EXCEPT !.at = "relays", !.claimed = {}]
  <2>1. /\ next.at = "relays" /\ next.target = run[r].target
        /\ next.phase = run[r].phase /\ next.map = run[r].map
    BY <1>1 DEF RunState
  <2>2. run'[r] = next /\ UNCHANGED <<saved, served>>
    BY <1>1, <1>5, StepsChangesOne DEF AllClaimed
  <2> HIDE DEF next
  <2>3. saved[run[r].target] = run[r].map
    BY <1>5 DEF Going, Placing
  <2>4. InOrder(r)'
    BY <1>5, <2>1, <2>2 DEF InOrder, Claiming
  <2>5. Placing(r)'
    BY <1>2, <1>5, <2>1, <2>2, <2>3 DEF Placing, Claiming
  <2>6. Giving(r)'
    BY <1>5, <2>1, <2>2 DEF Giving, Claiming
  <2> QED BY <2>4, <2>5, <2>6 DEF Going
<1>6. ASSUME SomeLost(r), run[r].phase = "allocate" PROVE Going(r)'
  <2> DEFINE next == [run[r] EXCEPT !.phase = "giveBack", !.todo = ToGiveBack(r), !.own = {},
                                    !.claimed = {}, !.lost = {}, !.at = "release"]
  <2>1. /\ next.at = "release" /\ next.target = run[r].target /\ next.cmd = run[r].cmd
        /\ next.phase = "giveBack" /\ next.map = run[r].map /\ next.wanted = run[r].wanted
        /\ next.held = run[r].held /\ next.todo = ToGiveBack(r)
    BY <1>1 DEF RunState
  <2>2. run'[r] = next /\ UNCHANGED <<saved, served>>
    BY <1>1, <1>6, StepsChangesOne DEF SomeLost
  <2> HIDE DEF next
  <2>3. InOrder(r)'
    BY <1>1, <1>6, <2>1, <2>2 DEF Going, InOrder, Claiming
  <2>4. Placing(r)'
    BY <1>2, <2>1, <2>2 DEF Placing, Claiming
  <2>5. OwnedBy(run[r].target) \subseteq run[r].held \union ToGiveBack(r)
    BY <1>1, <1>6 DEF Going, Giving, Claiming, ToGiveBack
  <2>6. Giving(r)'
    BY <1>1, <2>1, <2>2, <2>5 DEF Giving, OwnedBy
  <2> QED BY <2>3, <2>4, <2>6 DEF Going
<1> QED BY <1>3, <1>4, <1>5, <1>6 DEF AllClaimed, SomeLost

LEMMA ReleasesGo ==
  ASSUME TypeOK, NEW r \in Runners, Going(r), run[r].target \in Targets, NEW p \in HostPorts,
         ReleaseRead(r, p) \/ Unlink(r, p)
  PROVE  Going(r)'
<1> DEFINE rest == run[r].todo \ {p}
<1>1. /\ run[r] \in RunState
      /\ run[r].at \in {"release", "unlink"}
      /\ UNCHANGED <<saved, relays, served>>
  BY DEF TypeOK, ReleaseRead, Unlink
<1>2. run[r].phase \notin {"allocate", "publish"} /\ run[r].target \notin served
  BY <1>1 DEF Going, InOrder, Placing
<1>3. ASSUME NEW at \in {"release", "unlink"}, NEW todo, NEW next,
             run'[r] = next, next.at = at, next.todo = todo,
             next.cmd = run[r].cmd, next.target = run[r].target, next.phase = run[r].phase,
             next.map = run[r].map, next.wanted = run[r].wanted, next.held = run[r].held,
             run[r].phase = "giveBack" => OwnedBy(run[r].target)' \subseteq run[r].held \union todo
      PROVE  Going(r)'
  <2>1. InOrder(r)'
    BY <1>1, <1>3 DEF Going, InOrder, Claiming
  <2>2. Placing(r)'
    BY <1>1, <1>2, <1>3 DEF Going, Placing, Claiming
  <2>3. Giving(r)'
    BY <1>2, <1>3 DEF Giving, OwnedBy
  <2> QED BY <2>1, <2>2, <2>3 DEF Going
<1>4. run[r].phase = "giveBack" => OwnedBy(run[r].target) \subseteq run[r].held \union run[r].todo
  BY DEF Going, Giving
<1>5. ASSUME ReleaseRead(r, p), IsOwnFile(r, p) PROVE Going(r)'
  <2> DEFINE next == [run[r] EXCEPT !.at = "unlink"]
  <2>1. /\ next.at = "unlink" /\ next.todo = run[r].todo /\ next.cmd = run[r].cmd
        /\ next.target = run[r].target /\ next.phase = run[r].phase
        /\ next.map = run[r].map /\ next.wanted = run[r].wanted /\ next.held = run[r].held
    BY <1>1 DEF RunState
  <2>2. run'[r] = next /\ owner' = owner
    BY <1>5, StepsChangesOne DEF ReleaseRead
  <2> HIDE DEF next
  <2>3. run[r].phase = "giveBack" => OwnedBy(run[r].target)' \subseteq run[r].held \union run[r].todo
    BY <1>4, <2>1, <2>2 DEF OwnedBy
  <2> QED BY <1>3, <2>1, <2>2, <2>3
<1>6. ASSUME ReleaseRead(r, p), ~IsOwnFile(r, p) PROVE Going(r)'
  <2> DEFINE next == [run[r] EXCEPT !.todo = rest]
  <2>1. /\ next.at = "release" /\ next.todo = rest /\ next.cmd = run[r].cmd
        /\ next.target = run[r].target /\ next.phase = run[r].phase
        /\ next.map = run[r].map /\ next.wanted = run[r].wanted /\ next.held = run[r].held
    BY <1>1, <1>6 DEF RunState, ReleaseRead
  <2>2. run'[r] = next /\ owner' = owner /\ owner[p] # run[r].target
    BY <1>6, StepsChangesOne DEF ReleaseRead, IsOwnFile
  <2> HIDE DEF next
  <2>3. run[r].phase = "giveBack" => OwnedBy(run[r].target)' \subseteq run[r].held \union rest
    BY <1>4, <2>1, <2>2 DEF OwnedBy
  <2> QED BY <1>3, <2>1, <2>2, <2>3
<1>7. ASSUME Unlink(r, p) PROVE Going(r)'
  <2> DEFINE next == [run[r] EXCEPT !.at = "release", !.todo = rest]
  <2>1. /\ next.at = "release" /\ next.todo = rest /\ next.cmd = run[r].cmd
        /\ next.target = run[r].target /\ next.phase = run[r].phase
        /\ next.map = run[r].map /\ next.wanted = run[r].wanted /\ next.held = run[r].held
    BY <1>1 DEF RunState
  <2>2. run'[r] = next /\ owner' = [owner EXCEPT ![p] = Free]
    BY <1>7, StepsChangesOne DEF Unlink
  <2> HIDE DEF next
  <2>3. run[r].phase = "giveBack" => OwnedBy(run[r].target)' \subseteq run[r].held \union rest
    BY <1>4, <2>1, <2>2, ForwardsAssumption DEF OwnedBy, TypeOK
  <2> QED BY <1>3, <2>1, <2>2, <2>3
<1> QED BY <1>5, <1>6, <1>7

LEMMA ReleasedGo ==
  ASSUME TypeOK, TypeOK', NEW r \in Runners, Going(r), AllReleased(r)
  PROVE  Going(r)'
<1>1. /\ run[r] \in RunState /\ run[r].at = "release" /\ run[r].todo = {}
      /\ UNCHANGED <<owner, saved, relays, served>>
  BY DEF TypeOK, AllReleased
<1>2. run[r].target \notin served
  BY <1>1 DEF Going, Placing
<1>3. CASE Finish(r)
  BY <1>3, IdleGoesOn
<1>4. ASSUME run[r].phase = "giveBack", ~Finish(r) PROVE Going(r)'
  <2> DEFINE next == [run[r] EXCEPT !.phase = "allocate", !.round = NextRound(r), !.map = EmptyMap, !.at = "look"]
  <2>1. /\ next.at = "look" /\ next.phase = "allocate" /\ next.cmd = run[r].cmd
        /\ next.target = run[r].target /\ next.wanted = run[r].wanted /\ next.held = run[r].held
    BY <1>1 DEF RunState
  <2>2. run'[r] = next
    BY <1>4, StepsChangesOne DEF AllReleased
  <2> HIDE DEF next
  <2>3. run[r].cmd = "run" /\ Editor \in run[r].wanted
    BY <1>1, <1>4 DEF Going, InOrder
  <2>4. OwnedBy(run[r].target) \subseteq run[r].held
    BY <1>1, <1>4 DEF Going, Giving
  <2>5. InOrder(r)'
    BY <2>1, <2>2, <2>3 DEF InOrder, Claiming
  <2>6. Placing(r)'
    BY <1>1, <1>2, <2>1, <2>2 DEF Placing, Claiming
  <2>7. Giving(r)'
    BY <1>1, <2>1, <2>2, <2>4 DEF Giving, Claiming, OwnedBy
  <2> QED BY <2>5, <2>6, <2>7 DEF Going
<1>5. ASSUME run[r].phase = "retire" PROVE Going(r)'
  <2> DEFINE next == [run[r] EXCEPT !.phase = "publish", !.todo = PortsOf(run[r].map),
                                    !.before = EmptyMap, !.at = "claim"]
  <2>1. /\ next.at = "claim" /\ next.phase = "publish" /\ next.target = run[r].target
        /\ next.map = run[r].map /\ next.todo = PortsOf(run[r].map)
    BY <1>1 DEF RunState
  <2>2. run'[r] = next
    BY <1>5, StepsChangesOne DEF AllReleased
  <2> HIDE DEF next
  <2>3. InOrder(r)'
    BY <2>1, <2>2 DEF InOrder, Claiming
  <2>4. Placing(r)'
    BY <1>1, <1>2, <1>5, <2>1, <2>2 DEF Going, Placing, Claiming
  <2>5. Giving(r)'
    BY <2>1, <2>2 DEF Giving
  <2> QED BY <2>3, <2>4, <2>5 DEF Going
<1>6. ASSUME run[r].phase = "withdraw" PROVE Going(r)'
  <2> DEFINE next == [run[r] EXCEPT !.at = "last", !.before = EmptyMap]
  <2>1. next.at = "last" /\ next.phase = "withdraw" /\ next.target = run[r].target
    BY <1>1, <1>6 DEF RunState
  <2>2. run'[r] = next
    BY <1>6, StepsChangesOne DEF AllReleased
  <2> HIDE DEF next
  <2>3. InOrder(r)'
    BY <2>1, <2>2 DEF InOrder, Claiming
  <2>4. Placing(r)'
    BY <1>1, <1>2, <2>1, <2>2 DEF Placing, Claiming
  <2>5. Giving(r)'
    BY <2>1, <2>2 DEF Giving
  <2> QED BY <2>3, <2>4, <2>5 DEF Going
<1> QED BY <1>3, <1>4, <1>5, <1>6 DEF AllReleased

LEMMA RestGoes ==
  ASSUME TypeOK, TypeOK', HasTarget, NEW r \in Runners, Going(r),
         BringUp(r) \/ RecreateRelays(r) \/ Fail(r) \/ LoadMap(r) \/ EndStop(r) \/ EndPurge(r)
  PROVE  Going(r)'
<1>1. /\ run[r] \in RunState /\ run[r].target \in Targets
      /\ run[r].at \in {"up", "relays", "load", "last"}
  BY DEF TypeOK, HasTarget, BringUp, RecreateRelays, Fail, LoadMap, EndStop, EndPurge
<1>2. run[r].target \notin served
  BY <1>1 DEF Going, Placing
<1>3. CASE BringUp(r)
  <2> DEFINE next == [run[r] EXCEPT !.at = "relays"]
  <2>1. /\ next.at = "relays" /\ next.target = run[r].target
        /\ next.phase = run[r].phase /\ next.map = run[r].map
    BY <1>1 DEF RunState
  <2>2. run'[r] = next /\ run[r].at = "up" /\ UNCHANGED <<saved, relays, served>>
    BY <1>3, StepsChangesOne DEF BringUp
  <2> HIDE DEF next
  <2>3. InOrder(r)'
    BY <2>1, <2>2 DEF Going, InOrder, Claiming
  <2>4. Placing(r)'
    BY <1>2, <2>1, <2>2 DEF Going, InOrder, Placing, Claiming
  <2>5. Giving(r)'
    BY <2>1, <2>2 DEF Going, InOrder, Giving, Claiming
  <2> QED BY <2>3, <2>4, <2>5 DEF Going
<1>4. CASE RecreateRelays(r)
  <2> DEFINE ports == PortsOf(run[r].map)
             next == [run[r] EXCEPT !.phase = "retire", !.todo = PortsOf(run[r].before) \ ports, !.at = "release"]
  <2>1. /\ next.at = "release" /\ next.target = run[r].target
        /\ next.phase = "retire" /\ next.map = run[r].map
    BY <1>1 DEF RunState
  <2>2. /\ run'[r] = next /\ run[r].at = "relays" /\ UNCHANGED <<saved, served>>
        /\ relays'[run[r].target] = ports
    BY <1>1, <1>4, StepsChangesOne DEF RecreateRelays, TypeOK
  <2> HIDE DEF next
  <2>3. ports # {} /\ saved[run[r].target] = run[r].map
    BY <2>2 DEF Going, Placing
  <2>4. InOrder(r)'
    BY <2>1, <2>2 DEF InOrder, Claiming
  <2>5. Placing(r)'
    BY <1>2, <2>1, <2>2, <2>3 DEF Placing, Claiming
  <2>6. Giving(r)'
    BY <2>1, <2>2 DEF Giving
  <2> QED BY <2>4, <2>5, <2>6 DEF Going
<1>5. CASE LoadMap(r)
  <2> DEFINE next == [run[r] EXCEPT !.before = saved[run[r].target],
                                    !.todo = PortsOf(saved[run[r].target]), !.at = "release"]
  <2>1. /\ next.at = "release" /\ next.target = run[r].target /\ next.phase = run[r].phase
    BY <1>1 DEF RunState
  <2>2. run'[r] = next /\ run[r].at = "load" /\ UNCHANGED <<saved, relays, served>>
    BY <1>5, StepsChangesOne DEF LoadMap
  <2>3. run[r].phase = "withdraw"
    BY <2>2 DEF Going, InOrder
  <2> HIDE DEF next
  <2>4. InOrder(r)'
    BY <2>1, <2>2, <2>3 DEF InOrder, Claiming
  <2>5. Placing(r)'
    BY <1>2, <2>1, <2>2, <2>3 DEF Placing, Claiming
  <2>6. Giving(r)'
    BY <2>1, <2>2, <2>3 DEF Giving
  <2> QED BY <2>4, <2>5, <2>6 DEF Going
<1>6. CASE Finish(r)
  BY <1>6, IdleGoesOn
<1> QED BY <1>3, <1>4, <1>5, <1>6 DEF Fail, EndStop, EndPurge

LEMMA StepGoes ==
  ASSUME TypeOK, TypeOK', HasTarget, NEW r \in Runners, Going(r), Step(r)
  PROVE  Going(r)'
<1>1. ASSUME NEW p \in HostPorts, ReleaseRead(r, p) \/ Unlink(r, p)
      PROVE  Going(r)'
  <2>1. run[r].target \in Targets
    BY <1>1 DEF HasTarget, ReleaseRead, Unlink
  <2> QED BY <1>1, <2>1, ReleasesGo
<1> QED
  BY <1>1, LooksGo, AllocationsGo, MovesGo, ClaimsGo, ClaimedGo, ReleasedGo, RestGoes DEF Step

(* A runner that begins finds the target's forwards as they are. *)
LEMMA BeginGoes ==
  ASSUME TypeOK, NEW r \in Runners, NEW t \in Targets, BeginSome(r, t)
  PROVE  /\ Going(r)'
         /\ UNCHANGED <<owner, saved>>
         /\ \A u \in Targets \ {t} : relays'[u] = relays[u]
         /\ \A u \in served' : u \in served /\ (u = t => relays' = relays)
         /\ \A u \in Targets \ {t} : u \in served' <=> u \in served
<1> USE DEF TypeOK
<1> DEFINE Goal == /\ Going(r)'
                   /\ UNCHANGED <<owner, saved>>
                   /\ \A u \in Targets \ {t} : relays'[u] = relays[u]
                   /\ \A u \in served' : u \in served /\ (u = t => relays' = relays)
                   /\ \A u \in Targets \ {t} : u \in served' <=> u \in served
<1>1. ASSUME NEW wanted \in SUBSET Declares[t], NEW rebuild \in BOOLEAN, Editor \in wanted,
             BeginRun(r, t, wanted, rebuild)
      PROVE  Goal
  <2> DEFINE next == [[Idle EXCEPT !.at = "look", !.phase = "allocate", !.before = saved[t],
                                   !.wanted = wanted, !.held = OwnedBy(t)]
                       EXCEPT !.cmd = "run", !.target = t]
  <2>1. /\ next.at = "look" /\ next.phase = "allocate" /\ next.cmd = "run" /\ next.target = t
        /\ next.wanted = wanted /\ next.held = OwnedBy(t)
    BY IdleIsRunState DEF RunState
  <2>2. run'[r] = next
    BY <1>1, StepsChangesOne DEF BeginRun, Begin
  <2> HIDE DEF next
  <2>3. /\ served' = served \ {t} /\ UNCHANGED <<owner, saved, relays>>
    BY <1>1 DEF BeginRun
  <2>4. InOrder(r)' /\ Placing(r)' /\ Giving(r)'
    BY <1>1, <2>1, <2>2, <2>3 DEF InOrder, Placing, Giving, Claiming, OwnedBy
  <2> QED BY <2>3, <2>4 DEF Going
<1>2. ASSUME NEW cmd,
             Steps(r, [[Idle EXCEPT !.at = "load", !.phase = "withdraw"] EXCEPT !.cmd = cmd, !.target = t]),
             served' = served \ {t}
      PROVE  Going(r)'
  <2> DEFINE next == [[Idle EXCEPT !.at = "load", !.phase = "withdraw"] EXCEPT !.cmd = cmd, !.target = t]
  <2>1. next.at = "load" /\ next.phase = "withdraw" /\ next.target = t
    BY IdleIsRunState DEF RunState
  <2>2. run'[r] = next
    BY <1>2, StepsChangesOne
  <2> HIDE DEF next
  <2>3. InOrder(r)' /\ Placing(r)' /\ Giving(r)'
    BY <1>2, <2>1, <2>2 DEF InOrder, Placing, Giving, Claiming
  <2> QED BY <2>3 DEF Going
<1>3. ASSUME NEW cmd \in {"stop", "stopAll"}, BeginStop(r, t, cmd) PROVE Goal
  <2>1. Going(r)'
    BY <1>2, <1>3 DEF BeginStop, Begin
  <2> QED BY <1>3, <2>1 DEF BeginStop
<1>4. ASSUME BeginPurge(r, t) PROVE Goal
  <2>1. Going(r)'
    BY <1>2, <1>4 DEF BeginPurge, Begin
  <2> QED BY <1>4, <2>1 DEF BeginPurge
<1>5. ASSUME NEW l \in Labels, NEW p \in HostPorts, BeginMove(r, t, l, p) PROVE Goal
  <2> DEFINE next == [[Idle EXCEPT !.at = "look", !.move = [label |-> l, port |-> p]]
                       EXCEPT !.cmd = "move", !.target = t]
  <2>1. next.at = "look" /\ next.phase = "none" /\ next.cmd = "move" /\ next.target = t
    BY IdleIsRunState DEF RunState, Idle
  <2>2. run'[r] = next
    BY <1>5, StepsChangesOne DEF BeginMove, Begin
  <2> HIDE DEF next
  <2>3. InOrder(r)' /\ Placing(r)' /\ Giving(r)'
    BY <2>1, <2>2 DEF InOrder, Placing, Giving, Claiming
  <2> QED BY <1>5, <2>3 DEF BeginMove, Going
<1> HIDE DEF Goal
<1>6. Goal
  BY <1>1, <1>3, <1>4, <1>5 DEF BeginSome
<1> QED BY <1>6 DEF Goal

(* What nobody touches for a runner leaves it in order. *)
LEMMA BystanderGoes ==
  ASSUME HasTarget, NEW q \in Runners, Going(q), run'[q] = run[q],
         run[q].target \in served' => run[q].target \in served,
         run[q].target \in Targets =>
           /\ saved'[run[q].target] = saved[run[q].target]
           /\ relays'[run[q].target] = relays[run[q].target]
           /\ \A p \in HostPorts : owner'[p] = run[q].target <=> owner[p] = run[q].target,
         TypeOK, TypeOK'
  PROVE  Going(q)'
<1>1. InOrder(q)'
  BY DEF Going, InOrder
<1>2. CASE run[q].at = "idle"
  <2>1. run[q].phase = "none"
    BY <1>2 DEF Going, InOrder
  <2>2. Placing(q)'
    BY <1>2, <2>1 DEF Going, Placing, Claiming
  <2>3. Giving(q)'
    BY <1>2, <2>1 DEF Going, Giving, Claiming
  <2> QED BY <1>1, <2>2, <2>3 DEF Going
<1>3. CASE run[q].at # "idle"
  <2>1. run[q].target \in Targets /\ PortsOf(run[q].map) \subseteq HostPorts
    BY <1>3, FieldTypes, PortsOfAreHostPorts DEF HasTarget, TypeOK
  <2>2. OwnedBy(run[q].target)' = OwnedBy(run[q].target)
    BY <2>1 DEF OwnedBy
  <2>3. Placing(q)'
    BY <2>1 DEF Going, Placing
  <2>4. Giving(q)'
    BY <2>2 DEF Going, Giving, OwnedBy
  <2> QED BY <1>1, <2>3, <2>4 DEF Going
<1> QED BY <1>2, <1>3

LEMMA ServingInitially == Init => Serving
<1> SUFFICES ASSUME Init PROVE Serving
  OBVIOUS
<1>1. Exclusive /\ TypeOK
  BY ExclusiveInitially, TypeInitially
<1>2. ASSUME NEW r \in Runners PROVE Going(r)
  BY <1>1, IdleGoes DEF Init
<1>3. ServedIsForwarded
  BY DEF Init, ServedIsForwarded
<1> QED BY <1>1, <1>2, <1>3 DEF Serving

(* A step of one runner leaves the forwards of every other target.         *)
LEMMA StepServes ==
  ASSUME Serving, TypeOK', NEW r \in Runners, Step(r)
  PROVE  (\A q \in Runners : Going(q)') /\ ServedIsForwarded'
<1> USE DEF Serving, Exclusive
<1> DEFINE t == run[r].target
<1>1. TypeOK /\ HasTarget
  BY DEF Typed
<1>2. t \in Targets /\ \A q \in Runners \ {r} : run'[q] = run[q]
  BY <1>1, StepKeeps DEF Keeps, HasTarget
<1>3. /\ \A u \in Targets \ {t} : saved'[u] = saved[u] /\ relays'[u] = relays[u] /\ (u \in served' => u \in served)
      /\ \A p \in HostPorts : owner'[p] \in {owner[p], t, Free}
      /\ run[r].cmd = "move" /\ run[r].at \in {"look", "lookOwn", "saveMove"} /\ t \in served' =>
           UNCHANGED <<owner, saved, relays>>
      /\ t \in served' /\ t \notin served =>
           AllClaimed(r) /\ run[r].phase = "publish" /\ UNCHANGED <<owner, saved, relays>>
  BY <1>1, StepChangesItsOwn
<1>4. ASSUME NEW u \in Targets \ {t}, NEW p \in HostPorts
      PROVE  owner'[p] = u <=> owner[p] = u
  BY <1>2, <1>3, StepTakesItsOwn, ForwardsAssumption
<1>5. ASSUME NEW q \in Runners \ {r} PROVE Going(q)'
  <2>1. run[q].target \in Targets => run[q].target \in Targets \ {t}
    BY <1>2 DEF Apart
  <2>2. run[q].target \in served' => run[q].target \in served
    BY <1>3, <2>1 DEF TypeOK
  <2> QED BY <1>1, <1>2, <1>3, <1>4, <2>1, <2>2, BystanderGoes
<1>6. Going(r)'
  BY <1>1, StepGoes
<1>7. ASSUME NEW u \in served' PROVE PortsOf(saved'[u]) # {} /\ \A p \in PortsOf(saved'[u]) : owner'[p] = u /\ p \in relays'[u]
  <2>1. u \in Targets
    BY DEF TypeOK
  <2>2. CASE u # t
    <3>1. u \in served /\ saved'[u] = saved[u] /\ relays'[u] = relays[u] /\ saved[u] \in PortMap
      BY <1>1, <1>3, <2>1, <2>2 DEF TypeOK
    <3>2. PortsOf(saved[u]) \subseteq HostPorts
      BY <3>1, PortsOfAreHostPorts
    <3> QED BY <1>4, <2>1, <2>2, <3>1, <3>2 DEF ServedIsForwarded
  <2>3. CASE u = t /\ t \in served
    <3>1. UNCHANGED <<owner, saved, relays>>
      BY <1>3, <2>3 DEF Going, Placing
    <3> QED BY <2>3, <3>1 DEF ServedIsForwarded
  <2>4. CASE u = t /\ t \notin served
    <3>1. /\ run[r].phase = "publish" /\ run[r].at = "claim" /\ run[r].todo = {} /\ run[r].lost = {}
          /\ UNCHANGED <<owner, saved, relays>>
      BY <1>3, <2>4 DEF AllClaimed, NothingLost
    <3>2. /\ saved[t] = run[r].map /\ relays[t] = PortsOf(run[r].map) /\ PortsOf(run[r].map) # {}
          /\ \A p \in PortsOf(run[r].map) : owner[p] = t
      BY <3>1 DEF Going, Placing, Claiming
    <3> QED BY <2>4, <3>1, <3>2
  <2> QED BY <2>2, <2>3, <2>4
<1>8. ServedIsForwarded'
  BY <1>7 DEF ServedIsForwarded
<1> QED BY <1>5, <1>6, <1>8

LEMMA ServingStep ==
  ASSUME OneAtATime, Serving, [Next]_vars
  PROVE  Serving'
<1> USE DEF Serving
<1>1. Exclusive' /\ TypeOK /\ TypeOK' /\ HasTarget
  BY ExclusiveStep DEF Exclusive, Typed
<1>2. ASSUME UNCHANGED <<owner, saved, relays>>, served' \subseteq served PROVE ServedIsForwarded'
  BY <1>2 DEF ServedIsForwarded
<1>3. ASSUME NEW q \in Runners, run'[q] = run[q], UNCHANGED <<owner, saved, relays>>, served' \subseteq served
      PROVE  Going(q)'
  BY <1>1, <1>3, BystanderGoes
<1>4. CASE UNCHANGED vars
  BY <1>1, <1>2, <1>3, <1>4 DEF vars
<1>5. ASSUME NEW r \in Runners, NEW t \in Targets, BeginSome(r, t) PROVE Serving'
  <2>1. /\ Going(r)'
        /\ UNCHANGED <<owner, saved>>
        /\ \A u \in Targets \ {t} : relays'[u] = relays[u]
        /\ \A u \in served' : u \in served /\ (u = t => relays' = relays)
    BY <1>1, <1>5, BeginGoes
  <2>2. (\A q \in Runners \ {r} : run'[q] = run[q]) /\ \A q \in Runners : run[q].target # t
    BY <1>1, <1>5, BeginChangesOne DEF Undisturbed
  <2>3. ASSUME NEW q \in Runners \ {r} PROVE Going(q)'
    <3>1. run[q].target \in Targets => run[q].target \in Targets \ {t}
      BY <2>2
    <3> QED BY <1>1, <2>1, <2>2, <3>1, BystanderGoes
  <2>4. ServedIsForwarded'
    BY <1>1, <2>1 DEF ServedIsForwarded, TypeOK
  <2> QED BY <1>1, <2>1, <2>3, <2>4
<1>6. ASSUME NEW r \in Runners, Step(r) PROVE Serving'
  BY <1>1, <1>6, StepServes
<1>7. ASSUME NEW r \in Runners, Kill(r) PROVE Serving'
  <2>1. (\A q \in Runners \ {r} : run'[q] = run[q]) /\ Finish(r) /\ UNCHANGED <<owner, saved, relays, served>>
    BY <1>1, <1>7, FinishChangesOne DEF Kill
  <2>2. Going(r)'
    BY <1>1, <2>1, IdleGoesOn
  <2> QED BY <1>1, <1>2, <1>3, <2>1, <2>2
<1>8. ASSUME NEW t \in Targets, DindStops(t) PROVE Serving'
  <2>1. UNCHANGED <<owner, saved, relays, run>> /\ served' \subseteq served
    BY <1>8 DEF DindStops
  <2> QED BY <1>1, <1>2, <1>3, <2>1
<1> QED BY <1>4, <1>5, <1>6, <1>7, <1>8 DEF Next

(* A target that came up with its ports is reached through them, whatever  *)
(* the other targets start, stop, move or purge meanwhile (ingress-files.ts *)
(* claim and publish, desolate.ts recreateRelays), while the commands of a *)
(* target take turns.                                                      *)
THEOREM ForwardsServe == OneAtATime => (Spec => []ServedIsForwarded)
<1> SUFFICES ASSUME OneAtATime PROVE Spec => []ServedIsForwarded
  OBVIOUS
<1>1. Serving => ServedIsForwarded
  BY DEF Serving
<1> QED BY <1>1, ServingInitially, ServingStep, PTL DEF Spec

(* Under the same condition a run that lost a claim holds, once it has     *)
(* released what it took, nothing it did not hold before                   *)
(* (desolate.ts:472-475).                                                  *)
THEOREM ForwardsGiveBack == OneAtATime => (Spec => []GivesBackWhatItTook)
<1> SUFFICES ASSUME OneAtATime PROVE Spec => []GivesBackWhatItTook
  OBVIOUS
<1>1. Serving => GivesBackWhatItTook
  BY DEF Serving, Going, Giving, GivesBackWhatItTook
<1> QED BY <1>1, ServingInitially, ServingStep, PTL DEF Spec
=============================================================================
