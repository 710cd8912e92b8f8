------------------------------ MODULE Forwards -------------------------------
(***************************************************************************)
(* How runners of several targets share the ingress's ports/ directory:    *)
(* ingress-files.ts (claim, release, publish, withdraw), the `ports` and   *)
(* `ingressFiles` objects of desolate.ts, and the commands that use them   *)
(* -- a run, a stop, a purge and `ports --move`.                           *)
(*                                                                         *)
(* A file ports/<p> is a forward of host port p, and its content names the *)
(* target that claimed it.  Every read, link, rename and removal of such a *)
(* file is a step of its own.                                              *)
(*                                                                         *)
(* run, stop <target> and purge hold their target's lock (module Locks)    *)
(* from start to exit; the lock is taken here for what its first line      *)
(* says.  `ports --move` and `stop --all` hold nothing.                    *)
(***************************************************************************)
EXTENDS Ports, Sequences

CONSTANTS
  Targets,
  Declares,       (* the labels each target's devcontainer.json may declare *)
  Issued,         (* the commands people give each target                  *)
  OwnDaemon,      (* the targets that run on a dind of their own; the rest *)
                  (* share one daemon                                      *)
  Runners,        (* desolate.ts processes                                 *)
  ClaimAttempts,  (* CLAIM_ATTEMPTS: how often a run looks for ports       *)
  Free,           (* no ports/ file                                        *)
  NoTarget,
  OneAtATime      (* TRUE: whoever runs an unlocked command waits until    *)
                  (* nothing else runs on that target, and nothing starts  *)
                  (* on a target while one does                            *)

Locked   == {"run", "stop", "purge"}
Unlocked == {"move", "stopAll"}
Commands == Locked \union Unlocked

ASSUME ForwardsAssumption ==
  /\ Declares \in [Targets -> SUBSET Labels]
  /\ \A t \in Targets : Editor \in Declares[t]
  /\ Issued \in [Targets -> SUBSET Commands]
  /\ OwnDaemon \subseteq Targets
  /\ Free \notin Targets
  /\ NoTarget \notin Targets
  /\ ClaimAttempts \in Nat \ {0}
  /\ OneAtATime \in BOOLEAN

VARIABLES
  owner,      (* ports/<p>: the target the file names, or Free             *)
  saved,      (* a target's ports state file; EmptyMap when there is none  *)
  relays,     (* the host ports a target's relay containers publish        *)
  up,         (* the targets whose devcontainer runs                       *)
  reachable,  (* the targets whose daemon answers                          *)
  run,        (* each runner's command and its local state                 *)
  served      (* ghost: the targets that ran when their last publish ended *)
              (* and that nothing has taken down or moved since            *)

vars == <<owner, saved, relays, up, reachable, run, served>>

NoMove == [label |-> Editor, port |-> NoPort]

(* cmd, target: what runs, on what.  at: the next step.  phase: what the   *)
(* claims or releases in progress are for.  before: the map loaded when    *)
(* the command began.  map: the one it is putting in place.  published,    *)
(* own: the world as it last looked (own is ownForwards).  todo, claimed,  *)
(* lost: ports of the loop in progress.  round: the allocation attempt.    *)
(* held is a ghost: what the target owned when the run began.  A field     *)
(* that is read no more is reset, so that it tells no two states apart.    *)
Idle == [cmd |-> "none", target |-> NoTarget, at |-> "idle", phase |-> "none",
         before |-> EmptyMap, map |-> EmptyMap, wanted |-> {},
         published |-> {}, own |-> {}, held |-> {}, move |-> NoMove,
         todo |-> {}, claimed |-> {}, lost |-> {}, round |-> 0]

Init ==
  /\ owner = [p \in HostPorts |-> Free]
  /\ saved = [t \in Targets |-> EmptyMap]
  /\ relays = [t \in Targets |-> {}]
  /\ up = {}
  /\ reachable = Targets
  /\ run = [r \in Runners |-> Idle]
  /\ served = {}
-----------------------------------------------------------------------------
(* Helpers. *)

Active(r) == run[r].cmd # "none"
OwnedBy(t) == {p \in HostPorts : owner[p] = t}

(* docker ps of the daemon being driven shows its own containers only. *)
SameDaemon(t) == IF t \in OwnDaemon THEN {t} ELSE Targets \ OwnDaemon

LockFree(t) == \A q \in Runners : ~(run[q].target = t /\ run[q].cmd \in Locked)
Undisturbed(t) == OneAtATime => \A q \in Runners : run[q].target # t

Steps(r, next) == run' = [run EXCEPT ![r] = next]
Finish(r) == Steps(r, Idle)

(* The order of a loop over a map is the map's own. *)
LoopMap(r) == IF run[r].phase \in {"retire", "withdraw"} THEN run[r].before ELSE run[r].map
IsNext(r, p) ==
  /\ p \in run[r].todo
  /\ \E l \in Labels :
       /\ LoopMap(r)[l] = p
       /\ \A k \in Labels : LoopMap(r)[k] \in run[r].todo => Rank[l] <= Rank[k]

(* Faults to seed: files that are overwritten, or taken as one's own; lost *)
(* claims that go unnoticed or are not given back; attempts one too many,  *)
(* or not counted.                                                         *)
Overwrites(p) == TRUE
AnyFile(r, p) == TRUE
IgnoresLost(r) == TRUE
KeepsAll(r) == {}
SameRound(r) == run[r].round
OneTryMore(r) == run[r].round < ClaimAttempts

(* linkSync creates only where there is no file; ownerOf a file there is   *)
(* tells the target's own from another's.                                  *)
CanLink(p) == owner[p] = Free
IsOwnFile(r, p) == owner[p] = run[r].target

(* What an attempt to claim a whole map came to.                           *)
NothingLost(r) == run[r].lost = {}
ToGiveBack(r) == run[r].claimed \ run[r].own
NextRound(r) == run[r].round + 1
MayTryAgain(r) == run[r].round + 1 < ClaimAttempts

-----------------------------------------------------------------------------
(* Commands begin. *)

Begin(r, t, cmd, start) ==
  /\ ~Active(r)
  /\ cmd \in Issued[t]
  /\ cmd \in Locked => LockFree(t)
  /\ Undisturbed(t)
  /\ Steps(r, [start EXCEPT !.cmd = cmd, !.target = t])

(* runTarget up to its ports: its daemon is there -- ensured, when it is   *)
(* its own -- and a rebuild has removed the old container.                 *)
BeginRun(r, t, wanted, rebuild) ==
  /\ Begin(r, t, "run", [Idle EXCEPT !.at = "look", !.phase = "allocate",
                                     !.before = saved[t], !.wanted = wanted,
                                     !.held = OwnedBy(t)])
  /\ reachable' = reachable \union {t}
  /\ up' = IF rebuild THEN up \ {t} ELSE up
  /\ served' = served \ {t}
  /\ UNCHANGED <<owner, saved, relays>>

(* stopTarget: relays go first, unless the daemon is stopped and nothing   *)
(* of the target runs.  stop --all asks for the running targets and then   *)
(* stops each this way, without its lock.                                  *)
BeginStop(r, t, cmd) ==
  /\ cmd = "stopAll" => t \in up
  /\ Begin(r, t, cmd, [Idle EXCEPT !.at = "load", !.phase = "withdraw"])
  /\ relays' = IF t \in reachable THEN [relays EXCEPT ![t] = {}] ELSE relays
  /\ served' = served \ {t}
  /\ UNCHANGED <<owner, saved, up, reachable>>

(* purgeTarget, of a target that does not run; its own daemon is ensured. *)
BeginPurge(r, t) ==
  /\ t \notin up
  /\ Begin(r, t, "purge", [Idle EXCEPT !.at = "load", !.phase = "withdraw"])
  /\ reachable' = reachable \union {t}
  /\ relays' = [relays EXCEPT ![t] = {}]
  /\ served' = served \ {t}
  /\ UNCHANGED <<owner, saved, up>>

(* ports --move. *)
BeginMove(r, t, label, port) ==
  /\ Begin(r, t, "move", [Idle EXCEPT !.at = "look", !.move = [label |-> label, port |-> port]])
  /\ UNCHANGED <<owner, saved, relays, up, reachable, served>>

-----------------------------------------------------------------------------
(* ports.world: docker's table and the ports/ directory are read, and then *)
(* the directory again, for what this target owns, with its own relays and *)
(* its state file.                                                         *)

LookPublished(r) ==
  /\ run[r].at = "look"
  /\ Steps(r, [run[r] EXCEPT !.published = {p \in HostPorts : owner[p] # Free} \union UNION {relays[u] : u \in SameDaemon(run[r].target)},
                             !.at = "lookOwn"])
  /\ UNCHANGED <<owner, saved, relays, up, reachable, served>>

OwnPorts(t) == OwnedBy(t) \union relays[t]

(* ports.allocate: this attempt's map, or PortsExhaustedError. *)
Allocate(r) ==
  LET t == run[r].target
      found == Allocations(run[r].wanted, saved[t], Available(run[r].published, OwnPorts(t)))
  IN
  /\ run[r].at = "lookOwn"
  /\ run[r].cmd = "run"
  /\ IF found = {} THEN Finish(r)
     ELSE \E map \in found :
            Steps(r, [run[r] EXCEPT !.map = map,
                                    !.published = {},
                                    !.own = OwnedBy(t),
                                    !.todo = PortsOf(map),
                                    !.at = "claim"])
  /\ UNCHANGED <<owner, saved, relays, up, reachable, served>>

(* movePorts: the map it would save, or a PortRangeError. *)
PlanMove(r) ==
  LET t == run[r].target
      m == run[r].move
  IN
  /\ run[r].at = "lookOwn"
  /\ run[r].cmd = "move"
  /\ IF CanMove(saved[t], m.label, m.port, run[r].published, OwnPorts(t))
     THEN Steps(r, [run[r] EXCEPT !.before = saved[t],
                                  !.published = {},
                                  !.map = MovePort(saved[t], m.label, m.port),
                                  !.at = "saveMove"])
     ELSE Finish(r)
  /\ UNCHANGED <<owner, saved, relays, up, reachable, served>>

(* The moved map is saved before its port is claimed, and a target that    *)
(* does not run claims it at its next start.                               *)
SaveMove(r) ==
  LET t == run[r].target IN
  /\ run[r].at = "saveMove"
  /\ saved' = [saved EXCEPT ![t] = run[r].map]
  /\ served' = served \ {t}
  /\ IF t \in reachable \intersect up
     THEN Steps(r, [run[r] EXCEPT !.phase = "moveClaim",
                                  !.todo = {run[r].move.port},
                                  !.move = NoMove,
                                  !.at = "claim"])
     ELSE Finish(r)
  /\ UNCHANGED <<owner, relays, up, reachable>>

-----------------------------------------------------------------------------
(* ingress.claim, port after port. *)

(* linkSync of the staged copy: an exclusive create. *)
Link(r, p) ==
  /\ run[r].at = "claim"
  /\ IsNext(r, p)
  /\ IF CanLink(p)
     THEN /\ owner' = [owner EXCEPT ![p] = run[r].target]
          /\ Steps(r, [run[r] EXCEPT !.todo = run[r].todo \ {p},
                                     !.claimed = run[r].claimed \union {p}])
     ELSE /\ Steps(r, [run[r] EXCEPT !.at = "claimRead"])
          /\ UNCHANGED owner
  /\ UNCHANGED <<saved, relays, up, reachable, served>>

(* EEXIST: whose is it? *)
ClaimRead(r, p) ==
  /\ run[r].at = "claimRead"
  /\ IsNext(r, p)
  /\ IF IsOwnFile(r, p)
     THEN Steps(r, [run[r] EXCEPT !.at = "rename"])
     ELSE Steps(r, [run[r] EXCEPT !.at = "claim",
                                  !.todo = run[r].todo \ {p},
                                  !.lost = run[r].lost \union {p}])
  /\ UNCHANGED <<owner, saved, relays, up, reachable, served>>

(* renameSync of the staged copy, over whatever is there by now. *)
Rename(r, p) ==
  /\ run[r].at = "rename"
  /\ IsNext(r, p)
  /\ owner' = [owner EXCEPT ![p] = run[r].target]
  /\ Steps(r, [run[r] EXCEPT !.at = "claim",
                             !.todo = run[r].todo \ {p},
                             !.claimed = run[r].claimed \union {p}])
  /\ UNCHANGED <<saved, relays, up, reachable, served>>

(* The loop over the ports is done. *)
AllClaimed(r) ==
  /\ run[r].at = "claim"
  /\ run[r].todo = {}
  /\ NothingLost(r)
  /\ \/ /\ run[r].phase = "allocate"
        /\ saved' = [saved EXCEPT ![run[r].target] = run[r].map]
        /\ Steps(r, [run[r] EXCEPT !.at = "up", !.wanted = {}, !.round = 0,
                                   !.own = {}, !.held = {}, !.claimed = {}])
        /\ UNCHANGED served
     \/ /\ run[r].phase = "moveClaim"
        /\ Steps(r, [run[r] EXCEPT !.at = "relays", !.claimed = {}])
        /\ UNCHANGED <<saved, served>>
     \/ /\ run[r].phase = "publish"
        /\ served' = served \union ({run[r].target} \intersect up)
        /\ Finish(r)
        /\ UNCHANGED saved
  /\ UNCHANGED <<owner, relays, up, reachable>>

(* Some port went to another target: an allocation gives back what it took *)
(* that was not its own already, anything else dies.                       *)
SomeLost(r) ==
  /\ run[r].at = "claim"
  /\ run[r].todo = {}
  /\ ~NothingLost(r)
  /\ IF run[r].phase = "allocate"
     THEN Steps(r, [run[r] EXCEPT !.phase = "giveBack",
                                  !.todo = ToGiveBack(r),
                                  !.own = {}, !.claimed = {}, !.lost = {},
                                  !.at = "release"])
     ELSE Finish(r)
  /\ UNCHANGED <<owner, saved, relays, up, reachable, served>>

-----------------------------------------------------------------------------
(* ingress.release, port after port. *)

ReleaseRead(r, p) ==
  /\ run[r].at = "release"
  /\ IsNext(r, p)
  /\ IF IsOwnFile(r, p)
     THEN Steps(r, [run[r] EXCEPT !.at = "unlink"])
     ELSE Steps(r, [run[r] EXCEPT !.todo = run[r].todo \ {p}])
  /\ UNCHANGED <<owner, saved, relays, up, reachable, served>>

Unlink(r, p) ==
  /\ run[r].at = "unlink"
  /\ IsNext(r, p)
  /\ owner' = [owner EXCEPT ![p] = Free]
  /\ Steps(r, [run[r] EXCEPT !.at = "release", !.todo = run[r].todo \ {p}])
  /\ UNCHANGED <<saved, relays, up, reachable, served>>

AllReleased(r) ==
  /\ run[r].at = "release"
  /\ run[r].todo = {}
  /\ \/ /\ run[r].phase = "giveBack"
        /\ IF MayTryAgain(r)
           THEN Steps(r, [run[r] EXCEPT !.phase = "allocate",
                                        !.round = NextRound(r),
                                        !.map = EmptyMap,
                                        !.at = "look"])
           ELSE Finish(r)
     \/ /\ run[r].phase = "retire"
        /\ Steps(r, [run[r] EXCEPT !.phase = "publish",
                                   !.todo = PortsOf(run[r].map),
                                   !.before = EmptyMap,
                                   !.at = "claim"])
     \/ /\ run[r].phase = "withdraw"
        /\ Steps(r, [run[r] EXCEPT !.at = "last", !.before = EmptyMap])
  /\ UNCHANGED <<owner, saved, relays, up, reachable, served>>

-----------------------------------------------------------------------------
(* The rest of each command. *)

(* devcontainer up and everything that follows it, up to the relays. *)
BringUp(r) ==
  /\ run[r].at = "up"
  /\ up' = up \union {run[r].target}
  /\ Steps(r, [run[r] EXCEPT !.at = "relays"])
  /\ UNCHANGED <<owner, saved, relays, reachable, served>>

(* recreateRelays: the old ones go, and one starts for each port -- which  *)
(* another container of that daemon may already publish -- and publish     *)
(* begins with what the command found and its new map leaves out.          *)
RecreateRelays(r) ==
  LET t == run[r].target
      ports == PortsOf(run[r].map)
  IN
  /\ run[r].at = "relays"
  /\ t \in up \intersect reachable
  /\ \A u \in SameDaemon(t) \ {t} : relays[u] \intersect ports = {}
  /\ relays' = [relays EXCEPT ![t] = ports]
  /\ Steps(r, [run[r] EXCEPT !.phase = "retire",
                             !.todo = PortsOf(run[r].before) \ ports,
                             !.at = "release"])
  /\ UNCHANGED <<owner, saved, up, reachable, served>>

(* Any step between the allocation and the publish may fail: a build, a    *)
(* feature, a lifecycle command, the editor, a relay's image.              *)
Fail(r) ==
  /\ run[r].at \in {"up", "relays"}
  /\ \/ UNCHANGED relays
     \/ /\ run[r].at = "relays"
        /\ relays' = [relays EXCEPT ![run[r].target] = {}]
  /\ Finish(r)
  /\ UNCHANGED <<owner, saved, up, reachable, served>>

(* withdraw reads the state file when it comes to it. *)
LoadMap(r) ==
  /\ run[r].at = "load"
  /\ Steps(r, [run[r] EXCEPT !.before = saved[run[r].target],
                             !.todo = PortsOf(saved[run[r].target]),
                             !.at = "release"])
  /\ UNCHANGED <<owner, saved, relays, up, reachable, served>>

(* A stop ends with the container, a purge with the state files. *)
EndStop(r) ==
  /\ run[r].at = "last"
  /\ run[r].cmd \in {"stop", "stopAll"}
  /\ up' = up \ {run[r].target}
  /\ Finish(r)
  /\ UNCHANGED <<owner, saved, relays, reachable, served>>

EndPurge(r) ==
  /\ run[r].at = "last"
  /\ run[r].cmd = "purge"
  /\ saved' = [saved EXCEPT ![run[r].target] = EmptyMap]
  /\ Finish(r)
  /\ UNCHANGED <<owner, relays, up, reachable, served>>

-----------------------------------------------------------------------------
(* The environment. *)

(* A runner is killed, or its VM goes down. *)
Kill(r) ==
  /\ Active(r)
  /\ Finish(r)
  /\ UNCHANGED <<owner, saved, relays, up, reachable, served>>

(* The supervisor stops a project's own dind: evicted, reaped or asked to. *)
DindStops(t) ==
  /\ t \in OwnDaemon \intersect reachable
  /\ reachable' = reachable \ {t}
  /\ up' = up \ {t}
  /\ served' = served \ {t}
  /\ UNCHANGED <<owner, saved, relays, run>>

-----------------------------------------------------------------------------
Step(r) ==
  \/ LookPublished(r) \/ Allocate(r) \/ PlanMove(r) \/ SaveMove(r)
  \/ \E p \in HostPorts : Link(r, p) \/ ClaimRead(r, p) \/ Rename(r, p)
  \/ AllClaimed(r) \/ SomeLost(r)
  \/ \E p \in HostPorts : ReleaseRead(r, p) \/ Unlink(r, p)
  \/ AllReleased(r)
  \/ BringUp(r) \/ RecreateRelays(r) \/ Fail(r)
  \/ LoadMap(r) \/ EndStop(r) \/ EndPurge(r)

BeginSome(r, t) ==
  \/ \E wanted \in SUBSET Declares[t], rebuild \in BOOLEAN :
       Editor \in wanted /\ BeginRun(r, t, wanted, rebuild)
  \/ \E cmd \in {"stop", "stopAll"} : BeginStop(r, t, cmd)
  \/ BeginPurge(r, t)
  \/ \E label \in Labels, port \in HostPorts : BeginMove(r, t, label, port)

Next ==
  \/ \E r \in Runners, t \in Targets : BeginSome(r, t)
  \/ \E r \in Runners : Step(r) \/ Kill(r)
  \/ \E t \in Targets : DindStops(t)

Spec == Init /\ [][Next]_vars

(* A runner that can go on does; nothing makes anyone run a command. *)
Fairness == \A r \in Runners : WF_vars(Step(r))
FairSpec == Spec /\ Fairness

-----------------------------------------------------------------------------
RunState ==
  [cmd : Commands \union {"none"}, target : Targets \union {NoTarget},
   at : {"idle", "look", "lookOwn", "saveMove", "claim", "claimRead", "rename",
         "release", "unlink", "up", "relays", "load", "last"},
   phase : {"none", "allocate", "giveBack", "retire", "publish", "moveClaim", "withdraw"},
   before : PortMap, map : PortMap, wanted : SUBSET Labels,
   published : SUBSET HostPorts, own : SUBSET HostPorts, held : SUBSET HostPorts,
   move : [label : Labels, port : HostPorts \union {NoPort}],
   todo : SUBSET HostPorts, claimed : SUBSET HostPorts, lost : SUBSET HostPorts,
   round : 0..(ClaimAttempts - 1)]

TypeOK ==
  /\ owner \in [HostPorts -> Targets \union {Free}]
  /\ saved \in [Targets -> PortMap]
  /\ relays \in [Targets -> SUBSET HostPorts]
  /\ up \subseteq Targets
  /\ reachable \subseteq Targets
  /\ run \in [Runners -> RunState]
  /\ served \subseteq Targets

(* ingress-files.ts:12-13: "only the target that claimed it ever removes   *)
(* it", and line 87: "Nobody else can replace a file between this read and *)
(* the removal".  A file that names a target changes only by a step of a   *)
(* runner of that target.                                                  *)
OnlyItsOwnerTakesAForward ==
  [][\A p \in HostPorts :
       owner[p] # Free /\ owner'[p] # owner[p] =>
         \E r \in Runners : run[r].target = owner[p] /\ run'[r] # run[r]]_vars

(* ingress-files.ts:87-88: "Nobody else can replace a file between this    *)
(* read and the removal".  The file a release is about to remove is still  *)
(* the one it read, or gone.                                               *)
ReleaseRemovesWhatItRead ==
  \A r \in Runners, p \in HostPorts :
    run[r].at = "unlink" /\ IsNext(r, p) => owner[p] \in {run[r].target, Free}

(* A target that came up with its ports is really reached through them:    *)
(* until it is stopped or its map is touched, every port of its state file *)
(* is a forward of its own that a relay of its own answers, whatever the   *)
(* other targets start, stop, move or purge meanwhile.                     *)
ServedIsForwarded ==
  \A t \in served : PortsOf(saved[t]) # {} /\ \A p \in PortsOf(saved[t]) : owner[p] = t /\ p \in relays[t]

(* A run that lost a claim gives back what it took: once the last of them  *)
(* is released, the target holds nothing it did not hold when the run      *)
(* began (desolate.ts:472-475).                                            *)
GivesBackWhatItTook ==
  \A r \in Runners :
    run[r].at = "release" /\ run[r].phase = "giveBack" /\ run[r].todo = {} =>
      OwnedBy(run[r].target) \subseteq run[r].held

(* ingress-files.ts:94: "`owner`'s forwards, exactly".  A target that came *)
(* up holds the forwards of its map and no other.                          *)
ForwardsAreExact == \A t \in served : OwnedBy(t) = PortsOf(saved[t])

(* Two runs that keep taking each other's ports stop trying: every command *)
(* ends.                                                                   *)
EveryCommandEnds == \A r \in Runners : Active(r) ~> ~Active(r)
=============================================================================
