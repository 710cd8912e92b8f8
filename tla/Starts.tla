--------------------------------- MODULE Starts ---------------------------------
(***************************************************************************)
(* broker.ts, snapshot.ts and desolate.ts's runTarget: one target, from    *)
(* the editor's request to a container that runs.                          *)
(*                                                                         *)
(* The spec is a file the editor may write at any moment.  The broker      *)
(* copies it, judges the copy and spawns a runner; a runner on the Mac's   *)
(* behalf makes a copy of its own.  A runner holds the target's lock from  *)
(* start to end (Locks.tla), reads its copy several times, and may die at  *)
(* any step.  A container is kept on the daemon it was made on.            *)
(***************************************************************************)
EXTENDS Integers, FiniteSets

CONSTANTS
  Specs,        (* what a devcontainer.json may say                        *)
  Legacy,       (* what a container made before v2 was built from          *)
  Shared,       (* the specs that do without docker-outside-of-docker      *)
  Builds,       (* the specs with a Dockerfile                             *)
  Asks,         (* per spec, the powers its container gets                 *)
  Refused,      (* the powers the policy refuses on each daemon            *)
  Reqs,         (* connections to the broker                               *)
  Concurrent,   (* request.max.concurrent                                  *)
  BrokerOps, DirectOps,
  Tagged,       (* the specs whose image gets a CA-trusting derivative     *)
  Overtakes     (* TRUE when a start may be asked for while one goes on    *)

VARIABLES
  file,         (* the target's devcontainer.json                          *)
  copies,       (* the broker's snapshot, a direct one and the run config  *)
  req,          (* per connection, how far the broker got with it          *)
  inflight,     (* request.inflight                                        *)
  runner,       (* the runner that holds the target                        *)
  dind,         (* TRUE while the project's own daemon is up               *)
  box,          (* per daemon, the target's container there                *)
  saved,        (* state file "daemon"                                     *)
  print         (* state file "spec"                                       *)

vars == <<file, copies, req, inflight, runner, dind, box, saved, print>>
world == <<dind, box, saved, print>>
broker == <<req, inflight>>

Daemons == {"shared", "project"}
Gone == "gone"
NoBox == [spec |-> Gone, running |-> FALSE]
NoPrint == <<Gone, Gone>>
NoRunner == [by |-> "nobody", op |-> "none", pc |-> "free", config |-> "none",
             spec |-> Gone, daemon |-> "shared", print |-> NoPrint,
             creates |-> FALSE, noted |-> FALSE, retried |-> FALSE]

(* daemonOf: docker-outside-of-docker means a daemon of the project's own. *)
DaemonOf(s) == IF s \in Shared THEN "shared" ELSE "project"
(* The fault to seed: a refusal is caught and forgotten.                   *)
Swallowed(s, d) == TRUE
(* enforcePolicy. *)
Passes(s, d) == Asks[s] \intersect Refused[d] = {}

TypeOK ==
  /\ file \in Specs
  /\ copies \in [{"broker", "direct", "run"} -> Specs \union {Gone}]
  /\ req \in [Reqs -> [pc : {"idle", "asked", "spawned", "running"},
                       op : BrokerOps \union {"none"}]]
  /\ inflight \in 0 .. Concurrent
  /\ runner.pc \in {"free", "resolve", "shared", "own", "ensure", "before", "derive",
                    "judge", "build", "save", "check", "up", "verify", "finish",
                    "stop", "purge", "forget", "drop"}
  /\ runner.daemon \in Daemons
  /\ dind \in BOOLEAN
  /\ box \in [Daemons -> [spec : Specs \union {Gone, Legacy}, running : BOOLEAN]]
  /\ saved \in Daemons
  /\ print \in (Specs \union {Gone}) \X (Specs \union {Gone})

(* Nothing yet; a container of before v2; or what a first start leaves     *)
(* that is killed, the VM with it, before it saves its print.              *)
Holding(on, s) == [d \in Daemons |-> IF d = on THEN [NoBox EXCEPT !.spec = s] ELSE NoBox]
Init ==
  /\ file \in Specs
  /\ copies = [c \in {"broker", "direct", "run"} |-> Gone]
  /\ req = [r \in Reqs |-> [pc |-> "idle", op |-> "none"]]
  /\ inflight = 0
  /\ runner = NoRunner
  /\ dind = FALSE /\ print = NoPrint
  /\ \/ saved = "shared" /\ box = [d \in Daemons |-> NoBox]
     \/ saved = "shared" /\ box = Holding("shared", Legacy)
     \/ \E s \in Specs : /\ Passes(s, DaemonOf(s))
                         /\ saved = DaemonOf(s) /\ box = Holding(saved, s)

-----------------------------------------------------------------------------
(* The broker.                                                             *)

Sets(r, pc, op) == req' = [req EXCEPT ![r] = [pc |-> pc, op |-> op]]

(* handle: past the limit a request is refused and nothing else happens.   *)
Ask(r, op) ==
  /\ req[r].pc = "idle" /\ inflight < Concurrent
  /\ Sets(r, "asked", op)
  /\ inflight' = inflight + 1
  /\ UNCHANGED <<file, copies, runner, world>>

(* snapshot: the directory, its links followed, over the copy that was there. *)
CopyInto(c) == copies' = [copies EXCEPT ![c] = file]

(* The broker replaces the copy the target had, whoever may be reading it; *)
(* what it holds is resolved and judged before the runner is spawned.      *)
Starting(r) == /\ req[r].pc = "asked" /\ req[r].op \in {"start", "rebuild"}
               /\ Overtakes \/ runner.config # "broker"
Snapshot(r) ==
  /\ Starting(r)
  /\ CopyInto("broker")
  /\ Passes(file, DaemonOf(file))
  /\ Sets(r, "spawned", req[r].op)
  /\ UNCHANGED <<file, inflight, runner, world>>
(* The fault to seed: the count is lowered on success only.                *)
SnapshotLeaks(r) ==
  /\ Starting(r)
  /\ CopyInto("broker")
  /\ ~Passes(file, DaemonOf(file))
  /\ Sets(r, "idle", "none")
  /\ UNCHANGED <<file, inflight, runner, world>>
SnapshotRefused(r) ==
  /\ Starting(r)
  /\ CopyInto("broker")
  /\ ~Passes(file, DaemonOf(file))
  /\ Sets(r, "idle", "none") /\ inflight' = inflight - 1
  /\ UNCHANGED <<file, runner, world>>
Spawn(r) ==
  /\ req[r].pc = "asked" /\ req[r].op \notin {"start", "rebuild"}
  /\ Sets(r, "spawned", req[r].op)
  /\ UNCHANGED <<file, copies, inflight, runner, world>>

(* A runner that finds the target held says so and exits: the request is   *)
(* answered and no longer counted.                                         *)
Busy(r) ==
  /\ req[r].pc = "spawned" /\ runner.pc # "free"
  /\ Sets(r, "idle", "none") /\ inflight' = inflight - 1
  /\ UNCHANGED <<file, copies, runner, world>>

First(op) == IF op \in {"stop", "purge"} THEN op ELSE "resolve"
Hold(r) ==
  /\ req[r].pc = "spawned" /\ runner.pc = "free"
  /\ Sets(r, "running", req[r].op)
  /\ runner' = [NoRunner EXCEPT !.by = r, !.op = req[r].op, !.pc = First(req[r].op),
                                !.config = "broker"]
  /\ UNCHANGED <<file, copies, inflight, world>>

(* From the Mac: the runner holds the target first, and copies then.       *)
HoldDirect(op) ==
  /\ runner.pc = "free"
  /\ runner' = [NoRunner EXCEPT !.by = "mac", !.op = op, !.pc = First(op), !.config = "direct"]
  /\ IF op \in {"start", "rebuild"} THEN CopyInto("direct") ELSE UNCHANGED copies
  /\ UNCHANGED <<file, broker, world>>

(* A runner's end, good or bad, is its request's.  A copy that nobody will *)
(* read before it is replaced is forgotten here.                           *)
Answered ==
  IF runner.by \in Reqs
  THEN Sets(runner.by, "idle", "none") /\ inflight' = inflight - 1
  ELSE UNCHANGED broker
Ends ==
  /\ runner' = NoRunner
  /\ Answered
  /\ copies' = [copies EXCEPT !["direct"] = Gone, !["run"] = Gone,
                              !["broker"] = IF inflight' = 0 THEN Gone ELSE @]
Die ==
  /\ runner.pc # "free"
  /\ Ends
  /\ UNCHANGED <<file, world>>

-----------------------------------------------------------------------------
(* runTarget.                                                              *)

At(pc) == runner.pc = pc
Then(pc) == runner' = [runner EXCEPT !.pc = pc]
Rebuild == runner.op = "rebuild"
Copy == copies[runner.config]
Reaches(d) == d = "shared" \/ dind
Remove(d) == box' = [box EXCEPT ![d] = NoBox]
OnlyBox == UNCHANGED <<file, copies, broker, dind, saved, print>>

Resolve ==
  /\ At("resolve") /\ Copy # Gone
  /\ runner' = [runner EXCEPT !.pc = "shared", !.spec = Copy, !.daemon = DaemonOf(Copy)]
  /\ UNCHANGED <<file, copies, broker, world>>

(* migrateOffTheSharedDaemon: without --rebuild the runner dies. *)
Leaves == /\ box["shared"] # NoBox
          /\ runner.daemon = "project" \/ box["shared"].spec = Legacy
MigrateOffTheSharedDaemon ==
  /\ At("shared")
  /\ Leaves => Rebuild
  /\ IF Leaves THEN Remove("shared") ELSE UNCHANGED box
  /\ Then("own") /\ OnlyBox

(* migrateOffItsOwnDaemon: a daemon that is not up is left as it is.       *)
LeavesOwn == runner.daemon = "shared" /\ saved = "project" /\ dind /\ box["project"] # NoBox
MigrateOffItsOwnDaemon ==
  /\ At("own")
  /\ LeavesOwn => Rebuild
  /\ IF LeavesOwn THEN Remove("project") ELSE UNCHANGED box
  /\ Then("ensure") /\ OnlyBox

UseProjectDaemon ==
  /\ At("ensure")
  /\ dind' = (dind \/ runner.daemon = "project")
  /\ Then("before")
  /\ UNCHANGED <<file, copies, broker, box, saved, print>>

(* A rebuild takes the container away; then the fingerprint is taken, of   *)
(* the file and of the copy.                                               *)
RemoveBefore ==
  /\ At("before") /\ Reaches(runner.daemon)
  /\ IF Rebuild THEN Remove(runner.daemon) ELSE UNCHANGED box
  /\ runner' = [runner EXCEPT !.pc = "derive", !.print = <<file, Copy>>]
  /\ OnlyBox

(* deriveRunConfig reads the copy again, and writes one of its own when    *)
(* something of it has to change.                                          *)
Rewrites(s, d) == d = "project" \/ s \in Tagged
DeriveRunConfig ==
  /\ At("derive") /\ Copy # Gone
  /\ IF Rewrites(Copy, runner.daemon)
     THEN /\ copies' = [copies EXCEPT !["run"] = Copy]
          /\ runner' = [runner EXCEPT !.pc = "judge", !.config = "run"]
     ELSE Then("judge") /\ UNCHANGED copies
  /\ UNCHANGED <<file, broker, world>>

(* What was derived is resolved and judged, on the daemon picked before.   *)
Judge ==
  /\ At("judge") /\ Copy # Gone
  /\ Passes(Copy, runner.daemon)
  /\ runner' = [runner EXCEPT !.spec = Copy, !.pc = IF Copy \in Builds THEN "build" ELSE "save"]
  /\ UNCHANGED <<file, copies, broker, world>>

(* buildBeforeJudging: the spec that was judged, its Dockerfile built and  *)
(* named by id, is written over the run config and judged with its label.  *)
BuildBeforeJudging ==
  /\ At("build")
  /\ copies' = [copies EXCEPT !["run"] = runner.spec]
  /\ runner' = [runner EXCEPT !.pc = "save", !.config = "run"]
  /\ UNCHANGED <<file, broker, world>>

(* The fault to seed: the file is left as it was.                          *)
SaveNoDaemon ==
  /\ At("save")
  /\ Then("check")
  /\ UNCHANGED <<file, copies, broker, world>>
SaveDaemon ==
  /\ At("save")
  /\ saved' = runner.daemon
  /\ Then("check")
  /\ UNCHANGED <<file, copies, broker, dind, box, print>>

Powers(b) == IF b = NoBox THEN {} ELSE Asks[b.spec]
(* The fault to seed: an existing container is started as it is.           *)
NothingBeyond(s, existing) == TRUE
(* builtBeyondDeclared, of the container there is. *)
BuiltWithin(s, existing) == Powers(existing) \subseteq Asks[s]
CheckExisting ==
  /\ At("check") /\ Reaches(runner.daemon)
  /\ BuiltWithin(runner.spec, box[runner.daemon])
  /\ LET there == box[runner.daemon] # NoBox IN
     runner' = [runner EXCEPT !.pc = "up", !.creates = ~there,
                  !.noted = there /\ print # NoPrint /\ print # runner.print,
                  !.print = IF there THEN NoPrint ELSE @]
  /\ UNCHANGED <<file, copies, broker, world>>

(* `devcontainer up` reads the config it is given; a container that is     *)
(* there is started as it was built.                                       *)
DevcontainerUp ==
  /\ At("up") /\ Reaches(runner.daemon)
  /\ IF box[runner.daemon] = NoBox
     THEN Copy # Gone /\ box' = [box EXCEPT ![runner.daemon] = [spec |-> Copy, running |-> TRUE]]
     ELSE box' = [box EXCEPT ![runner.daemon] = [@ EXCEPT !.running = TRUE]]
  /\ Then("verify") /\ OnlyBox

(* verifyWorkspaceMount: a container that got another directory goes.      *)
WrongWorkspace ==
  /\ At("verify") /\ Reaches(runner.daemon)
  /\ Remove(runner.daemon)
  /\ Ends
  /\ UNCHANGED <<file, dind, saved, print>>
SaveSpec ==
  /\ At("verify")
  /\ print' = IF runner.creates THEN runner.print ELSE print
  /\ runner' = [runner EXCEPT !.pc = "finish", !.print = NoPrint]
  /\ UNCHANGED <<file, copies, broker, dind, box, saved>>
(* startEditor: a container with stale mounts is made again, once, from    *)
(* the config at hand; the spec file is not written again.                 *)
RecreateStale ==
  /\ At("finish") /\ ~runner.retried /\ Reaches(runner.daemon)
  /\ Remove(runner.daemon)
  /\ runner' = [runner EXCEPT !.pc = "up", !.retried = TRUE]
  /\ OnlyBox
(* The relays and the ports follow (Forwards.tla). *)
Finish ==
  /\ At("finish")
  /\ Ends
  /\ UNCHANGED <<file, world>>

-----------------------------------------------------------------------------
(* stop and purge.                                                         *)

Stopped(d) == box' = [box EXCEPT ![d] = [@ EXCEPT !.running = FALSE]]

(* stopTarget drives the daemon the file names, if it is up.               *)
StopTarget ==
  /\ At("stop")
  /\ IF Reaches(saved) THEN Stopped(saved) ELSE UNCHANGED box
  /\ Ends
  /\ UNCHANGED <<file, dind, saved, print>>
(* stop --all holds no target.                                             *)
StopAll ==
  /\ Reaches(saved) /\ box[saved].running
  /\ Stopped(saved)
  /\ UNCHANGED <<file, copies, broker, runner, dind, saved, print>>

(* purgeTarget: its own daemon is brought up for it, and one that runs is  *)
(* refused.  Then the files go, and then the project's daemon.             *)
PurgeTarget ==
  /\ At("purge") /\ ~box[saved].running
  /\ dind' = (dind \/ saved = "project")
  /\ Remove(saved)
  /\ runner' = [runner EXCEPT !.pc = "forget", !.daemon = saved]
  /\ UNCHANGED <<file, copies, broker, saved, print>>
PurgeState ==
  /\ At("forget")
  /\ saved' = "shared" /\ print' = NoPrint
  /\ Then("drop")
  /\ UNCHANGED <<file, copies, broker, dind, box>>
PurgeProjectDaemon ==
  /\ At("drop")
  /\ IF runner.daemon = "project" THEN dind' = FALSE /\ Remove("project") ELSE UNCHANGED <<dind, box>>
  /\ Ends
  /\ UNCHANGED <<file, saved, print>>

RunnerStep ==
  \/ Resolve \/ MigrateOffTheSharedDaemon \/ MigrateOffItsOwnDaemon
  \/ UseProjectDaemon \/ RemoveBefore \/ DeriveRunConfig \/ Judge
  \/ BuildBeforeJudging \/ SaveDaemon \/ CheckExisting \/ DevcontainerUp
  \/ WrongWorkspace \/ SaveSpec \/ RecreateStale \/ Finish
  \/ StopTarget \/ PurgeTarget \/ PurgeState \/ PurgeProjectDaemon

-----------------------------------------------------------------------------
(* What goes on around it.                                                 *)

Edit(s) ==
  /\ s # file /\ file' = s
  /\ UNCHANGED <<copies, broker, runner, world>>
(* The supervisor stops a daemon that hosts no devcontainer, and starts it *)
(* for a sibling.  A container comes back stopped.                         *)
DindStops ==
  /\ dind /\ ~box["project"].running
  /\ dind' = FALSE
  /\ UNCHANGED <<file, copies, broker, runner, box, saved, print>>
DindStarts ==
  /\ ~dind
  /\ dind' = TRUE
  /\ UNCHANGED <<file, copies, broker, runner, box, saved, print>>
(* The orchestrator restarts, the VM with it or not: the broker and the    *)
(* runner are gone, and the broker's copies are emptied when it is back.   *)
Restart(vm) ==
  /\ runner' = NoRunner
  /\ copies' = [c \in DOMAIN copies |-> Gone]
  /\ req' = [r \in Reqs |-> [pc |-> "idle", op |-> "none"]]
  /\ inflight' = 0
  /\ IF vm THEN /\ dind' = FALSE
                /\ box' = [d \in Daemons |-> [box[d] EXCEPT !.running = FALSE]]
           ELSE UNCHANGED <<dind, box>>
  /\ UNCHANGED <<file, saved, print>>

Next ==
  \/ \E r \in Reqs : \/ Snapshot(r) \/ SnapshotRefused(r) \/ Spawn(r)
                     \/ Busy(r) \/ Hold(r)
                     \/ \E op \in BrokerOps : Ask(r, op)
  \/ \E op \in DirectOps : HoldDirect(op)
  \/ RunnerStep \/ Die
  \/ StopAll \/ DindStops \/ DindStarts
  \/ \E s \in Specs : Edit(s)
  \/ \E vm \in BOOLEAN : Restart(vm)

Spec == Init /\ [][Next]_vars

-----------------------------------------------------------------------------
Running == {<<d, box[d].spec>> : d \in {e \in Daemons : box[e].running}}

Target == INSTANCE Runs WITH
  Allowed <- {p \in Daemons \X Specs : Asks[p[2]] \intersect Refused[p[1]] = {}},
  runs <- Running
(* Whatever the editor writes while a start goes on, however many starts   *)
(* and stops overlap and wherever one of them is killed, the target runs   *)
(* as one container at most, from a spec the policy passed for the daemon  *)
(* it is on (desolate.ts: "both would otherwise keep running beside the    *)
(* new one, over the same directory").                                     *)
RunsOnePassed == Target!Spec

(* snapshot.ts:5: the container starts from a frozen copy of the spec the  *)
(* policy validated.  What runs, then, passes.                             *)
RunsWhatWasJudged == \A d \in Daemons : box[d].running =>
  Asks[box[d].spec] \intersect Refused[d] = {}

(* A container that runs is on the daemon its target's file names, which   *)
(* is the one --stop and --purge drive: neither misses it.                 *)
RunsWhereSaved == \A d \in Daemons : box[d].running => saved = d

(* A start that came as far as a running container runs nothing with more  *)
(* power than the spec it judged asks for: one built before, from another  *)
(* spec, under another version, is not brought back behind it.             *)
NothingBeyondDeclared ==
  runner.pc \in {"verify", "finish"} /\ box[runner.daemon].running =>
    Powers(box[runner.daemon]) \subseteq Asks[runner.spec]

(* The count that bounds the broker is the number of requests it is at,    *)
(* whichever way each of them ended: no refusal, busy target or death      *)
(* keeps a place.                                                          *)
InflightIsCounted ==
  inflight = Cardinality({r \in Reqs : req[r].pc # "idle"})

(* A start that brings back a container built from another spec than the   *)
(* one it judged says that the change is not in effect (the NOTE above     *)
(* `devcontainer up`; the file it compares holds "what the running         *)
(* container was actually built from").                                    *)
ReuseIsSaid ==
  runner.pc = "finish" /\ ~runner.creates /\ box[runner.daemon].running
    /\ box[runner.daemon].spec # runner.spec => runner.noted
=============================================================================
