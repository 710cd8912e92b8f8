----------------------------- MODULE StartsProofs -----------------------------
(* What holds of Starts for every set of specs, of powers and of           *)
(* connections, and whatever the policy refuses.                           *)
EXTENDS Starts, FiniteSetTheorems, TLAPS

(* A connection is not the Mac, a spec is not the absence of one.          *)
Apart ==
  /\ Reqs \intersect {"nobody", "mac"} = {} /\ IsFiniteSet(Reqs)
  /\ Gone \notin Specs /\ Legacy # Gone
  /\ Concurrent \in Nat
  /\ "none" \notin BrokerOps \union DirectOps

Kinds == {"broker", "direct", "run"}
Texts == Specs \union {Gone}
Pcs == {"free", "resolve", "shared", "own", "ensure", "before", "derive",
        "judge", "build", "save", "check", "up", "verify", "finish",
        "stop", "purge", "forget", "drop"}
Runners == [by : Reqs \union {"nobody", "mac"}, op : BrokerOps \union DirectOps \union {"none"},
            pc : Pcs, config : Kinds \union {"none"}, spec : Texts, daemon : Daemons,
            print : Texts \X Texts, creates : BOOLEAN, noted : BOOLEAN, retried : BOOLEAN]
Requests == [pc : {"idle", "asked", "spawned", "running"}, op : BrokerOps \union {"none"}]
Boxes == [spec : Specs \union {Gone, Legacy}, running : BOOLEAN]

(* Who works has a copy to work from. *)
Typed ==
  /\ file \in Specs
  /\ copies \in [Kinds -> Texts]
  /\ req \in [Reqs -> Requests]
  /\ runner \in Runners /\ (runner.pc # "free" => runner.config \in Kinds)
  /\ dind \in BOOLEAN
  /\ box \in [Daemons -> Boxes]
  /\ saved \in Daemons
  /\ print \in Texts \X Texts

-----------------------------------------------------------------------------
(* What each step does to the runner, to the copies and to the containers. *)

Moves(pc, config, spec, daemon) ==
  /\ runner' \in Runners /\ runner'.by = runner.by /\ runner'.pc = pc
  /\ runner'.config = config /\ runner'.spec = spec /\ runner'.daemon = daemon
Goes(pc) == Moves(pc, runner.config, runner.spec, runner.daemon)

(* What a start that was killed has left is a container that does not run, *)
(* on the daemon the file names.                                           *)
LEMMA InitHolds ==
  ASSUME Apart, Init
  PROVE  /\ box \in [Daemons -> Boxes] /\ saved \in Daemons
         /\ \A d \in Daemons : ~box[d].running
         /\ box["project"].spec \in Specs \union {Gone}
<1>1. NoBox.running = FALSE /\ NoBox.spec = Gone /\ NoBox \in Boxes
  BY DEF NoBox, Boxes
<1>2. ASSUME NEW on \in Daemons, NEW s \in Specs \union {Legacy}
      PROVE  /\ Holding(on, s) \in [Daemons -> Boxes]
             /\ \A d \in Daemons : ~Holding(on, s)[d].running
             /\ on = "shared" \/ s \in Specs =>
                  Holding(on, s)["project"].spec \in Specs \union {Gone}
  BY <1>2 DEF Holding, NoBox, Boxes, Daemons
<1>3. CASE saved = "shared" /\ box = [d \in Daemons |-> NoBox]
  BY <1>1, <1>3 DEF Daemons
<1>4. CASE saved = "shared" /\ box = Holding("shared", Legacy)
  BY <1>2, <1>4 DEF Daemons
<1>5. CASE \E s \in Specs : saved = DaemonOf(s) /\ box = Holding(saved, s)
  <2> PICK s \in Specs : saved = DaemonOf(s) /\ box = Holding(saved, s)
    BY <1>5
  <2> saved \in Daemons
    BY DEF DaemonOf, Daemons
  <2> QED BY <1>2
<1> QED BY <1>3, <1>4, <1>5 DEF Init

(* Nobody at work is a runner too. *)
LEMMA NobodyIsARunner ==
  ASSUME Apart
  PROVE  /\ NoRunner \in Runners /\ NoBox \in Boxes /\ NoPrint \in Texts \X Texts
         /\ NoRunner.pc = "free" /\ NoRunner.by \notin Reqs /\ NoRunner.daemon \in Daemons
         /\ NoRunner.config = "none"
BY DEF Apart, NoRunner, Runners, NoBox, Boxes, NoPrint, Pcs, Texts, Daemons

(* Its copy is a spec, or gone. *)
LEMMA CopyIsText ==
  ASSUME Typed, runner.pc # "free"
  PROVE  Copy \in Texts
BY DEF Typed, Copy, Kinds

(* A start's steps, by where they leave the runner. *)
LEMMA StartMoves ==
  ASSUME Apart, Typed
  PROVE  /\ Resolve => Moves("shared", runner.config, Copy, DaemonOf(Copy))
         /\ MigrateOffTheSharedDaemon => Goes("own")
         /\ MigrateOffItsOwnDaemon => Goes("ensure")
         /\ UseProjectDaemon => Goes("before")
         /\ RemoveBefore => Goes("derive")
         /\ DeriveRunConfig => Goes("judge") \/ Moves("judge", "run", runner.spec, runner.daemon)
         /\ Judge => \E pc \in {"build", "save"} : Moves(pc, runner.config, Copy, runner.daemon)
         /\ BuildBeforeJudging => Moves("save", "run", runner.spec, runner.daemon)
         /\ SaveDaemon => Goes("check")
         /\ CheckExisting => Goes("up")
         /\ DevcontainerUp => Goes("verify")
         /\ SaveSpec => Goes("finish")
         /\ RecreateStale => Goes("up")
<1> DEFINE spot == Copy
<1>a. runner \in Runners /\ file \in Texts
  BY DEF Typed, Texts
<1>b. runner.pc # "free" => Copy \in Texts
  BY CopyIsText
<1> USE <1>a, <1>b DEF Runners, Pcs, At, Then, Goes, Moves
<1> HIDE DEF Copy, DaemonOf, Daemons, Rewrites, Passes, NoPrint, Kinds, Texts
<1>1. Resolve => Moves("shared", runner.config, Copy, DaemonOf(Copy))
  <2> DaemonOf(Copy) \in Daemons
    BY DEF DaemonOf, Daemons
  <2> QED BY DEF Resolve
<1>2. MigrateOffTheSharedDaemon => Goes("own")
  BY DEF MigrateOffTheSharedDaemon
<1>3. MigrateOffItsOwnDaemon => Goes("ensure")
  BY DEF MigrateOffItsOwnDaemon
<1>4. UseProjectDaemon => Goes("before")
  BY DEF UseProjectDaemon
<1>5. RemoveBefore => Goes("derive")
  <2> SUFFICES ASSUME RemoveBefore PROVE Goes("derive")
    OBVIOUS
  <2>1. runner' = [runner EXCEPT !.pc = "derive", !.print = <<file, Copy>>]
    BY DEF RemoveBefore
  <2>2. <<file, Copy>> \in Texts \X Texts
    BY DEF RemoveBefore
  <2> QED BY <2>1, <2>2
<1>6. DeriveRunConfig => Goes("judge") \/ Moves("judge", "run", runner.spec, runner.daemon)
  <2> SUFFICES ASSUME DeriveRunConfig
               PROVE  Goes("judge") \/ Moves("judge", "run", runner.spec, runner.daemon)
    OBVIOUS
  <2>1. "run" \in Kinds
    BY DEF Kinds
  <2>2. \/ runner' = [runner EXCEPT !.pc = "judge", !.config = "run"]
        \/ runner' = [runner EXCEPT !.pc = "judge"]
    BY Zenon DEF DeriveRunConfig
  <2>3. CASE runner' = [runner EXCEPT !.pc = "judge", !.config = "run"]
    BY <2>1, <2>3
  <2>4. CASE runner' = [runner EXCEPT !.pc = "judge"]
    BY <2>4
  <2> QED BY <2>2, <2>3, <2>4
<1>7. Judge => \E pc \in {"build", "save"} : Moves(pc, runner.config, Copy, runner.daemon)
  BY DEF Judge
<1>8. BuildBeforeJudging => Moves("save", "run", runner.spec, runner.daemon)
  <2> "run" \in Kinds
    BY DEF Kinds
  <2> QED BY DEF BuildBeforeJudging
<1>9. SaveDaemon => Goes("check")
  BY DEF SaveDaemon
<1>10. CheckExisting => Goes("up")
  <2> SUFFICES ASSUME CheckExisting PROVE Goes("up")
    OBVIOUS
  <2> DEFINE there == box[runner.daemon] # NoBox
             noted == there /\ print # NoPrint /\ print # runner.print
             kept == IF there THEN NoPrint ELSE runner.print
  <2>1. runner' = [runner EXCEPT !.pc = "up", !.creates = ~there, !.noted = noted, !.print = kept]
    BY Zenon DEF CheckExisting
  <2>2. NoPrint \in Texts \X Texts
    BY NobodyIsARunner
  <2>3. (~there) \in BOOLEAN /\ noted \in BOOLEAN /\ kept \in Texts \X Texts
    BY <2>2
  <2> HIDE DEF there, noted, kept
  <2> QED BY <2>1, <2>3
<1>11. DevcontainerUp => Goes("verify")
  BY DEF DevcontainerUp
<1>12. SaveSpec => Goes("finish")
  <2>1. NoPrint \in Texts \X Texts
    BY NobodyIsARunner
  <2> QED BY <2>1 DEF SaveSpec
<1>13. RecreateStale => Goes("up")
  BY DEF RecreateStale
<1> QED
  BY <1>1, <1>2, <1>3, <1>4, <1>5, <1>6, <1>7, <1>8, <1>9, <1>10, <1>11, <1>12, <1>13, Zenon

(* A purge's steps, and the ends. *)
LEMMA OtherMoves ==
  ASSUME Apart, Typed
  PROVE  /\ PurgeTarget => Moves("forget", runner.config, runner.spec, saved)
         /\ PurgeState => Goes("drop")
         /\ Finish \/ StopTarget \/ WrongWorkspace \/ PurgeProjectDaemon \/ Die => Ends
         /\ Ends => runner' = NoRunner
<1> USE DEF Runners, Pcs, At, Then, Goes, Moves
<1> runner \in Runners /\ saved \in Daemons
  BY DEF Typed
<1>1. PurgeTarget => Moves("forget", runner.config, runner.spec, saved)
  BY DEF PurgeTarget
<1>2. PurgeState => Goes("drop")
  BY DEF PurgeState
<1>3. (Finish \/ StopTarget \/ WrongWorkspace \/ PurgeProjectDaemon \/ Die => Ends)
      /\ (Ends => runner' = NoRunner)
  BY DEF Finish, StopTarget, WrongWorkspace, PurgeProjectDaemon, Die, Ends
<1> QED BY <1>1, <1>2, <1>3, Zenon

(* What a removal, a stop and an `up` make of the containers. *)
LEMMA BoxMoves ==
  ASSUME Apart, Typed, NEW d \in Daemons
  PROVE  /\ Remove(d) => /\ box' \in [Daemons -> Boxes] /\ box'[d] = NoBox
                         /\ \A e \in Daemons \ {d} : box'[e] = box[e]
         /\ Stopped(d) => /\ box' \in [Daemons -> Boxes]
                          /\ box'[d].spec = box[d].spec /\ ~box'[d].running
                          /\ \A e \in Daemons \ {d} : box'[e] = box[e]
         /\ DevcontainerUp /\ d = runner.daemon =>
              /\ box' \in [Daemons -> Boxes] /\ box'[d].running
              /\ box'[d].spec = IF box[d] = NoBox THEN Copy ELSE box[d].spec
              /\ \A e \in Daemons \ {d} : box'[e] = box[e]
<1>a. box \in [Daemons -> Boxes] /\ NoBox \in Boxes
  BY NobodyIsARunner DEF Typed
<1>b. DevcontainerUp => Copy \in Texts
  BY CopyIsText DEF DevcontainerUp, At
<1> HIDE DEF Daemons, Copy
<1>1. Remove(d) => /\ box' \in [Daemons -> Boxes] /\ box'[d] = NoBox
                   /\ \A e \in Daemons \ {d} : box'[e] = box[e]
  <2> HIDE DEF NoBox
  <2> QED BY <1>a DEF Remove
<1>2. Stopped(d) => /\ box' \in [Daemons -> Boxes]
                    /\ box'[d].spec = box[d].spec /\ ~box'[d].running
                    /\ \A e \in Daemons \ {d} : box'[e] = box[e]
  BY <1>a DEF Stopped, Boxes
<1>3. DevcontainerUp /\ d = runner.daemon =>
        /\ box' \in [Daemons -> Boxes] /\ box'[d].running
        /\ box'[d].spec = IF box[d] = NoBox THEN Copy ELSE box[d].spec
        /\ \A e \in Daemons \ {d} : box'[e] = box[e]
  <2> SUFFICES ASSUME DevcontainerUp, d = runner.daemon
               PROVE  /\ box' \in [Daemons -> Boxes] /\ box'[d].running
                      /\ box'[d].spec = IF box[d] = NoBox THEN Copy ELSE box[d].spec
                      /\ \A e \in Daemons \ {d} : box'[e] = box[e]
    OBVIOUS
  <2>1. CASE box[d] = NoBox
    <3>1. box' = [box EXCEPT ![d] = [spec |-> Copy, running |-> TRUE]]
      BY <2>1 DEF DevcontainerUp
    <3>2. [spec |-> Copy, running |-> TRUE] \in Boxes
      BY <1>b DEF Boxes, Texts
    <3> QED BY <1>a, <2>1, <3>1, <3>2
  <2>2. CASE box[d] # NoBox
    <3>1. box' = [box EXCEPT ![d] = [box[d] EXCEPT !.running = TRUE]]
      BY <2>2 DEF DevcontainerUp
    <3> QED BY <1>a, <2>2, <3>1 DEF Boxes
  <2> QED BY <2>1, <2>2
<1> QED BY <1>1, <1>2, <1>3, Zenon

(* A runner's end leaves none of its own copies, and answers a request. *)
LEMMA EndsTyped ==
  ASSUME Apart, Typed, Ends
  PROVE  copies' \in [Kinds -> Texts] /\ req' \in [Reqs -> Requests]
<1> DEFINE left == IF inflight' = 0 THEN Gone ELSE copies["broker"]
<1>1. copies' = [copies EXCEPT !["direct"] = Gone, !["run"] = Gone, !["broker"] = left]
  BY DEF Ends, Typed, Kinds
<1>2. left \in Texts
  BY DEF Typed, Kinds, Texts
<1>3. req' \in [Reqs -> Requests]
  BY DEF Ends, Answered, Sets, broker, Typed, Requests
<1> HIDE DEF left
<1> QED BY <1>1, <1>2, <1>3 DEF Typed, Texts

-----------------------------------------------------------------------------
(* What the broker does around a runner touches neither it nor the world,  *)
(* but for Hold; the environment leaves the runner alone or takes it away. *)
Around == \E r \in Reqs : \/ Snapshot(r) \/ SnapshotRefused(r) \/ Spawn(r) \/ Busy(r)
                          \/ \E op \in BrokerOps : Ask(r, op)
Holds == \/ \E r \in Reqs : Hold(r)
         \/ \E op \in DirectOps : HoldDirect(op)
Restarts == \E vm \in BOOLEAN : Restart(vm)
Comes == StopAll \/ DindStops \/ DindStarts \/ \E s \in Specs : Edit(s)

LEMMA NextIs ==
  ASSUME [Next]_vars
  PROVE  Around \/ Holds \/ RunnerStep \/ Die \/ Restarts \/ Comes \/ UNCHANGED vars
BY DEF Next, Around, Holds, Comes, Restarts

LEMMA AroundTyped ==
  ASSUME Apart, Typed, Around
  PROVE  /\ copies' \in [Kinds -> Texts] /\ req' \in [Reqs -> Requests]
         /\ UNCHANGED <<file, runner, dind, box, saved, print>>
<1> PICK r \in Reqs : Snapshot(r) \/ SnapshotRefused(r) \/ Spawn(r) \/ Busy(r)
                      \/ \E op \in BrokerOps : Ask(r, op)
  BY DEF Around
<1> USE DEF Typed, Requests, Sets, world
<1>1. CASE Snapshot(r)
  BY <1>1 DEF Snapshot, CopyInto, Texts
<1>2. CASE SnapshotRefused(r)
  BY <1>2 DEF SnapshotRefused, CopyInto, Texts
<1>3. CASE Spawn(r)
  BY <1>3 DEF Spawn
<1>4. CASE Busy(r)
  BY <1>4 DEF Busy
<1>5. CASE \E op \in BrokerOps : Ask(r, op)
  BY <1>5 DEF Ask
<1> QED BY <1>1, <1>2, <1>3, <1>4, <1>5

LEMMA HoldMoves ==
  ASSUME Apart, Typed, Holds
  PROVE  /\ runner.pc = "free"
         /\ runner' \in Runners /\ runner'.pc \in {"resolve", "stop", "purge"}
         /\ runner'.config \in Kinds /\ runner'.daemon \in Daemons
         /\ copies' \in [Kinds -> Texts] /\ req' \in [Reqs -> Requests]
         /\ UNCHANGED <<file, dind, box, saved, print>>
<1> USE NobodyIsARunner DEF Runners, First, Typed, Requests, world
<1>1. CASE \E r \in Reqs : Hold(r)
  <2> PICK r \in Reqs : Hold(r)
    BY <1>1
  <2>1. req[r].op \in BrokerOps \union {"none"}
    OBVIOUS
  <2>2. runner' = [NoRunner EXCEPT !.by = r, !.op = req[r].op, !.pc = First(req[r].op), !.config = "broker"]
    BY DEF Hold
  <2> HIDE DEF NoRunner
  <2>3. runner' \in Runners /\ runner'.pc \in {"resolve", "stop", "purge"} /\ runner'.config \in Kinds
        /\ runner'.daemon \in Daemons
    BY <2>1, <2>2 DEF Pcs, Kinds
  <2>4. req' \in [Reqs -> Requests]
    BY <2>1 DEF Hold, Sets
  <2> QED
    BY <2>3, <2>4 DEF Hold
<1>2. CASE \E op \in DirectOps : HoldDirect(op)
  <2> PICK op \in DirectOps : HoldDirect(op)
    BY <1>2
  <2>1. runner' = [NoRunner EXCEPT !.by = "mac", !.op = op, !.pc = First(op), !.config = "direct"]
    BY DEF HoldDirect
  <2> HIDE DEF NoRunner
  <2>2. runner' \in Runners /\ runner'.pc \in {"resolve", "stop", "purge"} /\ runner'.config \in Kinds
        /\ runner'.daemon \in Daemons
    BY <2>1 DEF Pcs, Kinds
  <2>3. copies' \in [Kinds -> Texts] /\ req' = req
    BY DEF HoldDirect, CopyInto, Texts, broker
  <2> QED
    BY <2>2, <2>3 DEF HoldDirect
<1> QED BY <1>1, <1>2 DEF Holds

LEMMA RestartMoves ==
  ASSUME Apart, Typed, Restarts
  PROVE  /\ runner' = NoRunner
         /\ copies' \in [Kinds -> Texts] /\ req' \in [Reqs -> Requests]
         /\ UNCHANGED <<file, saved, print>>
         /\ \/ dind' = dind /\ box' = box
            \/ /\ dind' = FALSE /\ box' \in [Daemons -> Boxes]
               /\ \A d \in Daemons : ~box'[d].running /\ box'[d].spec = box[d].spec
<1> PICK vm \in BOOLEAN : Restart(vm)
  BY DEF Restarts
<1>1. copies' \in [Kinds -> Texts]
  BY DEF Restart, Typed, Texts
<1>2. req' \in [Reqs -> Requests]
  BY DEF Restart, Typed, Requests
<1>3. CASE vm
  <2>1. box' = [d \in Daemons |-> [box[d] EXCEPT !.running = FALSE]]
    BY <1>3 DEF Restart
  <2>2. box' \in [Daemons -> Boxes] /\ \A d \in Daemons : ~box'[d].running /\ box'[d].spec = box[d].spec
    BY <2>1 DEF Typed, Boxes
  <2> QED BY <1>1, <1>2, <1>3, <2>2 DEF Restart
<1>4. CASE ~vm
  BY <1>1, <1>2, <1>4 DEF Restart
<1> QED BY <1>3, <1>4

LEMMA RunnerTyped ==
  ASSUME Apart, Typed, RunnerStep
  PROVE  runner' \in Runners /\ (runner'.pc # "free" => runner'.config \in Kinds)
<1>1. runner.pc # "free" => runner.config \in Kinds
  BY DEF Typed
<1>2. "run" \in Kinds
  BY DEF Kinds
<1> USE <1>1, <1>2, StartMoves, OtherMoves, NobodyIsARunner
<1>3. CASE Resolve \/ MigrateOffTheSharedDaemon \/ MigrateOffItsOwnDaemon \/ UseProjectDaemon
  BY <1>3 DEF Resolve, MigrateOffTheSharedDaemon, MigrateOffItsOwnDaemon, UseProjectDaemon, At, Goes, Moves
<1>4. CASE RemoveBefore \/ DeriveRunConfig \/ Judge \/ BuildBeforeJudging \/ SaveDaemon
  BY <1>4 DEF RemoveBefore, DeriveRunConfig, Judge, BuildBeforeJudging, SaveDaemon, At, Goes, Moves
<1>5. CASE CheckExisting \/ DevcontainerUp \/ SaveSpec \/ RecreateStale
  BY <1>5 DEF CheckExisting, DevcontainerUp, SaveSpec, RecreateStale, At, Goes, Moves
<1>6. CASE PurgeTarget \/ PurgeState
  BY <1>6 DEF PurgeTarget, PurgeState, At, Goes, Moves
<1>7. CASE WrongWorkspace \/ Finish \/ StopTarget \/ PurgeProjectDaemon
  BY <1>7
<1> QED
  BY <1>3, <1>4, <1>5, <1>6, <1>7 DEF RunnerStep

LEMMA CopiesTyped ==
  ASSUME Apart, Typed, RunnerStep
  PROVE  copies' \in [Kinds -> Texts] /\ req' \in [Reqs -> Requests]
<1>1. CASE DeriveRunConfig
  BY <1>1, CopyIsText DEF DeriveRunConfig, Typed, At, broker, world
<1>2. CASE BuildBeforeJudging
  BY <1>2 DEF BuildBeforeJudging, Typed, Runners, broker, world
<1>3. CASE WrongWorkspace \/ Finish \/ StopTarget \/ PurgeProjectDaemon
  BY <1>3, OtherMoves, EndsTyped
<1>4. CASE UNCHANGED <<copies, req>>
  BY <1>4 DEF Typed
<1> QED
  BY <1>1, <1>2, <1>3, <1>4
     DEF RunnerStep, Resolve, MigrateOffTheSharedDaemon, MigrateOffItsOwnDaemon, UseProjectDaemon,
         RemoveBefore, Judge, SaveDaemon, CheckExisting, DevcontainerUp, SaveSpec, RecreateStale,
         PurgeTarget, PurgeState, OnlyBox, broker, world

LEMMA WorldTyped ==
  ASSUME Apart, Typed, RunnerStep
  PROVE  /\ file' \in Specs /\ dind' \in BOOLEAN /\ box' \in [Daemons -> Boxes]
         /\ saved' \in Daemons /\ print' \in Texts \X Texts
<1>a. /\ file \in Specs /\ dind \in BOOLEAN /\ box \in [Daemons -> Boxes]
      /\ saved \in Daemons /\ print \in Texts \X Texts
      /\ runner.daemon \in Daemons /\ runner.print \in Texts \X Texts /\ runner.creates \in BOOLEAN
  BY DEF Typed, Runners
<1>b. "shared" \in Daemons /\ "project" \in Daemons /\ NoPrint \in Texts \X Texts
  BY NobodyIsARunner DEF Daemons
<1> HIDE DEF Daemons, Boxes, NoPrint, Texts
<1>1. box' \in [Daemons -> Boxes]
  <2>1. CASE MigrateOffTheSharedDaemon \/ MigrateOffItsOwnDaemon
    BY <1>a, <1>b, <2>1, BoxMoves DEF MigrateOffTheSharedDaemon, MigrateOffItsOwnDaemon
  <2>2. CASE RemoveBefore \/ WrongWorkspace \/ RecreateStale \/ PurgeTarget \/ PurgeProjectDaemon
    BY <1>a, <1>b, <2>2, BoxMoves DEF RemoveBefore, WrongWorkspace, RecreateStale, PurgeTarget, PurgeProjectDaemon
  <2>3. CASE DevcontainerUp
    BY <1>a, <2>3, BoxMoves
  <2>4. CASE StopTarget
    BY <1>a, <2>4, BoxMoves DEF StopTarget
  <2>5. CASE box' = box
    BY <1>a, <2>5
  <2> QED
    BY <2>1, <2>2, <2>3, <2>4, <2>5
       DEF RunnerStep, Resolve, UseProjectDaemon, DeriveRunConfig, Judge, BuildBeforeJudging,
           SaveDaemon, CheckExisting, SaveSpec, Finish, PurgeState, world
<1>2. file' = file
  BY DEF RunnerStep, Resolve, MigrateOffTheSharedDaemon, MigrateOffItsOwnDaemon, UseProjectDaemon,
         RemoveBefore, DeriveRunConfig, Judge, BuildBeforeJudging, SaveDaemon, CheckExisting,
         DevcontainerUp, WrongWorkspace, SaveSpec, RecreateStale, Finish, StopTarget, PurgeTarget,
         PurgeState, PurgeProjectDaemon, OnlyBox
<1>3. saved' = saved \/ saved' = runner.daemon \/ saved' = "shared"
  BY DEF RunnerStep, Resolve, MigrateOffTheSharedDaemon, MigrateOffItsOwnDaemon, UseProjectDaemon,
         RemoveBefore, DeriveRunConfig, Judge, BuildBeforeJudging, SaveDaemon, CheckExisting,
         DevcontainerUp, WrongWorkspace, SaveSpec, RecreateStale, Finish, StopTarget, PurgeTarget,
         PurgeState, PurgeProjectDaemon, OnlyBox, world
<1>4. print' = print \/ print' = runner.print \/ print' = NoPrint
  BY DEF RunnerStep, Resolve, MigrateOffTheSharedDaemon, MigrateOffItsOwnDaemon, UseProjectDaemon,
         RemoveBefore, DeriveRunConfig, Judge, BuildBeforeJudging, SaveDaemon, CheckExisting,
         DevcontainerUp, WrongWorkspace, SaveSpec, RecreateStale, Finish, StopTarget, PurgeTarget,
         PurgeState, PurgeProjectDaemon, OnlyBox, world
<1>5. dind' \in BOOLEAN
  <2>1. CASE UseProjectDaemon \/ PurgeTarget
    BY <2>1, Zenon DEF UseProjectDaemon, PurgeTarget
  <2>2. CASE PurgeProjectDaemon
    BY <1>a, <2>2 DEF PurgeProjectDaemon
  <2>3. CASE dind' = dind
    BY <1>a, <2>3
  <2> QED
    BY <2>1, <2>2, <2>3
       DEF RunnerStep, Resolve, MigrateOffTheSharedDaemon, MigrateOffItsOwnDaemon,
           RemoveBefore, DeriveRunConfig, Judge, BuildBeforeJudging, SaveDaemon, CheckExisting,
           DevcontainerUp, WrongWorkspace, SaveSpec, RecreateStale, Finish, StopTarget,
           PurgeState, OnlyBox, world
<1> QED
  BY <1>a, <1>b, <1>1, <1>2, <1>3, <1>4, <1>5

LEMMA TypedHolds ==
  ASSUME Apart
  PROVE  Spec => []Typed
<1>1. Init => Typed
  <2> SUFFICES ASSUME Init PROVE Typed
    OBVIOUS
  <2> USE NobodyIsARunner
  <2>1. runner \in Runners /\ runner.pc = "free"
    BY DEF Init
  <2>2. box \in [Daemons -> Boxes] /\ saved \in Daemons
    BY InitHolds
  <2>3. copies \in [Kinds -> Texts] /\ req \in [Reqs -> Requests]
    BY DEF Init, Kinds, Texts, Requests
  <2> QED
    BY <2>1, <2>2, <2>3 DEF Init, Typed, Daemons
<1>2. Typed /\ [Next]_vars => Typed'
  <2> SUFFICES ASSUME Typed, [Next]_vars PROVE Typed'
    OBVIOUS
  <2>1. CASE Around
    BY <2>1, AroundTyped DEF Typed
  <2>2. CASE Holds
    BY <2>2, HoldMoves DEF Typed
  <2>3. CASE RunnerStep
    BY <2>3, RunnerTyped, CopiesTyped, WorldTyped DEF Typed
  <2>4. CASE Die
    <3>1. Ends /\ UNCHANGED <<file, world>>
      BY <2>4, OtherMoves DEF Die
    <3> QED
      BY <3>1, OtherMoves, EndsTyped, NobodyIsARunner DEF Typed, world
  <2>5. CASE Restarts
    <3>1. dind' \in BOOLEAN /\ box' \in [Daemons -> Boxes]
      BY <2>5, RestartMoves DEF Typed
    <3> QED
      BY <2>5, <3>1, RestartMoves, NobodyIsARunner DEF Typed
  <2>6. CASE Comes
    <3>1. CASE StopAll
      BY <3>1, BoxMoves DEF StopAll, Typed, broker
    <3>2. CASE DindStops \/ DindStarts \/ \E s \in Specs : Edit(s)
      BY <3>2 DEF DindStops, DindStarts, Edit, Typed, broker, world
    <3> QED
      BY <2>6, <3>1, <3>2 DEF Comes
  <2>7. CASE UNCHANGED vars
    BY <2>7 DEF vars, Typed
  <2> QED
    BY <2>1, <2>2, <2>3, <2>4, <2>5, <2>6, <2>7, NextIs
<1> QED BY <1>1, <1>2, PTL DEF Spec

-----------------------------------------------------------------------------
(* The requests the broker is at.                                          *)
Asked == {r \in Reqs : req[r].pc # "idle"}
(* A runner that was asked for is its request's, for as long as it runs.   *)
Counted ==
  /\ InflightIsCounted /\ inflight <= Concurrent
  /\ runner.by \in Reqs => req[runner.by].pc = "running"

LEMMA AskedIsFinite ==
  ASSUME Apart
  PROVE  /\ IsFiniteSet(Asked) /\ Cardinality(Asked) \in Nat
         /\ IsFiniteSet(Asked') /\ Cardinality(Asked') \in Nat
<1>1. Asked \subseteq Reqs /\ Asked' \subseteq Reqs
  BY DEF Asked
<1> QED
  BY <1>1, FS_Subset, FS_CardinalityType DEF Apart

LEMMA SetsCounts ==
  ASSUME Apart, Typed, NEW r \in Reqs, NEW pc, NEW op, Sets(r, pc, op)
  PROVE  /\ req[r].pc = "idle" /\ pc # "idle" => Cardinality(Asked') = Cardinality(Asked) + 1
         /\ req[r].pc # "idle" /\ pc # "idle" => Cardinality(Asked') = Cardinality(Asked)
         /\ req[r].pc # "idle" /\ pc = "idle" => Cardinality(Asked') = Cardinality(Asked) - 1
         /\ req'[r].pc = pc /\ \A q \in Reqs \ {r} : req'[q] = req[q]
<1>1. req'[r].pc = pc /\ \A q \in Reqs \ {r} : req'[q] = req[q]
  BY DEF Sets, Typed
<1>2. ASSUME req[r].pc = "idle", pc # "idle" PROVE Cardinality(Asked') = Cardinality(Asked) + 1
  <2>1. Asked' = Asked \union {r} /\ r \notin Asked
    BY <1>1, <1>2 DEF Asked
  <2> QED BY <2>1, AskedIsFinite, FS_AddElement
<1>3. ASSUME req[r].pc # "idle", pc # "idle" PROVE Cardinality(Asked') = Cardinality(Asked)
  <2>1. Asked' = Asked
    BY <1>1, <1>3 DEF Asked
  <2> QED BY <2>1
<1>4. ASSUME req[r].pc # "idle", pc = "idle" PROVE Cardinality(Asked') = Cardinality(Asked) - 1
  <2>1. Asked' = Asked \ {r} /\ r \in Asked
    BY <1>1, <1>4 DEF Asked
  <2> QED BY <2>1, AskedIsFinite, FS_RemoveElement
<1> QED BY <1>1, <1>2, <1>3, <1>4

LEMMA EndsCounts ==
  ASSUME Apart, Typed, Counted, Ends
  PROVE  Counted'
<1> USE AskedIsFinite
<1>1. runner' = NoRunner /\ runner'.by \notin Reqs
  BY NobodyIsARunner DEF Ends
<1>2. CASE runner.by \in Reqs
  <2>1. Sets(runner.by, "idle", "none") /\ inflight' = inflight - 1
    BY <1>2 DEF Ends, Answered
  <2>2. Cardinality(Asked') = Cardinality(Asked) - 1
    BY <1>2, <2>1, SetsCounts DEF Counted
  <2> QED
    BY <1>1, <2>1, <2>2 DEF Counted, InflightIsCounted, Asked, Apart
<1>3. CASE runner.by \notin Reqs
  <2>1. req' = req /\ inflight' = inflight
    BY <1>3 DEF Ends, Answered, broker
  <2> QED
    BY <1>1, <2>1 DEF Counted, InflightIsCounted
<1> QED BY <1>2, <1>3

LEMMA CountedHolds ==
  ASSUME Apart
  PROVE  Spec => []Counted
<1> USE AskedIsFinite
<1>1. Init => Counted
  <2> SUFFICES ASSUME Init PROVE Counted
    OBVIOUS
  <2>1. Asked = {} /\ runner.by \notin Reqs
    BY NobodyIsARunner DEF Init, Asked
  <2> QED BY <2>1, FS_EmptySet DEF Init, Counted, InflightIsCounted, Asked, Apart
<1>2. Typed /\ Counted /\ [Next]_vars => Counted'
  <2> SUFFICES ASSUME Typed, Counted, [Next]_vars PROVE Counted'
    OBVIOUS
  <2>a. inflight = Cardinality(Asked) /\ (inflight' = Cardinality(Asked') => InflightIsCounted')
    BY DEF Counted, InflightIsCounted, Asked
  <2>1. CASE Around
    <3> PICK r \in Reqs : Snapshot(r) \/ SnapshotRefused(r) \/ Spawn(r) \/ Busy(r)
                          \/ \E op \in BrokerOps : Ask(r, op)
      BY <2>1 DEF Around
    <3>1. CASE Snapshot(r)
      BY <2>a, <3>1, SetsCounts DEF Snapshot, Starting, Counted
    <3>2. CASE Spawn(r)
      BY <2>a, <3>2, SetsCounts DEF Spawn, Counted
    <3>3. CASE SnapshotRefused(r)
      BY <2>a, <3>3, SetsCounts DEF SnapshotRefused, Starting, Counted, Apart
    <3>4. CASE Busy(r)
      BY <2>a, <3>4, SetsCounts DEF Busy, Counted, Apart
    <3>5. CASE \E op \in BrokerOps : Ask(r, op)
      BY <2>a, <3>5, SetsCounts DEF Ask, Counted, Apart
    <3> QED BY <3>1, <3>2, <3>3, <3>4, <3>5
  <2>2. CASE Holds
    <3>1. CASE \E r \in Reqs : Hold(r)
      <4> PICK r \in Reqs : Hold(r)
        BY <3>1
      <4>1. runner'.by = r
        BY DEF Hold, NoRunner
      <4> QED
        BY <2>a, <4>1, SetsCounts DEF Hold, Counted
    <3>2. CASE \E op \in DirectOps : HoldDirect(op)
      <4>1. runner'.by \notin Reqs /\ UNCHANGED broker
        BY <3>2 DEF HoldDirect, NoRunner, Apart
      <4> QED
        BY <2>a, <4>1 DEF Counted, broker, Asked
    <3> QED BY <2>2, <3>1, <3>2 DEF Holds
  <2>3. CASE RunnerStep
    <3>1. CASE Ends
      BY <3>1, EndsCounts
    <3>2. CASE runner'.by = runner.by /\ UNCHANGED broker
      BY <2>a, <3>2 DEF Counted, broker, Asked
    <3> USE StartMoves, OtherMoves DEF Goes, Moves
    <3>3. CASE Resolve \/ MigrateOffTheSharedDaemon \/ MigrateOffItsOwnDaemon \/ UseProjectDaemon
      BY <3>2, <3>3 DEF Resolve, MigrateOffTheSharedDaemon, MigrateOffItsOwnDaemon, UseProjectDaemon, OnlyBox
    <3>4. CASE RemoveBefore \/ DeriveRunConfig \/ Judge \/ BuildBeforeJudging \/ SaveDaemon
      BY <3>2, <3>4 DEF RemoveBefore, DeriveRunConfig, Judge, BuildBeforeJudging, SaveDaemon, OnlyBox
    <3>5. CASE CheckExisting \/ DevcontainerUp \/ SaveSpec \/ RecreateStale
      BY <3>2, <3>5 DEF CheckExisting, DevcontainerUp, SaveSpec, RecreateStale, OnlyBox
    <3>6. CASE PurgeTarget \/ PurgeState
      BY <3>2, <3>6 DEF PurgeTarget, PurgeState
    <3>7. CASE WrongWorkspace \/ Finish \/ StopTarget \/ PurgeProjectDaemon
      BY <3>1, <3>7
    <3> QED
      BY <2>3, <3>3, <3>4, <3>5, <3>6, <3>7 DEF RunnerStep
  <2>4. CASE Die
    BY <2>4, EndsCounts DEF Die
  <2>5. CASE Restarts
    <3>1. Asked' = {} /\ inflight' = 0 /\ runner'.by \notin Reqs
      BY <2>5, NobodyIsARunner DEF Restarts, Restart, Asked
    <3> QED
      BY <2>a, <3>1, FS_EmptySet DEF Counted, Apart
  <2>6. CASE Comes
    <3>1. runner' = runner /\ UNCHANGED broker
      BY <2>6 DEF Comes, StopAll, DindStops, DindStarts, Edit
    <3> QED
      BY <2>a, <3>1 DEF Counted, broker, Asked
  <2>7. CASE UNCHANGED vars
    BY <2>a, <2>7 DEF vars, Counted, Asked
  <2> QED
    BY <2>1, <2>2, <2>3, <2>4, <2>5, <2>6, <2>7, NextIs
<1> QED BY <1>1, <1>2, TypedHolds, PTL DEF Spec

(* The broker's count is the number of requests it is at, whichever way    *)
(* each of them ends (broker.ts:289), for any number of connections.       *)
THEOREM StartsInflightIsCounted ==
  ASSUME Apart
  PROVE  Spec => []InflightIsCounted
<1>1. Counted => InflightIsCounted
  BY DEF Counted
<1> QED BY <1>1, CountedHolds, PTL

(* Every variable keeps its type, the count among them: it is never more   *)
(* than the limit, nor less than none.                                     *)
THEOREM StartsTypeCorrect ==
  ASSUME Apart
  PROVE  Spec => []TypeOK
<1>1. Typed /\ Counted => TypeOK
  <2> SUFFICES ASSUME Typed, Counted PROVE TypeOK
    OBVIOUS
  <2>1. inflight \in 0 .. Concurrent
    BY AskedIsFinite DEF Counted, InflightIsCounted, Asked, Apart
  <2>2. runner.pc \in Pcs /\ runner.daemon \in Daemons
    BY DEF Typed, Runners
  <2> QED
    BY <2>1, <2>2 DEF Typed, TypeOK, Kinds, Texts, Requests, Boxes, Pcs
<1> QED BY <1>1, TypedHolds, CountedHolds, PTL

-----------------------------------------------------------------------------
(* A start that has gone through both migrations has nothing running on    *)
(* the other daemon; one that saved its daemon is on it; a purge that      *)
(* removes the files has stopped what there was.                           *)
Settled == {"ensure", "before", "derive", "judge", "build", "save", "check", "up", "verify", "finish"}
AfterSave == {"check", "up", "verify", "finish"}
Placed ==
  /\ RunsWhereSaved
  /\ box["project"].running => dind
  /\ runner.pc = "own" /\ runner.daemon = "project" => ~box["shared"].running
  /\ runner.pc \in Settled => \A e \in Daemons \ {runner.daemon} : ~box[e].running
  /\ runner.pc \in AfterSave => saved = runner.daemon
  /\ runner.pc \in {"forget", "drop"} => \A d \in Daemons : ~box[d].running

(* A step that starts no container leaves what runs as it is.             *)
Fewer == \A d \in Daemons : box'[d].running => box'[d] = box[d]

LEMMA FewerKeepsPlaces ==
  ASSUME Placed, Fewer, saved' = saved, box'["project"].running => dind',
         \/ runner'.pc = "free"
         \/ runner'.pc = runner.pc /\ runner'.daemon = runner.daemon
         \/ runner'.pc \in {"resolve", "shared", "stop", "purge"}
         \/ runner'.pc \in Settled \ AfterSave /\ runner.pc \in Settled /\ runner'.daemon = runner.daemon
         \/ runner'.pc \in AfterSave /\ runner.pc \in AfterSave /\ runner'.daemon = runner.daemon
  PROVE  Placed'
BY DEF Placed, Fewer, RunsWhereSaved, Daemons, Settled, AfterSave

LEMMA StartKeepsPlaces ==
  ASSUME Apart, Typed, Placed,
         \/ Resolve \/ MigrateOffTheSharedDaemon \/ MigrateOffItsOwnDaemon
         \/ UseProjectDaemon \/ RemoveBefore \/ DeriveRunConfig \/ Judge
         \/ BuildBeforeJudging \/ SaveDaemon \/ CheckExisting
  PROVE  Placed'
<1> USE StartMoves DEF Goes, Moves, At
<1>a. box["project"].running => dind
  BY DEF Placed
<1>b. ASSUME box' = box PROVE Fewer
  BY <1>b DEF Fewer
<1>c. ASSUME NEW d \in Daemons, Remove(d) PROVE Fewer /\ ~box'[d].running
  BY <1>c, BoxMoves DEF Fewer, NoBox
<1>d. "shared" \in Daemons /\ "project" \in Daemons /\ runner.daemon \in Daemons
  BY DEF Daemons, Typed, Runners
<1>1. CASE Resolve
  BY <1>1, <1>a, <1>b, FewerKeepsPlaces DEF Resolve, world
<1>2. CASE MigrateOffTheSharedDaemon
  <2>1. Fewer /\ (runner.daemon = "project" => ~box'["shared"].running)
    BY <1>2, <1>b, <1>c, <1>d DEF MigrateOffTheSharedDaemon, Leaves, NoBox
  <2>2. UNCHANGED <<dind, saved>> /\ runner'.pc = "own" /\ runner'.daemon = runner.daemon
    BY <1>2 DEF MigrateOffTheSharedDaemon, OnlyBox
  <2> HIDE DEF Daemons
  <2> QED
    BY <2>1, <2>2, <1>d DEF Placed, Fewer, RunsWhereSaved, Settled, AfterSave
<1>3. CASE MigrateOffItsOwnDaemon
  <2>1. Fewer
    BY <1>3, <1>b, <1>c, <1>d DEF MigrateOffItsOwnDaemon
  <2>2. UNCHANGED <<dind, saved>> /\ runner'.pc = "ensure" /\ runner'.daemon = runner.daemon
    BY <1>3 DEF MigrateOffItsOwnDaemon, OnlyBox
  <2>3. runner.daemon = "shared" => ~box'["project"].running
    <3>1. CASE LeavesOwn
      BY <1>3, <1>c, <1>d, <3>1 DEF MigrateOffItsOwnDaemon
    <3>2. CASE ~LeavesOwn /\ runner.daemon = "shared"
      BY <2>1, <1>a, <1>d, <3>2 DEF LeavesOwn, Placed, RunsWhereSaved, Fewer, NoBox
    <3> QED BY <3>1, <3>2
  <2>4. runner.daemon = "project" => ~box'["shared"].running
    BY <1>3, <2>1, <1>d DEF MigrateOffItsOwnDaemon, Placed, Fewer
  <2> QED
    BY <2>1, <2>2, <2>3, <2>4, <1>d DEF Placed, Fewer, RunsWhereSaved, Settled, AfterSave, Daemons
<1>4. CASE UseProjectDaemon
  <2>1. runner'.pc = "before" /\ runner.pc = "ensure" /\ saved' = saved /\ (dind => dind') /\ Fewer
    BY <1>4, <1>b DEF UseProjectDaemon
  <2>2. box'["project"].running => dind'
    BY <2>1, <1>a, <1>d DEF Fewer
  <2> QED
    BY <1>4, <2>1, <2>2, FewerKeepsPlaces DEF Settled, AfterSave
<1>5. CASE RemoveBefore
  <2>1. Fewer
    BY <1>5, <1>b, <1>c, <1>d DEF RemoveBefore
  <2> QED
    BY <1>5, <2>1, <1>a, <1>d, FewerKeepsPlaces DEF RemoveBefore, OnlyBox, Fewer, Settled, AfterSave
<1>6. CASE DeriveRunConfig \/ Judge \/ BuildBeforeJudging
  BY <1>6, <1>a, <1>b, FewerKeepsPlaces
     DEF DeriveRunConfig, Judge, BuildBeforeJudging, world, Settled, AfterSave
<1>7. CASE SaveDaemon
  <2>1. box' = box /\ dind' = dind /\ saved' = runner.daemon /\ runner'.pc = "check"
        /\ runner'.daemon = runner.daemon
    BY <1>7 DEF SaveDaemon
  <2>2. \A e \in Daemons \ {runner.daemon} : ~box[e].running
    BY <1>7 DEF SaveDaemon, Placed, Settled
  <2> HIDE DEF Daemons
  <2> QED
    BY <2>1, <2>2, <1>a DEF Placed, RunsWhereSaved, Settled, AfterSave
<1>8. CASE CheckExisting
  BY <1>8, <1>a, <1>b, FewerKeepsPlaces DEF CheckExisting, world, Settled, AfterSave
<1> QED
  BY <1>1, <1>2, <1>3, <1>4, <1>5, <1>6, <1>7, <1>8

LEMMA PlacedHolds ==
  ASSUME Apart
  PROVE  Spec => []Placed
<1>1. Init => Placed
  <2> SUFFICES ASSUME Init PROVE Placed
    OBVIOUS
  <2>1. (\A d \in Daemons : ~box[d].running) /\ runner.pc = "free"
    BY InitHolds, NobodyIsARunner DEF Init
  <2> QED BY <2>1 DEF Placed, RunsWhereSaved, Daemons, Settled, AfterSave
<1>2. Typed /\ Placed /\ [Next]_vars => Placed'
  <2> SUFFICES ASSUME Typed, Placed, [Next]_vars PROVE Placed'
    OBVIOUS
  <2> USE FewerKeepsPlaces, NobodyIsARunner
  <2>a. box["project"].running => dind
    BY DEF Placed
  <2>b. ASSUME box' = box PROVE Fewer
    BY <2>b DEF Fewer
  <2>c. ASSUME NEW d \in Daemons, Remove(d) PROVE Fewer /\ ~box'[d].running
    BY <2>c, BoxMoves DEF Fewer, NoBox
  <2>d. "shared" \in Daemons /\ "project" \in Daemons /\ runner.daemon \in Daemons /\ saved \in Daemons
    BY DEF Daemons, Typed, Runners
  <2>e. ASSUME NEW d \in Daemons, Stopped(d) PROVE Fewer
    BY <2>e, BoxMoves DEF Fewer
  <2>1. CASE Around
    BY <2>1, <2>a, <2>b, AroundTyped
  <2>2. CASE Holds
    BY <2>2, <2>a, <2>b, HoldMoves
  <2>3. CASE RunnerStep
    <3>1. CASE DevcontainerUp
      <4>1. /\ runner'.pc = "verify" /\ runner'.daemon = runner.daemon /\ saved' = saved /\ dind' = dind
            /\ runner.pc = "up"
        BY <3>1, StartMoves DEF DevcontainerUp, OnlyBox, Goes, Moves, At
      <4>2. saved = runner.daemon /\ (runner.daemon = "project" => dind)
        BY <3>1, <4>1 DEF Placed, AfterSave, DevcontainerUp, Reaches
      <4>3. \A e \in Daemons \ {runner.daemon} : ~box'[e].running
        BY <3>1, <4>1, <2>d, BoxMoves DEF Placed, Settled
      <4> HIDE DEF Daemons
      <4> QED
        BY <4>1, <4>2, <4>3, <2>d DEF Placed, RunsWhereSaved, Settled, AfterSave
    <3>2. CASE WrongWorkspace \/ Finish \/ StopTarget
      <4>1. Fewer /\ dind' = dind /\ saved' = saved /\ runner'.pc = "free"
        BY <3>2, <2>b, <2>c, <2>d, <2>e, OtherMoves DEF WrongWorkspace, Finish, StopTarget, world
      <4> QED
        BY <4>1, <2>a, <2>d DEF Fewer
    <3>3. CASE SaveSpec
      BY <3>3, <2>a, <2>b, StartMoves DEF SaveSpec, Goes, Moves, AfterSave, At
    <3>4. CASE RecreateStale
      <4>1. Fewer /\ dind' = dind /\ saved' = saved
        BY <3>4, <2>c, <2>d DEF RecreateStale, OnlyBox
      <4> QED
        BY <3>4, <4>1, <2>a, <2>d, StartMoves DEF RecreateStale, Goes, Moves, AfterSave, At, Fewer
    <3>5. CASE PurgeTarget
      <4>1. /\ runner'.pc = "forget" /\ saved' = saved
            /\ Fewer /\ ~box'[saved].running
        BY <3>5, <2>c, <2>d, OtherMoves DEF PurgeTarget, Moves
      <4>2. \A d \in Daemons : ~box'[d].running
        BY <4>1 DEF Placed, RunsWhereSaved, Fewer
      <4> HIDE DEF Daemons
      <4> QED
        BY <4>1, <4>2, <2>d DEF Placed, RunsWhereSaved, Settled, AfterSave
    <3>6. CASE PurgeState
      <4>1. /\ runner'.pc = "drop" /\ box' = box /\ runner.pc = "forget"
        BY <3>6, OtherMoves DEF PurgeState, Goes, Moves, At
      <4> HIDE DEF Daemons
      <4> QED
        BY <4>1, <2>d DEF Placed, RunsWhereSaved, Settled, AfterSave
    <3>7. CASE PurgeProjectDaemon
      <4>1. Fewer /\ saved' = saved /\ runner'.pc = "free" /\ runner.pc = "drop"
        BY <3>7, <2>b, <2>c, <2>d, OtherMoves DEF PurgeProjectDaemon, At
      <4>2. ~box'["project"].running
        BY <4>1, <2>d DEF Placed, Fewer
      <4> QED
        BY <4>1, <4>2
    <3> QED
      BY <2>3, <3>1, <3>2, <3>3, <3>4, <3>5, <3>6, <3>7, StartKeepsPlaces DEF RunnerStep
  <2>4. CASE Die
    BY <2>4, <2>a, <2>b, OtherMoves DEF Die, world
  <2>5. CASE Restarts
    <3>1. Fewer /\ (box'["project"].running => dind')
      BY <2>5, <2>a, <2>d, RestartMoves DEF Fewer
    <3> QED
      BY <2>5, <3>1, RestartMoves
  <2>6. CASE Comes
    <3>1. CASE StopAll
      <4>1. Fewer
        BY <3>1, <2>d, <2>e DEF StopAll
      <4> QED
        BY <3>1, <4>1, <2>a, <2>d DEF StopAll, Fewer
    <3>2. CASE DindStops \/ DindStarts \/ \E s \in Specs : Edit(s)
      BY <3>2, <2>a, <2>b DEF DindStops, DindStarts, Edit, world
    <3> QED
      BY <2>6, <3>1, <3>2 DEF Comes
  <2>7. CASE UNCHANGED vars
    BY <2>7, <2>a, <2>b DEF vars
  <2> QED
    BY <2>1, <2>2, <2>3, <2>4, <2>5, <2>6, <2>7, NextIs
<1> QED BY <1>1, <1>2, TypedHolds, PTL DEF Spec

(* A container that runs is on the daemon its target's file names          *)
(* (desolate.ts, stopTarget and purgeTarget): however starts, stops and    *)
(* purges follow one another, wherever each of them is killed.             *)
THEOREM StartsRunsWhereSaved ==
  ASSUME Apart
  PROVE  Spec => []RunsWhereSaved
<1>1. Placed => RunsWhereSaved
  BY DEF Placed
<1> QED BY <1>1, PlacedHolds, PTL

-----------------------------------------------------------------------------
(* With no start asked for while one goes on, the copy a runner works from *)
(* is its own: what it judged is what it builds from, and what is there    *)
(* already does no more.                                                   *)
Bounded(b) == b.spec \in Specs \union {Gone}
Judged ==
  /\ runner.pc \in {"build", "save"} \union AfterSave =>
       runner.spec \in Specs /\ Passes(runner.spec, runner.daemon)
  /\ runner.pc \in {"save"} \union AfterSave => copies[runner.config] = runner.spec
Bounds ==
  /\ Bounded(box["project"])
  /\ runner.pc \in {"own"} \union Settled => Bounded(box["shared"])
  /\ runner.pc \in {"up", "verify", "finish"} => Powers(box[runner.daemon]) \subseteq Asks[runner.spec]
Passed == \A d \in Daemons : box[d].running => box[d].spec \in Specs /\ Passes(box[d].spec, d)

(* A container that is not there, or that was stopped, has no more powers  *)
(* than before.                                                            *)
LEMMA Weaker ==
  ASSUME Apart, NEW b \in Boxes, NEW c \in Boxes,
         c = NoBox \/ (c.spec = b.spec /\ ~c.running)
  PROVE  Powers(c) \subseteq Powers(b) /\ (Bounded(b) => Bounded(c))
<1>1. CASE c = NoBox
  BY <1>1 DEF Powers, Bounded, NoBox
<1>2. CASE c # NoBox /\ c.spec = b.spec /\ ~c.running
  <2>1. c = [spec |-> c.spec, running |-> FALSE]
    BY <1>2 DEF Boxes
  <2>2. b # NoBox
    BY <1>2, <2>1 DEF NoBox
  <2> QED
    BY <1>2, <2>2 DEF Powers, Bounded
<1> QED BY <1>1, <1>2

(* A container stays as it is, is removed, or is stopped, by any step but  *)
(* one.                                                                    *)
Lessens == \A d \in Daemons : \/ box'[d] = box[d]
                              \/ box'[d] = NoBox
                              \/ box'[d].spec = box[d].spec /\ ~box'[d].running

LEMMA OnlyUpStarts ==
  ASSUME Apart, Typed, [Next]_vars, ~DevcontainerUp
  PROVE  Lessens
<1>1. ASSUME box' = box PROVE Lessens
  BY <1>1 DEF Lessens
<1>2. ASSUME NEW d \in Daemons, Remove(d) PROVE Lessens
  <2> HIDE DEF NoBox
  <2> QED BY <1>2, BoxMoves DEF Lessens
<1>3. ASSUME NEW d \in Daemons, Stopped(d) PROVE Lessens
  BY <1>3, BoxMoves DEF Lessens
<1>4. "shared" \in Daemons /\ "project" \in Daemons /\ runner.daemon \in Daemons /\ saved \in Daemons
  BY DEF Daemons, Typed, Runners
<1> HIDE DEF Daemons
<1>5. CASE RunnerStep
  BY <1>1, <1>2, <1>3, <1>4, <1>5
     DEF RunnerStep, Resolve, MigrateOffTheSharedDaemon, MigrateOffItsOwnDaemon, UseProjectDaemon,
         RemoveBefore, DeriveRunConfig, Judge, BuildBeforeJudging, SaveDaemon, CheckExisting,
         WrongWorkspace, SaveSpec, RecreateStale, Finish, StopTarget, PurgeTarget,
         PurgeState, PurgeProjectDaemon, world
<1>6. CASE Comes
  BY <1>1, <1>3, <1>4, <1>6 DEF Comes, StopAll, DindStops, DindStarts, Edit, world
<1>7. CASE Restarts
  BY <1>7, RestartMoves DEF Lessens
<1>8. CASE Around \/ Holds \/ Die \/ UNCHANGED vars
  BY <1>1, <1>8, AroundTyped, HoldMoves DEF Die, world, vars
<1> QED
  BY <1>5, <1>6, <1>7, <1>8, NextIs

LEMMA LessIsWeaker ==
  ASSUME Apart, Typed, Typed', Lessens, NEW d \in Daemons
  PROVE  /\ Powers(box'[d]) \subseteq Powers(box[d])
         /\ Bounded(box[d]) => Bounded(box'[d])
         /\ box'[d].running => box'[d] = box[d]
<1>1. box[d] \in Boxes /\ box'[d] \in Boxes
  BY DEF Typed
<1>2. CASE box'[d] = box[d]
  BY <1>2
<1>3. CASE box'[d] = NoBox \/ (box'[d].spec = box[d].spec /\ ~box'[d].running)
  <2>1. ~box'[d].running
    BY <1>3 DEF NoBox
  <2>2. Powers(box'[d]) \subseteq Powers(box[d]) /\ (Bounded(box[d]) => Bounded(box'[d]))
    BY <1>1, <1>3, Weaker
  <2>3. box'[d].running => box'[d] = box[d]
    BY <2>1
  <2> QED BY <2>2, <2>3, Zenon
<1>4. box'[d] = box[d] \/ box'[d] = NoBox \/ (box'[d].spec = box[d].spec /\ ~box'[d].running)
  BY DEF Lessens
<1> QED BY <1>2, <1>3, <1>4, Zenon

LEMMA AroundLeavesItsCopy ==
  ASSUME Apart, Typed, Around, ~Overtakes, runner.config \in Kinds
  PROVE  copies'[runner.config] = copies[runner.config]
<1> PICK r \in Reqs : Snapshot(r) \/ SnapshotRefused(r) \/ Spawn(r) \/ Busy(r)
                      \/ \E op \in BrokerOps : Ask(r, op)
  BY DEF Around
<1>1. CASE Snapshot(r) \/ SnapshotRefused(r)
  BY <1>1 DEF Snapshot, SnapshotRefused, Starting, CopyInto, Typed
<1>2. CASE Spawn(r) \/ Busy(r) \/ \E op \in BrokerOps : Ask(r, op)
  BY <1>2 DEF Spawn, Busy, Ask
<1> QED BY <1>1, <1>2

LEMMA JudgedHolds ==
  ASSUME Apart, ~Overtakes
  PROVE  Spec => []Judged
<1>1. Init => Judged
  BY NobodyIsARunner DEF Init, Judged, AfterSave
<1>2. Typed /\ Judged /\ [Next]_vars => Judged'
  <2> SUFFICES ASSUME Typed, Judged, [Next]_vars PROVE Judged'
    OBVIOUS
  <2> USE NobodyIsARunner DEF AfterSave
  <2> HIDE DEF Passes
  <2>a. ASSUME runner'.pc = "free" PROVE Judged'
    BY <2>a DEF Judged
  <2>b. ASSUME copies' = copies, runner'.config = runner.config, runner'.spec = runner.spec,
               runner'.daemon = runner.daemon, runner.pc \in {"save"} \union AfterSave
        PROVE  Judged'
    BY <2>b DEF Judged
  <2>1. CASE Around
    <3>1. runner.pc # "free" => copies'[runner.config] = copies[runner.config]
      BY <2>1, AroundLeavesItsCopy DEF Typed
    <3> QED
      BY <2>1, <3>1, AroundTyped DEF Judged
  <2>2. CASE Holds
    BY <2>2, HoldMoves DEF Judged
  <2>3. CASE RunnerStep
    <3> USE StartMoves, OtherMoves DEF Goes, Moves, At
    <3>1. CASE Resolve \/ MigrateOffTheSharedDaemon \/ MigrateOffItsOwnDaemon \/ UseProjectDaemon
               \/ RemoveBefore \/ DeriveRunConfig
      BY <3>1 DEF Judged
    <3>2. CASE Judge
      <4>1. copies' = copies /\ Copy # Gone /\ Passes(Copy, runner.daemon) /\ runner.pc = "judge"
        BY <3>2 DEF Judge
      <4>2. Copy \in Specs
        BY <4>1, CopyIsText DEF Texts
      <4>3. copies'[runner'.config] = Copy
        BY <3>2, <4>1 DEF Copy
      <4> HIDE DEF Copy
      <4> QED
        BY <3>2, <4>1, <4>2, <4>3 DEF Judged
    <3>3. CASE BuildBeforeJudging
      <4>1. copies'["run"] = runner.spec /\ runner.pc = "build"
        BY <3>3 DEF BuildBeforeJudging, Typed, Kinds
      <4> QED
        BY <3>3, <4>1 DEF Judged
    <3>4. CASE SaveDaemon \/ CheckExisting \/ DevcontainerUp
      BY <3>4, <2>b DEF SaveDaemon, CheckExisting, DevcontainerUp, OnlyBox
    <3>5. CASE SaveSpec \/ RecreateStale
      BY <3>5, <2>b DEF SaveSpec, RecreateStale, OnlyBox
    <3>6. CASE WrongWorkspace \/ Finish \/ StopTarget \/ PurgeProjectDaemon
      BY <3>6, <2>a
    <3>7. CASE PurgeTarget \/ PurgeState
      BY <3>7 DEF Judged
    <3> QED
      BY <2>3, <3>1, <3>2, <3>3, <3>4, <3>5, <3>6, <3>7 DEF RunnerStep
  <2>4. CASE Die \/ Restarts
    BY <2>4, <2>a, OtherMoves, RestartMoves
  <2>5. CASE Comes \/ UNCHANGED vars
    BY <2>5 DEF Comes, StopAll, DindStops, DindStarts, Edit, vars, Judged
  <2> QED
    BY <2>1, <2>2, <2>3, <2>4, <2>5, NextIs
<1> QED BY <1>1, <1>2, TypedHolds, PTL DEF Spec

(* What `up` brings up: the spec that was judged, or a container of a spec *)
(* that asks for no more.                                                  *)
LEMMA UpIsBounded ==
  ASSUME Apart, Typed, Judged, Bounds, Placed, Passed, DevcontainerUp
  PROVE  LET b == box'[runner.daemon] IN
         /\ b.running /\ b.spec \in Specs
         /\ Passes(b.spec, runner.daemon) /\ Powers(b) \subseteq Asks[runner.spec]
         /\ box[runner.daemon].running => b.spec = box[runner.daemon].spec
<1> DEFINE d == runner.daemon
           b == box'[d]
<1>1. d \in Daemons /\ runner.pc = "up" /\ runner.spec \in Specs /\ Passes(runner.spec, d)
      /\ copies[runner.config] = runner.spec /\ box[d] \in Boxes
  BY DEF DevcontainerUp, At, Judged, AfterSave, Typed, Runners
<1>2. b \in Boxes /\ b.running /\ b.spec = IF box[d] = NoBox THEN Copy ELSE box[d].spec
  BY <1>1, BoxMoves
<1>3. b # NoBox /\ Powers(b) = Asks[b.spec]
  BY <1>2 DEF NoBox, Powers
<1>4. CASE box[d] = NoBox
  <2>1. b.spec = runner.spec /\ ~box[d].running
    BY <1>1, <1>2, <1>4 DEF Copy, NoBox
  <2> QED BY <1>1, <1>2, <1>3, <2>1
<1>5. CASE box[d] # NoBox
  <2>1. b.spec = box[d].spec /\ Powers(box[d]) = Asks[b.spec]
    BY <1>2, <1>5 DEF Powers
  <2>2. Asks[b.spec] \subseteq Asks[runner.spec]
    BY <1>1, <2>1 DEF Bounds
  <2>3. b.spec # Gone
    <3>1. SUFFICES ASSUME box[d].spec = Gone PROVE FALSE
      BY <2>1
    <3>2. ~box[d].running
      BY <1>1, <3>1 DEF Passed, Apart
    <3> QED BY <1>1, <1>5, <3>1, <3>2 DEF Boxes, NoBox
  <2>4. Bounded(box[d])
    BY <1>1 DEF Bounds, Settled, Daemons
  <2>5. b.spec \in Specs
    BY <2>1, <2>3, <2>4 DEF Bounded
  <2>6. Passes(b.spec, d)
    BY <1>1, <2>2 DEF Passes
  <2> QED BY <1>2, <1>3, <2>1, <2>2, <2>5, <2>6
<1> QED BY <1>4, <1>5

LEMMA BoundsStep ==
  ASSUME Apart, Typed, Typed', Judged, Bounds, Placed, Passed, [Next]_vars
  PROVE  Bounds' /\ Passed'
<1>a. runner.daemon \in Daemons /\ "shared" \in Daemons /\ "project" \in Daemons
  BY DEF Typed, Runners, Daemons
<1>1. CASE DevcontainerUp
  <2>1. runner'.pc = "verify" /\ runner'.daemon = runner.daemon /\ runner'.spec = runner.spec
        /\ runner.pc = "up"
    BY <1>1, StartMoves DEF Goes, Moves, DevcontainerUp, At
  <2>2. \A e \in Daemons \ {runner.daemon} : box'[e] = box[e]
    BY <1>1, <1>a, BoxMoves
  <2>3. Bounded(box'[runner.daemon])
    BY <1>1, UpIsBounded DEF Bounded
  <2>4. Bounds'
    <3>1. Bounded(box["shared"]) /\ Bounded(box["project"])
      BY <2>1 DEF Bounds, Settled
    <3>2. Bounded(box["shared"])' /\ Bounded(box["project"])'
      BY <2>2, <2>3, <3>1, <1>a DEF Bounded
    <3> QED BY <1>1, <2>1, <3>2, UpIsBounded DEF Bounds
  <2>5. Passed'
    BY <1>1, <1>a, <2>2, UpIsBounded DEF Passed, Passes
  <2> QED BY <2>4, <2>5
<1>2. CASE ~DevcontainerUp
  <2>1. Lessens
    BY <1>2, OnlyUpStarts
  <2>2. Passed'
    BY <2>1, LessIsWeaker DEF Passed, Passes
  <2>3. Bounded(box["project"])'
    BY <2>1, <1>a, LessIsWeaker DEF Bounds, Bounded
  <2>4. Bounded(box["shared"]) => Bounded(box["shared"])'
    BY <2>1, <1>a, LessIsWeaker DEF Bounded
  <2>5. ASSUME NEW d \in Daemons, Powers(box[d]) \subseteq Asks[runner.spec]
        PROVE  Powers(box'[d]) \subseteq Asks[runner.spec]
    BY <2>1, <2>5, LessIsWeaker
  <2>6. ASSUME runner'.pc \notin {"own"} \union Settled PROVE Bounds'
    BY <2>3, <2>6 DEF Bounds, Settled
  <2>7. ASSUME runner.pc \in {"own"} \union Settled, runner'.pc \in Settled \ {"up", "verify", "finish"}
        PROVE  Bounds'
    BY <2>3, <2>4, <2>7 DEF Bounds, Settled
  <2>8. ASSUME runner'.pc = runner.pc, runner'.daemon = runner.daemon, runner'.spec = runner.spec
        PROVE  Bounds'
    BY <2>3, <2>4, <2>5, <2>8, <1>a DEF Bounds
  <2> SUFFICES Bounds'
    BY <2>2
  <2> USE StartMoves, OtherMoves, HoldMoves, NobodyIsARunner DEF Goes, Moves, At, Settled
  <2>9. CASE RunnerStep
    <3>1. CASE MigrateOffTheSharedDaemon
      <4>1. Bounded(box'["shared"])
        <5>1. CASE Leaves
          BY <1>a, <3>1, <5>1, BoxMoves DEF MigrateOffTheSharedDaemon, Bounded, NoBox
        <5>2. CASE ~Leaves
          <6>1. box' = box /\ (box["shared"] = NoBox \/ box["shared"].spec # Legacy)
            BY <3>1, <5>2 DEF MigrateOffTheSharedDaemon, Leaves
          <6>2. box["shared"] \in Boxes
            BY <1>a DEF Typed
          <6> QED BY <6>1, <6>2 DEF Bounded, NoBox, Boxes
        <5> QED BY <5>1, <5>2
      <4> QED BY <2>3, <3>1, <4>1 DEF Bounds, Bounded
    <3>2. CASE MigrateOffItsOwnDaemon \/ UseProjectDaemon \/ RemoveBefore \/ DeriveRunConfig \/ Judge
               \/ BuildBeforeJudging \/ SaveDaemon
      BY <2>7, <3>2 DEF MigrateOffItsOwnDaemon, UseProjectDaemon, RemoveBefore, DeriveRunConfig, Judge,
                        BuildBeforeJudging, SaveDaemon
    <3>3. CASE CheckExisting
      <4>1. box' = box /\ Powers(box[runner.daemon]) \subseteq Asks[runner.spec]
        BY <3>3 DEF CheckExisting, BuiltWithin, world
      <4> QED BY <2>3, <2>4, <3>3, <4>1 DEF Bounds, CheckExisting
    <3>4. CASE SaveSpec
      BY <2>3, <2>4, <2>5, <3>4, <1>a DEF SaveSpec, Bounds
    <3>5. CASE RecreateStale
      <4>1. Powers(box'[runner.daemon]) = {}
        BY <1>a, <3>5, BoxMoves DEF RecreateStale, Powers
      <4> QED BY <2>3, <2>4, <3>5, <4>1 DEF RecreateStale, Bounds
    <3>6. CASE Resolve \/ PurgeTarget \/ PurgeState
      BY <2>6, <3>6
    <3>7. CASE WrongWorkspace \/ Finish \/ StopTarget \/ PurgeProjectDaemon
      BY <2>6, <3>7
    <3> QED
      BY <1>2, <2>9, <3>1, <3>2, <3>3, <3>4, <3>5, <3>6, <3>7 DEF RunnerStep
  <2>10. CASE Around \/ Comes \/ UNCHANGED vars
    <3>1. runner' = runner
      BY <2>10, AroundTyped DEF Comes, StopAll, DindStops, DindStarts, Edit, vars
    <3> QED BY <2>8, <3>1
  <2>11. CASE Holds
    BY <2>6, <2>11
  <2>12. CASE Die \/ Restarts
    BY <2>6, <2>12, RestartMoves
  <2> QED
    BY <2>9, <2>10, <2>11, <2>12, NextIs
<1> QED BY <1>1, <1>2

LEMMA BoundsHold ==
  ASSUME Apart, ~Overtakes
  PROVE  Spec => [](Bounds /\ Passed)
<1>1. Init => Bounds /\ Passed
  <2> SUFFICES ASSUME Init PROVE Bounds /\ Passed
    OBVIOUS
  <2>1. \A d \in Daemons : ~box[d].running
    BY InitHolds
  <2>2. Bounded(box["project"]) /\ runner.pc = "free"
    BY InitHolds DEF Apart, Init, Bounded, NoRunner
  <2> QED BY <2>1, <2>2 DEF Bounds, Passed, Settled
<1>2. Typed /\ Typed' /\ Judged /\ Placed /\ Bounds /\ Passed /\ [Next]_vars => (Bounds /\ Passed)'
  BY BoundsStep
<1> QED BY <1>1, <1>2, TypedHolds, JudgedHolds, PlacedHolds, PTL DEF Spec

(* A start never brings back, behind the spec it judged, a container with  *)
(* more power than that spec asks for (desolate.ts builtBeyondDeclared),   *)
(* as long as no start is asked for while one goes on.                     *)
THEOREM StartsNothingBeyondDeclared ==
  ASSUME Apart, ~Overtakes
  PROVE  Spec => []NothingBeyondDeclared
<1>1. Bounds => NothingBeyondDeclared
  BY DEF Bounds, NothingBeyondDeclared
<1> QED BY <1>1, BoundsHold, PTL

(* What runs passes the policy of the daemon it is on (snapshot.ts:5),     *)
(* under the same condition: without it the broker replaces the copy a     *)
(* runner is reading.                                                      *)
THEOREM StartsRunsWhatWasJudged ==
  ASSUME Apart, ~Overtakes
  PROVE  Spec => []RunsWhatWasJudged
<1>1. Passed => RunsWhatWasJudged
  BY DEF Passed, Passes, RunsWhatWasJudged
<1> QED BY <1>1, BoundsHold, PTL

-----------------------------------------------------------------------------
(* One container at most.                                                  *)
RunningOf(b) == {<<d, b[d].spec>> : d \in {e \in Daemons : b[e].running}}

LEMMA OneRuns ==
  ASSUME NEW b, NEW d \in Daemons, \A e \in Daemons \ {d} : ~b[e].running
  PROVE  /\ b[d].running => RunningOf(b) = {<<d, b[d].spec>>}
         /\ ~b[d].running => RunningOf(b) = {}
<1>1. ASSUME b[d].running PROVE RunningOf(b) = {<<d, b[d].spec>>}
  <2>1. {e \in Daemons : b[e].running} = {d}
    BY <1>1
  <2> QED BY <2>1 DEF RunningOf
<1>2. ASSUME ~b[d].running PROVE RunningOf(b) = {}
  <2>1. {e \in Daemons : b[e].running} = {}
    BY <1>2
  <2> QED BY <2>1 DEF RunningOf
<1> QED BY <1>1, <1>2

LEMMA StepRunsOnePassed ==
  ASSUME Apart, Typed, Typed', Judged, Placed, Bounds, Passed, [Next]_vars
  PROVE  [Target!Next]_Running
<1>a. Running = RunningOf(box) /\ Running' = RunningOf(box')
  BY DEF Running, RunningOf
<1>1. CASE DevcontainerUp
  <2> DEFINE d == runner.daemon
             b == box'[d]
  <2>1. d \in Daemons /\ \A e \in Daemons \ {d} : ~box[e].running /\ ~box'[e].running
    BY <1>1, BoxMoves DEF Typed, Runners, Placed, Settled, DevcontainerUp, At
  <2>2. b.running /\ b.spec \in Specs /\ Passes(b.spec, d) /\ (box[d].running => b.spec = box[d].spec)
    BY <1>1, UpIsBounded
  <2>3. Running' = {<<d, b.spec>>}
    BY <1>a, <2>1, <2>2, OneRuns
  <2>4. CASE box[d].running
    BY <1>a, <2>1, <2>2, <2>3, <2>4, OneRuns
  <2>5. CASE ~box[d].running
    <3>1. Running = {}
      BY <1>a, <2>1, <2>5, OneRuns
    <3>2. <<d, b.spec>> \in {p \in Daemons \X Specs : Asks[p[2]] \intersect Refused[p[1]] = {}}
      BY <2>1, <2>2 DEF Passes
    <3> HIDE DEF Running
    <3> QED BY <2>3, <3>1, <3>2 DEF Target!Next, Target!Up
  <2> QED BY <2>4, <2>5
<1>2. CASE ~DevcontainerUp
  <2>1. \A d \in Daemons : box'[d].running => box'[d] = box[d]
    BY <1>2, OnlyUpStarts, LessIsWeaker
  <2>2. saved \in Daemons /\ \A e \in Daemons \ {saved} : ~box[e].running
    BY DEF Typed, Placed, RunsWhereSaved
  <2>3. \A e \in Daemons \ {saved} : ~box'[e].running
    BY <2>1, <2>2
  <2>4. CASE box'[saved].running
    <3>1. box'[saved] = box[saved]
      BY <2>1, <2>2, <2>4
    <3>2. RunningOf(box') = {<<saved, box'[saved].spec>>}
      BY <2>2, <2>3, <2>4, OneRuns
    <3>3. RunningOf(box) = {<<saved, box[saved].spec>>}
      BY <2>2, <2>4, <3>1, OneRuns
    <3> QED BY <1>a, <3>1, <3>2, <3>3
  <2>5. CASE ~box'[saved].running
    <3>1. Running' = {}
      BY <1>a, <2>2, <2>3, <2>5, OneRuns
    <3> QED BY <3>1 DEF Target!Next, Target!Down
  <2> QED BY <2>4, <2>5
<1> QED BY <1>1, <1>2

(* A start refines Runs: the target runs as one container at most, from a  *)
(* spec the policy passes where it runs, and none gives way to another but *)
(* by going down first (desolate.ts, migrateOffTheSharedDaemon and         *)
(* migrateOffItsOwnDaemon).                                                *)
THEOREM StartsImplementsRuns ==
  ASSUME Apart, ~Overtakes
  PROVE  Spec => RunsOnePassed
<1>1. Init => Target!Init
  <2> SUFFICES ASSUME Init PROVE Running = {}
    BY DEF Target!Init
  <2>1. {e \in Daemons : box[e].running} = {}
    BY InitHolds
  <2> QED BY <2>1 DEF Running
<1>2. Typed /\ Typed' /\ Judged /\ Placed /\ Bounds /\ Passed /\ [Next]_vars => [Target!Next]_Running
  BY StepRunsOnePassed
<1> QED
  BY <1>1, <1>2, TypedHolds, JudgedHolds, PlacedHolds, BoundsHold, PTL DEF Spec, RunsOnePassed, Target!Spec
=============================================================================
