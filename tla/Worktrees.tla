-------------------------------- MODULE Worktrees --------------------------------
(***************************************************************************)
(* worktrees.ts and its callers in desolate.ts: the worktrees of one       *)
(* project, made, checked out, started and removed by scripts in a sandbox,*)
(* each worktree's operations one at a time under its target's lock.  The  *)
(* main tree has a lock of its own: its start decides, from files, whether *)
(* to hide `.worktrees`, which only a container it creates is given; a git *)
(* in that container may prune what it cannot see.                         *)
(* A runner may be killed, and its sandbox goes on; a sandbox may be cut.  *)
(***************************************************************************)
EXTENDS Integers, FiniteSets

CONSTANTS
  Ours,         (* the worktrees under .worktrees                          *)
  Others,       (* worktrees made elsewhere, without desolate              *)
  Wanted,       (* per worktree, the admin directories git would give it,  *)
                (* its own basename first                                  *)
  None          (* no admin directory, no worktree                         *)

Trees == Ours \union Others
Admins == UNION {{Wanted[t][i] : i \in DOMAIN Wanted[t]} : t \in Trees}

VARIABLES
  dir,          (* per worktree: no directory, only its .git file, files   *)
  pointer,      (* the admin directory its .git file names                 *)
  admin,        (* the admin directories: whose, indexed, locked           *)
  dirty,        (* worktrees that hold uncommitted work                    *)
  holder,       (* per worktree, the operation that holds its target       *)
  sandbox,      (* per worktree, the step its sandbox's script is at       *)
  up,           (* worktrees whose devcontainer runs                       *)
  main,         (* the main tree: its container and whether that hides     *)
                (* .worktrees; the start under way and what it has decided *)
  made,         (* .worktrees has been made                                *)
  risked,       (* ghost: of a container that hides .worktrees, those that *)
                (* were not locked when that was decided                   *)
  atStart,      (* ghost: of a start that decided to, those not locked then *)
  since         (* ghost: worktrees with work put there since they were    *)
                (* last asked what they hold                               *)

vars == <<dir, pointer, admin, dirty, holder, sandbox, up, main, made, risked, atStart, since>>
files == <<dir, pointer, admin, dirty, made>>

Gone == [of |-> None, index |-> FALSE, locked |-> FALSE]
Idle == [op |-> "none", force |-> FALSE]
Done == [at |-> "done", code |-> 0, force |-> FALSE]
NoBox == [box |-> "none", masked |-> FALSE, start |-> "none", mask |-> FALSE]

TypeOK ==
  /\ dir \in [Trees -> {"none", "bare", "files"}]
  /\ pointer \in [Trees -> Admins \union {None}]
  /\ admin \in [Admins -> [of : Trees \union {None}, index : BOOLEAN, locked : BOOLEAN]]
  /\ \A s \in {dirty, up, since} : s \subseteq Trees
  /\ risked \subseteq Ours /\ atStart \subseteq Ours
  /\ holder \in [Ours -> [op : {"none", "create", "checkout", "start", "asked", "remove"},
                          force : BOOLEAN]]
  /\ sandbox \in [Ours -> [at : {"done", "add", "lock", "checkout", "status",
                                 "unlock", "remove", "relock"},
                           code : 0..5, force : BOOLEAN]]
  /\ main \in [box : {"none", "stopped", "running"}, masked : BOOLEAN,
               start : {"none", "decided", "up"}, mask : BOOLEAN]
  /\ made \in BOOLEAN

Init ==
  /\ dir = [t \in Trees |-> "none"] /\ pointer = [t \in Trees |-> None]
  /\ admin = [n \in Admins |-> Gone]
  /\ dirty = {} /\ up = {} /\ risked = {} /\ atStart = {} /\ since = {}
  /\ holder = [w \in Ours |-> Idle] /\ sandbox = [w \in Ours |-> Done]
  /\ main = NoBox /\ made = FALSE

-----------------------------------------------------------------------------
(* What git says of a worktree: its admin directory names it. *)
Own(t) == {n \in Admins : admin[n].of = t}
Registered(t) == Own(t) # {}
SetLock(t, locked) ==
  admin' = [n \in Admins |-> IF n \in Own(t) THEN [admin[n] EXCEPT !.locked = locked]
                                             ELSE admin[n]]
(* What the files say of it: its own names the admin directory. *)
(* The fault to seed: the admin directory rebuilt from the basename. *)
AdminByName(t) == IF dir[t] = "none" THEN None ELSE Wanted[t][1]
AdminDirectory(t) == IF dir[t] = "none" THEN None ELSE pointer[t]
IsPopulated(t) == AdminDirectory(t) # None /\ admin[AdminDirectory(t)].index
AwaitsCheckout(t) ==
  AdminDirectory(t) # None /\ admin[AdminDirectory(t)].of # None /\ ~IsPopulated(t)
IsLocked(t) == AdminDirectory(t) # None /\ admin[AdminDirectory(t)].locked
Unlocked == {w \in Ours : dir[w] # "none" /\ ~IsLocked(w)}
Masks == made /\ Unlocked = {}

(* The fault to seed: what was never checked out is taken to be empty.     *)
RemovalUnlooked(w, force) ==
  CASE force -> "force" [] ~force /\ IsPopulated(w) -> "check" [] OTHER -> "nothing"
Removal(w, force) ==
  CASE force -> "force"
    [] ~force /\ IsPopulated(w) -> "check"
    [] ~force /\ ~IsPopulated(w) /\ dir[w] = "files" -> "refuse"
    [] OTHER -> "nothing"

-----------------------------------------------------------------------------
(* A runner: it takes its target, runs scripts in the target's sandbox --  *)
(* removing the one a crash left there first -- and goes by their exit.    *)
RunIn(w, at, force) ==
  sandbox' = [sandbox EXCEPT ![w] = [at |-> at, code |-> 0, force |-> force]]
Runs(w, op, force) == holder' = [holder EXCEPT ![w] = [op |-> op, force |-> force]]
Finished(w, op) == holder[w].op = op /\ sandbox[w].at = "done"

Create(w) ==
  /\ holder[w] = Idle /\ dir[w] = "none"
  /\ Runs(w, "create", FALSE) /\ RunIn(w, "add", FALSE)
  /\ UNCHANGED <<files, up, main, risked, atStart, since>>
CreateEnds(w) ==
  /\ Finished(w, "create")
  /\ holder' = [holder EXCEPT ![w] = Idle]
  /\ UNCHANGED <<files, sandbox, up, main, risked, atStart, since>>

(* A start checks out what awaits it, and goes on from what is there. *)
Start(w) ==
  /\ holder[w] = Idle /\ dir[w] # "none"
  /\ IF AwaitsCheckout(w) THEN Runs(w, "checkout", FALSE) /\ RunIn(w, "checkout", FALSE)
     ELSE Runs(w, "start", FALSE) /\ UNCHANGED sandbox
  /\ UNCHANGED <<files, up, main, risked, atStart, since>>
PopulateEnds(w) ==
  /\ Finished(w, "checkout")
  /\ holder' = [holder EXCEPT ![w].op = IF IsPopulated(w) THEN "start" ELSE "none"]
  /\ UNCHANGED <<files, sandbox, up, main, risked, atStart, since>>
(* With no files there is no devcontainer.json to start from. *)
StartEnds(w) ==
  /\ holder[w].op = "start"
  /\ holder' = [holder EXCEPT ![w] = Idle]
  /\ up' = IF dir[w] = "files" THEN up \union {w} ELSE up
  /\ UNCHANGED <<files, sandbox, main, risked, atStart, since>>
Stop(w) ==
  /\ holder[w] = Idle /\ w \in up
  /\ up' = up \ {w}
  /\ UNCHANGED <<files, holder, sandbox, main, risked, atStart, since>>

(* Removal: refused, asked in the sandbox, or gone ahead with.  Its purge  *)
(* takes the devcontainer first.                                           *)
Remove(w, force) ==
  /\ holder[w] = Idle /\ dir[w] # "none" /\ Removal(w, force) # "refuse"
  /\ IF Removal(w, force) = "check"
     THEN Runs(w, "asked", force) /\ RunIn(w, "status", force) /\ UNCHANGED up
     ELSE Runs(w, "remove", force) /\ RunIn(w, "unlock", force) /\ up' = up \ {w}
  /\ since' = since \ {w}
  /\ UNCHANGED <<files, main, risked, atStart>>
RemoveRefused(w) ==
  /\ Finished(w, "asked") /\ sandbox[w].code # 0
  /\ holder' = [holder EXCEPT ![w] = Idle]
  /\ UNCHANGED <<files, sandbox, up, main, risked, atStart, since>>
RemoveGoesOn(w) ==
  /\ Finished(w, "asked") /\ sandbox[w].code = 0
  /\ Runs(w, "remove", FALSE) /\ RunIn(w, "unlock", FALSE)
  /\ up' = up \ {w}
  /\ UNCHANGED <<files, main, risked, atStart, since>>
RemoveEnds(w) ==
  /\ Finished(w, "remove")
  /\ holder' = [holder EXCEPT ![w] = Idle]
  /\ UNCHANGED <<files, sandbox, up, main, risked, atStart, since>>

(* The runner is killed, and its target is free; or its sandbox is cut.    *)
KilledRunner(w) ==
  /\ holder[w] # Idle
  /\ holder' = [holder EXCEPT ![w] = Idle]
  /\ UNCHANGED <<files, sandbox, up, main, risked, atStart, since>>
SandboxCut(w) ==
  /\ sandbox[w].at # "done"
  /\ sandbox' = [sandbox EXCEPT ![w] = [Done EXCEPT !.code = 1]]
  /\ UNCHANGED <<files, holder, up, main, risked, atStart, since>>

-----------------------------------------------------------------------------
(* The scripts, a git command at a time.                                   *)
Exit(w, code) == sandbox' = [sandbox EXCEPT ![w] = [Done EXCEPT !.code = code]]
Then(w, at) == sandbox' = [sandbox EXCEPT ![w].at = at]
others == <<holder, up, main>>

(* git gives the worktree the first admin directory of its name there is   *)
(* not.                                                                    *)
Given(t, n) ==
  \E i \in DOMAIN Wanted[t] :
    /\ n = Wanted[t][i] /\ admin[n] = Gone
    /\ \A j \in 1..i - 1 : admin[Wanted[t][j]] # Gone
Adds(t, n, how) ==
  /\ dir[t] = "none" /\ Given(t, n)
  /\ dir' = [dir EXCEPT ![t] = how]
  /\ pointer' = [pointer EXCEPT ![t] = n]
  /\ admin' = [admin EXCEPT ![n] = [of |-> t, index |-> how = "files", locked |-> FALSE]]

ScriptAdds(w, n) ==
  /\ sandbox[w].at = "add" /\ Adds(w, n, "bare") /\ Then(w, "lock")
  /\ made' = TRUE /\ risked' = risked \ {w} /\ atStart' = atStart \ {w} /\ since' = since \ {w}
  /\ UNCHANGED <<dirty, others>>
ScriptLocks(w) ==
  /\ sandbox[w].at = "lock"
  /\ IF Registered(w)
     THEN SetLock(w, TRUE) /\ Exit(w, 0)
     ELSE UNCHANGED admin /\ Exit(w, 5)
  /\ UNCHANGED <<dir, pointer, dirty, made, others, risked, atStart, since>>

(* The checkout writes the files, then the index; it may fail. *)
ScriptChecksOut(w) ==
  /\ sandbox[w].at = "checkout" /\ Registered(w)
  /\ dir' = [dir EXCEPT ![w] = "files"]
  /\ admin' = [n \in Admins |-> IF n \in Own(w) THEN [admin[n] EXCEPT !.index = TRUE]
                                                ELSE admin[n]]
  /\ Exit(w, 0)
  /\ UNCHANGED <<pointer, dirty, made, others, risked, atStart, since>>
(* What git could not be asked is never read as clean. *)
ScriptReports(w) ==
  /\ sandbox[w].at = "status"
  /\ Exit(w, IF w \in dirty \/ admin[pointer[w]] = Gone THEN 3 ELSE 0)
  /\ since' = since \ {w}
  /\ UNCHANGED <<files, others, risked, atStart>>

ScriptUnlocks(w) ==
  /\ sandbox[w].at = "unlock"
  /\ SetLock(w, FALSE)
  /\ Then(w, "remove")
  /\ UNCHANGED <<dir, pointer, dirty, made, others, risked, atStart, since>>
ScriptRemoves(w) ==
  /\ sandbox[w].at = "remove" /\ Registered(w)
  /\ admin' = [n \in Admins |-> IF n \in Own(w) THEN Gone ELSE admin[n]]
  /\ \/ /\ dir' = [dir EXCEPT ![w] = "none"] /\ pointer' = [pointer EXCEPT ![w] = None]
        /\ dirty' = dirty \ {w} /\ Exit(w, 0)
     \/ dir[w] = "files" /\ Exit(w, 5) /\ UNCHANGED <<dir, pointer, dirty>>
  /\ UNCHANGED <<made, others, risked, atStart, since>>
(* git refuses, before it touches anything or because it knows no such     *)
(* worktree; in the first case it is locked again.                         *)
ScriptIsRefused(w) ==
  /\ sandbox[w].at = "remove"
  /\ IF Registered(w) THEN Then(w, "relock") ELSE Exit(w, 5)
  /\ UNCHANGED <<files, others, risked, atStart, since>>
ScriptRelocks(w) ==
  /\ sandbox[w].at = "relock"
  /\ SetLock(w, TRUE)
  /\ Exit(w, 4)
  /\ UNCHANGED <<dir, pointer, dirty, made, others, risked, atStart, since>>

-----------------------------------------------------------------------------
(* The main tree.  A start -- a rebuild takes the old container away first *)
(* -- decides the mask (deriveRunConfig), and then brings up the container *)
(* that is kept, as it was created, or creates one with that mask.         *)
Open == {w \in Ours : \E n \in Own(w) : ~admin[n].locked}
DecideMask(rebuild) ==
  /\ main.start = "none"
  /\ main' = [(IF rebuild THEN NoBox ELSE main) EXCEPT !.start = "decided", !.mask = Masks]
  /\ risked' = IF rebuild THEN {} ELSE risked
  /\ atStart' = IF Masks THEN Open ELSE {}
  /\ UNCHANGED <<files, holder, sandbox, up, since>>
Reused == [main EXCEPT !.box = "running", !.start = "up"]
Creates ==
  /\ main' = [Reused EXCEPT !.masked = main.mask]
  /\ risked' = IF main.mask THEN atStart ELSE {}
MainUp ==
  /\ main.start = "decided"
  /\ IF main.box = "none" THEN Creates ELSE main' = Reused /\ UNCHANGED risked
  /\ UNCHANGED <<files, holder, sandbox, up, atStart, since>>
(* The editor finds the container's mounts stale: it is created again.     *)
MainRecreated ==
  /\ main.start = "up" /\ main.box = "running"
  /\ Creates
  /\ UNCHANGED <<files, holder, sandbox, up, atStart, since>>
(* The start ends, is refused on its way, or is killed.                    *)
MainStartEnds ==
  /\ main.start # "none"
  /\ main' = [main EXCEPT !.start = "none", !.mask = FALSE]
  /\ atStart' = {}
  /\ UNCHANGED <<files, holder, sandbox, up, risked, since>>
(* A stop keeps the container (stop --all asks for no lock); a purge of    *)
(* the project takes it.                                                   *)
MainDown ==
  /\ main.box = "running"
  /\ main' = [main EXCEPT !.box = "stopped"]
  /\ UNCHANGED <<files, holder, sandbox, up, risked, atStart, since>>
MainPurged ==
  /\ main.box = "stopped" /\ main.start = "none" /\ up = {}
  /\ main' = NoBox /\ risked' = {}
  /\ UNCHANGED <<files, holder, sandbox, up, atStart, since>>

MainSteps ==
  \/ \E rebuild \in BOOLEAN : DecideMask(rebuild)
  \/ MainUp \/ MainRecreated \/ MainStartEnds \/ MainDown \/ MainPurged

(* git worktree prune, in the main tree: what is not locked and not seen.  *)
Prunable(n) ==
  /\ admin[n] # Gone /\ ~admin[n].locked
  /\ \/ dir[admin[n].of] = "none"
     \/ main.masked /\ admin[n].of \in Ours
Prune ==
  /\ main.box = "running" /\ \E n \in Admins : Prunable(n)
  /\ admin' = [n \in Admins |-> IF Prunable(n) THEN Gone ELSE admin[n]]
  /\ UNCHANGED <<dir, pointer, dirty, made, holder, sandbox, up, main, risked, atStart, since>>

(* Someone makes a worktree elsewhere, and may lock it; an agent, or a     *)
(* person in the editor, puts work in a worktree; it is committed.         *)
OtherAdds(t, n) ==
  /\ Adds(t, n, "files")
  /\ UNCHANGED <<dirty, made, holder, sandbox, up, main, risked, atStart, since>>
OtherLocks(t) ==
  /\ \E n \in Own(t) : ~admin[n].locked
  /\ SetLock(t, TRUE)
  /\ UNCHANGED <<dir, pointer, dirty, made, holder, sandbox, up, main, risked, atStart, since>>
Work(w) ==
  /\ dir[w] # "none"
  /\ dir' = [dir EXCEPT ![w] = "files"]
  /\ dirty' = dirty \union {w} /\ since' = since \union {w}
  /\ UNCHANGED <<pointer, admin, made, holder, sandbox, up, main, risked, atStart>>
Commit(w) ==
  /\ w \in dirty /\ IsPopulated(w)
  /\ dirty' = dirty \ {w}
  /\ UNCHANGED <<dir, pointer, admin, made, holder, sandbox, up, main, risked, atStart, since>>

Next ==
  \/ \E w \in Ours :
       \/ Create(w) \/ CreateEnds(w) \/ Start(w) \/ PopulateEnds(w) \/ StartEnds(w)
       \/ Stop(w) \/ RemoveRefused(w) \/ RemoveGoesOn(w) \/ RemoveEnds(w)
       \/ \E force \in BOOLEAN : Remove(w, force)
       \/ KilledRunner(w) \/ SandboxCut(w)
       \/ \E n \in Admins : ScriptAdds(w, n)
       \/ ScriptLocks(w) \/ ScriptChecksOut(w) \/ ScriptReports(w) \/ ScriptUnlocks(w)
       \/ ScriptRemoves(w) \/ ScriptIsRefused(w) \/ ScriptRelocks(w)
       \/ Work(w) \/ Commit(w)
  \/ \E t \in Others : OtherLocks(t) \/ \E n \in Admins : OtherAdds(t, n)
  \/ MainSteps \/ Prune

Spec == Init /\ [][Next]_vars

-----------------------------------------------------------------------------
(* A container that hides the worktrees, through however many stops and    *)
(* starts, prunes none that was open when it was decided to hide them:     *)
(* only one made, or unlocked, since.  (The lock looked for is the         *)
(* worktree's own, whatever git called its directory.)                     *)
SparesTheOpen ==
  \A w \in Ours : Registered(w) /\ ~Registered(w)' /\ main.masked /\ dir'[w] # "none" =>
    w \notin risked \/ sandbox[w].at = "remove"
PrunesNoneThatWasOpen == [][SparesTheOpen]_vars

(* Work in a worktree goes with it only if that was said, or if it was put *)
(* there after the worktree had been asked what it holds: whatever became  *)
(* of its admin directory meanwhile.                                       *)
SaidOrPutThereSince ==
  \A w \in Ours : w \in dirty /\ dir'[w] = "none" => sandbox[w].force \/ w \in since
WorkGoesOnlyIfSaid == [][SaidOrPutThereSince]_vars

(* worktrees.ts:220: a worktree whose devcontainer runs is not pruned.     *)
RunningIsNotPruned ==
  [][\A w \in Ours : w \in up /\ Registered(w) => Registered(w)' \/ sandbox[w].at = "remove"]_vars

(* worktrees.ts:220, "Only when every worktree is LOCKED, and that         *)
(* condition is the whole safety argument": no start of the main tree that *)
(* found one open brings it up hidden.  One that keeps its container does. *)
RestartLooksAgain == main.start = "up" /\ main.masked => main.mask

(* desolate.ts:1804: a removal that was not forced loses nothing.          *)
RemovalLosesNothing ==
  [][\A w \in Ours : w \in dirty /\ dir'[w] = "none" => sandbox[w].force]_vars
=============================================================================
