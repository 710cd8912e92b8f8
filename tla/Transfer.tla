-------------------------------- MODULE Transfer --------------------------------
(***************************************************************************)
(* transfer.ts and the two sandbox scripts of docker.ts: a branch going    *)
(* between a project and its repository, through the editor's cache of it. *)
(*                                                                         *)
(* Several pushes and pulls of one registration may be asked for at once;  *)
(* a lock file named after the registration lets one of them through.  The *)
(* project's side runs in its sandbox, in one step each; commits go there  *)
(* and back as bundles that leave out what the other side is known, or     *)
(* guessed, to have.  Meanwhile agents commit, others push, the project    *)
(* forgets what no ref reaches, and a process may be killed anywhere.      *)
(***************************************************************************)
EXTENDS Integers, FiniteSets

CONSTANTS
  Commits,      (* the commits there may be                                *)
  Parents,      (* per commit, its parents                                 *)
  Anc,          (* per commit, itself and its ancestors                    *)
  Branches,     (* the repository's branches                               *)
  Branch,       (* the one checked out in the project                      *)
  Absent,       (* no commit                                               *)
  Budget,       (* bound: calls, kills and moves of others there may be    *)
  Procs         (* the pids a push or a pull of the editor's may have      *)

VARIABLES
  remote,       (* GitHub's branches                                       *)
  cacheRefs, cacheHas,  (* the cache: its branches, and its commits        *)
  known,        (* commits the project is thought to have                  *)
  origin, head, projHas,(* the project: origin/*, its branch, its commits  *)
  lockFile,     (* whose the lock file is, and whether it says so          *)
  proc,         (* per pid, the process that has it                        *)
  left,         (* of the Budget                                           *)
  stolen        (* ghost: a lock was removed, and another had been judged  *)

vars == <<remote, cacheRefs, cacheHas, known, origin, head, projHas, lockFile, proc, left, stolen>>
cache == <<cacheRefs, cacheHas, known>>
project == <<origin, head, projHas>>
locks == <<lockFile, stolen>>

Nobody == "nobody"
Free == [by |-> Nobody, said |-> FALSE]

Maybe == Commits \union {Absent}
Closure(C) == UNION {Anc[c] : c \in C}
Tips(refs) == {refs[b] : b \in Branches} \ {Absent}
Within(c, d) == c = Absent \/ (d # Absent /\ c \in Anc[d])

None == [pc |-> "none", op |-> "none", tried |-> FALSE, expect |-> Absent,
         commit |-> Absent, haves |-> {}, bundle |-> {}, full |-> FALSE,
         refs |-> [b \in Branches |-> Absent], same |-> TRUE]
Working == {"refresh", "haves", "bundle", "fetch", "push", "update", "remember",
            "handover", "take", "failed", "done"}

TypeOK ==
  /\ {remote, cacheRefs, origin} \subseteq [Branches -> Maybe]
  /\ cacheHas \subseteq Commits /\ known \subseteq Commits /\ projHas \subseteq Commits
  /\ head \in Commits
  /\ lockFile \in [by : Procs \union {Nobody}, said : BOOLEAN]
  /\ \A p \in Procs : /\ proc[p].pc \in {"none", "open", "write", "read", "judge"} \union Working
                      /\ {proc[p].expect, proc[p].commit} \subseteq Maybe
  /\ left \in 0..Budget /\ stolen \in BOOLEAN

(* A project `repo add` has cloned through its cache has what the cache    *)
(* was filled with.  It may have got more since, of branches forced back   *)
(* on GitHub, and have forgotten it: the cache has not.                    *)
Init ==
  \E r, c \in Commits :
    /\ Parents[r] = {}
    /\ remote = [b \in Branches |-> r]
    /\ cacheRefs = remote /\ cacheHas = Anc[c] \union {r} /\ known = cacheHas
    /\ origin = remote /\ head = r /\ projHas = {r}
    /\ lockFile = Free /\ stolen = FALSE
    /\ proc = [p \in Procs |-> None] /\ left = Budget

-----------------------------------------------------------------------------
At(p, pc) == proc[p].pc = pc
Go(p, pc) == proc' = [proc EXCEPT ![p] = [@ EXCEPT !.pc = pc]]
Alive(p) == proc[p].pc # "none"
Holds(p) == proc[p].pc \in Working
Spend == left > 0 /\ left' = left - 1

(* What is reviewed first is the branch as it is then. *)
Begin(p, op, reviewed) ==
  /\ At(p, "none")
  /\ proc' = [proc EXCEPT ![p] = [None EXCEPT !.pc = "open", !.op = op,
                !.expect = IF reviewed THEN head ELSE Absent]]
  /\ UNCHANGED <<remote, cache, project, locks>>

(* openCache: the file is made with O_EXCL, and says whose it is next.     *)
CreateLock(p) ==
  /\ At(p, "open") /\ lockFile = Free
  /\ lockFile' = [by |-> p, said |-> FALSE]
  /\ proc' = [q \in Procs |-> IF q = p THEN [proc[q] EXCEPT !.pc = "write"]
                ELSE [proc[q] EXCEPT !.same = @ /\ proc[q].pc # "judge"]]
  /\ UNCHANGED <<remote, cache, project, stolen>>
WriteLock(p) ==
  /\ At(p, "write")
  /\ lockFile' = IF lockFile.by = p THEN [lockFile EXCEPT !.said = TRUE] ELSE lockFile
  /\ Go(p, "refresh")
  /\ UNCHANGED <<remote, cache, project, stolen>>
(* A lock that is there is read, the first time; the second time is the    *)
(* last.                                                                   *)
Held(p) ==
  /\ At(p, "open") /\ lockFile # Free
  /\ proc' = [proc EXCEPT ![p] = IF proc[p].tried THEN None ELSE [@ EXCEPT !.pc = "read"]]
  /\ UNCHANGED <<remote, cache, project, locks>>

(* The fault to seed: a lock is taken over whoever's it is.                *)
AlwaysStale(p, lock) == TRUE
(* Number("") is 0, and signal 0 to pid 0 reaches the group: an empty file *)
(* reads as a holder that is alive.                                        *)
Stale(p, lock) == lock.said /\ (lock.by = p \/ ~Alive(lock.by))
ReadLock(p) ==
  /\ At(p, "read") /\ lockFile # Free
  /\ proc' = [proc EXCEPT ![p] = IF Stale(p, lockFile)
                THEN [@ EXCEPT !.pc = "judge"] ELSE None]
  /\ UNCHANGED <<remote, cache, project, locks>>
LockVanished(p) ==
  /\ At(p, "read") /\ lockFile = Free
  /\ proc' = [proc EXCEPT ![p] = None]
  /\ UNCHANGED <<remote, cache, project, locks>>
(* Removed by name, whatever it says by now. *)
RemoveStale(p) ==
  /\ At(p, "judge")
  /\ stolen' = (stolen \/ ~proc[p].same)
  /\ lockFile' = Free
  /\ proc' = [proc EXCEPT ![p] = [@ EXCEPT !.pc = "open", !.tried = TRUE, !.same = TRUE]]
  /\ UNCHANGED <<remote, cache, project>>

(* The end, good or bad, removes the lock by name.  A push goes on with a  *)
(* pull that only fetches.                                                 *)
Release(p) ==
  /\ Holds(p)
  /\ lockFile' = Free
  /\ proc' = [proc EXCEPT ![p] = IF At(p, "done") /\ proc[p].op = "push"
                THEN [None EXCEPT !.pc = "open", !.op = "fetch"] ELSE None]
  /\ UNCHANGED <<remote, cache, project, stolen>>
Killed(p) ==
  /\ Alive(p)
  /\ proc' = [proc EXCEPT ![p] = None]
  /\ UNCHANGED <<remote, cache, project, locks>>

-----------------------------------------------------------------------------
(* refresh: every branch as GitHub has it, and none it has not.            *)
Refresh(p) ==
  /\ At(p, "refresh")
  /\ cacheRefs' = remote
  /\ cacheHas' = cacheHas \union Closure(Tips(remote))
  /\ proc' = [proc EXCEPT ![p] = [@ EXCEPT !.refs = remote,
                !.pc = IF proc[p].op = "push" THEN "haves" ELSE "handover"]]
  /\ UNCHANGED <<remote, known, project, locks>>

(* pushBranch: what the sandbox may leave out, of what the cache has.      *)
Haves(p) ==
  /\ At(p, "haves")
  /\ proc' = [proc EXCEPT ![p] = [@ EXCEPT !.pc = "bundle",
                !.haves = (Tips(cacheRefs) \union known) \intersect cacheHas]]
  /\ UNCHANGED <<remote, cache, project, locks>>
(* bundleScript: the branch, less what the project has of that. *)
SandboxBundles(p) ==
  /\ At(p, "bundle")
  /\ proc' = [proc EXCEPT ![p] = [@ EXCEPT !.pc = "fetch", !.commit = head, !.haves = {},
                !.bundle = Anc[head] \ Closure(proc[p].haves \intersect projHas)]]
  /\ UNCHANGED <<remote, cache, project, locks>>

(* The fault to seed: what was reviewed is not compared.                   *)
AnythingExpected(p) == TRUE
AsExpected(p) == proc[p].expect \in {Absent, proc[p].commit}
(* The fault to seed: a bundle is taken without what it builds on.         *)
FitsAnywhere(bundle, has) == TRUE
(* git takes a bundle only where the commits it builds on are.             *)
Fits(bundle, has) == (UNION {Parents[c] : c \in bundle}) \ bundle \subseteq has
FetchBundle(p) ==
  /\ At(p, "fetch") /\ AsExpected(p)
  /\ Fits(proc[p].bundle, cacheHas)
  /\ proc[p].commit \in cacheHas \union proc[p].bundle
  /\ cacheHas' = cacheHas \union proc[p].bundle
  /\ proc' = [proc EXCEPT ![p] = [@ EXCEPT !.pc = "push", !.bundle = {}, !.refs = None.refs]]
  /\ UNCHANGED <<remote, cacheRefs, known, project, locks>>

(* GitHub takes a fast-forward only. *)
PushCommit(p) ==
  /\ At(p, "push") /\ Within(remote[Branch], proc[p].commit)
  /\ remote' = [remote EXCEPT ![Branch] = proc[p].commit]
  /\ Go(p, "update")
  /\ UNCHANGED <<cache, project, locks>>
(* The cache's copy of GitHub follows: an update-ref of a commit that is   *)
(* not there fails, and is not looked at.                                  *)
UpdateRef(p) ==
  /\ At(p, "update")
  /\ cacheRefs' = IF proc[p].commit \in cacheHas
                  THEN [cacheRefs EXCEPT ![Branch] = proc[p].commit] ELSE cacheRefs
  /\ Go(p, "remember")
  /\ UNCHANGED <<remote, cacheHas, known, project, locks>>
(* remember, with room for all of it. *)
Remember(p) ==
  /\ At(p, "remember")
  /\ known' = known \union
       (IF proc[p].op = "push" THEN {proc[p].commit} ELSE Tips(proc[p].refs))
  /\ Go(p, "done")
  /\ UNCHANGED <<remote, cacheRefs, cacheHas, project, locks>>

-----------------------------------------------------------------------------
(* pull's handOver: everything, less what the project is thought to have,  *)
(* unless that was wrong.                                                  *)
HandOver(p) ==
  /\ At(p, "handover") /\ Tips(proc[p].refs) # {}
  /\ proc' = [proc EXCEPT ![p] = [@ EXCEPT !.pc = "take",
                !.bundle = Closure(Tips(cacheRefs)) \
                           (IF proc[p].full THEN {} ELSE Closure(known \intersect cacheHas))]]
  /\ UNCHANGED <<remote, cache, project, locks>>

(* pullScript: the bundle is verified, every branch's commit is there, and *)
(* only then does origin/* change.                                         *)
Suffices(p) ==
  /\ Fits(proc[p].bundle, projHas)
  /\ Tips(proc[p].refs) \subseteq projHas \union proc[p].bundle
NeedsFull(p) ==
  /\ At(p, "take") /\ ~Suffices(p) /\ ~proc[p].full
  /\ projHas' = projHas \union (IF Fits(proc[p].bundle, projHas) THEN proc[p].bundle ELSE {})
  /\ proc' = [proc EXCEPT ![p] = [@ EXCEPT !.pc = "handover", !.full = TRUE]]
  /\ UNCHANGED <<remote, cache, origin, head, locks>>

FastForwards(c) == c # Absent /\ Within(head, c)
(* The branch checked out is fast-forwarded, unless something is in the    *)
(* way or only a fetch was asked for.                                      *)
SandboxTakes(p, merges) ==
  /\ At(p, "take") /\ Suffices(p)
  /\ projHas' = projHas \union proc[p].bundle
  /\ origin' = proc[p].refs
  /\ merges => proc[p].op = "pull" /\ FastForwards(proc[p].refs[Branch])
  /\ head' = IF merges THEN proc[p].refs[Branch] ELSE head
  /\ Go(p, "remember")
  /\ UNCHANGED <<remote, cache, locks>>
(* The sandbox is cut off with some of the refs written. *)
SandboxCut(p, some) ==
  /\ At(p, "take") /\ Suffices(p)
  /\ projHas' = projHas \union proc[p].bundle
  /\ origin' = [b \in Branches |-> IF b \in some THEN proc[p].refs[b] ELSE origin[b]]
  /\ Go(p, "failed")
  /\ UNCHANGED <<remote, cache, head, locks>>

-----------------------------------------------------------------------------
(* An agent commits, and goes back; others push, force and delete.        *)
AgentMoves(c) ==
  /\ c \in projHas \/ Parents[c] = {head}
  /\ head' = c /\ projHas' = projHas \union {c}
  /\ UNCHANGED <<remote, cache, origin, locks, proc>>
OthersPush(b, c) ==
  /\ c # remote[b]
  /\ remote' = [remote EXCEPT ![b] = c]
  /\ UNCHANGED <<cache, project, locks, proc>>
(* gc drops what no ref of the project reaches. *)
Forget ==
  /\ projHas' = Closure(Tips(origin) \union {head})
  /\ UNCHANGED <<remote, cache, origin, head, locks, proc>>

Step(p) ==
  \/ CreateLock(p) \/ WriteLock(p) \/ Held(p) \/ ReadLock(p) \/ LockVanished(p)
  \/ RemoveStale(p) \/ Refresh(p) \/ Haves(p) \/ SandboxBundles(p)
  \/ FetchBundle(p) \/ PushCommit(p) \/ UpdateRef(p) \/ Remember(p)
  \/ HandOver(p) \/ NeedsFull(p)
  \/ \E merges \in BOOLEAN : SandboxTakes(p, merges)
  \/ \E some \in SUBSET Branches : SandboxCut(p, some)
  \/ Release(p)

Next ==
  \/ \E p \in Procs : Step(p) /\ UNCHANGED left
  \/ Spend /\ \/ \E p \in Procs : \/ Killed(p)
                                   \/ \E reviewed \in BOOLEAN : Begin(p, "push", reviewed)
                                   \/ Begin(p, "pull", FALSE)
              \/ \E c \in Commits : AgentMoves(c)
              \/ \E b \in Branches, c \in Maybe : OthersPush(b, c)
              \/ Forget

Spec == Init /\ [][Next]_vars

-----------------------------------------------------------------------------
(* Whatever was guessed of the project, and however stale the guess, every *)
(* origin/* it is left with has its whole history there, and so does what  *)
(* it has checked out: a pull is never half a repository.                  *)
OriginIsWhole == Closure(Tips(origin) \union {head}) \subseteq projHas

(* A push of what was reviewed puts that commit on GitHub and no other,    *)
(* though the branch may have moved since; and a pull moves the branch     *)
(* checked out only along its own history, leaving no agent's commit.      *)
CommitsGoWhereSaid ==
  [][proc' # proc =>
       /\ Within(head, head')
       /\ \A p \in Procs : At(p, "push") /\ proc'[p].pc = "update" =>
            proc[p].expect = Absent \/ remote'[Branch] = proc[p].expect]_vars

(* Two of them work on one registration's cache only when a lock made      *)
(* between one's judging the last stale and its removing it went with it.  *)
OneUnlessStolen ==
  stolen \/ \A p, q \in Procs : Holds(p) /\ Holds(q) => p = q

(* transfer.ts:266: a lock whose process is gone is taken over.  So one    *)
(* that is told of another push or pull is told of one that is there.      *)
RefusedByTheLiving ==
  \A p \in Procs : At(p, "read") /\ lockFile # Free /\ ~Stale(p, lockFile) =>
    \E q \in Procs \ {p} : Alive(q)
=============================================================================
