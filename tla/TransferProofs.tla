----------------------------- MODULE TransferProofs -----------------------------
(* What holds of Transfer for every history of commits, and any number of  *)
(* branches and of processes.                                              *)
EXTENDS Transfer, TLAPS

(* Anc is what Parents makes it: the least that holds a commit, and the    *)
(* parents of whatever it holds.                                           *)
History ==
  /\ Parents \in [Commits -> SUBSET Commits] /\ Anc \in [Commits -> SUBSET Commits]
  /\ \A c \in Commits : c \in Anc[c] /\ \A d \in Anc[c] : Parents[d] \subseteq Anc[c]
  /\ \A S \in SUBSET Commits :
       (\A c \in S : Parents[c] \subseteq S) => \A c \in S : Anc[c] \subseteq S
Constants ==
  /\ History
  /\ Branch \in Branches /\ Absent \notin Commits /\ Nobody \notin Procs /\ Budget \in Nat

Pcs == {"none", "open", "write", "read", "judge"} \union Working
Refs == [Branches -> Maybe]
(* What is pushed is a commit, and what is handed over is no push's. *)
Calls ==
  {c \in [pc : Pcs, op : {"none", "push", "pull", "fetch"}, tried : BOOLEAN, expect : Maybe,
           commit : Maybe, haves : SUBSET Commits, bundle : SUBSET Commits, full : BOOLEAN,
           refs : Refs, same : BOOLEAN] :
     /\ (c.pc \in {"fetch", "push", "update"} \/ (c.pc = "remember" /\ c.op = "push")) =>
          c.commit \in Commits
     /\ c.pc \in {"handover", "take"} => c.op # "push"}
Typed ==
  /\ remote \in Refs /\ cacheRefs \in Refs /\ origin \in Refs
  /\ cacheHas \in SUBSET Commits /\ known \in SUBSET Commits /\ projHas \in SUBSET Commits
  /\ head \in Commits
  /\ lockFile \in [by : Procs \union {Nobody}, said : BOOLEAN]
  /\ proc \in [Procs -> Calls]
  /\ left \in 0..Budget /\ stolen \in BOOLEAN

-----------------------------------------------------------------------------
(* What each step makes of the process that takes it, and of the others.   *)

Only(p, pc) ==
  /\ proc' \in [Procs -> Calls] /\ proc'[p].pc = pc
  /\ \A q \in Procs \ {p} : proc'[q] = proc[q]
Keeps(p, pc) == /\ Only(p, pc) /\ proc'[p].expect = proc[p].expect
                /\ proc'[p].commit = proc[p].commit /\ proc'[p].same = proc[p].same

LEMMA NoneIsACall ==
  ASSUME Constants
  PROVE  None \in Calls /\ None.pc = "none" /\ None.same /\ None.expect = Absent /\ Free.by = Nobody
         /\ Free \in [by : Procs \union {Nobody}, said : BOOLEAN]
BY DEF None, Calls, Pcs, Refs, Maybe, Free

LEMMA ClosureIsOfCommits ==
  ASSUME Constants, NEW C \in SUBSET Maybe, Absent \notin C
  PROVE  Closure(C) \in SUBSET Commits
BY DEF Closure, Constants, History, Maybe
LEMMA TipsAreCommits ==
  ASSUME Constants, NEW refs \in Refs
  PROVE  Tips(refs) \in SUBSET Commits /\ Closure(Tips(refs)) \in SUBSET Commits
<1>1. Tips(refs) \in SUBSET Commits
  BY DEF Tips, Refs, Maybe
<1> QED BY <1>1, ClosureIsOfCommits DEF Maybe, Constants

(* The lock's steps. *)
LEMMA LockMoves ==
  ASSUME Constants, Typed, NEW p \in Procs
  PROVE  /\ WriteLock(p) => Keeps(p, "refresh")
         /\ Held(p) => Only(p, "none") \/ Keeps(p, "read")
         /\ ReadLock(p) => Only(p, "none") \/ (Keeps(p, "judge") /\ Stale(p, lockFile))
         /\ LockVanished(p) => Only(p, "none")
         /\ RemoveStale(p) => Only(p, "open")
         /\ Release(p) => Only(p, "none") \/ Only(p, "open")
         /\ Killed(p) => Only(p, "none")
         /\ \A op \in {"push", "pull"}, reviewed \in BOOLEAN : Begin(p, op, reviewed) => Only(p, "open")
<1>a. proc[p] \in Calls /\ proc \in [Procs -> Calls] /\ head \in Maybe
  BY DEF Typed, Maybe
<1> USE <1>a, NoneIsACall DEF Only, Keeps, Go, Calls, Pcs, Working, At
<1> HIDE DEF None, Maybe, Refs, Free, Stale
<1>1. WriteLock(p) => Keeps(p, "refresh")
  BY DEF WriteLock
<1>2. Held(p) => Only(p, "none") \/ Keeps(p, "read")
  BY DEF Held
<1>3. ReadLock(p) => Only(p, "none") \/ (Keeps(p, "judge") /\ Stale(p, lockFile))
  BY DEF ReadLock
<1>4. LockVanished(p) => Only(p, "none")
  BY DEF LockVanished
<1>5. RemoveStale(p) => Only(p, "open")
  <2> SUFFICES ASSUME RemoveStale(p) PROVE Only(p, "open")
    OBVIOUS
  <2>1. proc' = [proc EXCEPT ![p] = [proc[p] EXCEPT !.pc = "open", !.tried = TRUE, !.same = TRUE]]
    BY DEF RemoveStale
  <2> QED BY <2>1
<1>6. Release(p) => Only(p, "none") \/ Only(p, "open")
  <2> SUFFICES ASSUME Release(p) PROVE Only(p, "none") \/ Only(p, "open")
    OBVIOUS
  <2>1. \/ proc' = [proc EXCEPT ![p] = [None EXCEPT !.pc = "open", !.op = "fetch"]]
        \/ proc' = [proc EXCEPT ![p] = None]
    BY Zenon DEF Release
  <2>2. CASE proc' = [proc EXCEPT ![p] = [None EXCEPT !.pc = "open", !.op = "fetch"]]
    BY <2>2
  <2>3. CASE proc' = [proc EXCEPT ![p] = None]
    BY <2>3
  <2> QED BY <2>1, <2>2, <2>3
<1>7. Killed(p) => Only(p, "none")
  BY DEF Killed
<1>8. ASSUME NEW op \in {"push", "pull"}, NEW reviewed \in BOOLEAN, Begin(p, op, reviewed)
      PROVE  Only(p, "open")
  <2> DEFINE expect == IF reviewed THEN head ELSE Absent
  <2>1. expect \in Maybe
    BY DEF Maybe
  <2>2. proc' = [proc EXCEPT ![p] = [None EXCEPT !.pc = "open", !.op = op, !.expect = expect]]
    BY <1>8 DEF Begin
  <2> HIDE DEF expect
  <2> QED BY <2>1, <2>2
<1> QED BY <1>1, <1>2, <1>3, <1>4, <1>5, <1>6, <1>7, <1>8, Zenon

(* The lock is made once, and whoever was judging the last sees another.   *)
LEMMA CreateMoves ==
  ASSUME Constants, Typed, NEW p \in Procs, CreateLock(p)
  PROVE  /\ proc' \in [Procs -> Calls] /\ proc'[p].pc = "write"
         /\ proc'[p].expect = proc[p].expect /\ proc'[p].commit = proc[p].commit
         /\ \A q \in Procs \ {p} :
              /\ proc'[q].pc = proc[q].pc /\ proc'[q].expect = proc[q].expect
              /\ proc'[q].commit = proc[q].commit /\ (proc[q].pc = "judge" => ~proc'[q].same)
<1> DEFINE seen(q) == IF q = p THEN [proc[q] EXCEPT !.pc = "write"]
                      ELSE [proc[q] EXCEPT !.same = proc[q].same /\ proc[q].pc # "judge"]
<1>1. proc' = [q \in Procs |-> seen(q)]
  BY DEF CreateLock
<1>2. ASSUME NEW q \in Procs PROVE seen(q) \in Calls
  <2>1. proc[q] \in Calls
    BY DEF Typed
  <2>2. (proc[q].same /\ proc[q].pc # "judge") \in BOOLEAN
    OBVIOUS
  <2> QED BY <2>1, <2>2 DEF Calls, Pcs
<1>3. seen(p).pc = "write" /\ seen(p).expect = proc[p].expect /\ seen(p).commit = proc[p].commit
  BY DEF Typed, Calls
<1>4. ASSUME NEW q \in Procs \ {p}
      PROVE  /\ seen(q).pc = proc[q].pc /\ seen(q).expect = proc[q].expect
             /\ seen(q).commit = proc[q].commit /\ (proc[q].pc = "judge" => ~seen(q).same)
  BY DEF Typed, Calls
<1> HIDE DEF seen
<1> QED BY <1>1, <1>2, <1>3, <1>4

(* The work's. *)
LEMMA WorkMoves ==
  ASSUME Constants, Typed, NEW p \in Procs
  PROVE  /\ Refresh(p) => Only(p, "haves") \/ Only(p, "handover")
         /\ Haves(p) => Only(p, "bundle")
         /\ SandboxBundles(p) => Only(p, "fetch")
         /\ FetchBundle(p) => Keeps(p, "push")
         /\ PushCommit(p) => Keeps(p, "update")
         /\ UpdateRef(p) => Only(p, "remember")
         /\ Remember(p) => Only(p, "done")
         /\ HandOver(p) => Only(p, "take")
         /\ NeedsFull(p) => Only(p, "handover")
         /\ \A merges \in BOOLEAN : SandboxTakes(p, merges) => Only(p, "remember")
         /\ \A some \in SUBSET Branches : SandboxCut(p, some) => Only(p, "failed")
<1>a. proc[p] \in Calls /\ proc \in [Procs -> Calls] /\ head \in Maybe /\ None.refs \in Refs
  BY NoneIsACall DEF Typed, Maybe, Calls
<1>b. Working \subseteq Pcs
  BY DEF Pcs
<1>c. ASSUME NEW r \in Calls, proc' = [proc EXCEPT ![p] = r]
      PROVE  Only(p, r.pc) /\ (r.expect = proc[p].expect /\ r.commit = proc[p].commit
                               /\ r.same = proc[p].same => Keeps(p, r.pc))
  BY <1>a, <1>c DEF Only, Keeps
<1>d. ASSUME NEW pc \in Working, Go(p, pc),
             \/ pc \in {"failed", "done"} \/ (pc \in {"update", "remember"} /\ proc[p].commit \in Commits)
             \/ (pc = "remember" /\ proc[p].op # "push")
      PROVE  Keeps(p, pc)
  <2> DEFINE r == [proc[p] EXCEPT !.pc = pc]
  <2>1. r \in Calls /\ r.pc = pc /\ r.expect = proc[p].expect /\ r.commit = proc[p].commit
        /\ r.same = proc[p].same
    BY <1>a, <1>b, <1>d DEF Calls
  <2>2. proc' = [proc EXCEPT ![p] = r]
    BY <1>d DEF Go
  <2> HIDE DEF r
  <2> QED BY <1>c, <2>1, <2>2
<1>e. {"haves", "handover", "bundle", "fetch", "push", "update", "remember", "done", "take", "failed"}
        \subseteq Working
  BY DEF Working
<1>f. ASSUME NEW refs \in Refs PROVE Closure(Tips(refs)) \in SUBSET Commits
  BY TipsAreCommits
<1> HIDE DEF Pcs, Refs, Maybe, Working, Constants, None
<1>1. ASSUME Refresh(p) PROVE Only(p, "haves") \/ Only(p, "handover")
  <2> DEFINE pc == IF proc[p].op = "push" THEN "haves" ELSE "handover"
             r == [proc[p] EXCEPT !.refs = remote, !.pc = pc]
  <2>1. /\ pc \in {"haves", "handover"} /\ pc \in Pcs /\ remote \in Refs
        /\ pc = "handover" => proc[p].op # "push"
    BY <1>b, <1>e DEF Typed
  <2>2. proc' = [proc EXCEPT ![p] = r]
    BY <1>1 DEF Refresh
  <2> HIDE DEF pc
  <2>3. r \in Calls /\ r.pc = pc
    BY <1>a, <2>1 DEF Calls
  <2> HIDE DEF r
  <2> QED BY <1>c, <2>1, <2>2, <2>3
<1>2. ASSUME Haves(p) PROVE Only(p, "bundle")
  <2> DEFINE haves == (Tips(cacheRefs) \union known) \intersect cacheHas
             r == [proc[p] EXCEPT !.pc = "bundle", !.haves = haves]
  <2>1. haves \in SUBSET Commits
    BY DEF Typed
  <2>2. proc' = [proc EXCEPT ![p] = r]
    BY <1>2 DEF Haves
  <2> HIDE DEF haves
  <2>3. r \in Calls /\ r.pc = "bundle"
    BY <1>a, <1>b, <1>e, <2>1 DEF Calls
  <2> HIDE DEF r
  <2> QED BY <1>c, <2>2, <2>3
<1>3. ASSUME SandboxBundles(p) PROVE Only(p, "fetch")
  <2> DEFINE bundle == Anc[head] \ Closure(proc[p].haves \intersect projHas)
             r == [proc[p] EXCEPT !.pc = "fetch", !.commit = head, !.haves = {}, !.bundle = bundle]
  <2>1. bundle \in SUBSET Commits /\ head \in Commits
    BY DEF Typed, Constants, History
  <2>2. proc' = [proc EXCEPT ![p] = r]
    BY <1>3 DEF SandboxBundles
  <2> HIDE DEF bundle
  <2>3. r \in Calls /\ r.pc = "fetch"
    BY <1>a, <1>b, <1>e, <2>1 DEF Calls
  <2> HIDE DEF r
  <2> QED BY <1>c, <2>2, <2>3
<1>4. ASSUME FetchBundle(p) PROVE Keeps(p, "push")
  <2> DEFINE r == [proc[p] EXCEPT !.pc = "push", !.bundle = {}, !.refs = None.refs]
  <2>2. proc' = [proc EXCEPT ![p] = r]
    BY <1>4 DEF FetchBundle
  <2>4. proc[p].commit \in Commits
    BY <1>4, <1>a DEF FetchBundle, At, Calls
  <2>3. r \in Calls /\ r.pc = "push" /\ r.expect = proc[p].expect /\ r.commit = proc[p].commit
        /\ r.same = proc[p].same
    BY <1>a, <1>b, <1>e, <2>4 DEF Calls
  <2> HIDE DEF r
  <2> QED BY <1>c, <2>2, <2>3
<1>5. ASSUME PushCommit(p) PROVE Keeps(p, "update")
  BY <1>5, <1>a, <1>d, <1>e DEF PushCommit, At, Calls
<1>6. ASSUME UpdateRef(p) PROVE Only(p, "remember")
  BY <1>6, <1>a, <1>d, <1>e DEF UpdateRef, Keeps, At, Calls
<1>7. ASSUME Remember(p) PROVE Only(p, "done")
  BY <1>7, <1>d, <1>e DEF Remember, Keeps
<1>8. ASSUME HandOver(p) PROVE Only(p, "take")
  <2> DEFINE bundle == Closure(Tips(cacheRefs)) \
                         (IF proc[p].full THEN {} ELSE Closure(known \intersect cacheHas))
             r == [proc[p] EXCEPT !.pc = "take", !.bundle = bundle]
  <2>1. bundle \in SUBSET Commits
    BY <1>f DEF Typed
  <2>2. proc' = [proc EXCEPT ![p] = r]
    BY <1>8 DEF HandOver
  <2> HIDE DEF bundle
  <2>4. proc[p].op # "push"
    BY <1>8, <1>a DEF HandOver, At, Calls
  <2>3. r \in Calls /\ r.pc = "take"
    BY <1>a, <1>b, <1>e, <2>1, <2>4 DEF Calls
  <2> HIDE DEF r
  <2> QED BY <1>c, <2>2, <2>3
<1>9. ASSUME NeedsFull(p) PROVE Only(p, "handover")
  <2> DEFINE r == [proc[p] EXCEPT !.pc = "handover", !.full = TRUE]
  <2>2. proc' = [proc EXCEPT ![p] = r]
    BY <1>9 DEF NeedsFull
  <2>4. proc[p].op # "push"
    BY <1>9, <1>a DEF NeedsFull, At, Calls
  <2>3. r \in Calls /\ r.pc = "handover"
    BY <1>a, <1>b, <1>e, <2>4 DEF Calls
  <2> HIDE DEF r
  <2> QED BY <1>c, <2>2, <2>3
<1>10. ASSUME NEW merges \in BOOLEAN, SandboxTakes(p, merges) PROVE Only(p, "remember")
  BY <1>10, <1>a, <1>d, <1>e DEF SandboxTakes, Keeps, At, Calls
<1>11. ASSUME NEW some \in SUBSET Branches, SandboxCut(p, some) PROVE Only(p, "failed")
  BY <1>11, <1>d, <1>e DEF SandboxCut, Keeps
<1> QED BY <1>1, <1>2, <1>3, <1>4, <1>5, <1>6, <1>7, <1>8, <1>9, <1>10, <1>11, Zenon

-----------------------------------------------------------------------------
(* The types. *)
LEMMA TypedStart ==
  ASSUME Constants, Init
  PROVE  Typed
<1>1. PICK r \in Commits, c \in Commits :
        /\ remote = [b \in Branches |-> r] /\ cacheRefs = remote
        /\ cacheHas = Anc[c] \union {r} /\ known = cacheHas
        /\ origin = remote /\ head = r /\ projHas = {r}
        /\ lockFile = Free /\ stolen = FALSE /\ proc = [q \in Procs |-> None] /\ left = Budget
  BY Zenon DEF Init
<1>2. remote \in Refs /\ cacheRefs \in Refs /\ origin \in Refs
  BY <1>1 DEF Refs, Maybe
<1>3. Anc[c] \in SUBSET Commits /\ Budget \in Nat
  BY DEF Constants, History
<1>4. None \in Calls /\ Free \in [by : Procs \union {Nobody}, said : BOOLEAN]
  BY NoneIsACall
<1>5. proc \in [Procs -> Calls]
  BY <1>1, <1>4
<1>6. cacheHas \in SUBSET Commits /\ known \in SUBSET Commits /\ projHas \in SUBSET Commits
      /\ head \in Commits
  BY <1>1, <1>3
<1>7. lockFile \in [by : Procs \union {Nobody}, said : BOOLEAN] /\ left \in 0..Budget /\ stolen \in BOOLEAN
  <2>1. lockFile \in [by : Procs \union {Nobody}, said : BOOLEAN]
    BY <1>1, <1>4, Zenon
  <2>2. left \in 0..Budget
    <3>1. left = Budget
      BY <1>1, Zenon
    <3> QED BY <3>1, <1>3
  <2>3. stolen \in BOOLEAN
    BY <1>1, Zenon
  <2> QED BY <2>1, <2>2, <2>3
<1> QED BY <1>2, <1>5, <1>6, <1>7, Zenon DEF Typed

LEMMA ProcTyped ==
  ASSUME Constants, Typed, Next
  PROVE  proc' \in [Procs -> Calls]
<1>1. ASSUME NEW p \in Procs, Step(p) PROVE proc' \in [Procs -> Calls]
  BY <1>1, LockMoves, CreateMoves, WorkMoves, Zenon DEF Step, Only, Keeps
<1>2. ASSUME NEW p \in Procs, Killed(p) \/ (\E reviewed \in BOOLEAN : Begin(p, "push", reviewed))
                              \/ Begin(p, "pull", FALSE)
      PROVE  proc' \in [Procs -> Calls]
  BY <1>2, LockMoves, Zenon DEF Only
<1>3. ASSUME (\E c \in Commits : AgentMoves(c)) \/ (\E b \in Branches, c \in Maybe : OthersPush(b, c)) \/ Forget
      PROVE  proc' \in [Procs -> Calls]
  BY <1>3, Zenon DEF AgentMoves, OthersPush, Forget, Typed
<1> QED BY <1>1, <1>2, <1>3, Zenon DEF Next

LEMMA TypedStep ==
  ASSUME Constants, Typed, Next
  PROVE  Typed'
<1> DEFINE Rest == /\ remote' \in Refs /\ cacheRefs' \in Refs /\ origin' \in Refs
                   /\ cacheHas' \in SUBSET Commits /\ known' \in SUBSET Commits
                   /\ projHas' \in SUBSET Commits /\ head' \in Commits
                   /\ lockFile' \in [by : Procs \union {Nobody}, said : BOOLEAN]
                   /\ stolen' \in BOOLEAN
<1>a. Free \in [by : Procs \union {Nobody}, said : BOOLEAN]
  BY NoneIsACall
<1>b. ASSUME NEW p \in Procs
      PROVE  /\ proc[p].bundle \in SUBSET Commits /\ proc[p].refs \in Refs /\ proc[p].commit \in Maybe
             /\ proc[p].same \in BOOLEAN /\ Tips(proc[p].refs) \in SUBSET Commits
  BY TipsAreCommits DEF Typed, Calls
<1>c. Closure(Tips(remote)) \in SUBSET Commits /\ Tips(remote) \in SUBSET Commits
  BY TipsAreCommits DEF Typed
<1>d. \A refs \in Refs, b \in Branches, c \in Maybe : [refs EXCEPT ![b] = c] \in Refs
  BY DEF Refs
<1>e. \A refs \in Refs, b \in Branches : refs[b] \in Maybe
  BY DEF Refs
<1>f. Branch \in Branches /\ \A c \in Commits : c \in Maybe
  BY DEF Constants, Maybe
<1>g. \A c \in Maybe : c # Absent => c \in Commits
  BY DEF Maybe
<1> USE DEF cache, project, locks
<1> HIDE DEF Refs, Calls, Constants, Free, Maybe, None
<1>1. ASSUME NEW p \in Procs, Step(p) PROVE Rest
  <2>1. CASE CreateLock(p)
    BY <2>1 DEF CreateLock, Typed
  <2>2. CASE WriteLock(p)
    BY <2>2 DEF WriteLock, Typed
  <2>3. CASE Held(p) \/ ReadLock(p) \/ LockVanished(p) \/ Haves(p) \/ SandboxBundles(p) \/ HandOver(p)
    BY <2>3 DEF Held, ReadLock, LockVanished, Haves, SandboxBundles, HandOver, Typed
  <2>4. CASE RemoveStale(p)
    BY <2>4, <1>a, <1>b DEF RemoveStale, Typed
  <2>5. CASE Refresh(p)
    BY <2>5, <1>c DEF Refresh, Typed
  <2>6. CASE FetchBundle(p)
    BY <2>6, <1>b DEF FetchBundle, Typed
  <2>7. CASE PushCommit(p)
    BY <2>7, <1>b, <1>d, <1>f DEF PushCommit, Typed
  <2>8. CASE UpdateRef(p)
    BY <2>8, <1>b, <1>d, <1>f DEF UpdateRef, Typed
  <2>9. CASE Remember(p)
    <3>1. proc[p].op = "push" => proc[p].commit \in Commits
      BY <2>9 DEF Remember, At, Typed, Calls
    <3> QED BY <2>9, <1>b, <3>1 DEF Remember, Typed
  <2>10. CASE NeedsFull(p)
    BY <2>10, <1>b DEF NeedsFull, Typed
  <2>11. ASSUME NEW merges \in BOOLEAN, SandboxTakes(p, merges) PROVE Rest
    <3>1. head' \in Commits
      BY <2>11, <1>b, <1>e, <1>f, <1>g DEF SandboxTakes, FastForwards, Typed
    <3> QED BY <2>11, <3>1, <1>b DEF SandboxTakes, Typed
  <2>12. ASSUME NEW some \in SUBSET Branches, SandboxCut(p, some) PROVE Rest
    <3>1. origin' \in Refs
      BY <2>12, <1>b DEF SandboxCut, Typed, Refs
    <3> QED BY <2>12, <3>1, <1>b DEF SandboxCut, Typed
  <2>13. CASE Release(p)
    BY <2>13, <1>a DEF Release, Typed
  <2> HIDE DEF Rest
  <2> QED BY <1>1, <2>1, <2>2, <2>3, <2>4, <2>5, <2>6, <2>7, <2>8, <2>9, <2>10, <2>11, <2>12, <2>13, Zenon
         DEF Step
<1>2. ASSUME NEW p \in Procs, Killed(p) \/ (\E reviewed \in BOOLEAN : Begin(p, "push", reviewed))
                              \/ Begin(p, "pull", FALSE)
      PROVE  Rest
  BY <1>2 DEF Killed, Begin, Typed
<1>3. ASSUME NEW c \in Commits, AgentMoves(c) PROVE Rest
  BY <1>3 DEF AgentMoves, Typed
<1>4. ASSUME NEW b \in Branches, NEW c \in Maybe, OthersPush(b, c) PROVE Rest
  BY <1>4, <1>d DEF OthersPush, Typed
<1>5. ASSUME Forget PROVE Rest
  <2>1. Tips(origin) \union {head} \in SUBSET Commits
    BY TipsAreCommits DEF Typed
  <2>2. Closure(Tips(origin) \union {head}) \in SUBSET Commits
    BY <2>1, ClosureIsOfCommits DEF Constants, Maybe
  <2> QED BY <1>5, <2>2 DEF Forget, Typed
<1>6. left' \in 0..Budget
  <2>1. left \in 0..Budget /\ Budget \in Nat /\ (left' = left \/ (left > 0 /\ left' = left - 1))
    BY Zenon DEF Typed, Constants, Next, Spend
  <2> QED BY <2>1
<1>7. Rest
  <2> HIDE DEF Rest
  <2> QED BY <1>1, <1>2, <1>3, <1>4, <1>5, Zenon DEF Next
<1> QED BY <1>6, <1>7, ProcTyped, Zenon DEF Typed

LEMMA TypesHold ==
  ASSUME Constants
  PROVE  Spec => []Typed
<1>1. Init => Typed
  BY TypedStart
<1>2. Typed /\ [Next]_vars => Typed'
  <2>1. CASE UNCHANGED vars
    BY <2>1 DEF vars, Typed
  <2> QED BY <2>1, TypedStep
<1> QED BY <1>1, <1>2, PTL DEF Spec

(* Every variable of Transfer keeps its type.                              *)
THEOREM TransferTypeCorrect == ASSUME Constants PROVE Spec => []TypeOK
<1>1. Typed => TypeOK
  <2> SUFFICES ASSUME Typed PROVE TypeOK
    OBVIOUS
  <2>1. ASSUME NEW p \in Procs
        PROVE  /\ proc[p].pc \in {"none", "open", "write", "read", "judge"} \union Working
               /\ proc[p].expect \in Maybe /\ proc[p].commit \in Maybe
    BY DEF Typed, Calls, Pcs
  <2>2. TypeOK!1 /\ TypeOK!2 /\ TypeOK!3 /\ TypeOK!4 /\ TypeOK!6
    BY DEF Typed, Refs
  <2> QED BY <2>1, <2>2 DEF TypeOK
<1> QED BY <1>1, TypesHold, PTL

-----------------------------------------------------------------------------
(* The lock.  Whoever has made it and not let go finds its pid in it, as   *)
(* long as none was stolen; and while nobody has made another since one    *)
(* was judged stale, nobody is at the cache.                               *)
InIt(p) == At(p, "write") \/ Holds(p)
Mine ==
  stolen \/ /\ \A p \in Procs : InIt(p) => lockFile.by = p
            /\ \A p, q \in Procs : At(p, "judge") /\ proc[p].same => ~InIt(q)

(* The steps that leave the lock as it is, and take nobody in.             *)
LEMMA StaysOut ==
  ASSUME Mine, NEW p \in Procs, NEW pc \in {"none", "open", "read"}, Only(p, pc), UNCHANGED locks
  PROVE  Mine'
<1>1. /\ ~InIt(p)' /\ ~At(p, "judge")'
      /\ \A q \in Procs \ {p} : InIt(q)' = InIt(q) /\ At(q, "judge")' = At(q, "judge")
  BY DEF Only, InIt, At, Holds, Working
<1>2. \A q \in Procs \ {p} : proc'[q].same = proc[q].same
  BY DEF Only
<1>3. lockFile' = lockFile /\ stolen' = stolen
  BY DEF locks
<1> HIDE DEF InIt, At
<1> QED BY <1>1, <1>2, <1>3 DEF Mine
(* Those of whoever is in it. *)
LEMMA StaysIn ==
  ASSUME Mine, NEW p \in Procs, NEW pc \in Working, Only(p, pc), InIt(p), lockFile'.by = lockFile.by,
         stolen' = stolen
  PROVE  Mine'
<1>1. /\ ~At(p, "judge")'
      /\ \A q \in Procs \ {p} : InIt(q)' = InIt(q) /\ At(q, "judge")' = At(q, "judge")
  BY DEF Only, InIt, At, Holds, Working
<1>2. \A q \in Procs \ {p} : proc'[q].same = proc[q].same
  BY DEF Only
<1> HIDE DEF InIt, At
<1> QED BY <1>1, <1>2 DEF Mine

LEMMA MineStep ==
  ASSUME Constants, Typed, Mine, Next
  PROVE  Mine'
<1>a. lockFile \in [by : Procs \union {Nobody}, said : BOOLEAN] /\ Free.by = Nobody
  BY NoneIsACall DEF Typed
<1>b. Nobody \notin Procs
  BY DEF Constants
<1> HIDE DEF Constants, Typed, Free
<1>1. ASSUME NEW p \in Procs, CreateLock(p) PROVE Mine'
  <2>1. stolen' = stolen /\ lockFile'.by = p /\ lockFile.by = Nobody
    BY <1>1, <1>a DEF CreateLock
  <2>2. \A q \in Procs \ {p} : /\ InIt(q)' = InIt(q) /\ (At(q, "judge")' => ~proc'[q].same)
    BY <1>1, CreateMoves DEF InIt, At, Holds
  <2>3. ~At(p, "judge")'
    BY <1>1, CreateMoves DEF At
  <2> HIDE DEF InIt, At
  <2> QED BY <2>1, <2>2, <2>3, <1>b DEF Mine
<1>2. ASSUME NEW p \in Procs, WriteLock(p) PROVE Mine'
  <2>1. Only(p, "refresh") /\ InIt(p) /\ "refresh" \in Working
    BY <1>2, LockMoves DEF WriteLock, Keeps, InIt, Working
  <2>2. lockFile'.by = lockFile.by /\ stolen' = stolen
    BY <1>2, <1>a DEF WriteLock
  <2> QED BY <2>1, <2>2, StaysIn
<1>3. ASSUME NEW p \in Procs, Held(p) \/ LockVanished(p) \/ Killed(p)
                              \/ \E op \in {"push", "pull"}, reviewed \in BOOLEAN : Begin(p, op, reviewed)
      PROVE  Mine'
  <2>1. UNCHANGED locks
    BY <1>3, Zenon DEF Held, LockVanished, Killed, Begin
  <2>2. Only(p, "none") \/ Only(p, "open") \/ Only(p, "read")
    BY <1>3, LockMoves, Zenon DEF Keeps
  <2> QED BY <2>1, <2>2, StaysOut
<1>4. ASSUME NEW p \in Procs, ReadLock(p) PROVE Mine'
  <2>1. UNCHANGED locks /\ At(p, "read")
    BY <1>4, Zenon DEF ReadLock
  <2>2. CASE Only(p, "none")
    BY <2>1, <2>2, StaysOut
  <2>3. CASE Keeps(p, "judge") /\ Stale(p, lockFile)
    <3>1. /\ ~InIt(p)' /\ ~InIt(p)
          /\ \A q \in Procs \ {p} : /\ InIt(q)' = InIt(q) /\ At(q, "judge")' = At(q, "judge")
                                    /\ proc'[q].same = proc[q].same
      BY <2>1, <2>3 DEF Keeps, Only, InIt, At, Holds, Working
    <3>2. lockFile.by = p \/ ~Alive(lockFile.by)
      BY <2>3 DEF Stale
    <3>3. \A q \in Procs : InIt(q) => Alive(q)
      BY DEF InIt, At, Holds, Alive, Working
    <3>4. lockFile' = lockFile /\ stolen' = stolen
      BY <2>1 DEF locks
    <3> HIDE DEF InIt, At, Alive
    <3>5. stolen \/ \A q \in Procs : ~InIt(q)
      BY <3>1, <3>2, <3>3 DEF Mine
    <3> QED BY <3>1, <3>4, <3>5 DEF Mine
  <2> QED BY <1>4, <2>2, <2>3, LockMoves
<1>5. ASSUME NEW p \in Procs, RemoveStale(p) PROVE Mine'
  <2>1. Only(p, "open") /\ At(p, "judge")
    BY <1>5, LockMoves DEF RemoveStale
  <2>2. stolen' = (stolen \/ ~proc[p].same)
    BY <1>5, Zenon DEF RemoveStale
  <2>3. /\ ~InIt(p)'
        /\ \A q \in Procs \ {p} : InIt(q)' = InIt(q)
    BY <2>1 DEF Only, InIt, At, Holds, Working
  <2> HIDE DEF InIt, At
  <2>4. stolen' \/ \A q \in Procs : ~InIt(q)
    BY <2>1, <2>2 DEF Mine
  <2> QED BY <2>2, <2>3, <2>4 DEF Mine
<1>6. ASSUME NEW p \in Procs, Release(p) PROVE Mine'
  <2>1. (Only(p, "none") \/ Only(p, "open")) /\ Holds(p) /\ stolen' = stolen
    BY <1>6, LockMoves DEF Release
  <2>2. /\ ~InIt(p)' /\ InIt(p)
        /\ \A q \in Procs \ {p} : InIt(q)' = InIt(q)
    BY <2>1 DEF Only, InIt, At, Holds, Working
  <2> HIDE DEF InIt, At
  <2>3. stolen \/ \A q \in Procs \ {p} : ~InIt(q)
    BY <2>2 DEF Mine
  <2> QED BY <2>1, <2>2, <2>3 DEF Mine
<1>7. ASSUME NEW p \in Procs,
             \/ Refresh(p) \/ Haves(p) \/ SandboxBundles(p) \/ FetchBundle(p) \/ PushCommit(p)
             \/ UpdateRef(p) \/ Remember(p) \/ HandOver(p) \/ NeedsFull(p)
             \/ \E merges \in BOOLEAN : SandboxTakes(p, merges)
             \/ \E some \in SUBSET Branches : SandboxCut(p, some)
      PROVE  Mine'
  <2>1. UNCHANGED locks
    BY <1>7, Zenon DEF Refresh, Haves, SandboxBundles, FetchBundle, PushCommit, UpdateRef, Remember,
                       HandOver, NeedsFull, SandboxTakes, SandboxCut
  <2>2. Holds(p)
    BY <1>7 DEF Refresh, Haves, SandboxBundles, FetchBundle, PushCommit, UpdateRef, Remember,
                HandOver, NeedsFull, SandboxTakes, SandboxCut, At, Holds, Working
  <2>3. \E pc \in {"haves", "handover", "bundle", "fetch", "push", "update", "remember", "done", "take",
                   "failed"} : Only(p, pc)
    BY <1>7, WorkMoves, Zenon DEF Keeps
  <2>4. \E pc \in Working : Only(p, pc)
    BY <2>3 DEF Working
  <2> QED BY <2>1, <2>2, <2>4, StaysIn DEF locks, InIt
<1>8. ASSUME UNCHANGED <<locks, proc>> PROVE Mine'
  BY <1>8 DEF locks, Mine, InIt, At, Holds
<1>9. (\E c \in Commits : AgentMoves(c)) \/ (\E b \in Branches, c \in Maybe : OthersPush(b, c)) \/ Forget
        => UNCHANGED <<locks, proc>>
  BY DEF AgentMoves, OthersPush, Forget
<1>10. \A p \in Procs : Step(p) => Mine'
  BY <1>1, <1>2, <1>3, <1>4, <1>5, <1>6, <1>7, Zenon DEF Step
<1> QED BY <1>3, <1>8, <1>9, <1>10, Zenon DEF Next

(* transfer.ts:262-288: two pushes or pulls are at one registration's      *)
(* cache only when a lock was removed that was made after the one its      *)
(* remover had judged.                                                     *)
THEOREM TransferOneUnlessStolen == ASSUME Constants PROVE Spec => []OneUnlessStolen
<1>1. Init => Mine
  <2> SUFFICES ASSUME Init PROVE Mine
    OBVIOUS
  <2>1. \A p \in Procs : proc[p].pc = "none"
    BY NoneIsACall DEF Init
  <2> QED BY <2>1 DEF Mine, InIt, At, Holds, Working
<1>2. Typed /\ Mine /\ [Next]_vars => Mine'
  <2>1. CASE UNCHANGED vars
    BY <2>1 DEF vars, Mine, InIt, At, Holds
  <2> QED BY <2>1, MineStep
<1>3. Mine => OneUnlessStolen
  BY DEF Mine, OneUnlessStolen, InIt
<1> QED BY <1>1, <1>2, <1>3, TypesHold, PTL DEF Spec

-----------------------------------------------------------------------------
(* The project.  What it has is closed under parents, and has every ref.   *)
Closed(S) == \A c \in S : Parents[c] \subseteq S
Whole == Closed(projHas) /\ Tips(origin) \union {head} \subseteq projHas

LEMMA ClosedHoldsHistory ==
  ASSUME Constants, NEW S \in SUBSET Commits, Closed(S), NEW C \in SUBSET S
  PROVE  Closure(C) \subseteq S
<1>1. \A c \in S : Anc[c] \subseteq S
  <2>1. \A T \in SUBSET Commits :
          (\A c \in T : Parents[c] \subseteq T) => \A c \in T : Anc[c] \subseteq T
    BY Zenon DEF Constants, History
  <2> QED BY <2>1, Zenon DEF Closed
<1> QED BY <1>1, Zenon DEF Closure
LEMMA ClosureIsClosed ==
  ASSUME Constants, NEW C \in SUBSET Commits
  PROVE  Closed(Closure(C)) /\ C \subseteq Closure(C)
BY DEF Constants, History, Closed, Closure
LEMMA FittingStaysClosed ==
  ASSUME Constants, NEW S \in SUBSET Commits, Closed(S), NEW bundle \in SUBSET Commits, Fits(bundle, S)
  PROVE  Closed(S \union bundle)
<1>1. ASSUME NEW c \in bundle, NEW d \in Parents[c] PROVE d \in S \union bundle
  <2>1. d \in UNION {Parents[e] : e \in bundle}
    OBVIOUS
  <2> QED BY <2>1, Zenon DEF Fits
<1>2. ASSUME NEW c \in S, NEW d \in Parents[c] PROVE d \in S \union bundle
  BY DEF Closed
<1> QED BY <1>1, <1>2, Zenon DEF Closed

LEMMA WholeStep ==
  ASSUME Constants, Typed, Whole, Next
  PROVE  Whole'
<1>a. projHas \in SUBSET Commits /\ head \in Commits /\ origin \in Refs
      /\ \A p \in Procs : proc[p].bundle \in SUBSET Commits /\ proc[p].refs \in Refs
  BY DEF Typed, Calls
<1>b. Branch \in Branches
  BY DEF Constants
<1> HIDE DEF Constants, Typed
<1>1. ASSUME UNCHANGED project PROVE Whole'
  BY <1>1 DEF project, Whole, Closed, Tips
<1>2. ASSUME NEW p \in Procs, NeedsFull(p) PROVE Whole'
  <2>1. origin' = origin /\ head' = head
        /\ (projHas' = projHas \/ (Fits(proc[p].bundle, projHas) /\ projHas' = projHas \union proc[p].bundle))
    BY <1>2 DEF NeedsFull
  <2>2. Closed(projHas')
    BY <2>1, <1>a, FittingStaysClosed DEF Whole
  <2> QED BY <2>1, <2>2 DEF Whole, Closed, Tips
<1>3. ASSUME NEW p \in Procs, NEW merges \in BOOLEAN, SandboxTakes(p, merges) PROVE Whole'
  <2>1. /\ Fits(proc[p].bundle, projHas) /\ Tips(proc[p].refs) \subseteq projHas'
        /\ projHas' = projHas \union proc[p].bundle /\ origin' = proc[p].refs
    BY <1>3 DEF SandboxTakes, Suffices
  <2>2. Closed(projHas')
    BY <2>1, <1>a, FittingStaysClosed DEF Whole
  <2>3. head' = head \/ (head' = proc[p].refs[Branch] /\ proc[p].refs[Branch] # Absent)
    BY <1>3 DEF SandboxTakes, FastForwards
  <2>4. head' \in projHas'
    BY <2>1, <2>3, <1>b DEF Whole, Tips
  <2> QED BY <2>1, <2>2, <2>4 DEF Whole, Closed, Tips
<1>4. ASSUME NEW p \in Procs, NEW some \in SUBSET Branches, SandboxCut(p, some) PROVE Whole'
  <2>1. /\ Fits(proc[p].bundle, projHas) /\ Tips(proc[p].refs) \subseteq projHas'
        /\ projHas' = projHas \union proc[p].bundle /\ head' = head
        /\ origin' = [b \in Branches |-> IF b \in some THEN proc[p].refs[b] ELSE origin[b]]
    BY <1>4 DEF SandboxCut, Suffices
  <2>2. Closed(projHas')
    BY <2>1, <1>a, FittingStaysClosed DEF Whole
  <2>3. Tips(origin') \subseteq projHas'
    BY <2>1 DEF Whole, Tips
  <2> QED BY <2>1, <2>2, <2>3 DEF Whole, Closed, Tips
<1>5. ASSUME NEW c \in Commits, AgentMoves(c) PROVE Whole'
  BY <1>5, <1>a DEF AgentMoves, Whole, Closed, Tips
<1>6. ASSUME Forget PROVE Whole'
  <2>1. Tips(origin) \union {head} \in SUBSET Commits
    BY <1>a, TipsAreCommits
  <2>2. /\ projHas' = Closure(Tips(origin) \union {head}) /\ origin' = origin /\ head' = head
    BY <1>6 DEF Forget
  <2>3. Closed(projHas') /\ Tips(origin) \union {head} \subseteq projHas'
    BY <2>1, <2>2, ClosureIsClosed
  <2> QED BY <2>2, <2>3 DEF Whole, Closed, Tips
<1>7. ASSUME NEW p \in Procs, Step(p) PROVE Whole'
  <2>1. \/ UNCHANGED project \/ NeedsFull(p) \/ (\E merges \in BOOLEAN : SandboxTakes(p, merges))
        \/ \E some \in SUBSET Branches : SandboxCut(p, some)
    BY <1>7, Zenon DEF Step, CreateLock, WriteLock, Held, ReadLock, LockVanished, RemoveStale, Refresh,
         Haves, SandboxBundles, FetchBundle, PushCommit, UpdateRef, Remember, HandOver, Release
  <2> QED BY <2>1, <1>1, <1>2, <1>3, <1>4, Zenon
<1>8. (\E p \in Procs : Killed(p) \/ (\E reviewed \in BOOLEAN : Begin(p, "push", reviewed))
                        \/ Begin(p, "pull", FALSE))
      \/ (\E b \in Branches, c \in Maybe : OthersPush(b, c)) => UNCHANGED project
  BY Zenon DEF Killed, Begin, OthersPush
<1> QED BY <1>1, <1>5, <1>6, <1>7, <1>8, Zenon DEF Next

(* docker.ts's pullScript: whatever was guessed of the project, every      *)
(* origin/* and what it has checked out have their whole history there.    *)
THEOREM TransferOriginIsWhole == ASSUME Constants PROVE Spec => []OriginIsWhole
<1>1. Init => Whole
  <2> SUFFICES ASSUME Init PROVE Whole
    OBVIOUS
  <2>1. PICK r \in Commits : /\ Parents[r] = {} /\ origin = [b \in Branches |-> r]
                             /\ head = r /\ projHas = {r}
    BY Zenon DEF Init
  <2> QED BY <2>1 DEF Whole, Closed, Tips
<1>2. Typed /\ Whole /\ [Next]_vars => Whole'
  <2>1. CASE UNCHANGED vars
    BY <2>1 DEF vars, Whole, Closed, Tips
  <2> QED BY <2>1, WholeStep
<1>3. Typed /\ Whole => OriginIsWhole
  <2> SUFFICES ASSUME Typed, Whole PROVE OriginIsWhole
    OBVIOUS
  <2>1. projHas \in SUBSET Commits /\ Closed(projHas)
        /\ Tips(origin) \union {head} \in SUBSET projHas
    BY DEF Typed, Whole
  <2> QED BY <2>1, ClosedHoldsHistory DEF OriginIsWhole
<1> QED BY <1>1, <1>2, <1>3, TypesHold, PTL DEF Spec

-----------------------------------------------------------------------------
(* Who is about to push has what it was told to expect, if it was.         *)
Expected == \A p \in Procs : At(p, "push") => proc[p].expect \in {Absent, proc[p].commit}

LEMMA OnlyFetchLeadsToPush ==
  ASSUME Constants, Typed, Expected, Next
  PROVE  Expected'
<1>1. ASSUME NEW p \in Procs, NEW pc \in Pcs \ {"push"}, Only(p, pc) PROVE Expected'
  BY <1>1 DEF Expected, Only, At
<1>2. ASSUME UNCHANGED proc PROVE Expected'
  BY <1>2 DEF Expected, At
<1>3. ASSUME NEW p \in Procs, FetchBundle(p) PROVE Expected'
  BY <1>3, WorkMoves DEF FetchBundle, AsExpected, Keeps, Only, Expected, At
<1>4. ASSUME NEW p \in Procs, CreateLock(p) PROVE Expected'
  BY <1>4, CreateMoves DEF Expected, At
<1>5. {"refresh", "none", "read", "judge", "open", "haves", "handover", "bundle", "fetch", "update",
       "remember", "done", "take", "failed"} \subseteq Pcs \ {"push"}
  BY DEF Pcs, Working
<1>6. ASSUME NEW p \in Procs,
             Step(p) \/ Killed(p) \/ (\E reviewed \in BOOLEAN : Begin(p, "push", reviewed))
               \/ Begin(p, "pull", FALSE)
      PROVE  \/ FetchBundle(p) \/ CreateLock(p)
             \/ \E pc \in {"refresh", "none", "read", "judge", "open", "haves", "handover", "bundle",
                           "fetch", "update", "remember", "done", "take", "failed"} : Only(p, pc)
  BY <1>6, LockMoves, WorkMoves, Zenon DEF Step, Keeps
<1>7. (\E c \in Commits : AgentMoves(c)) \/ (\E b \in Branches, c \in Maybe : OthersPush(b, c)) \/ Forget
        => UNCHANGED proc
  BY Zenon DEF AgentMoves, OthersPush, Forget
<1>8. ASSUME NEW p \in Procs,
             Step(p) \/ Killed(p) \/ (\E reviewed \in BOOLEAN : Begin(p, "push", reviewed))
               \/ Begin(p, "pull", FALSE)
      PROVE  Expected'
  BY <1>8, <1>1, <1>3, <1>4, <1>5, <1>6
<1> QED BY <1>2, <1>7, <1>8, Zenon DEF Next

LEMMA SaidStep ==
  ASSUME Constants, Typed, Expected, Next, proc' # proc
  PROVE  /\ Within(head, head')
         /\ \A p \in Procs : At(p, "push") /\ proc'[p].pc = "update" =>
              proc[p].expect = Absent \/ remote'[Branch] = proc[p].expect
<1>1. PICK p \in Procs : Step(p) \/ Killed(p) \/ (\E reviewed \in BOOLEAN : Begin(p, "push", reviewed))
                           \/ Begin(p, "pull", FALSE)
  BY Zenon DEF Next, AgentMoves, OthersPush, Forget
<1>2. Within(head, head')
  <2>1. head' = head \/ Within(head, head')
    BY <1>1 DEF Step, CreateLock, WriteLock, Held, ReadLock, LockVanished, RemoveStale, Refresh,
         Haves, SandboxBundles, FetchBundle, PushCommit, UpdateRef, Remember, HandOver, Release,
         NeedsFull, SandboxTakes, SandboxCut, Killed, Begin, project, FastForwards
  <2>2. Within(head, head)
    BY DEF Within, Typed, Constants, History
  <2> QED BY <2>1, <2>2
<1>3. ASSUME NEW q \in Procs, At(q, "push"), proc'[q].pc = "update"
      PROVE  proc[q].expect = Absent \/ remote'[Branch] = proc[q].expect
  <2>1. p = q /\ ~CreateLock(p)
    BY <1>1, <1>3, LockMoves, CreateMoves, WorkMoves DEF Step, Only, Keeps, At
  <2>2. PushCommit(p)
    BY <1>1, <1>3, <2>1, LockMoves, WorkMoves DEF Step, Only, Keeps
  <2>3. remote'[Branch] = proc[p].commit
    BY <2>2 DEF PushCommit, Typed, Refs, Constants
  <2> QED BY <1>3, <2>1, <2>3 DEF Expected
<1> QED BY <1>2, <1>3

(* transfer.ts:485: a push of what was reviewed puts that commit on GitHub *)
(* and no other; and a pull leaves no commit of the project's behind.      *)
THEOREM TransferCommitsGoWhereSaid == ASSUME Constants PROVE Spec => CommitsGoWhereSaid
<1>1. Init => Expected
  <2> SUFFICES ASSUME Init PROVE Expected
    OBVIOUS
  <2>1. \A p \in Procs : proc[p].pc = "none"
    BY NoneIsACall DEF Init
  <2> QED BY <2>1 DEF Expected, At
<1>2. Typed /\ Expected /\ [Next]_vars => Expected'
  <2>1. CASE UNCHANGED vars
    BY <2>1 DEF vars, Expected, At
  <2> QED BY <2>1, OnlyFetchLeadsToPush
<1>3. Typed /\ Expected /\ [Next]_vars =>
        [proc' # proc => /\ Within(head, head')
                         /\ \A p \in Procs : At(p, "push") /\ proc'[p].pc = "update" =>
                              proc[p].expect = Absent \/ remote'[Branch] = proc[p].expect]_vars
  BY SaidStep
<1> QED BY <1>1, <1>2, <1>3, TypesHold, PTL DEF Spec, CommitsGoWhereSaid
=============================================================================
