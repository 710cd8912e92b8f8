-------------------------------- MODULE Locks --------------------------------
(***************************************************************************)
(* The per-target lock of vscode-image/locks.ts, at the granularity of the *)
(* system calls its runners make on one shared /tmp.                       *)
(*                                                                         *)
(* A runner is one desolate.ts process: it runs one command on one target, *)
(* so it tries for the lock once, and holds it until it exits.  A lock     *)
(* file's name is the target's namespace and nothing relates two names, so *)
(* the module follows one target's file.                                   *)
(*                                                                         *)
(* The file is a path and an inode: the creating descriptor keeps writing  *)
(* to the inode it created, whatever has become of the path since.  A      *)
(* runner creates at most one linked inode at a time, so an inode is named *)
(* by its creator.  A runner is not its pid: the kernel gives a gone       *)
(* runner's pid to another process, which may be a later runner.  /tmp     *)
(* outlives a restart of the container, and its pids start over.           *)
(***************************************************************************)
EXTENDS Integers

CONSTANTS
  Runners,    (* desolate.ts processes                                     *)
  Pids,       (* the pids the kernel gives them                            *)
  Nobody,     (* "no inode" at the path, "no holder" in an answer, no pid  *)
  Empty       (* what a created, not yet written, lock file reads as       *)

ASSUME LocksAssumption ==
  /\ Nobody \notin Runners \union Pids
  /\ Empty \notin Pids
  /\ Empty # Nobody

VARIABLES
  pc,         (* where each runner is in hold() and release()              *)
  pid,        (* each runner's pid, which it keeps in the record once gone *)
  attempt,    (* the loop counter of hold(), from 0                        *)
  path,       (* the inode the lock file's name leads to, or Nobody        *)
  content,    (* what each inode holds: Empty, or its writer's pid         *)
  seen,       (* the pid a runner read, before it asks whether it is alive *)
  answer,     (* the holder a refused runner was told of, or Nobody        *)
  alive,      (* the pids kill(pid, 0) finds a process for                 *)
  stolen,     (* ghost: a file was taken over while its creator still ran  *)
  overlapped  (* ghost: the runners that tried while another process had   *)
              (* the pid of some runner                                    *)

vars == <<pc, pid, attempt, path, content, seen, answer, alive, stolen, overlapped>>

-----------------------------------------------------------------------------
(* Where a runner can be. *)

Trying  == {"open", "write", "read", "kill", "remove", "lastRead", "lastKill"}
Holding == {"hold"}
Leaving == {"releaseRead", "releaseRemove"}
Over    == {"refused", "exited", "killed"}
Place   == {"idle"} \union Trying \union Holding \union Leaving \union Over

Running(r) == pc[r] \in Trying \union Holding \union Leaving

(* Holders: the runners that believe the target is theirs. *)
Holders == {r \in Runners : pc[r] \in Holding}

Init ==
  /\ pc = [r \in Runners |-> "idle"]
  /\ pid = [r \in Runners |-> Nobody]
  /\ attempt = [r \in Runners |-> 0]
  /\ path = Nobody
  /\ content = [r \in Runners |-> Empty]
  /\ seen = [r \in Runners |-> Nobody]
  /\ answer = [r \in Runners |-> Nobody]
  /\ alive = {}
  /\ stolen = FALSE
  /\ overlapped = {}

Goto(r, place) == pc' = [pc EXCEPT ![r] = place]

(* The process is over, and what it had in memory with it. *)
Ends(r, place) ==
  /\ Goto(r, place)
  /\ alive' = alive \ {pid[r]}
  /\ attempt' = [attempt EXCEPT ![r] = 0]
  /\ seen' = [seen EXCEPT ![r] = Nobody]

(* What readFileSync and JSON.parse make of the path: no file and a file   *)
(* that says nothing both fall into holderOf's catch.                      *)
PidInFile == IF path = Nobody \/ content[path] = Empty THEN Nobody ELSE content[path]

(* Faults to seed, each in the definition it precedes: a create that is    *)
(* not exclusive, a liveness check that trusts the file, a lock file that  *)
(* is never written or names no pid, one round too few.                    *)
CreatesAnyway == TRUE
TrustsTheFile(p) == TRUE
NamesNoPid(r) == [content EXCEPT ![r] = Nobody]
OneRound == 1

(* What each system call answers or does.                                  *)
CanCreate == path = Nobody
IsAlive(p) == p \in alive
Written(r) == [content EXCEPT ![r] = pid[r]]

(* How often hold() tries to create the file.                              *)
Attempts == 2

-----------------------------------------------------------------------------
(* hold() *)

(* A runner's process starts, with any pid that is free -- one that a file *)
(* left behind may name -- and reaches hold().                             *)
Start(r) ==
  /\ pc[r] = "idle"
  /\ Goto(r, "open")
  /\ \E p \in Pids \ alive :
       /\ pid' = [pid EXCEPT ![r] = p]
       /\ alive' = alive \union {p}
  /\ overlapped' = overlapped
       \union {o \in Runners : pc[o] \in Trying}
       \union (IF alive # {} THEN {r} ELSE {})
  /\ UNCHANGED <<attempt, path, content, seen, answer, stolen>>

(* openSync(O_CREAT | O_EXCL): creates an empty file, or finds one. *)
Open(r) ==
  /\ pc[r] = "open"
  /\ IF CanCreate
     THEN /\ path' = r
          /\ content' = [content EXCEPT ![r] = Empty]
          /\ Goto(r, "write")
     ELSE /\ Goto(r, "read")
          /\ UNCHANGED <<path, content>>
  /\ UNCHANGED <<pid, attempt, seen, answer, alive, stolen, overlapped>>

(* writeSync and closeSync: the pid goes to the inode this runner created, *)
(* and hold() answers that the lock is held.                               *)
Write(r) ==
  /\ pc[r] = "write"
  /\ content' = Written(r)
  /\ Goto(r, "hold")
  /\ UNCHANGED <<pid, attempt, path, seen, answer, alive, stolen, overlapped>>

(* holderOf's readFileSync, after an EEXIST. *)
ReadHolder(r) ==
  /\ pc[r] = "read"
  /\ seen' = [seen EXCEPT ![r] = PidInFile]
  /\ Goto(r, IF PidInFile = Nobody THEN "remove" ELSE "kill")
  /\ UNCHANGED <<pid, attempt, path, content, answer, alive, stolen, overlapped>>

(* The fault to seed here: a runner that waits for the holder instead.     *)
WaitsForHolder(r) ==
  /\ pc[r] = "kill"
  /\ Goto(r, IF IsAlive(seen[r]) THEN "open" ELSE "remove")
  /\ UNCHANGED <<pid, attempt, path, content, seen, answer, alive, stolen, overlapped>>

(* holderOf's kill(pid, 0): a live holder is answered, a dead one is none. *)
AskAlive(r) ==
  /\ pc[r] = "kill"
  /\ IF IsAlive(seen[r])
     THEN /\ Ends(r, "refused")
          /\ answer' = [answer EXCEPT ![r] = seen[r]]
     ELSE /\ Goto(r, "remove")
          /\ UNCHANGED <<attempt, seen, answer, alive>>
  /\ UNCHANGED <<pid, path, content, stolen, overlapped>>

(* rmSync of a file judged stale -- by its NAME, whatever it names by now. *)
(* Then the loop goes round, or ends after its second attempt.             *)
TakeOver(r) ==
  /\ pc[r] = "remove"
  /\ path' = Nobody
  /\ stolen' = (stolen \/ (path # Nobody /\ Running(path)))
  /\ attempt' = [attempt EXCEPT ![r] = @ + 1]
  /\ Goto(r, IF attempt[r] + 1 < Attempts THEN "open" ELSE "lastRead")
  /\ UNCHANGED <<pid, content, seen, answer, alive, overlapped>>

(* The last holderOf, for the answer: the second attempt's takeover lost.  *)
LastRead(r) ==
  /\ pc[r] = "lastRead"
  /\ seen' = [seen EXCEPT ![r] = PidInFile]
  /\ Goto(r, "lastKill")
  /\ UNCHANGED <<pid, attempt, path, content, answer, alive, stolen, overlapped>>

(* Refused by name, or as { pid: 0, what: "something" }. *)
LastAskAlive(r) ==
  /\ pc[r] = "lastKill"
  /\ answer' = [answer EXCEPT ![r] = IF IsAlive(seen[r]) THEN seen[r] ELSE Nobody]
  /\ Ends(r, "refused")
  /\ UNCHANGED <<pid, path, content, stolen, overlapped>>

-----------------------------------------------------------------------------
(* release(), which only the process's own exit calls. *)

(* The command is done, and the exit handler reads the file. *)
Finish(r) ==
  /\ pc[r] = "hold"
  /\ Goto(r, "releaseRead")
  /\ UNCHANGED <<pid, attempt, path, content, seen, answer, alive, stolen, overlapped>>

ReleaseRead(r) ==
  /\ pc[r] = "releaseRead"
  /\ IF PidInFile = pid[r]
     THEN /\ Goto(r, "releaseRemove")
          /\ UNCHANGED <<attempt, seen, alive>>
     ELSE Ends(r, "exited")
  /\ UNCHANGED <<pid, path, content, answer, stolen, overlapped>>

ReleaseRemove(r) ==
  /\ pc[r] = "releaseRemove"
  /\ path' = Nobody
  /\ Ends(r, "exited")
  /\ UNCHANGED <<pid, content, answer, stolen, overlapped>>

-----------------------------------------------------------------------------
(* The environment. *)

(* SIGKILL, or any signal node does not handle: no exit handler runs, and  *)
(* whatever the runner wrote stays.                                        *)
Kill(r) ==
  /\ Running(r)
  /\ Ends(r, "killed")
  /\ UNCHANGED <<pid, path, content, answer, stolen, overlapped>>

(* A process that is no runner gets a pid that a gone runner had, and      *)
(* ends.  (One with any other pid is asked about by nobody.)               *)
PidRecycled(p) ==
  /\ p \notin alive
  /\ \E r \in Runners : pc[r] \in Over /\ pid[r] = p
  /\ alive' = alive \union {p}
  /\ overlapped' = overlapped \union {r \in Runners : pc[r] \in Trying}
  /\ UNCHANGED <<pc, pid, attempt, path, content, seen, answer, stolen>>

RecycledEnds(p) ==
  /\ p \in alive
  /\ \A r \in Runners : Running(r) => pid[r] # p
  /\ alive' = alive \ {p}
  /\ UNCHANGED <<pc, pid, attempt, path, content, seen, answer, stolen, overlapped>>

-----------------------------------------------------------------------------
(* hold() and release() themselves, which the runner's process executes. *)
HoldStep(r) ==
  \/ Open(r) \/ Write(r) \/ ReadHolder(r) \/ AskAlive(r) \/ TakeOver(r)
  \/ LastRead(r) \/ LastAskAlive(r)
ReleaseStep(r) == ReleaseRead(r) \/ ReleaseRemove(r)

Next ==
  \/ \E r \in Runners : Start(r) \/ HoldStep(r) \/ Finish(r) \/ ReleaseStep(r) \/ Kill(r)
  \/ \E p \in Pids : PidRecycled(p) \/ RecycledEnds(p)

Spec == Init /\ [][Next]_vars

(* A process that can run is scheduled.  Nothing makes anyone start a      *)
(* command, and nothing bounds how long a command takes (a build can be    *)
(* minutes or never), so Start and Finish are not fair.                    *)
Fairness == \A r \in Runners : WF_vars(HoldStep(r) \/ ReleaseStep(r))

FairSpec == Spec /\ Fairness

-----------------------------------------------------------------------------
TypeOK ==
  /\ pc \in [Runners -> Place]
  /\ pid \in [Runners -> Pids \union {Nobody}]
  /\ attempt \in [Runners -> 0..2]
  /\ path \in Runners \union {Nobody}
  /\ content \in [Runners -> Pids \union {Empty}]
  /\ seen \in [Runners -> Pids \union {Nobody}]
  /\ answer \in [Runners -> Pids \union {Nobody}]
  /\ alive \subseteq Pids
  /\ stolen \in BOOLEAN
  /\ overlapped \subseteq Runners

(* locks.ts:2: "one operation on a target at a time, across every runner   *)
(* in the orchestrator".                                                   *)
MutualExclusion == \A a, b \in Holders : a = b

(* The one way two runners come to hold a target: a takeover removed the   *)
(* file of a runner that was still running.  As long as takeovers only     *)
(* ever met files of runners that were gone, there is one holder, and the  *)
(* file names it: a crash recovery on its own breaks nothing.              *)
ExclusiveUnlessStolen ==
  ~stolen => /\ MutualExclusion
             /\ \A r \in Holders : PidInFile = pid[r]

(* The runners whose own pid a killed runner wrote to its file.            *)
NamedByTheDead == {r \in Runners : \E d \in Runners \ {r} :
  pc[d] = "killed" /\ pid[d] = pid[r] /\ content[d] = pid[r]}

(* Who can be refused, whatever an earlier runner left behind and wherever *)
(* it was killed: one that met another live process as it tried, or one    *)
(* that is told it holds the target itself, because a killed runner wrote  *)
(* the pid that it has now.  Nobody else: a dead holder "is found dead by  *)
(* its pid and taken over" (locks.ts:16-17).                               *)
RefusedOnlyBySomeone ==
  \A r \in Runners : pc[r] = "refused" =>
    r \in overlapped \/ (answer[r] = pid[r] /\ r \in NamedByTheDead)

(* What locks.ts:16-17 says without that exception.  holderOf asks whether *)
(* the pid in the file is alive (locks.ts:51) and not whether it is the    *)
(* asker's own, so a runner alone can refuse itself: this does not hold.   *)
DeadHolderIsTakenOver == \A r \in Runners : pc[r] = "refused" => r \in overlapped

(* hold() never waits: every try ends, in the lock or in a refusal, while  *)
(* a holder may go on for ever (its EEXIST loop has two rounds).           *)
EveryTryEnds ==
  \A r \in Runners : pc[r] \in Trying ~> pc[r] \in Holding \union Over

(* The inductive strengthening of ExclusiveUnlessStolen: until a live      *)
(* runner's file is stolen, whoever created the file and still runs has    *)
(* its inode at the path, and has written it by the time it holds.         *)
FileStaysWithItsCreator ==
  ~stolen => \A r \in Runners :
    pc[r] \in {"write"} \union Holding \union Leaving =>
      /\ path = r
      /\ pc[r] # "write" => content[r] = pid[r]

(* No two running runners have one pid, each of them is alive under its    *)
(* own, and what an inode says is its creator's pid.                       *)
PidsAreTheirOwn ==
  \A r \in Runners :
    /\ pc[r] # "idle" => pid[r] \in Pids
    /\ pc[r] = "idle" => attempt[r] = 0 /\ content[r] = Empty
    /\ content[r] \in {pid[r], Empty}
    /\ Running(r) => pid[r] \in alive
    /\ \A s \in Runners : Running(r) /\ Running(s) /\ pid[r] = pid[s] => r = s

(* A file at the path is one whose creator is still with it, or was        *)
(* killed: whoever exits has removed it, or found it gone.                 *)
LeftByTheKilled ==
  \A r \in Runners :
    /\ path = r => pc[r] \in {"write"} \union Holding \union Leaving \union {"killed"}
    /\ path = r /\ pc[r] \in Holding \union Leaving => content[r] = pid[r]

(* The inductive strengthening of RefusedOnlyBySomeone.  A runner that     *)
(* tries alone finds no file, or reads a pid of no process and finds no    *)
(* file on its second round, or reads its own.                             *)
AloneFindsTheWayClear ==
  \A r \in Runners :
    /\ pc[r] \in {"open", "read", "kill", "remove"} => attempt[r] \in {0, 1}
    /\ pc[r] \in {"kill", "lastKill"} /\ seen[r] = pid[r] => r \in NamedByTheDead
    /\ pc[r] \in Trying /\ r \notin overlapped =>
         /\ alive = {pid[r]}
         /\ pc[r] \notin {"lastRead", "lastKill"}
         /\ pc[r] = "open" /\ attempt[r] = 1 => path = Nobody
         /\ pc[r] \in {"read", "kill", "remove"} => attempt[r] = 0
    /\ pc[r] = "refused" => r \in overlapped \/ (answer[r] = pid[r] /\ r \in NamedByTheDead)
=============================================================================
