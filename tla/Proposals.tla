------------------------------ MODULE Proposals ------------------------------
(***************************************************************************)
(* Suede dependencies: cli.sh suede, transfer.ts deliver and pushUpstream, *)
(* docker.ts depsScript.                                                   *)
(*                                                                         *)
(* A project vendors folders of another repository, each pinned at one of  *)
(* its commits.  `deliver` puts that repository's release branch into the  *)
(* project's git dir; `report` says how a folder differs from its pin;     *)
(* `upstream` builds one commit on the pin, in the project's sandbox, and  *)
(* the editor pushes it as a branch named for the consumer's commit.       *)
(* Commands run at once: in the sandbox nothing keeps them apart and they  *)
(* share one ref, in the editor the cache's lock does (Transfer.tla).      *)
(*                                                                         *)
(* A commit is the sequence of the trees of its history, itself last.      *)
(***************************************************************************)
EXTENDS Integers, Sequences, SequencesExt

CONSTANTS
  Cmds,      (* commands of the Mac that may run at once                   *)
  Dirs,      (* the project's folders that are copies of a repository      *)
  Repo,      (* the repository every command names                         *)
  Fork,      (* another, with the same history                             *)
  Worlds,    (* at first: of what and how changed each folder is, and      *)
             (* whether its pin was fetched before                         *)
  Budget     (* bound: commands, kills and moves of others there may be    *)

VARIABLES
  copies,    (* per folder, the repository, pin and tree at the project's head *)
  git,       (* the project's git dir, of the repository: objects, the refs    *)
             (* the bundle was fetched to, the ref of a build, the bundle      *)
  upstream,  (* the repository: release, and the proposals by branch           *)
  cache,     (* the editor's: release, commits, and whose the lock is          *)
  cmd,       (* per command, where it is                                       *)
  left       (* of the Budget                                                  *)

vars == <<copies, git, upstream, cache, cmd, left>>

NoCommit == <<>>
History(c) == {SubSeq(c, 1, n) : n \in 1..Len(c)}
Parent(c) == SubSeq(c, 1, Len(c) - 1)

(* What a tree is to a proposal: the consumer's to change, the workflows   *)
(* its repository runs, and the subrepos inside it with its own .gitrepo.  *)
Tree(n) == [own |-> n, ci |-> 0, nested |-> 0]
Parts == {"own", "ci", "nested"}

Idle == [pc |-> "idle", op |-> "none", dir |-> "none", at |-> <<>>,
         built |-> NoCommit, bundle |-> NoCommit]

TypeOK ==
  /\ \A d \in Dirs : copies[d].of \in {Repo, Fork}
  /\ DOMAIN git = {"objects", "fetched", "outgoing", "delivered"}
  /\ \A b \in upstream.proposals : b.commit # NoCommit
  /\ cache.by \in Cmds \union {"nobody"}
  /\ left \in 0..Budget

Init ==
  LET first == <<Tree(0)>> IN
  /\ \E w \in Worlds :
       /\ copies = [d \in Dirs |-> [of |-> w.of[d], pin |-> first, tree |-> w.tree[d]]]
       /\ git = [objects |-> IF w.here THEN {first} ELSE {}, fetched |-> NoCommit,
                 outgoing |-> NoCommit, delivered |-> NoCommit]
  /\ upstream = [release |-> first, proposals |-> {}]
  /\ cache = [release |-> NoCommit, has |-> {}, by |-> "nobody"]
  /\ cmd = [p \in Cmds |-> Idle]
  /\ left = Budget

-----------------------------------------------------------------------------
At(p, pc) == cmd[p].pc = pc
Goes(p, pc) == cmd' = [cmd EXCEPT ![p] = [@ EXCEPT !.pc = pc]]
Ends(p) == cmd' = [cmd EXCEPT ![p] = Idle]
Pin(p) == cmd[p].at[cmd[p].dir].pin

(* The ref is resolved first: what it names may move on. *)
Ask(p, op, dir) ==
  /\ At(p, "idle")
  /\ cmd' = [cmd EXCEPT ![p] = [Idle EXCEPT !.op = op, !.at = copies,
               !.dir = IF op = "upstream" THEN dir ELSE "none",
               !.pc = IF op = "deliver" THEN "lock" ELSE "load"]]
  /\ UNCHANGED <<copies, git, upstream, cache>>

(* have_pin: a pin that is not there is fetched from the bundle of its     *)
(* repository, when that is there.                                         *)
Fetches(C) ==
  git.delivered # NoCommit /\ \E copy \in C : copy.pin \notin git.objects /\ copy.of = Repo
ObjectsFor(C) == git.objects \union (IF Fetches(C) THEN History(git.delivered) ELSE {})
WithPins(C) == [git EXCEPT !.objects = ObjectsFor(C),
                           !.fetched = IF Fetches(C) THEN git.delivered ELSE @]

(* proposal_tree: the folder, with its .gitrepo and the subrepos nested in *)
(* it as the pin has them.                                                 *)
Proposed(copy) == [copy.tree EXCEPT !.nested = Last(copy.pin).nested]
StateOf(copy) ==
  IF copy.pin \notin ObjectsFor({copy}) THEN "nopin"
  ELSE IF Proposed(copy) = Last(copy.pin) THEN "same" ELSE "diff"

(* Every folder's state is told, and its pin fetched for it.               *)
Report(p) ==
  /\ At(p, "load") /\ cmd[p].op = "report"
  /\ git' = WithPins({cmd[p].at[d] : d \in Dirs})
  /\ Ends(p)
  /\ UNCHANGED <<copies, upstream, cache>>
NothingToBuild(p) ==
  /\ At(p, "load") /\ cmd[p].op = "upstream"
  /\ StateOf(cmd[p].at[cmd[p].dir]) # "diff"
  /\ git' = WithPins({cmd[p].at[cmd[p].dir]})
  /\ Ends(p)
  /\ UNCHANGED <<copies, upstream, cache>>
Build(p) ==
  LET copy == cmd[p].at[cmd[p].dir]
      new  == Append(copy.pin, Proposed(copy))
  IN
  /\ At(p, "load") /\ cmd[p].op = "upstream" /\ StateOf(copy) = "diff"
  /\ git' = [WithPins({copy}) EXCEPT !.objects = @ \union {new}, !.outgoing = new]
  /\ cmd' = [cmd EXCEPT ![p] = [@ EXCEPT !.pc = "bundle", !.built = new]]
  /\ UNCHANGED <<copies, upstream, cache>>

(* What is bundled is what the ref names by now, and that may be another   *)
(* command's or, when that has removed it, nothing.                        *)
Bundle(p) ==
  /\ At(p, "bundle")
  /\ cmd' = [cmd EXCEPT ![p] = IF git.outgoing = NoCommit THEN Idle
               ELSE [@ EXCEPT !.pc = "said", !.bundle = git.outgoing]]
  /\ UNCHANGED <<copies, git, upstream, cache>>
(* The build says what it built and of which repository; it must be the    *)
(* one the command names.                                                  *)
IsNamed(p) == cmd[p].at[cmd[p].dir].of = Repo
SaysBuilt(p) ==
  /\ At(p, "said")
  /\ git' = [git EXCEPT !.outgoing = NoCommit]
  /\ IF IsNamed(p) THEN Goes(p, "lock") ELSE Ends(p)
  /\ UNCHANGED <<copies, upstream, cache>>

-----------------------------------------------------------------------------
(* openCache: a command that finds another in the cache ends; an upstream  *)
(* leaves its bundle in the project then.                                  *)
Open(p) ==
  /\ At(p, "lock")
  /\ IF cache.by = "nobody"
     THEN Goes(p, "refresh") /\ cache' = [cache EXCEPT !.by = p]
     ELSE Ends(p) /\ UNCHANGED cache
  /\ UNCHANGED <<copies, git, upstream>>
Refresh(p) ==
  /\ At(p, "refresh")
  /\ cache' = [cache EXCEPT !.release = upstream.release,
                 !.has = @ \union History(upstream.release)
                           \union UNION {History(b.commit) : b \in upstream.proposals}]
  /\ Goes(p, IF cmd[p].op = "deliver" THEN "remove" ELSE "look")
  /\ UNCHANGED <<copies, git, upstream>>

(* deliver: the last bundle goes before the next is written. *)
RemoveDelivered(p) ==
  /\ At(p, "remove")
  /\ git' = [git EXCEPT !.delivered = NoCommit]
  /\ Goes(p, "deliver")
  /\ UNCHANGED <<copies, upstream, cache>>
WriteDelivered(p) ==
  /\ At(p, "deliver")
  /\ git' = [git EXCEPT !.delivered = cache.release]
  /\ Goes(p, "end")
  /\ UNCHANGED <<copies, upstream, cache>>

(* downstreamBranch: the consumer's commit names it, whichever folder.     *)
Taken(branch) == \E b \in upstream.proposals : b.branch = branch
Look(p) ==
  /\ At(p, "look")
  /\ Goes(p, IF Pin(p) \in cache.has /\ ~Taken(cmd[p].at) THEN "fetch" ELSE "end")
  /\ UNCHANGED <<copies, git, upstream, cache>>

LeavesCi(p) == Last(cmd[p].bundle).ci = Last(Pin(p)).ci
AsSaid(p) == cmd[p].bundle = cmd[p].built /\ Parent(cmd[p].bundle) = Pin(p)
(* What is fetched stays in the cache, refused or not.                     *)
Fetch(p) ==
  /\ At(p, "fetch")
  /\ cache' = [cache EXCEPT !.has = @ \union History(cmd[p].bundle)]
  /\ Goes(p, IF AsSaid(p) /\ LeavesCi(p) THEN "push" ELSE "end")
  /\ UNCHANGED <<copies, git, upstream>>

(* The fault to seed: the push is forced.                                  *)
Overwrites(commit, branch) == TRUE
(* GitHub takes a new branch, and otherwise a fast-forward only: the       *)
(* branch may be there by now.                                             *)
Accepts(commit, branch) ==
  \A b \in upstream.proposals : b.branch = branch => IsPrefix(b.commit, commit)
Push(p) ==
  LET branch == cmd[p].at IN
  /\ At(p, "push")
  /\ upstream' = IF Accepts(cmd[p].built, branch)
       THEN [upstream EXCEPT !.proposals = {b \in @ : b.branch # branch}
               \union {[branch |-> branch, commit |-> cmd[p].built]}]
       ELSE upstream
  /\ Goes(p, "end")
  /\ UNCHANGED <<copies, git, cache>>
End(p) ==
  /\ At(p, "end") /\ Ends(p)
  /\ cache' = [cache EXCEPT !.by = "nobody"]
  /\ UNCHANGED <<copies, git, upstream>>
(* Killed anywhere: its lock goes to the next that asks.                   *)
Killed(p) ==
  /\ ~At(p, "idle") /\ Ends(p)
  /\ cache' = [cache EXCEPT !.by = IF @ = p THEN "nobody" ELSE @]
  /\ UNCHANGED <<copies, git, upstream>>

-----------------------------------------------------------------------------
(* The consumer commits a change to a folder, or takes the release into    *)
(* one; its git forgets what no ref reaches; the dependency releases, and  *)
(* the same consumer commit is proposed from another machine.              *)
Changes(d, part) ==
  /\ copies[d].tree[part] = 0
  /\ copies' = [copies EXCEPT ![d].tree[part] = 1]
  /\ UNCHANGED <<git, upstream, cache, cmd>>
Updates(d) ==
  /\ copies' = [copies EXCEPT ![d] = [@ EXCEPT !.pin = upstream.release,
                                               !.tree = Last(upstream.release)]]
  /\ UNCHANGED <<git, upstream, cache, cmd>>
Forgets ==
  /\ git' = [git EXCEPT !.objects = History(git.fetched) \union History(git.outgoing)]
  /\ UNCHANGED <<copies, upstream, cache, cmd>>
Releases ==
  /\ Len(upstream.release) = 1
  /\ upstream' = [upstream EXCEPT !.release = Append(@, Tree(2))]
  /\ UNCHANGED <<copies, git, cache, cmd>>
OthersPropose(d) ==
  /\ ~Taken(copies)
  /\ upstream' = [upstream EXCEPT !.proposals = @ \union
       {[branch |-> copies, commit |-> Append(copies[d].pin, Proposed(copies[d]))]}]
  /\ UNCHANGED <<copies, git, cache, cmd>>

Step(p) ==
  \/ Report(p) \/ NothingToBuild(p) \/ Build(p) \/ Bundle(p) \/ SaysBuilt(p)
  \/ Open(p) \/ Refresh(p) \/ RemoveDelivered(p) \/ WriteDelivered(p)
  \/ Look(p) \/ Fetch(p) \/ Push(p) \/ End(p)

Next ==
  \/ \E p \in Cmds : Step(p) /\ UNCHANGED left
  \/ /\ left > 0 /\ left' = left - 1
     /\ \/ \E p \in Cmds : \/ Killed(p)
                           \/ \E op \in {"deliver", "report", "upstream"}, d \in Dirs :
                                Ask(p, op, d)
        \/ \E d \in Dirs : \/ Updates(d) \/ OthersPropose(d)
                           \/ \E part \in Parts : Changes(d, part)
        \/ Forgets \/ Releases

Spec == Init /\ [][Next]_vars

-----------------------------------------------------------------------------
(* Whoever else builds or proposes meanwhile, what a command puts on the   *)
(* dependency is a branch that was not there, for a consumer's commit: one *)
(* commit on the pin of a folder that is the dependency's there, with that *)
(* folder's tree, leaving the dependency's workflows and what is nested    *)
(* as its pin has them; and release stays where it is.                     *)
ProposesOneBuilt ==
  cmd' # cmd /\ upstream' # upstream =>
    /\ upstream'.release = upstream.release
    /\ \E b \in upstream'.proposals :
         /\ ~Taken(b.branch)
         /\ upstream'.proposals = upstream.proposals \union {b}
         /\ \E d \in Dirs :
              LET copy == b.branch[d]  pinned == Last(copy.pin) IN
              /\ copy.of = Repo
              /\ b.commit = Append(copy.pin, [copy.tree EXCEPT !.nested = pinned.nested])
              /\ copy.tree.ci = pinned.ci
ProposesWhatWasBuilt == [][ProposesOneBuilt]_vars

(* transfer.ts:634: a branch that is there is "this exact proposal".  Not  *)
(* so for two folders that are copies of one repository.                   *)
TakenByTheSame ==
  \A p \in Cmds : At(p, "look") /\ Taken(cmd[p].at) =>
    [branch |-> cmd[p].at, commit |-> cmd[p].built] \in upstream.proposals
=============================================================================
