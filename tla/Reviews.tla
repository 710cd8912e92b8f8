------------------------------- MODULE Reviews ---------------------------------
(***************************************************************************)
(* What a push would send, read before it is: reviewScript (docker.ts) in  *)
(* the target's sandbox, one git command after another over a repository   *)
(* whose agent works on; review.ts, which reads what was said and keeps    *)
(* each text file's two sides in the editor's cache; and the panel, which  *)
(* shows the review, opens those sides and pushes the commit it was of.    *)
(* The loop that looks for a base is a step, and so are the counts with    *)
(* the log of one range.                                                   *)
(*                                                                         *)
(* A commit is a number above its parents'; a tree gives each path a blob, *)
(* 0 for none.  Runners of the target take its lock; neither the agent nor *)
(* a fetch through a worktree does, nor does the client that keeps a       *)
(* review once its runner has ended.                                       *)
(***************************************************************************)
EXTENDS Integers, Sequences, FiniteSets, FiniteSetsExt

CONSTANTS
  Commits, Parents, Anc,   (* the history; Anc[c] has c                    *)
  Tree,                    (* of each commit, and of 0: the empty tree     *)
  Size, Binary, Modules,   (* of blobs                                     *)
  BlobMax, TotalMax, FilesMax, CommitsMax,    (* REVIEW_LIMITS             *)
  Branches, None,          (* no branch: a detached HEAD, nothing to compare with *)
  Worlds, Clients, Panel,  (* the clients the panel runs; terminals the rest *)
  Budget                   (* bounds the moves of the agent and of GitHub  *)

VARIABLES
  refs,     (* the branches the project has                                *)
  head,     (* what is checked out: a branch or none, and its commit      *)
  origin,   (* origin/*, as the last pull or fetch left it                 *)
  client,   (* each `desolate --review`: its step and what it has read     *)
  dir,      (* the target's directory of kept sides                        *)
  shown,    (* the review in the panel's view                              *)
  pushed,   (* ghost: the push of the review shown, and the branch asked   *)
  moves
vars == <<refs, head, origin, client, dir, shown, pushed, moves>>

Sides == {"a", "b"}
NoSides == [at \in {<<i, s>> : i \in 1..FilesMax, s \in Sides} |-> 0]
NoReview == [head |-> 0, branch |-> None, base |-> None, baseCommit |-> 0, from |-> 0,
             ahead |-> 0, behind |-> 0, commits |-> {}, files |-> <<>>, more |-> FALSE]
NoPush == [branch |-> None, asked |-> None]
(* steady and alone are ghosts: nothing moved since it began; nobody else  *)
(* was at the directory since it was.                                      *)
Idle == [step |-> "idle", review |-> NoReview, todo |-> {}, steady |-> FALSE, alone |-> FALSE]
Reading == {"head", "branch", "base", "count", "diff"}

(* What git, and what is read of a repository, guarantee.                  *)
Constants ==
  /\ Commits \subseteq Nat \ {0} /\ IsFiniteSet(Commits)
  /\ Anc \in [Commits -> SUBSET Commits]
  /\ \A c \in Commits \union {0} : Tree[c] \in Seq(Nat) /\ Len(Tree[c]) = Len(Tree[0])
  /\ FilesMax \in Nat /\ CommitsMax \in Nat
  /\ \A w \in Worlds :
       /\ w.head \in [branch : Branches \union {None}, commit : Commits]
       /\ w.refs \in [Branches -> Commits \union {0}] /\ w.origin \in [Branches -> Commits \union {0}]
       /\ w.head.branch # None => w.refs[w.head.branch] = w.head.commit

Init == /\ \E w \in Worlds : refs = w.refs /\ head = w.head /\ origin = w.origin
        /\ client = [c \in Clients |-> Idle]
        /\ dir = NoSides
        /\ shown = NoReview /\ pushed = NoPush
        /\ moves = 0
--------------------------------------------------------------------------------
(* The project's agent, and GitHub.                                        *)

Unsteady == client' = [c \in Clients |-> [client[c] EXCEPT !.steady = FALSE]]
Moves == /\ moves < Budget
         /\ moves' = moves + 1
         /\ Unsteady
         /\ UNCHANGED <<dir, shown, pushed>>
AgentCommits ==
  /\ Moves /\ UNCHANGED origin
  /\ \E c \in Commits : /\ head.commit \in Parents[c]
                        /\ head' = [head EXCEPT !.commit = c]
                        /\ refs' = [b \in Branches |-> IF b = head.branch THEN c ELSE refs[b]]
AgentSwitches ==
  /\ Moves /\ UNCHANGED origin
  /\ \E b \in Branches \ {head.branch} :
       \/ refs[b] # 0 /\ head' = [branch |-> b, commit |-> refs[b]] /\ UNCHANGED refs
       \/ /\ refs[b] = 0           \* switch -c
          /\ head' = [head EXCEPT !.branch = b]
          /\ refs' = [refs EXCEPT ![b] = head.commit]
AgentDetaches == /\ head.branch # None
                 /\ Moves /\ UNCHANGED <<refs, origin>>
                 /\ head' = [head EXCEPT !.branch = None]
(* What GitHub has of a branch advances, or is new.                        *)
Fetches == /\ Moves /\ UNCHANGED <<refs, head>>
           /\ \E b \in Branches, c \in Commits :
                /\ origin[b] # c /\ origin[b] \in Anc[c] \union {0}
                /\ origin' = [origin EXCEPT ![b] = c]
--------------------------------------------------------------------------------
(* reviewScript: each git command reads HEAD, or the refs, for itself.     *)

LockFree == \A c \in Clients : client[c].step \notin Reading
At(c, step) == client[c].step = step
Goes(c, next) == /\ client' = [client EXCEPT ![c] = next]
                 /\ UNCHANGED <<refs, head, origin, dir, shown, pushed, moves>>
Says(c, step, review) ==
  Goes(c, [client[c] EXCEPT !.step = step, !.review = review])

Begin(c) == /\ At(c, "idle") /\ LockFree
            /\ Goes(c, [Idle EXCEPT !.step = "head", !.steady = TRUE])
ReadHead(c) == At(c, "head") /\ Says(c, "branch", [NoReview EXCEPT !.head = head.commit])
ReadBranch(c) ==
  At(c, "branch") /\ Says(c, "base", [client[c].review EXCEPT !.branch = head.branch])

Behind(from, commit) == from \ Anc[commit]
Beyond(from, commit) == Anc[commit] \ from
Known == {b \in Branches : origin[b] # 0}
Beyonds(b) == Cardinality(Beyond(Anc[origin[b]], head.commit))
(* origin's copy of the branch, else the origin branch HEAD has the fewest *)
(* commits beyond, the newest of those first; else none.                   *)
Bases(branch) ==
  IF branch \in Known THEN {branch}
  ELSE IF Known = {} THEN {None}
  ELSE {b \in Known : \A k \in Known : \/ Beyonds(b) < Beyonds(k)
                                       \/ Beyonds(b) = Beyonds(k) /\ origin[b] >= origin[k]}
ReadBase(c) ==
  /\ At(c, "base")
  /\ \E b \in Bases(client[c].review.branch) :
       Says(c, "count", [client[c].review EXCEPT !.base = b])

Newest(commits) == {c \in commits : Cardinality({d \in commits : d > c}) < CommitsMax}
Count(c) ==
  LET review == client[c].review
      its == IF review.base = None THEN 0 ELSE origin[review.base]
      has == IF its = 0 THEN {} ELSE Anc[its]
      range == Beyond(has, head.commit)
  IN
  /\ At(c, "count")
  /\ Says(c, "diff", [review EXCEPT
       !.baseCommit = its,
       !.from = IF its = 0 THEN 0 ELSE Max({0} \union (has \intersect Anc[head.commit])),
       !.ahead = Cardinality(range), !.behind = Cardinality(Behind(has, head.commit)),
       !.commits = Newest(range)])

(* A file is `large` by its own size or by what was sent before it.        *)
Differ(old, new) == {p \in DOMAIN Tree[new] : Tree[old][p] # Tree[new][p]}
Nth(paths, i) == CHOOSE p \in paths : Cardinality({q \in paths : q < p}) = i - 1
Both(old, new, path) == Size[Tree[old][path]] + Size[Tree[new][path]]
Kind(old, new, path, total) ==
  LET sides == {Tree[old][path], Tree[new][path]} IN
  IF sides \intersect Modules # {} THEN "module"
  ELSE IF (\E b \in sides : Size[b] > BlobMax) \/ total + Both(old, new, path) > TotalMax THEN "large"
  ELSE IF sides \intersect Binary # {} THEN "binary"
  ELSE "text"
Files(old, new) ==
  LET paths == Differ(old, new)
      n == Min({FilesMax, Cardinality(paths)})
      total[i \in 0..n] ==
        IF i = 0 THEN 0
        ELSE total[i - 1] + IF Kind(old, new, Nth(paths, i), total[i - 1]) = "text"
                            THEN Both(old, new, Nth(paths, i)) ELSE 0
  IN [i \in 1..n |->
       LET path == Nth(paths, i) IN [path |-> path, kind |-> Kind(old, new, path, total[i - 1]),
                                     a |-> Tree[old][path], b |-> Tree[new][path]]]
Diff(c) ==
  LET review == client[c].review IN
  /\ At(c, "diff")
  /\ Says(c, "said", [review EXCEPT !.files = Files(review.from, head.commit),
                        !.more = Cardinality(Differ(review.from, head.commit)) > FilesMax])

(* It fails, is killed, or its connection ends before END: nothing is kept. *)
GivesUp(c) == /\ client[c].step \in Reading \union {"said"}
              /\ Goes(c, Idle)
--------------------------------------------------------------------------------
(* keepReview, in the client, file by file.  Its limits are the script's,  *)
(* so every file that was sent is kept.                                    *)

Texts(files) == {i \in DOMAIN files : files[i].kind = "text"}
NotEmptied == dir                   \* (seeded: no rmSync)
Emptied == NoSides
Empties(c) ==
  /\ At(c, "said")
  /\ dir' = Emptied
  /\ client' = [d \in Clients |->
       IF d = c THEN [client[c] EXCEPT !.step = "keeping", !.todo = Texts(client[c].review.files),
                                       !.alone = \A k \in Clients : client[k].step # "keeping"]
       ELSE [client[d] EXCEPT !.alone = FALSE]]
  /\ UNCHANGED <<refs, head, origin, shown, pushed, moves>>
Keeps(c, i) ==
  /\ At(c, "keeping") /\ i \in client[c].todo
  /\ \A j \in client[c].todo : i <= j
  /\ LET file == client[c].review.files[i] IN
     dir' = [at \in DOMAIN dir |->
               IF at = <<i, "a">> /\ file.a # 0 THEN file.a
               ELSE IF at = <<i, "b">> /\ file.b # 0 THEN file.b ELSE dir[at]]
  /\ client' = [client EXCEPT ![c].todo = @ \ {i}]
  /\ UNCHANGED <<refs, head, origin, shown, pushed, moves>>
Killed(c) == At(c, "keeping") /\ Goes(c, Idle)
Kept(c) == /\ At(c, "keeping") /\ client[c].todo = {}
           /\ Goes(c, [client[c] EXCEPT !.step = "kept"])
--------------------------------------------------------------------------------
(* The panel shows it, or a terminal prints it.                            *)
Shows(c) == /\ c \in Panel /\ At(c, "kept")
            /\ shown' = client[c].review
            /\ pushed' = NoPush
            /\ client' = [client EXCEPT ![c] = Idle]
            /\ UNCHANGED <<refs, head, origin, dir, moves>>
(* A side opened from the view is read from the directory by then.         *)
Opens(i, side) == dir[<<i, side>>]
Prints(c) == c \notin Panel /\ At(c, "kept") /\ Goes(c, Idle)

(* transfer.ts: the branch checked out is bundled, unless its commit is    *)
(* not the one that was reviewed.                                          *)
Expects(review) == head.commit = review.head
Pushes == /\ shown # NoReview /\ LockFree
          /\ head.branch # None
          /\ Expects(shown)
          /\ pushed' = [branch |-> head.branch, asked |-> shown.branch]
          /\ UNCHANGED <<refs, head, origin, client, dir, shown, moves>>

Next == \/ AgentCommits \/ AgentSwitches \/ AgentDetaches \/ Fetches
        \/ \E c \in Clients :
             \/ Begin(c) \/ ReadHead(c) \/ ReadBranch(c) \/ ReadBase(c) \/ Count(c) \/ Diff(c)
             \/ GivesUp(c) \/ Empties(c) \/ Killed(c) \/ Kept(c) \/ Shows(c) \/ Prints(c)
             \/ \E i \in 1..FilesMax : Keeps(c, i)
        \/ Pushes
Spec == Init /\ [][Next]_vars
--------------------------------------------------------------------------------
TypeOK == /\ head \in [branch : Branches \union {None}, commit : Commits]
          /\ head.branch # None => refs[head.branch] = head.commit
          /\ origin \in [Branches -> Commits \union {0}]
          /\ \A c \in Clients : client[c].todo \subseteq 1..FilesMax
          /\ pushed.branch \in Branches \union {None}

(* docker.ts:395 "What `desolate --push` would send, for a person to read *)
(* first".  A review of a project that stood still while it was read lists *)
(* every commit GitHub has nowhere, and every path whose content no commit *)
(* of GitHub's has there, whichever branch it chose to compare with -- or  *)
(* says there is more than it lists.                                       *)
MissesNothing(review) ==
  LET theirs == UNION {Anc[origin[b]] : b \in Known} IN
  /\ \A n \in Anc[head.commit] \ theirs : n \in review.commits \/ review.ahead > CommitsMax
  /\ \A p \in DOMAIN Tree[head.commit] :
       (\A t \in theirs \union {0} : Tree[t][p] # Tree[head.commit][p]) =>
         review.more \/ \E i \in DOMAIN review.files : review.files[i].path = p
(* And review.ts:165: what is kept of one that is kept alone is each       *)
(* listed text file's two sides under its number, and nothing of a review  *)
(* before it, wherever that one was killed.                                *)
IsKept(review) ==
  \A i \in 1..FilesMax, s \in Sides :
    dir[<<i, s>>] = IF i \in Texts(review.files) THEN review.files[i][s] ELSE 0
ReviewIsWhole ==
  \A c \in Clients :
    /\ client[c].step \in {"said", "keeping", "kept"} /\ client[c].steady =>
         MissesNothing(client[c].review)
    /\ client[c].step = "kept" /\ client[c].alone => IsKept(client[c].review)

(* What does not hold, of the code as it is.                               *)

(* review.ts:165 "a review never shows another's content": what opens      *)
(* from the view is the listed content, or nothing while it is rewritten.  *)
ShowsNoOthers ==
  \A i \in Texts(shown.files), s \in Sides :
    shown.files[i][s] # 0 => Opens(i, s) \in {0, shown.files[i][s]}

(* docker.ts:395 again: the commit a review names, which the push expects, *)
(* is the one whose files it lists.                                        *)
ReviewIsOfOneCommit ==
  shown # NoReview => shown.files = Files(shown.from, shown.head)

(* transfer.ts:440 "What was reviewed is what is sent".                    *)
SendsTheBranchReviewed == pushed.branch = pushed.asked
================================================================================
