-------------------------------- MODULE Panel ----------------------------------
(***************************************************************************)
(* The editor's desolate panel (extension.mts), for one target: the        *)
(* actions a person takes from its row or from the palette, and a review   *)
(* that is made, shown, and pushed after a question.  The     *)
(* extension runs on one event loop and waits at every await, so actions   *)
(* on the same target, polls and questions overlap.                        *)
(*                                                                         *)
(* Commits are numbers, 0 for none, each newer than the last.              *)
(***************************************************************************)
EXTENDS Naturals

CONSTANTS Commits, Slots    \* how many commits, and actions at once

VARIABLES commit,     \* what its branch is at
          tip,        \* what GitHub has of the branch, as the cache has it
          onDefault,  \* whether the branch is the repository's default one
          kept,       \* the review kept in the editor's cache
          doing,      \* busy: what is being done to the target
          calls,      \* the actions under way; `asked` is a ghost: the commit
                      \* the push's question named
          reviewing,  \* the review in the Review view
          dialog      \* the question a push asks before it is one
world == <<commit, tip, onDefault>>
vars == <<commit, tip, onDefault, kept, doing, calls, reviewing, dialog>>

Idle == [op |-> "none", step |-> "idle", expect |-> 0, got |-> 0, allow |-> FALSE, asked |-> 0]
NoDialog == [asks |-> "none", review |-> 0]

---------------------------------------------------------------------------------
Init == /\ commit = 1 /\ tip = 0
        /\ onDefault \in BOOLEAN /\ kept = 0
        /\ doing = "none" /\ calls = [i \in Slots |-> Idle]
        /\ reviewing = 0 /\ dialog = NoDialog

(* The project's side.                                                     *)
AgentCommits == /\ commit < Commits
                /\ commit' = commit + 1
                /\ UNCHANGED <<tip, onDefault, kept, doing, calls, reviewing, dialog>>

---------------------------------------------------------------------------------
(* act: the row spins, and its inline actions are withdrawn, though not    *)
(* the palette's; the command runs, and whatever it ends with the row is   *)
(* itself again.                                                           *)

Free(i) == calls[i] = Idle
Begin(i, op, expect, allow, asked) ==
  /\ Free(i)
  /\ calls' = [calls EXCEPT ![i] = [op |-> op, step |-> "running", expect |-> expect,
                                    got |-> 0, allow |-> allow, asked |-> asked]]
  /\ doing' = op
BeginReview(i) == /\ Begin(i, "review", 0, FALSE, 0)
                  /\ UNCHANGED <<world, kept, reviewing, dialog>>
Command(i) == /\ \E op \in {"start", "stop", "review"} : Begin(i, op, 0, FALSE, 0)
              /\ UNCHANGED <<world, kept, reviewing, dialog>>
ReviewRefresh(i) == reviewing # 0 /\ BeginReview(i)

Ends(i) == /\ calls' = [calls EXCEPT ![i] = Idle]
           /\ doing' = "none"
Fails(i) == /\ calls[i].step \in {"running", "bundled", "kept"}
            /\ Ends(i)
            /\ UNCHANGED <<world, kept, reviewing, dialog>>
Done(i) == /\ calls[i].op \in {"start", "stop"}
           /\ Ends(i)
           /\ UNCHANGED <<world, kept, reviewing, dialog>>

(* --review: the sandbox reads the branch, the client keeps the two sides  *)
(* of every file where the last review's were, and then the view changes.  *)
ReviewReads(i) == /\ calls[i].op = "review" /\ calls[i].step = "running"
                  /\ calls' = [calls EXCEPT ![i].step = "read", ![i].got = commit]
                  /\ UNCHANGED <<world, kept, doing, reviewing, dialog>>
ReviewKept(i) == /\ calls[i].step = "read"
                 /\ kept' = calls[i].got
                 /\ calls' = [calls EXCEPT ![i].step = "kept"]
                 /\ UNCHANGED <<world, doing, reviewing, dialog>>
ReviewShown(i) == /\ calls[i].step = "kept"
                  /\ reviewing' = calls[i].got
                  /\ Ends(i)
                  /\ UNCHANGED <<world, kept, dialog>>
ReviewClose == /\ reviewing' = 0
               /\ UNCHANGED <<world, kept, doing, calls, dialog>>

(* A push asks first, naming what it would send; what it then runs expects *)
(* the commit that was named, however the Review view changed meanwhile.   *)
(* Refused for the default branch, it asks once more.                      *)
PushAsks == /\ dialog = NoDialog
            /\ \E review \in {reviewing, 0} :      \* 0: from the row, unreviewed
                 dialog' = [asks |-> "push", review |-> review]
            /\ UNCHANGED <<world, kept, doing, calls, reviewing>>
PushDismissed == /\ dialog # NoDialog
                 /\ dialog' = NoDialog
                 /\ UNCHANGED <<world, kept, doing, calls, reviewing>>
(* The commit of the review that is in the view by now.                    *)
ExpectedNow(asked) == reviewing
Expected(asked) == asked.review
PushConfirmed(i) == /\ dialog # NoDialog
                    /\ Begin(i, "push", Expected(dialog), dialog.asks = "anyway", dialog.review)
                    /\ dialog' = NoDialog
                    /\ UNCHANGED <<world, kept, reviewing>>

(* transfer.ts: the branch is bundled as it is, and refused if it is not   *)
(* as it was reviewed; what was bundled is what is sent.                   *)
PushBundles(i) ==
  /\ calls[i].op = "push" /\ calls[i].step = "running"
  /\ calls[i].expect \in {0, commit}
  /\ calls' = [calls EXCEPT ![i].step = "bundled", ![i].got = commit]
  /\ UNCHANGED <<world, kept, doing, reviewing, dialog>>
PushRefusedForDefault(i) ==
  /\ calls[i].step = "bundled" /\ onDefault /\ ~calls[i].allow
  /\ dialog = NoDialog
  /\ dialog' = [asks |-> "anyway", review |-> calls[i].asked]
  /\ Ends(i)
  /\ UNCHANGED <<world, kept, reviewing>>
Pushes(i) == /\ calls[i].step = "bundled" /\ (onDefault => calls[i].allow)
             /\ tip' = calls[i].got
             /\ IF reviewing # 0       \* and reviewed again
                THEN /\ calls' = [calls EXCEPT ![i] = [Idle EXCEPT !.op = "review", !.step = "running"]]
                     /\ doing' = "review"
                ELSE Ends(i)
             /\ UNCHANGED <<commit, onDefault, kept, reviewing, dialog>>

Next == \/ AgentCommits
        \/ \E i \in Slots : \/ Command(i) \/ ReviewRefresh(i) \/ Fails(i) \/ Done(i)
                            \/ ReviewReads(i) \/ ReviewKept(i) \/ ReviewShown(i)
                            \/ PushConfirmed(i) \/ PushBundles(i) \/ PushRefusedForDefault(i) \/ Pushes(i)
        \/ ReviewClose \/ PushAsks \/ PushDismissed
Spec == Init /\ [][Next]_vars

TypeOK == /\ commit \in 1..Commits /\ tip \in 0..Commits /\ kept \in 0..Commits
          /\ reviewing \in 0..Commits
          /\ doing \in {"none", "start", "stop", "review", "push"}

(* What reaches GitHub of a review is the commit the person was asked      *)
(* about and said yes to, through the second question of a default branch too, and        *)
(* however the view, the branch and other actions moved meanwhile.         *)
SendsWhatWasAsked ==
  tip' # tip => \E i \in Slots : /\ calls[i].op = "push" /\ calls'[i] # calls[i]
                                 /\ calls[i].asked \in {0, tip'}
PushedIsWhatWasAsked == [][SendsWhatWasAsked]_vars

---------------------------------------------------------------------------------
(* What does not hold.  The mark of a busy row is one per target and the    *)
(* palette offers a target that is busy, so the end of one action stops    *)
(* the spinner of another.                                                 *)
SpinsWhileActing == (\E i \in Slots : calls[i] # Idle) => doing # "none"

(* review.ts:165, of the directory a review is kept in: "a review never    *)
(* shows another's content".  The view's files are those of the review     *)
(* kept last, from before the view changes to it, or though it never does. *)
ReviewShowsItsOwn == reviewing # 0 => kept = reviewing
================================================================================
