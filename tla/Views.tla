---------------------------------- MODULE Views ----------------------------------
(***************************************************************************)
(* One target's copy-on-write view of a directory desolate shares: built,  *)
(* reused and rebuilt by its starts (desolate.ts overlay), over two docker *)
(* volumes that anybody on the daemon may prune.                           *)
(***************************************************************************)
EXTENDS Naturals

CONSTANT Versions      (* a run of versions of the shared directory, from 0 *)

VARIABLES
  lower,    (* the version the shared directory is at                       *)
  view,     (* the overlay volume: there, stamped with a key                *)
  data,     (* its backing volume: there, with upper/ and work/, and the    *)
            (* versions that files in upper/ were written over              *)
  holds,    (* the target's container, which has the view: none, stopped,   *)
            (* running                                                      *)
  ensure    (* a start, inside ensureVolume: where, and the key it wants    *)

vars == <<lower, view, data, holds, ensure>>

NoVolume == [is |-> FALSE, ready |-> FALSE, upper |-> {}]
NoView == [is |-> FALSE, key |-> 0]
Steps == {"idle", "cleaned", "created", "prepared", "made", "ready"}

TypeOK ==
  /\ lower \in Versions
  /\ view \in [is : BOOLEAN, key : Versions]
  /\ data \in [is : BOOLEAN, ready : BOOLEAN, upper : SUBSET Versions]
  /\ holds \in {"none", "stopped", "running"}
  /\ ensure \in [pc : Steps, want : Versions]

Init ==
  /\ lower = 0 /\ view = NoView /\ data = NoVolume /\ holds = "none"
  /\ ensure = [pc |-> "idle", want |-> 0]

At(step) == ensure.pc = step
Goes(step) == ensure' = [ensure EXCEPT !.pc = step]

(* `docker volume rm -f view data`: docker keeps a volume that a container *)
(* has, a stopped one too, and knows of no container that has the data.    *)
Removed == /\ view' = (IF holds = "none" THEN NoView ELSE view)
           /\ data' = NoVolume
(* A fault to seed: only the view is made again.                           *)
RemovedView == /\ view' = (IF holds = "none" THEN NoView ELSE view)
               /\ UNCHANGED data
CleansUp == Removed

(* The key of the lower is read once.  A view stamped with it, over data   *)
(* that is still where it was, is reused; any other is removed.            *)
Intact == view.is /\ data.is
Reuse ==
  /\ At("idle") /\ Intact /\ view.key = lower
  /\ ensure' = [pc |-> "ready", want |-> lower]
  /\ UNCHANGED <<lower, view, data, holds>>
Discard ==
  /\ At("idle") /\ ~(Intact /\ view.key = lower)
  /\ CleansUp
  /\ ensure' = [pc |-> "cleaned", want |-> lower]
  /\ UNCHANGED <<lower, holds>>

(* `docker volume create` gives back a volume of that name as it is.       *)
CreateData ==
  /\ At("cleaned") /\ Goes("created")
  /\ data' = [data EXCEPT !.is = TRUE]
  /\ UNCHANGED <<lower, view, holds>>
(* mkdir -p, in a helper container that makes the volume if it is gone.    *)
Prepare ==
  /\ At("created") /\ Goes("prepared")
  /\ data' = [data EXCEPT !.is = TRUE, !.ready = TRUE]
  /\ UNCHANGED <<lower, view, holds>>
CreateOverlay ==
  /\ At("prepared") /\ data.is /\ Goes("made")
  /\ view' = (IF view.is THEN view ELSE [is |-> TRUE, key |-> ensure.want])
  /\ UNCHANGED <<lower, data, holds>>
Prove ==
  /\ At("made") /\ view.is /\ data.is /\ data.ready /\ Goes("ready")
  /\ UNCHANGED <<lower, view, data, holds>>

(* Any of the four may fail, and removes both before it dies; a start that *)
(* is killed removes nothing.                                              *)
Failed ==
  /\ ensure.pc \in {"cleaned", "created", "prepared", "made"}
  /\ CleansUp /\ Goes("idle")
  /\ UNCHANGED <<lower, holds>>
Killed ==
  /\ ~At("idle") /\ Goes("idle")
  /\ UNCHANGED <<lower, view, data, holds>>

(* `up` mounts what was made ready, unless somebody pruned it.             *)
Up ==
  /\ At("ready") /\ Goes("idle")
  /\ holds' = (IF view.is /\ data.is /\ data.ready THEN "running" ELSE holds)
  /\ UNCHANGED <<lower, view, data>>
Writes ==
  /\ holds = "running" /\ data.is /\ data.ready
  /\ data' = [data EXCEPT !.upper = @ \union {lower}]
  /\ UNCHANGED <<lower, view, holds, ensure>>
Stops ==
  /\ holds = "running" /\ At("idle") /\ holds' = "stopped"
  /\ UNCHANGED <<lower, view, data, ensure>>

(* A purge, or the removal a rebuild begins with.                          *)
PurgeViews ==
  /\ At("idle") /\ holds = "stopped"
  /\ holds' = "none" /\ view' = NoView /\ data' = NoVolume
  /\ UNCHANGED <<lower, ensure>>
RemoveBox ==
  /\ At("idle") /\ holds # "none" /\ holds' = "none"
  /\ UNCHANGED <<lower, view, data, ensure>>

(* The stack is brought up again with a newer server, or another CA.       *)
Upgrade ==
  /\ lower + 1 \in Versions /\ lower' = lower + 1
  /\ UNCHANGED <<view, data, holds, ensure>>
(* `docker volume prune -a`, in the middle of anything.                    *)
Prune ==
  /\ Removed
  /\ UNCHANGED <<lower, holds, ensure>>

Next ==
  \/ Reuse \/ Discard \/ CreateData \/ Prepare \/ CreateOverlay \/ Prove
  \/ Failed \/ Killed \/ Up \/ Writes \/ Stops \/ PurgeViews \/ RemoveBox
  \/ Upgrade \/ Prune
Spec == Init /\ [][Next]_vars

-----------------------------------------------------------------------------
(* A view that a start is about to mount holds no file written over an     *)
(* older version than the one it wants: "a file left in a project's upper  *)
(* can never shadow newer content below" (overlay.ts identityFile).        *)
NothingOldShadows ==
  At("ready") => \A v \in data.upper : v >= ensure.want

(* A rebuild is stamped: with nothing pruned and the lower unchanged, the  *)
(* view a start made ready is one the next start reuses.  Not so while a   *)
(* container holds the old view, which keeps its name and its label.       *)
ReadyIsStamped == At("ready") /\ Intact => view.key >= ensure.want
=============================================================================
