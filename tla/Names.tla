---------------------------------- MODULE Names ----------------------------------
(***************************************************************************)
(* Who may mount which volume while projects and worktrees come and go:    *)
(* the listing of projects.ts, the volume rule of policy.ts, and a start   *)
(* of desolate.ts, which is judged against the listing as it is then and   *)
(* has its container only after what `up` builds.  Starts of one target    *)
(* exclude each other (module Locks), those of two do not.                 *)
(***************************************************************************)
EXTENDS Naming, FiniteSets

CONSTANTS
  Places,      (* the directories there may be                              *)
  Encodable,   (* those of them whose names can be encoded                  *)
  Volumes,     (* the volumes a spec may ask for                            *)
  Namespace,   (* VolumeNamespace of each place                             *)
  Matches,     (* the places whose namespace each volume is in              *)
  AtOnce       (* how many starts may be under way                          *)

VARIABLES
  dirs,      (* the places there are                                        *)
  specs,     (* those with a devcontainer.json                              *)
  judged,    (* the starts that passed and are not over: of which target,   *)
             (* with which volume, and who claimed that when it was judged  *)
  mounting   (* the container that got a volume last, <<target, volume>>,   *)
             (* or <<>>                                                     *)

vars == <<dirs, specs, judged, mounting>>

TypeOK ==
  /\ dirs \subseteq Places /\ specs \subseteq dirs
  /\ judged \subseteq [target : Places, volume : Volumes, claimants : SUBSET Places]
  /\ mounting = <<>> \/ mounting \in Places \X Volumes

Root(project) == [project |-> project, worktree |-> <<>>]

(* list: top-level directories, below those without a spec their children, *)
(* and the worktrees of each.                                              *)
Listable(t) ==
  t \in Encodable /\ (Len(t.project) = 2 => Root(<<t.project[1]>>) \notin specs)
List == {t \in dirs : Listable(t)}
Startable == List \intersect specs

(* The volume rule: a volume in a target's namespace is its own, unless it *)
(* is in a longer one too.                                                 *)
Claimants(volume) == Matches[volume] \intersect List
(* Faults to seed: the shortest claim wins; any claim will do.             *)
OwnersShortest(volume) ==
  LET all == Claimants(volume) IN
  {t \in all : \A u \in all : Len(Namespace[t]) <= Len(Namespace[u])}
Owners(volume) ==
  LET all == Claimants(volume) IN
  {t \in all : \A u \in all : Len(Namespace[u]) <= Len(Namespace[t])}
WithinNamespace(t, volume) ==
  t \in Claimants(volume) /\ \A o \in Owners(volume) : Namespace[o] = Namespace[t]

Init == dirs = {} /\ specs = {} /\ judged = {} /\ mounting = <<>>

(* Repositories, owners' directories and worktrees come and go, specs are  *)
(* written and deleted.                                                    *)
Parents(t) == {p \in Places : \/ t.worktree # <<>> /\ p = Root(t.project)
                              \/ Len(t.project) = 2 /\ p = Root(<<t.project[1]>>)}
Appears(t) ==
  /\ t \notin dirs /\ Parents(t) \subseteq dirs
  /\ dirs' = dirs \union {t}
  /\ specs' \in {specs, specs \union {t}}
  /\ UNCHANGED <<judged, mounting>>
(* A start whose directory goes is refused, or its container removed, when *)
(* that is looked at again around `up`; a container that is up stays.      *)
Goes(t) ==
  /\ t \in dirs /\ \A u \in dirs : t \notin Parents(u)
  /\ dirs' = dirs \ {t} /\ specs' = specs \ {t}
  /\ judged' = {s \in judged : s.target # t}
  /\ UNCHANGED mounting
Respecs(t) ==
  /\ t \in dirs
  /\ specs' = (IF t \in specs THEN specs \ {t} ELSE specs \union {t})
  /\ UNCHANGED <<dirs, judged, mounting>>

(* A start: named by a client, listed, judged against the list as it is;   *)
(* and then brought up by what was judged, twice if its editor finds the   *)
(* mounts stale, until it is over, or refused, killed or failed.           *)
Judge(t, volume) ==
  /\ t \in Startable /\ ValidName(t) /\ ValidWorktree(t)
  /\ \A s \in judged : s.target # t
  /\ Cardinality(judged) < AtOnce
  /\ WithinNamespace(t, volume)
  /\ judged' = judged \union {[target |-> t, volume |-> volume, claimants |-> Claimants(volume)]}
  /\ UNCHANGED <<dirs, specs, mounting>>
Mount(s) ==
  /\ mounting' = <<s.target, s.volume>>
  /\ UNCHANGED <<dirs, specs, judged>>
StartEnds(s) ==
  /\ judged' = judged \ {s}
  /\ UNCHANGED <<dirs, specs, mounting>>

Next ==
  \/ \E t \in Places : Appears(t) \/ Goes(t) \/ Respecs(t)
  \/ \E volume \in Volumes : \E t \in Claimants(volume) : Judge(t, volume)
  \/ \E s \in judged : Mount(s) \/ StartEnds(s)
Spec == Init /\ [][Next]_vars

-----------------------------------------------------------------------------

(* A volume that a target's container has goes to another's only when that *)
(* one's name is the longer (policy.ts mount.owner: "The LONGEST matching  *)
(* claim wins"), or when the target that has it was not listed as the      *)
(* start that takes it was judged: whatever comes and goes, and whoever    *)
(* mounts it, while the two starts are under way.                          *)
Passes == mounting # <<>> /\ mounting' # <<>> /\ mounting[2] = mounting'[2]
ToALonger == Len(Namespace[mounting'[1]]) >= Len(Namespace[mounting[1]])
JudgedBefore(t) ==
  \E s \in judged : <<s.target, s.volume>> = mounting' /\ t \notin s.claimants
TakenOnlyByALongerName == [][Passes => ToALonger \/ JudgedBefore(mounting[1])]_vars

(* The same whenever both are listed, as policy.ts:211-214 has it ("The    *)
(* LONGEST matching claim wins, so `web-api` beats `web`").  A start that  *)
(* was judged before `web-api` was there brings `web` up with its volume.  *)
AlwaysTheLonger == [][Passes /\ mounting[1] \in List => ToALonger]_vars

(* Two targets a client may name have two namespaces (projects.ts          *)
(* volumeNamespace: "@throws If the remapping could result in a            *)
(* collision").                                                            *)
NamesArePrivate ==
  \A t, u \in List : /\ ValidName(t) /\ ValidName(u) /\ t # u
                     /\ ValidWorktree(t) /\ ValidWorktree(u)
                     => Namespace[t] # Namespace[u]

(* The volumes of a target's views are its own by the volume rule          *)
(* (overlay.ts overlayVolumes).  Not so once a project is called as the    *)
(* view is, "<namespace>-<shared>".                                        *)
ViewsAreTheirTargets(Shared) ==
  \A t \in List, s \in Shared : \A volume \in OverlayVolumes(t, s) : WithinNamespace(t, volume)
=============================================================================
