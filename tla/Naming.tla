--------------------------------- MODULE Naming ---------------------------------
(***************************************************************************)
(* How a target's names are spelled: the pure part of projects.ts, with    *)
(* the namespace test of policy.ts and the volumes of overlay.ts.  A name  *)
(* is a sequence of tokens, which is as much spelling as the encoding can  *)
(* see; a place is a directory where a project or a worktree may be,       *)
(* [project |-> one or two segments, worktree |-> a segment or <<>>].      *)
(***************************************************************************)
EXTENDS Naturals, Sequences
LOCAL INSTANCE SequencesExt

Reserved == {<<"_", "_">>, <<"-", "-", "wt", "-", "-">>}
Occurs(part, name) ==
  \E i \in 1..(Len(name) - Len(part) + 1) : SubSeq(name, i, i + Len(part) - 1) = part
Namespaceable(name) == \A part \in Reserved : ~Occurs(part, name)

(* How a target is written, and the prefix of everything it owns.          *)
TargetName(t) ==
  (IF Len(t.project) = 2 THEN t.project[1] \o <<"/">> \o t.project[2] ELSE t.project[1])
    \o (IF t.worktree = <<>> THEN <<>> ELSE <<"@">> \o t.worktree)
(* A fault to seed: a worktree written as an ending of its project's name. *)
SpelledFlat(c) == IF c \in {"/", "@"} THEN <<"-">> ELSE <<c>>
Spelled(c) == CASE c = "/" -> <<"_", "_">>
                [] c = "@" -> <<"-", "-", "wt", "-", "-">>
                [] OTHER -> <<c>>
VolumeNamespace(t) == LET name == TargetName(t)
                      IN FlattenSeq([i \in DOMAIN name |-> Spelled(name[i])])

(* ValidName and ValidWorktree are what the broker takes from a client,    *)
(* Claims what a listing takes from the disk.                              *)
Plain(segment) == /\ segment # <<>>
                  /\ segment[1] \notin {"-", "_", "."}
                  /\ Namespaceable(segment)
ValidName(t) == \A i \in DOMAIN t.project : Plain(t.project[i])
ValidWorktree(t) == t.worktree = <<>> \/ Plain(t.worktree)
Claims(segment) == segment[1] # "." /\ Namespaceable(segment)
AllClaim(t) == /\ \A i \in DOMAIN t.project : Claims(t.project[i])
               /\ t.worktree # <<>> => Claims(t.worktree)

RequiresOwnership(namespace, volume) ==
  volume = namespace \/ IsPrefix(namespace \o <<"-">>, volume)

(* The two volumes of a target's view of a shared directory.               *)
OverlayVolumes(t, shared) ==
  {VolumeNamespace(t) \o <<"-">> \o shared,
   VolumeNamespace(t) \o <<"-">> \o shared \o <<"-", "data">>}
=============================================================================
