-------------------------------- MODULE Policy ---------------------------------
(***************************************************************************)
(* What a spec may ask for (policy.ts), and what is made of one that       *)
(* passed: its features pinned (feature-pins.ts), its workspace and mask   *)
(* added (deriveRunConfig), its Dockerfile built and replaced by an image  *)
(* (dockerfile-build.ts) -- each judged again, so what desolate writes     *)
(* itself must pass too.                                                   *)
(*                                                                         *)
(* A spec is a record of the keys the checks read; a text is what the      *)
(* checks tell apart of it.  Beside the policy stand the two programs it   *)
(* foresees: the CLI, which joins what features and the base image's label *)
(* bring to what the project wrote, and docker, which reads the arguments. *)
(***************************************************************************)
EXTENDS Naturals, Sequences, SequencesExt

CONSTANTS Drafts,       \* specs to begin with
          Tries,        \* each key of a spec to the values tried for it
          Bases         \* names of base images, as Brings has them

VARIABLES spec, layout, target, base, masked, edits
vars == <<spec, layout, target, base, masked, edits>>

Empty == [keys |-> {}, features |-> {}, privileged |-> FALSE, capAdd |-> FALSE,
          securityOpt |-> {}, mounts |-> {}, runArgs |-> <<>>, dockerfile |-> <<>>, context |-> <<>>,
          workspaceFolder |-> "none", workspaceMount |-> <<>>,
          shadowImages |-> "none", memory |-> "none"]

---------------------------------------------------------------------------------
(* What the policy reads.                                                  *)

(* A security option is written key=value, key:value, or as one word.      *)
securityOption(option) ==
  IF option.sep # "none" THEN {[key |-> option.key, value |-> option.value]}
  ELSE IF option.key = "no-new-privileges" THEN {[key |-> option.key, value |-> "true"]}
  ELSE IF option.key = "disable" THEN {[key |-> "label", value |-> "disable"]}
  ELSE {}

(* Only what restates or tightens the default passes on the shared daemon; *)
(* a path to a seccomp profile passes on neither.                          *)
disallowedSecurityOption(option, daemon) ==
  ~\E parsed \in securityOption(option) :
     LET value == parsed.value IN
     CASE parsed.key = "no-new-privileges" -> value = "true"
       [] parsed.key = "seccomp" -> value \in ({"builtin"} \union
                                      IF daemon = "project" THEN {"unconfined"} ELSE {})
       [] parsed.key = "apparmor" -> daemon = "project" \/ value = "docker-default"
       [] parsed.key \in {"label", "systempaths"} -> daemon = "project"
       [] OTHER -> FALSE

(* A feature is spelled as a reference in a registry, by tag or digest; as *)
(* owner/repo/feature, resolved through releases; as a URL; as a path.     *)
parseRef(id) == id.spelling \in {"tag", "digest"}
origin(id) ==
  CASE id.spelling \in {"tag", "digest", "releases"} -> "registry"
    [] id.spelling = "https" -> "tarball"
    [] id.spelling = "path" -> "local"
    [] OTHER -> "unknown"
classify(id) ==
  CASE id.spelling = "https" -> "tarball"
    [] id.spelling = "path" -> "local"
    [] id.spelling = "digest" -> "pinned"
    [] id.spelling = "tag" -> "tag"
    [] OTHER -> "unknown"
isRequiredBy(ids) == \E id \in ids : id.name = "outside" /\ parseRef(id)
daemonOf(s) == IF isRequiredBy(s.features) THEN "project" ELSE "shared"

(* External.  What a feature or a base image declares of itself, and the   *)
(* CLI's merge of it with what the project wrote.                          *)
Socket == [type |-> "bind", source |-> "docker.sock", at |-> "docker-host.sock"]
Ungranted == [privileged |-> FALSE, capAdd |-> FALSE, securityOpt |-> {}, mounts |-> {}]
Brings(name) ==
  CASE name = "outside" -> [Ungranted EXCEPT !.mounts = {Socket}, !.securityOpt =
                              {[sep |-> "=", key |-> "label", value |-> "disable"]}]
    [] name = "debugger" -> [Ungranted EXCEPT !.capAdd = TRUE]
    [] name = "driver" -> [Ungranted EXCEPT !.privileged = TRUE]
    [] OTHER -> Ungranted
Join(grants) == [privileged |-> \E g \in grants : g.privileged,
                 capAdd |-> \E g \in grants : g.capAdd,
                 securityOpt |-> UNION {g.securityOpt : g \in grants},
                 mounts |-> UNION {g.mounts : g \in grants}]
Own(s) == [privileged |-> s.privileged, capAdd |-> s.capAdd,
           securityOpt |-> s.securityOpt, mounts |-> s.mounts]
Merged(s, label) == Join({Own(s), label} \union {Brings(id.name) : id \in s.features})

---------------------------------------------------------------------------------
(* runArgs as (flag, value) pairs: a value is inline or the next argument, *)
(* which is then not a flag.                                               *)

Values == {"--security-opt", "--tmpfs", "--env"}
Bools == {"--init"}
Refused == [ok |-> FALSE, pairs |-> {}]
Unspelled == [sep |-> "none", key |-> "none", value |-> "none"]
(* An argument [flag, inline]: a bare one has no flag, and its text inline; *)
(* a flag alone has inline = <<>>.  An empty argument, refused wherever it *)
(* stands, is left out.                                                    *)
Options == [sep : STRING, key : STRING, value : STRING]
Arguments == {arg \in [flag : STRING, inline : Seq(Options)] :
                 Len(arg.inline) <= 1 /\ (arg.flag = "none" => arg.inline # <<>>)}

(* What the arguments from i on come to, with read for those behind it. A  *)
(* boolean flag may say true or false; any other wants a value.            *)
takesNoValue(arg) == arg.inline = <<>> \/ arg.inline[1].key \in {"true", "false"}
(* The fault to seed: such a flag at the end is let through.               *)
valueBehindTrailing(args, read, i) ==
  IF i = Len(args) THEN read[i + 1]
  ELSE IF args[i + 1].flag # "none" THEN Refused
  ELSE [read[i + 2] EXCEPT !.pairs = @ \union {<<args[i].flag, args[i + 1].inline[1]>>}]
valueBehind(args, read, i) ==
  IF i = Len(args) \/ args[i + 1].flag # "none" THEN Refused
  ELSE [read[i + 2] EXCEPT !.pairs = @ \union {<<args[i].flag, args[i + 1].inline[1]>>}]
allowedFrom(args, read, i) ==
  IF i > Len(args) THEN [ok |-> TRUE, pairs |-> {}]
  ELSE LET arg == args[i] IN
       IF arg.flag \in Bools THEN IF takesNoValue(arg) THEN read[i + 1] ELSE Refused
       ELSE IF arg.flag \notin Values THEN Refused
       ELSE IF arg.inline = <<>> THEN valueBehind(args, read, i)
       ELSE [read[i + 1] EXCEPT !.pairs = @ \union {<<arg.flag, arg.inline[1]>>}]
allowedPairs(args) ==
  LET read[i \in 1..Len(args) + 1] == allowedFrom(args, read, i) IN read[1]

(* External.  Docker's own reading of the arguments, the image behind      *)
(* them: a flag that wants a value takes whatever is next, and the first   *)
(* argument that is neither is taken for the image.                        *)
Takes == Values \union {"--volume"}
dockerFrom(all, read, i) ==
  IF i > Len(all) THEN [flags |-> {}, image |-> "none"]
  ELSE LET arg == all[i]
           and(n, pair) == [read[i + n] EXCEPT !.flags = @ \union {pair}] IN
       CASE arg.flag = "none" -> [flags |-> {}, image |-> arg.inline[1].key]
         [] arg.flag \in Takes /\ arg.inline = <<>> ->
              and(2, <<arg.flag, IF i < Len(all) /\ all[i + 1].flag = "none"
                                 THEN all[i + 1].inline[1] ELSE Unspelled>>)
         [] OTHER -> and(1, <<arg.flag, IF arg.inline = <<>> THEN Unspelled
                                        ELSE arg.inline[1]>>)
DockerReads(args) ==
  LET all == Append(args, [flag |-> "none", inline |-> <<[Unspelled EXCEPT !.key = "image"]>>])
      read[i \in 1..Len(all) + 2] == dockerFrom(all, read, i)
  IN read[1]

---------------------------------------------------------------------------------
(* The checks, in their order.                                             *)

featuresMustBeFetched(s) ==
  \A id \in s.features : /\ ~(id.name = "nested" /\ parseRef(id))
                         /\ origin(id) = "registry" /\ parseRef(id)

(* A mount the project did not write is a feature's, and only a feature's  *)
(* may be the daemon's socket.                                             *)
ensureMountIsWithinNamespace(mounted, daemon, fromFeature) ==
  \/ mounted.type = "bind" /\ mounted.source = "public-ca"
  \/ fromFeature /\ daemon = "project" /\ mounted = Socket
  \/ mounted.type = "volume" /\ mounted.source = "own"
mountsStayInOwnNamespace(s, merged, daemon) ==
  \A mounted \in merged.mounts :
    ensureMountIsWithinNamespace(mounted, daemon, mounted \notin s.mounts)

runArgsOnAllowlist(s, daemon) ==
  LET read == allowedPairs(s.runArgs) IN
  /\ read.ok
  /\ \A pair \in read.pairs :
       /\ pair[1] = "--security-opt" => ~disallowedSecurityOption(pair[2], daemon)
       /\ pair[1] = "--tmpfs" => pair[2].key = "/path"

(* A path is the names on it, resolved against the directory of the file   *)
(* the CLI read, which the layout of the project decides.                  *)
root == <<"workspaces", "p">>
configDirectory == IF layout = "nested" THEN Append(root, ".devcontainer") ELSE root
resolve(directory, path) ==
  FoldLeft(LAMBDA at, name : IF name = ".." THEN SubSeq(at, 1, Len(at) - 1) ELSE Append(at, name),
           IF path.absolute THEN <<>> ELSE directory, path.names)
buildPathsStayInOwnProject(s) ==
  \A path \in Range(s.dockerfile) \union Range(s.context) :
    IsPrefix(root, resolve(configDirectory, path))

(* Places: "dir" is the target's own, "root" its project's, which is the    *)
(* same but for a worktree, and "default" where the CLI would put it.      *)
ProjectDir(t) == IF t = "worktree" THEN "root" ELSE "dir"
workspaceMountTargets(t) == {"dir"} \union IF t = "worktree" THEN {} ELSE {"default"}
workspaceMountIsOwnFolder(s, t) ==
  \A i \in DOMAIN s.workspaceMount :
    LET mounted == s.workspaceMount[i] IN
    IF t = "worktree" /\ mounted.source = "root" THEN mounted.at = "root"
    ELSE mounted.source = "dir" /\ mounted.at \in workspaceMountTargets(t)

(* dockerComposeFile, initializeCommand, build.options and appPort: no      *)
(* value of theirs passes.                                                 *)
noForbiddenKeys(s) == s.keys = {}
neverPrivileged(merged) == ~merged.privileged
capAddsOnlyOnAProjectDaemon(merged, daemon) == merged.capAdd => daemon = "project"
securityOptKeepsTheSandbox(merged, daemon) ==
  \A option \in merged.securityOpt : ~disallowedSecurityOption(option, daemon)
shadowImagesAreImages(s) == s.shadowImages # "bad"
memoryIsASize(s) == s.memory # "bad"

enforcePolicy(s, label, t, daemon) ==
  LET merged == Merged(s, label) IN
  /\ noForbiddenKeys(s)
  /\ featuresMustBeFetched(s)
  /\ neverPrivileged(merged)
  /\ capAddsOnlyOnAProjectDaemon(merged, daemon)
  /\ securityOptKeepsTheSandbox(merged, daemon)
  /\ mountsStayInOwnNamespace(s, merged, daemon)
  /\ runArgsOnAllowlist(s, daemon)
  /\ buildPathsStayInOwnProject(s)
  /\ shadowImagesAreImages(s)
  /\ memoryIsASize(s)
  /\ workspaceMountIsOwnFolder(s, t)

---------------------------------------------------------------------------------
(* What is made of a spec that passed.                                     *)

(* External.  Features that bring others by their own ids.                 *)
Dependent == {"bundle"}
pinnable(ids) == \A id \in ids : classify(id) \in {"tag", "pinned"} /\ id.name \notin Dependent
(* The digest in place of the whole reference.                             *)
pinFeaturesBare(ids) == {[id EXCEPT !.spelling = "releases"] : id \in ids}
pinFeatures(ids) == {[id EXCEPT !.spelling = "digest"] : id \in ids}
unpinned(ids) == {id \in ids : classify(id) # "pinned"}

(* On a daemon of its own the workspace sits at its own path, or the start *)
(* is refused in as many words.                                            *)
ownPath(s) == /\ s.workspaceFolder \in {"none", "dir"}
              /\ \A i \in DOMAIN s.workspaceMount :
                   s.workspaceMount[i] = [source |-> "dir", at |-> "dir"]
mustMirrorItsOwnPath(s, t, daemon) ==
  \/ daemon = "project"
  \/ t = "worktree"
  \/ t = "nested" /\ s.workspaceFolder = "none" /\ s.workspaceMount = <<>>

(* The worktrees' directory hidden, unless a worktree is open to pruning.  *)
mask(t) == IF t # "worktree" /\ masked
           THEN << [flag |-> "--tmpfs", inline |-> <<>>],
                   [flag |-> "none", inline |-> <<[Unspelled EXCEPT !.key = "/path"]>>] >>
           ELSE <<>>

(* Refusals said as what they are: no pin, no room for the workspace.      *)
derivable(s, daemon) == pinnable(s.features) /\ (daemon = "project" => ownPath(s))
deriveRunConfig(s, t, daemon) ==
  LET mirrored == IF mustMirrorItsOwnPath(s, t, daemon)
                  THEN [s EXCEPT !.workspaceFolder = "dir", !.workspaceMount =
                          << [source |-> ProjectDir(t), at |-> ProjectDir(t)] >>]
                  ELSE s
  IN [mirrored EXCEPT !.runArgs = @ \o mask(t), !.features = pinFeatures(@)]

buildsFromDockerfile(s) == s.dockerfile # <<>>
(* The build is given both paths made absolute: the Dockerfile's in the    *)
(* snapshot, the context's in the project.                                 *)
snapshotDir == <<"specs", "p">>
buildSpecInProject(s) ==
  [dockerfile |-> resolve(configDirectory, s.dockerfile[1]),
   context |-> IF s.context = <<>> THEN configDirectory
               ELSE resolve(configDirectory, s.context[1])]
buildSpec(s) ==
  [dockerfile |-> resolve(snapshotDir, s.dockerfile[1]),
   context |-> IF s.context = <<>> THEN configDirectory
               ELSE resolve(configDirectory, s.context[1])]
(* The project's file a snapshot's is a copy of: the whole directory of a  *)
(* nested layout is copied, and of a flat one the spec alone.              *)
snapshot(path) ==
  IF layout = "nested" /\ IsPrefix(snapshotDir, path)
  THEN {configDirectory \o SubSeq(path, Len(snapshotDir) + 1, Len(path))} ELSE {}

imageSpec(s) == [s EXCEPT !.dockerfile = <<>>, !.context = <<>>, !.features = {}]

(* A base's label is part of the merge from the start when the spec names  *)
(* an image, and only after the build when a Dockerfile does.              *)
FirstLabel(s) == IF buildsFromDockerfile(s) THEN Ungranted ELSE Brings(base)
Passes(s, daemon) == enforcePolicy(s, FirstLabel(s), target, daemon)
Started == LET daemon == daemonOf(spec) IN Passes(spec, daemon) /\ derivable(spec, daemon)
Derived == deriveRunConfig(spec, target, daemonOf(spec))
BuiltLabel == Merged(Derived, Brings(base))
(* What `up` is given in the end, and the label of its image.              *)
Final == IF buildsFromDockerfile(Derived) THEN imageSpec(Derived) ELSE Derived
FinalLabel == IF buildsFromDockerfile(Derived) THEN BuiltLabel ELSE Brings(base)

---------------------------------------------------------------------------------
(* The states are specs: a draft, and one key more written by the project's *)
(* author.                                                                 *)

(* What a file that parses holds. *)
Specs == [keys : SUBSET STRING, features : SUBSET [name : STRING, spelling : STRING],
          privileged : BOOLEAN, capAdd : BOOLEAN, securityOpt : SUBSET Options,
          mounts : SUBSET [type : {"bind", "volume"}, source : STRING, at : STRING],
          runArgs : Seq(Arguments),
          dockerfile : Seq([absolute : BOOLEAN, names : Seq(STRING)]),
          context : Seq([absolute : BOOLEAN, names : Seq(STRING)]),
          workspaceFolder : STRING, workspaceMount : Seq([source : STRING, at : STRING]),
          shadowImages : STRING, memory : STRING]
Constants == /\ Drafts \subseteq Specs
             /\ DOMAIN Tries \subseteq DOMAIN Empty
             /\ \A key \in DOMAIN Tries : \A value \in Tries[key] : [Empty EXCEPT ![key] = value] \in Specs

Init == /\ spec \in Drafts
        /\ layout \in {"nested", "flat"}
        /\ target \in {"project", "nested", "worktree"}
        /\ base \in Bases
        /\ masked \in BOOLEAN
        /\ edits = 1

Write(key) == /\ edits > 0
              /\ \E value \in Tries[key] : spec' = [spec EXCEPT ![key] = value]
              /\ edits' = edits - 1
              /\ UNCHANGED <<layout, target, base, masked>>
Next == \E key \in DOMAIN Tries : Write(key)
Spec == Init /\ [][Next]_vars

TypeOK == /\ spec \in Specs
          /\ target \in {"project", "nested", "worktree"}
          /\ edits \in 0..1

(* What desolate makes of a spec that passed passes too, before the build  *)
(* and after it, and no feature reaches `up` without its digest: the two   *)
(* messages "this is a desolate bug" (desolate.ts:2092, :2110) are never   *)
(* said -- for a base image whose label grants nothing the spec does not   *)
(* already have.                                                           *)
DerivedStillPasses ==
  Started /\ (buildsFromDockerfile(spec) => Brings(base) = Ungranted) =>
    LET daemon == daemonOf(spec) IN
    /\ enforcePolicy(Derived, FirstLabel(Derived), target, daemon)
    /\ enforcePolicy(Final, FinalLabel, target, daemon)
    /\ unpinned(Final.features) = {}

(* Without that condition it is not so: a Dockerfile's base may carry a    *)
(* label the first judgement could not see, the second refuses it, and the *)
(* refusal is put down to a bug of desolate's.                             *)
NeverADesolateBug ==
  Started => enforcePolicy(Final, FinalLabel, target, daemonOf(spec))

(* What runs, as docker reads it: the image stays the image, every flag is *)
(* one the policy knows and read with the value docker reads, and beyond   *)
(* the devcontainer lie only volumes of the project's, its own workspace   *)
(* and, for a feature on a daemon of its own, that daemon's socket.        *)
NothingReachesPast ==
  Started /\ enforcePolicy(Final, FinalLabel, target, daemonOf(spec)) =>
    LET daemon == daemonOf(spec)
        reads == DockerReads(Final.runArgs)
        merged == Merged(Final, FinalLabel)
        options == merged.securityOpt \union
                   {pair[2] : pair \in {p \in reads.flags : p[1] = "--security-opt"}} IN
    /\ reads.image = "image"
    /\ {pair[1] : pair \in reads.flags} \subseteq Values \union Bools
    /\ mask(target) # <<>> =>
         <<"--tmpfs", [Unspelled EXCEPT !.key = "/path"]>> \in reads.flags
    /\ \A mounted \in merged.mounts :
         \/ mounted.source \in {"own", "public-ca"}
         \/ daemon = "project" /\ mounted = Socket
    /\ \A option \in options :
         \E o \in securityOption(option) : /\ o.key = "seccomp" => o.value # "/path"
                                           /\ o.key = "no-new-privileges" => o.value = "true"
                                           /\ daemon = "shared" => o.value # "disable"
    /\ \A i \in DOMAIN Final.workspaceMount : Final.workspaceMount[i].source \in {"dir", "root"}

(* The Dockerfile that is built is the one that was judged, or its copy    *)
(* (dockerfile-build.ts:28 "the snapshot's Dockerfile, the project's       *)
(* context").                                                              *)
DockerfileIsTheOneJudged ==
  Started /\ buildsFromDockerfile(Derived) =>
    LET judged == resolve(configDirectory, Derived.dockerfile[1])
        built == buildSpec(Derived) IN
    /\ built.dockerfile = judged \/ judged \in snapshot(built.dockerfile)
    /\ IsPrefix(root, built.context)
================================================================================
