-------------------------------- MODULE MCParts --------------------------------
(* The smallest instances of the parts at which all of it happens.         *)
EXTENDS Parts, SequencesExt, Naming

CONSTANTS Nothing, k, AtOnce, MayOvertake, Encoding

TheKeyring == [Aliases |-> {k}, Clients |-> {1, 2}, Newrepos |-> {1}, Keys |-> {1, 2},
               NoKey |-> 0, NoClient |-> Nothing, Concurrent |-> 1]

(* Starts: four specs, two for a daemon of their own. *)
Powers == [s \in {"plain", "lean", "dood", "bad", "old"} |->
             CASE s = "plain" -> {} [] s = "lean" -> {"socket"}
               [] s = "dood" -> {"socket", "capAdd"} [] OTHER -> {"privileged"}]
TheStarts ==
  [Specs |-> {"plain", "lean", "dood", "bad"}, Legacy |-> "old", Shared |-> {"plain", "bad"},
   Builds |-> {"lean"}, Tagged |-> {}, Asks |-> Powers,
   Refused |-> [d \in {"shared", "project"} |->
                     IF d = "shared" THEN {"socket", "capAdd", "privileged"} ELSE {"privileged"}],
   Reqs |-> (IF AtOnce = 1 THEN {"r1"} ELSE {"r1", "r2"}), Concurrent |-> AtOnce,
   BrokerOps |-> {"start", "rebuild"}, DirectOps |-> {"stop", "purge"},
   Overtakes |-> MayOvertake]

(* Transfers: a line of three commits, two processes of the editor. *)
TheTransfer ==
  [Commits |-> 0..2, Parents |-> [c \in 0..2 |-> {c - 1} \ {-1}],
   Anc |-> [c \in 0..2 |-> 0..c], Branches |-> {"topic"}, Branch |-> "topic", Absent |-> 9,
   Procs |-> {"p", "q"}, Budget |-> 3]

(* Worktrees: one of desolate's and one made elsewhere, of the same name. *)
TheWorktrees ==
  [Ours |-> {"w"}, Others |-> {"o"}, None |-> "none",
   Wanted |-> [t \in {"w", "o"} |-> <<"n", "n1">>]]

(* The ingress: one port, one dind at either of two addresses. *)
TheIngress ==
  [Ports |-> {"3000"}, Dinds |-> {"d"}, Addresses |-> {"x", "y"}, Owners |-> {"t"},
   Malformed |-> "bad", Changes |-> 4, Absent |-> "absent"]

(* Names: an owner's directory beside its namesakes, worktrees whose names *)
(* meet those of projects.                                                 *)
P(project, worktree) == [project |-> project, worktree |-> worktree]
NamePlaces == IF Encoding
              THEN {P(<< <<"f">> >>, <<>>), P(<< <<"f">> >>, <<"wt", "-", "-", "f">>),
                    P(<< <<"f", "-", "-", "wt">> >>, <<>>),
                    P(<< <<"f", "-", "-", "wt">> >>, <<"f">>)}
              ELSE {P(<< <<"w">> >>, <<>>), P(<< <<"w", "-", "f">> >>, <<>>),
                    P(<< <<"w">>, <<"f">> >>, <<>>), P(<< <<"w">> >>, <<"f">>),
                    P(<< <<"w">> >>, <<"f", "-", "d">>),
                    P(<< <<"w", "_", "_", "f">> >>, <<>>)}
Encodables == {t \in NamePlaces : AllClaim(t)}
Namespaces == [t \in NamePlaces |-> VolumeNamespace(t)]
NameVolumes == {Namespaces[t] : t \in NamePlaces}
               \union UNION {OverlayVolumes(t, <<"f">>) : t \in NamePlaces}
               \union {Namespaces[t] \o <<"-", "d">> : t \in NamePlaces}
NameMatches == [volume \in NameVolumes |->
                  {t \in NamePlaces : RequiresOwnership(Namespaces[t], volume)}]
(* Those a start asks for: the ones several places' names meet in.         *)
AskedVolumes == {volume \in {Namespaces[t] \o <<"-", "d">> : t \in NamePlaces} :
                   /\ Cardinality(NameMatches[volume] \intersect Encodables) > 1
                   /\ \A t \in NamePlaces : Namespaces[t] # volume}
TheNames ==
  [Places |-> NamePlaces, Encodable |-> Encodables, Volumes |-> AskedVolumes,
   Namespace |-> Namespaces, Matches |-> NameMatches, AtOnce |-> 2]

(* Host ports: one below the base and two from it on, too few for three    *)
(* labels unless one was moved, and every earlier allocation and move.     *)
PortLabels == {"editor", "web", "api"}
ThePorts ==
  [Labels |-> PortLabels, Editor |-> "editor", NoPort |-> 0,
   Rank |-> [l \in PortLabels |-> CASE l = "editor" -> 0 [] l = "web" -> 1 [] l = "api" -> 2],
   HostPorts |-> 8079..8081, Base |-> 8080]

(* A shared directory of three versions.                                   *)
TheViews ==
  [Versions |-> 0..2]

(* Specs: features in every spelling, and one more key.                    *)
Feature(name, spelling) == [name |-> name, spelling |-> spelling]
Option(s, key, value) == [sep |-> s, key |-> key, value |-> value]
Path(segments) == [absolute |-> FALSE, names |-> segments]
Mount(type, source, at) == [type |-> type, source |-> source, at |-> at]
Options == {Option("none", "no-new-privileges", "none"), Option("=", "no-new-privileges", "0"),
            Option("=", "seccomp", "builtin"), Option("=", "seccomp", "unconfined"),
            Option(":", "seccomp", "/path"), Option("none", "disable", "none"),
            Option("=", "apparmor", "unconfined"), Option("none", "junk", "none")}
Arguments == {[flag |-> "--init", inline |-> <<>>],
              [flag |-> "--init", inline |-> <<Option("none", "true", "none")>>],
              [flag |-> "--security-opt", inline |-> <<>>],
              [flag |-> "--security-opt", inline |-> <<Option("none", "disable", "none")>>],
              [flag |-> "--volume", inline |-> <<>>],
              [flag |-> "--tmpfs", inline |-> <<>>],
              [flag |-> "none", inline |-> <<Option("none", "no-new-privileges", "none")>>],
              [flag |-> "none", inline |-> <<Option("none", "/path", "none")>>]}
Installed == {{}, {Feature("nested", "tag")}, {Feature("bundle", "tag")},
              {Feature("outside", "tag"), Feature("debugger", "digest")},
              {Feature("outside", "digest"), Feature("driver", "tag")}}
             \union {{Feature("outside", s)} : s \in {"tag", "releases", "https", "path", "word"}}
PolicyTries ==
  [keys |-> {{"dockerComposeFile"}, {"initializeCommand"}, {"build.options"}, {"appPort"}},
   privileged |-> {TRUE}, capAdd |-> {TRUE}, securityOpt |-> {{o} : o \in Options},
   mounts |-> {{Mount("bind", "docker.sock", "docker-host.sock")}, {Mount("volume", "own", "data")},
              {Mount("volume", "other", "data")}, {Mount("bind", "public-ca", "ca")}},
   runArgs |-> {<<a>> : a \in Arguments} \union {<<a, b>> : a \in Arguments, b \in Arguments},
   dockerfile |-> {<<Path(way)>> : way \in {<<"..", "Dockerfile">>,
                      <<"..", "..", "p", "Dockerfile">>, <<"..", "..", "other", "Dockerfile">>}},
   context |-> {<<Path(<<"..">>)>>, <<Path(<<"..", "..">>)>>}, workspaceFolder |-> {"dir", "other"},
   workspaceMount |-> {<<[source |-> s, at |-> a]>> : s \in {"dir", "root", "other"},
                        a \in {"dir", "root", "default"}},
   shadowImages |-> {"ok", "bad"}, memory |-> {"ok", "bad"}]
PolicyDrafts ==
  {[keys |-> {}, features |-> f, privileged |-> FALSE, capAdd |-> FALSE,
    securityOpt |-> {}, mounts |-> {}, runArgs |-> <<>>, dockerfile |-> <<>>,
    context |-> <<>>, workspaceFolder |-> "none", workspaceMount |-> <<>>,
    shadowImages |-> "none", memory |-> "none"] :
      f \in Installed}
PolicyBuilds == {[draft EXCEPT !.dockerfile = <<Path(<<"Dockerfile">>)>>] :
                    draft \in {d \in PolicyDrafts : Cardinality(d.features) = 2}}
ThePolicy ==
  [Bases |-> {"plain", "driver"}, Drafts |-> PolicyDrafts \union PolicyBuilds, Tries |-> PolicyTries]

(* The editor's panel: one target, two of everything.                      *)
ThePanel ==
  [Commits |-> 2, Slots |-> {1, 2}]

(* The egress: a project with a secret, or a restriction, and one without. *)
Secret(value, projects, off) == [value |-> value, hosts |-> {"h"}, projects |-> projects,
                                 headers |-> "any", off |-> off, until |-> 0]
Broken == [Secret(10, {}, "on") EXCEPT !.hosts = {"*"}]
Rule(action, host, projects) == [action |-> action, host |-> host, projects |-> projects]
File(st, doc) == [st |-> st, stamp |-> 0, doc |-> doc]
Holding(secrets, network) == File("whole", [secrets |-> secrets, network |-> network, open |-> TRUE])
NoSecret == [none \in {} |-> 0]
ByDefault == <<Rule("allow", "*", {})>>
ByHand == <<Rule("deny", "g", {"p"}), Rule("allow", "h", {"garbled"}), Rule("allow", "*", {})>>
NoPolicy == File("gone", NoSecret)
Held(action, until, then) == File("whole", [p |-> [action |-> action, until |-> until, then |-> then]])
World(settings, policies) == [settings |-> settings, policy |-> policies]
FirstWorld == World([Holding(NoSecret, <<>>) EXCEPT !.st = "gone"], NoPolicy)
EgressWorlds ==
  {FirstWorld, World(Holding([a |-> Secret(10, {"p"}, "on")], ByDefault), NoPolicy),
   World(Holding([a |-> Secret(10, {}, "garbled")], ByDefault), Held("learn", 0, "deny")),
   World(Holding([a |-> Secret(10, {}, "on"), ab |-> Secret(11, {}, "on")], ByDefault), NoPolicy),
   World(Holding([a |-> Broken, ab |-> Secret(11, {"garbled"}, "on")], ByHand), NoPolicy),
   World(Holding([a |-> Secret(10, {"p"}, "on")], ByHand), Held("learn", 1, "deny")),
   World(Holding(NoSecret, ByHand), Held("deny", 0, "none")),
   World(Holding(NoSecret, ByDefault), Held("learn", 1, "garbled"))}
TheEgress ==
  [Names |-> {"a", "ab"}, Within |-> [a |-> {"a"}, ab |-> {"a", "ab"}], Hosts |-> {"h", "g"},
   Projects |-> {"p"}, NoOne |-> "-", Writes |-> 1, Hours |-> 1, Worlds |-> EgressWorlds]

(* Proposals: two folders of a project, copies of a repository or of a     *)
(* fork of it.                                                             *)
Contents(a, b, c) == [own |-> a, ci |-> b, nested |-> c]
ProposalWorlds ==
  {[of |-> [d |-> "repo", e |-> "repo"], here |-> TRUE,
    tree |-> [d |-> Contents(1, 0, 1), e |-> Contents(1, 1, 0)]],
   [of |-> [d |-> "fork", e |-> "repo"], here |-> TRUE,
    tree |-> [d |-> Contents(1, 0, 0), e |-> Contents(0, 0, 1)]],
   [of |-> [d |-> "repo", e |-> "fork"], here |-> FALSE,
    tree |-> [d |-> Contents(1, 0, 0), e |-> Contents(0, 0, 0)]]}
TheProposals ==
  [Cmds |-> {"p1", "p2"}, Dirs |-> {"d", "e"}, Repo |-> "repo", Fork |-> "fork", Budget |-> 3,
   Worlds |-> ProposalWorlds]

(* Command lines: any three of these phrases, four of the ones a start     *)
(* takes, and the three readings of their own.                             *)
Phrases == {<<"p">>, <<"all">>, <<"--stop">>, <<"--list">>, <<"--ports">>, <<"--rebuild">>,
            <<"--all">>, <<"--json">>, <<"--dinds">>, <<"--nope">>, <<"--worktree", "w">>,
            <<"--branch", "b">>, <<"--branch">>, <<"--move", "editor", "8080">>,
            <<"--move", "editor", "99999">>}
StartPhrases == {<<"p">>, <<"all">>, <<"--rebuild">>, <<"--stop">>, <<"--worktree", "w">>, <<"--branch", "b">>}
ApartPhrases == {<<"p">>, <<"--worktree", "w">>, <<"--worktree">>, <<"--allow-default">>,
                 <<"--expect", "c">>, <<"--expect", "p">>, <<"--fetch-only">>, <<"--json">>}
OneToThree(phrases) == {<<x>> : x \in phrases} \union phrases \X phrases
                       \union phrases \X phrases \X phrases
CallLines ==
  {FlattenSeq(x) : x \in OneToThree(Phrases)}
  \union {FlattenSeq(x) : x \in StartPhrases \X StartPhrases \X StartPhrases \X StartPhrases}
  \union {<<first>> \o FlattenSeq(x) : first \in {"--push", "--pull", "--review"},
                                      x \in OneToThree(ApartPhrases)}
  \union {<<"worktree", command, project, "w">> \o rest :
            command \in {"add", "remove"}, project \in {"p", "all"},
            rest \in {<<>>, <<"b">>, <<"b", "start">>, <<"--force">>, <<"--checked-clean">>}}
TheCalls ==
  [Lines |-> CallLines, Labels |-> {"editor"}, MoveablePorts |-> {"8080"},
   PortWords |-> {"8080", "99999"}, Commits |-> {"c"}, Bundle |-> "bundle",
   Dashed |-> {"--stop", "--list", "--ports", "--rebuild", "--all", "--json", "--dinds",
                  "--nope", "--worktree", "--branch", "--move", "--push", "--pull", "--review",
                  "--allow-default", "--expect", "--fetch-only", "--force", "--checked-clean"}]

(* Reviews: a line of three commits and one beside it, in every kind of    *)
(* file; main, a branch that is checked out, and others.                   *)
At(m, t, f) == [main |-> m, topic |-> t, fix |-> f]
Trees ==
  [c \in 0..4 |-> CASE c = 0 -> <<0, 0, 0>> [] c = 1 -> <<1, 0, 1>> [] c = 2 -> <<6, 4, 2>>
                  [] c = 3 -> <<2, 1, 0>> [] c = 4 -> <<1, 5, 3>>]
Sizes ==
  [b \in 0..6 |-> CASE b = 0 -> 0 [] b = 2 -> 2 [] b = 3 -> 5 [] OTHER -> 1]
ReviewWorlds ==
  {[refs |-> At(1, 0, 4), head |-> [branch |-> "fix", commit |-> 4], origin |-> At(1, 2, 0)],
   [refs |-> At(1, 3, 4), head |-> [branch |-> "topic", commit |-> 3], origin |-> At(2, 0, 0)]}
TheReviews ==
  [Commits |-> 1..4, Parents |-> <<{}, {1}, {1}, {2}>>,
   Anc |-> <<{1}, {1, 2}, {1, 3}, {1, 2, 4}>>,
   Tree |-> Trees, Size |-> Sizes, Binary |-> {4}, Modules |-> {5},
   BlobMax |-> 3, TotalMax |-> 3, FilesMax |-> 2, CommitsMax |-> 1, Branches |-> {"main", "topic", "fix"}, None |-> "-",
   Clients |-> {"c", "d"}, Panel |-> {"c"}, Budget |-> 1,
   Worlds |-> ReviewWorlds]

(* The parts at rest: the first of their worlds.                           *)
TheFirst == [file |-> "plain", cacheHas |-> {0}, base |-> "plain", settings |-> FirstWorld.settings,
            dir |-> "d", line |-> <<"p">>, branch |-> "fix"]
================================================================================
