--------------------------------- MODULE Calls ---------------------------------
(***************************************************************************)
(* A command typed in the editor, from its words to what was done: the     *)
(* client reads them (desolate-client.ts), asks the broker in one or two   *)
(* requests, the broker checks a request's shape and turns it into the     *)
(* runner's words (broker.ts), and the runner reads those with a grammar   *)
(* of its own (args.ts) and acts (desolate.ts main).                       *)
(*                                                                         *)
(* A word is a model value; a request is a function from the fields its    *)
(* JSON has to their values, so a field left out is one not in its domain. *)
(***************************************************************************)
EXTENDS Naturals, Sequences, SequencesExt, TLC

CONSTANTS Lines,     \* the command lines typed, each a sequence of words
          Dashed,    \* the words that begin with a dash
          Labels, MoveablePorts, PortWords, Commits, Bundle

VARIABLES typed,     \* the line
          everyName, \* is a project called "all" there?
          tree,      \* the worktree named: "absent", "bare" or "ready"
          stage, asks, argvs, did, code,
          heard,     \* the line a push, pull or review waits for was relayed
          cutOff,    \* a connection closed with no final status
          shaken     \* the project "all" came or went meanwhile
vars == <<typed, everyName, tree, stage, asks, argvs, did, code, heard, cutOff, shaken>>

Every == "all"

(* Words in order: an option takes the words it waits for, whatever they   *)
(* are; `good` says which values do, of the options it names.              *)
Reads(words, takes, good) ==
  LET Take(r, w) ==
        LET got == Append(r.waits, w) IN
        IF Len(got) <= takes[Head(got)] THEN [r EXCEPT !.waits = got]
        ELSE [r EXCEPT !.waits = <<>>, !.given = (Head(got) :> Tail(got)) @@ @,
                       !.bad = @ \/ (Head(got) \in DOMAIN good /\ Tail(got) \notin good[Head(got)])]
      One(r, w) ==
        CASE r.waits # <<>> -> Take(r, w)
          [] r.waits = <<>> /\ w \in DOMAIN takes ->
               IF takes[w] = 0 THEN [r EXCEPT !.flags = Append(@, w)]
               ELSE [r EXCEPT !.waits = <<w>>]
          [] r.waits = <<>> /\ w \in Dashed \ DOMAIN takes -> [r EXCEPT !.bad = TRUE]
          [] OTHER -> [r EXCEPT !.rest = Append(@, w)]
  IN FoldLeft(One, [flags |-> <<>>, given |-> <<>>, rest |-> <<>>, waits |-> <<>>, bad |-> FALSE], words)

Flagged(r, w) == Contains(r.flags, w)
Gave(r, w) == w \in DOMAIN r.given
Field(key, present, value) == IF present THEN key :> value ELSE <<>>

Exists(project) == project # Every \/ everyName

-----------------------------------------------------------------------------
(* The client. Its refusals exit 1 and ask nothing.                        *)
MeansEveryTarget(words) == words # <<>> /\ Head(words) = Every /\ ~everyName

OpOf == "--list" :> "list" @@ "--dinds" :> "dinds" @@ "--stop" :> "stop"
        @@ "--ports" :> "ports" @@ "--rebuild" :> "rebuild"
ClientTakes == [w \in DOMAIN OpOf \union {"--all", "--json"} |-> 0]
               @@ "--worktree" :> 1 @@ "--branch" :> 1 @@ "--move" :> 2
ClientGood ==
  "--move" :> (Labels \X PortWords)
  @@ [w \in {"--worktree", "--branch"} |-> {<<typed[i]>> : i \in {j \in DOMAIN typed : typed[j] \notin Dashed}}]

(* What it asks in the end, before a worktree it may have to create.       *)
Refused == <<>>
MainRequest(r) ==
  LET ops == SelectSeq(r.flags, LAMBDA w : w \in DOMAIN OpOf)
      op == IF ops = <<>> THEN "start" ELSE OpOf[ops[1]]
      every == op = "stop" /\ (Flagged(r, "--all") \/ MeansEveryTarget(r.rest))
      unaccounted == IF every THEN SelectSeq(r.rest, LAMBDA w : w # Every) ELSE r.rest
      json == Field("json", Flagged(r, "--json"), "true")
      misread == \/ r.bad \/ r.waits # <<>> \/ Len(ops) > 1
                 \/ (Gave(r, "--branch") /\ ~Gave(r, "--worktree"))
                 \/ (Flagged(r, "--all") /\ op # "stop")
                 \/ (Gave(r, "--move") /\ op # "ports")
                 \/ (Flagged(r, "--json") /\ op \notin {"list", "ports"})
      misplaced == IF op \in {"list", "dinds"} \/ every
                   THEN unaccounted # <<>> \/ Gave(r, "--worktree")
                   ELSE Len(r.rest) # 1
  IN IF misread \/ misplaced THEN Refused
     ELSE IF op \in {"list", "dinds"} \/ every
     THEN "op" :> (IF every THEN "stop-all" ELSE op) @@ json
     ELSE "op" :> op @@ "project" :> r.rest[1] @@ json
          @@ Field("worktree", Gave(r, "--worktree"), r.given["--worktree"][1])
          @@ Field("move", Gave(r, "--move"), r.given["--move"])

(* Created first, in a request of its own, unless it is there: ensure.     *)
BranchOf(request, r) ==
  IF Gave(r, "--branch") THEN r.given["--branch"][1] ELSE request["worktree"]
Creation(request, r) ==
  IF "worktree" \in DOMAIN request /\ request["op"] \in {"start", "rebuild"} /\ tree = "absent"
  THEN <<"op" :> "worktree-add" @@ "project" :> request["project"]
         @@ "worktree" :> request["worktree"] @@ "branch" :> BranchOf(request, r)>>
  ELSE <<>>
Owed(request, r) ==
  IF request = Refused THEN <<>> ELSE Append(Creation(request, r), request)
MainRequests(r) == Owed(MainRequest(r), r)

(* --push, --pull and --review are read apart, and only in the first place.*)
PushTakes == "--worktree" :> 1 @@ "--allow-default" :> 0 @@ "--expect" :> 1
PullTakes == "--worktree" :> 1 @@ "--fetch-only" :> 0
ReviewTakes == "--worktree" :> 1 @@ "--json" :> 0
ApartGood == "--expect" :> {<<c>> : c \in Commits}
ReadApart(takes) == Reads(Tail(typed), takes, ApartGood)
Apart(r, owed) ==
  IF r.bad \/ r.waits # <<>> \/ Len(r.rest) # 1 THEN <<>>
  ELSE [i \in 1..Len(owed) |->
          owed[i] @@ "project" :> r.rest[1]
          @@ Field("worktree", Gave(r, "--worktree"), r.given["--worktree"][1])]
Transfer(op) == "op" :> op @@ "transfer" :> Bundle
PushRequests ==
  Apart(ReadApart(PushTakes), <<Transfer("bundle"), Transfer("pull") @@ "fetch" :> "true">>)
PullRequests ==
  LET r == ReadApart(PullTakes)
  IN Apart(r, <<Transfer("pull") @@ Field("fetch", Flagged(r, "--fetch-only"), "true")>>)
ReviewRequests == Apart(ReadApart(ReviewTakes), <<"op" :> "review">>)

(* The worktree command has words in their places and no options but one.  *)
Word(i) == IF i <= Len(typed) THEN typed[i] ELSE ""
WorktreeAdd ==
  LET branch == IF Word(5) = "" THEN Word(4) ELSE Word(5) IN
  IF {branch, Word(6)} \intersect Dashed # {} THEN <<>>
  ELSE <<"op" :> "worktree-add" @@ "project" :> Word(3) @@ "worktree" :> Word(4)
         @@ "branch" :> branch @@ Field("from", Word(6) # "", Word(6))>>
WorktreeRemove ==
  IF tree = "absent" \/ Word(5) \notin {"", "--checked-clean", "--force"} THEN <<>>
  ELSE <<"op" :> "worktree-remove" @@ "project" :> Word(3) @@ "worktree" :> Word(4)
         @@ "force" :> Word(5)>>
WorktreeRequests ==
  CASE {Word(3), Word(4)} \intersect (Dashed \union {""}) # {} \/ ~Exists(Word(3)) -> <<>>
    [] OTHER -> IF Word(2) = "add" THEN WorktreeAdd ELSE WorktreeRemove

Requests ==
  CASE Head(typed) = "worktree" -> WorktreeRequests
    [] Head(typed) = "--push" -> PushRequests
    [] Head(typed) = "--pull" -> PullRequests
    [] Head(typed) = "--review" -> ReviewRequests
    [] OTHER -> MainRequests(Reads(typed, ClientTakes, ClientGood))

Sends(owed) ==
  IF owed = <<>> \/ (owed[1]["op"] = "worktree-add" /\ ~Exists(owed[1]["project"]))
  THEN stage' = "done" /\ code' = "1" /\ UNCHANGED asks
  ELSE stage' = "asked" /\ asks' = owed /\ UNCHANGED code
Client ==
  /\ stage = "typed" /\ Sends(Requests)
  /\ UNCHANGED <<typed, everyName, tree, argvs, did, heard, cutOff, shaken>>

(* A final status, or none: "connection closed" is a 0 (broker-client.ts). *)
Waits(op) == op \in {"bundle", "pull", "review"}
Exit(said) ==
  IF Waits(asks[1]["op"]) /\ said = "0" /\ ~heard THEN "1" ELSE said
Answer(said) ==
  LET ended == Exit(said) IN
  /\ IF ended = "0" /\ Len(asks) > 1
     THEN /\ asks' = Tail(asks) /\ stage' = "asked" /\ heard' = FALSE /\ UNCHANGED code
     ELSE /\ stage' = "done"
          \* What GitHub has is pushed, whatever the project's own refs do after.
          /\ code' = IF Head(typed) = "--push" /\ asks[1]["op"] = "pull" THEN "0" ELSE ended
          /\ asks' = <<>> /\ UNCHANGED heard
  /\ argvs' = <<>>

Unreachable ==
  /\ stage = "asked" /\ Answer("1")
  /\ UNCHANGED <<typed, everyName, tree, did, cutOff, shaken>>
CutOff ==
  /\ stage \in {"asked", "running"} /\ Answer("0") /\ cutOff' = TRUE
  /\ UNCHANGED <<typed, everyName, tree, did, shaken>>

-----------------------------------------------------------------------------
(* The broker.                                                             *)
GlobalArgv == "list" :> <<"--list">> @@ "stop-all" :> <<"--stop", "--all">>
              @@ "dinds" :> <<"--dinds">>
Operations == {"start", "rebuild", "stop", "ports", "review", "populate", "worktree-add",
               "worktree-remove", "bundle", "pull"} \union DOMAIN GlobalArgv
(* Each field is held to the operations that have it.                      *)
Only(q, field, ops) == field \in DOMAIN q => q["op"] \in ops
Is(q) ==
  /\ q["op"] \in Operations
  /\ Only(q, "json", {"list", "ports"})
  /\ \/ q["op"] \in DOMAIN GlobalArgv
     \/ /\ "project" \in DOMAIN q
        /\ q["op"] \in {"worktree-add", "worktree-remove"} => "worktree" \in DOMAIN q
        /\ Only(q, "branch", {"worktree-add"})
        /\ Only(q, "from", {"worktree-add"})
        /\ Only(q, "force", {"worktree-remove"})
        /\ Only(q, "appearance", {"start", "rebuild"})
        /\ Only(q, "move", {"ports"})
        /\ "move" \in DOMAIN q => q["move"][1] \in Labels /\ q["move"][2] \in MoveablePorts
        /\ "transfer" \in DOMAIN q <=> q["op"] \in {"bundle", "pull"}
        /\ Only(q, "fetch", {"pull"})

TargetArgv(q, flags) ==
  flags \o (IF "worktree" \in DOMAIN q THEN <<"--worktree", q["worktree"]>> ELSE <<>>)
  \o <<q["project"]>>
PlainFlags(q) ==
  CASE q["op"] = "worktree-add" -> <<"--create-worktree", "--branch", q["branch"]>>
    [] q["op"] = "worktree-remove" -> <<"--remove-worktree">>
    [] q["op"] = "start" -> <<"--config", "snapshot">>
    [] q["op"] = "rebuild" -> <<"--config", "snapshot">>
    [] q["op"] = "stop" -> <<"--stop">>
    [] q["op"] = "bundle" -> <<"--bundle", q["transfer"]>>
    [] q["op"] = "pull" -> <<"--pull", q["transfer"]>>
    [] q["op"] = "review" -> <<"--review">>
    [] q["op"] = "ports" -> <<"--ports">>
(* The fault to seed: a rebuild is asked for and a plain start done.       *)
ForgetsRebuild(q) == PlainFlags(q)
FlagsOf(q) ==
  PlainFlags(q)
  \o (IF q["op"] = "rebuild" THEN <<"--rebuild">> ELSE <<>>)
  \o (IF "move" \in DOMAIN q THEN <<"--move">> \o q["move"] ELSE <<>>)
  \o (IF "fetch" \in DOMAIN q THEN <<"--fetch-only">> ELSE <<>>)
  \o (IF "from" \in DOMAIN q THEN <<"--from", q["from"]>> ELSE <<>>)
  \o (IF "force" \in DOMAIN q /\ q["force"] = "--force" THEN <<"--force">> ELSE <<>>)
  \o (IF "json" \in DOMAIN q THEN <<"--json">> ELSE <<>>)

(* A worktree's name is no option, and the realpath of the names must be   *)
(* the directory they denote: only one to be created may be missing.       *)
Valid(q) ==
  /\ Exists(q["project"])
  /\ "worktree" \in DOMAIN q => q["worktree"] \notin Dashed
  /\ ("worktree" \in DOMAIN q /\ q["op"] # "worktree-add") => tree # "absent"

Spawns(q) ==
  IF q["op"] \in DOMAIN GlobalArgv
  THEN <<GlobalArgv[q["op"]] \o (IF q["op"] = "list" /\ "json" \in DOMAIN q THEN <<"--json">> ELSE <<>>)>>
  ELSE LET populates == /\ q["op"] \in {"start", "rebuild"}
                        /\ "worktree" \in DOMAIN q /\ tree = "bare"
       IN (IF populates THEN <<TargetArgv(q, <<"--populate">>)>> ELSE <<>>)
          \o <<TargetArgv(q, FlagsOf(q))>>

Broker ==
  /\ stage = "asked"
  /\ LET q == asks[1] IN
     IF ~Is(q) \/ (q["op"] \notin DOMAIN GlobalArgv /\ ~Valid(q))
     THEN Answer("1")
     ELSE stage' = "running" /\ argvs' = Spawns(q) /\ UNCHANGED <<asks, code, heard>>
  /\ UNCHANGED <<typed, everyName, tree, did, cutOff, shaken>>
(* Four are in flight already, or the snapshot or the policy refuses.      *)
BrokerRefuses ==
  /\ stage \in {"asked", "running"}
  /\ stage = "running" => asks[1]["op"] \in {"start", "rebuild"} /\ Len(argvs) = 1
  /\ Answer("1")
  /\ UNCHANGED <<typed, everyName, tree, did, cutOff, shaken>>

-----------------------------------------------------------------------------
(* The runner's grammar: the last command given is the command.            *)
CommandOf ==
  "--stop" :> "stop" @@ "--ports" :> "ports" @@ "--purge" :> "purge" @@ "--populate" :> "populate"
  @@ "--uncommitted" :> "uncommitted" @@ "--create-worktree" :> "create-worktree"
  @@ "--remove-worktree" :> "remove-worktree" @@ "--reclaim" :> "reclaim" @@ "--exec" :> "exec"
  @@ "--review" :> "review" @@ "--suede-report" :> "suede-report" @@ "--list" :> "list"
  @@ "--dinds" :> "dinds"
RunnerTakes ==
  [w \in DOMAIN CommandOf \union {"--all", "--json", "--rebuild", "--no-cache", "--force", "--fetch-only"} |-> 0]
  @@ [w \in {"--config", "--worktree", "--branch", "--from", "--bundle", "--pull", "--path"} |-> 1]
  @@ "--move" :> 2
RunnerGood ==
  "--move" :> (Labels \X PortWords) @@ [w \in {"--bundle", "--pull"} |-> {<<Bundle>>}]

(* What an accepted line comes to.                                         *)
Means(r) ==
  LET flags == SelectSeq(r.flags, LAMBDA w : w \in DOMAIN CommandOf)
      transfers == {w \in {"--bundle", "--pull"} : Gave(r, w)}
      command == CASE transfers # {} -> IF "--pull" \in transfers THEN "pull" ELSE "bundle"
                   [] transfers = {} /\ flags # <<>> -> CommandOf[Last(flags)]
                   [] OTHER -> "run"
      On(w, commands) == (Flagged(r, w) \/ Gave(r, w)) => command \in commands
      refused ==
        \/ r.bad \/ r.waits # <<>>
        \/ ~On("--all", {"stop"}) \/ ~On("--branch", {"create-worktree"})
        \/ ~On("--from", {"create-worktree"}) \/ ~On("--force", {"remove-worktree"})
        \/ (command \in {"create-worktree", "remove-worktree"} /\ ~Gave(r, "--worktree"))
        \/ ~On("--move", {"ports"}) \/ ~On("--json", {"list", "ports"})
        \/ command = "exec"
        \/ ~On("--fetch-only", {"pull"}) \/ ~On("--path", {"reclaim"})
        \/ IF command \in {"list", "dinds"} \/ Flagged(r, "--all")
           THEN r.rest # <<>> ELSE Len(r.rest) # 1
  IN IF refused THEN Refused
     ELSE "command" :> command
          @@ Field("project", r.rest # <<>>, r.rest[1])
          @@ Field("worktree", Gave(r, "--worktree"), r.given["--worktree"][1])
          @@ Field("rebuild", Flagged(r, "--rebuild") \/ Flagged(r, "--no-cache"), "true")
          @@ Field("branch", Gave(r, "--branch"), r.given["--branch"][1])
          @@ Field("from", Gave(r, "--from"), r.given["--from"][1])
          @@ Field("force", Flagged(r, "--force"), "true")
          @@ Field("move", Gave(r, "--move"), r.given["--move"])
          @@ Field("fetch", Flagged(r, "--fetch-only"), "true")
          @@ Field("json", Flagged(r, "--json"), "true")
ParseArgs(words) == Means(Reads(words, RunnerTakes, RunnerGood))

(* What is done for it: a stop widened to every target names none.         *)
Widened(args) ==
  args["command"] = "stop"
  /\ ("project" \notin DOMAIN args \/ MeansEveryTarget(<<args["project"]>>))
Acts(args) == IF Widened(args) THEN "command" :> "stop-all" ELSE args

Reachable(args) ==
  \/ args["command"] \in {"list", "dinds"} \/ Widened(args)
  \/ /\ Exists(args["project"])
     /\ "worktree" \in DOMAIN args =>
          (args["command"] = "create-worktree" <=> tree = "absent")

RunnerDone(args) ==
  /\ did' = Append(did, Acts(args))
  /\ tree' = CASE args["command"] = "create-worktree" -> "bare"
               [] args["command"] = "remove-worktree" -> "absent"
               [] args["command"] \in {"run", "populate"} /\ tree = "bare" /\ "worktree" \in DOMAIN args -> "ready"
               [] OTHER -> tree
(* The line it says before it exits is heard before the status is.         *)
RunnerActs(args) ==
  IF args = Refused \/ ~Reachable(args)
  THEN Answer("1") /\ UNCHANGED <<did, tree>>
  ELSE /\ RunnerDone(args)
       /\ heard' = TRUE /\ argvs' = Tail(argvs)
       /\ UNCHANGED <<asks, stage, code>>
Runner ==
  /\ stage = "running" /\ argvs # <<>>
  /\ RunnerActs(ParseArgs(Head(argvs)))
  /\ UNCHANGED <<typed, everyName, cutOff, shaken>>
(* Busy, or a step of it failed: the status is the runner's.               *)
RunnerFails ==
  /\ stage = "running" /\ argvs # <<>> /\ \E said \in {"1", "busy"} : Answer(said)
  /\ UNCHANGED <<typed, everyName, tree, did, cutOff, shaken>>
Final ==
  /\ stage = "running" /\ argvs = <<>> /\ Answer("0")
  /\ UNCHANGED <<typed, everyName, tree, did, cutOff, shaken>>

AllComesOrGoes ==
  /\ stage \in {"asked", "running"} /\ ~shaken /\ Contains(typed, Every)
  /\ everyName' = ~everyName /\ shaken' = TRUE
  /\ UNCHANGED <<typed, tree, stage, asks, argvs, did, code, heard, cutOff>>

-----------------------------------------------------------------------------
Init ==
  /\ typed \in Lines
  /\ everyName \in (IF Contains(typed, Every) THEN BOOLEAN ELSE {FALSE})
  /\ tree \in (IF Contains(typed, "--worktree") \/ typed[1] = "worktree" THEN {"absent", "bare", "ready"} ELSE {"absent"})
  /\ stage = "typed" /\ asks = <<>> /\ argvs = <<>> /\ did = <<>> /\ code = "0"
  /\ heard = FALSE /\ cutOff = FALSE /\ shaken = FALSE

Next ==
  \/ Client \/ Unreachable \/ CutOff \/ Broker \/ BrokerRefuses
  \/ Runner \/ RunnerFails \/ Final \/ AllComesOrGoes

Spec == Init /\ [][Next]_vars

-----------------------------------------------------------------------------
TypeOK ==
  /\ typed \in Lines /\ everyName \in BOOLEAN /\ tree \in {"absent", "bare", "ready"}
  /\ stage \in {"typed", "asked", "running", "done"} /\ code \in {"0", "1", "busy"}
  /\ heard \in BOOLEAN /\ cutOff \in BOOLEAN /\ shaken \in BOOLEAN

(* What the words say, with no grammar: which of them are there, and which *)
(* word stands after an option.                                            *)
Says(w) == Contains(typed, w)
After(w, n) == typed[SelectInSeq(typed, LAMBDA x : x = w) + n]
Valued(i) ==
  \/ i > 1 /\ typed[i-1] \in {"--worktree", "--branch", "--expect", "--move"}
  \/ i > 2 /\ typed[i-2] = "--move"
Worktree == Head(typed) = "worktree"
Named == IF Worktree THEN {typed[3]} ELSE {typed[i] : i \in {j \in 1..Len(typed) : ~Valued(j) /\ typed[j] \notin Dashed}}
MeantWorktree ==
  IF Worktree THEN {typed[4]} ELSE IF Says("--worktree") THEN {After("--worktree", 1)} ELSE {}
MeantBranch ==
  IF Worktree THEN (IF Len(typed) > 4 THEN typed[5] ELSE typed[4])
  ELSE After(IF Says("--branch") THEN "--branch" ELSE "--worktree", 1)
MeantCommand ==
  IF Worktree THEN IF typed[2] = "add" THEN "create-worktree" ELSE "remove-worktree"
  ELSE IF Says("--list") THEN "list" ELSE IF Says("--dinds") THEN "dinds"
  ELSE IF Says("--ports") THEN "ports" ELSE IF Says("--push") THEN "bundle"
  ELSE IF Says("--pull") THEN "pull" ELSE IF Says("--review") THEN "review"
  ELSE IF Says("--stop") THEN IF Says("--all") \/ (Named = {Every} /\ ~everyName) THEN "stop-all" ELSE "stop"
  ELSE "run"
IsMeant(act) ==
  /\ act["command"] = MeantCommand
  /\ MeantCommand \notin {"list", "dinds", "stop-all"} => Named = {act["project"]}
  /\ MeantWorktree = IF "worktree" \in DOMAIN act THEN {act["worktree"]} ELSE {}
  /\ ("branch" \in DOMAIN act) <=> (act["command"] = "create-worktree")
  /\ "branch" \in DOMAIN act => act["branch"] = MeantBranch
  /\ ("from" \in DOMAIN act) <=> (Worktree /\ Len(typed) > 5)
  /\ ("force" \in DOMAIN act) <=> Says("--force")
  /\ ("rebuild" \in DOMAIN act) <=> Says("--rebuild")
  /\ ("move" \in DOMAIN act) <=> Says("--move")
  /\ Says("--move") => act["move"] = <<After("--move", 1), After("--move", 2)>>
  /\ ("fetch" \in DOMAIN act) <=> Says("--fetch-only")
  /\ ("json" \in DOMAIN act) <=> (Says("--json") /\ ~Says("--review"))

(* Through three processes and three readings, a command that exits 0 did  *)
(* what its words say, to the target they name and no other, in a worktree *)
(* made for it, if need be, on the branch they name; and where the runner  *)
(* reads the same words itself (from the Mac), it makes the same of them   *)
(* (desolate-client.ts: "or the two disagree about what the same command   *)
(* line means").  Not where the project called "all" came or went on the   *)
(* way, not where a word comes twice, and not where a connection closed    *)
(* with no status, unless the command waits for a line of its own.         *)
NothingLostOnTheWay ==
  (/\ stage = "done" /\ code = "0" /\ ~shaken /\ IsInjective(typed)
   /\ cutOff => Head(typed) \in {"--push", "--pull", "--review"}) =>
    /\ \E i \in 1..Len(did) : IsMeant(did[i])
    /\ \A i \in 1..Len(did) : ~IsMeant(did[i]) =>
         /\ did[i]["command"] \in {"create-worktree", "populate", "pull"}
         /\ did[i]["project"] \in Named
         /\ did[i]["command"] = "pull" => Says("--push") /\ "fetch" \in DOMAIN did[i]
         /\ did[i]["command"] = "create-worktree" =>
              did[i]["branch"] = MeantBranch
    /\ LET direct == ParseArgs(typed) IN
       ~Worktree /\ direct # Refused => \E i \in 1..Len(did) : did[i] = Acts(direct)

(* broker-client.ts:19: "never a silent success".  A connection that       *)
(* closes with no status is one, but for a push, a pull and a review.      *)
NeverASilentSuccess == stage = "done" /\ code = "0" => did # <<>>
=============================================================================
