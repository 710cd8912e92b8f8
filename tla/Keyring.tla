-------------------------------- MODULE Keyring --------------------------------
(***************************************************************************)
(* vscode-image/keyring.ts, keyring-client.ts and newrepo.ts: the process  *)
(* that holds the deploy keys, its control socket, and the newrepo runs    *)
(* that give a repository its key and its clone.                           *)
(*                                                                         *)
(* The keyring is one process of synchronous steps: while it works for one *)
(* client nothing else is read, and a crash may strike between any two of  *)
(* its steps.  An alias's directory holds id and id.pub; a key is a model  *)
(* of the pair, and id and id.pub name the pair they are a half of.  A     *)
(* newrepo may be killed between any two of its steps and run again.       *)
(***************************************************************************)
EXTENDS Integers, FiniteSets

CONSTANTS
  Aliases,      (* <owner>__<repo> tags                                    *)
  Clients,      (* processes of the editor that may connect                *)
  Newrepos,     (* those of them that run newrepo                          *)
  Keys,         (* the pairs ssh-keygen makes                              *)
  NoKey,
  NoClient,
  Concurrent    (* limits.control.concurrent                               *)

VARIABLES
  ring,         (* the process: down, starting or serving                  *)
  toLoad,       (* the aliases start() has yet to export and load          *)
  private,      (* <alias>/id                                              *)
  public,       (* <alias>/id.pub                                          *)
  exported,     (* pub/<alias>.pub, which the editor mounts                *)
  agent,        (* the keys ssh-agent holds                                *)
  conn,         (* per client, its connection and what was said on it      *)
  open,         (* the connections counted                                 *)
  job,          (* what the process is doing, and for whom                 *)
  setup,        (* per client, the newrepo it runs                         *)
  repo,         (* per alias, what newrepo has set up of it                *)
  minted,       (* ghost: the pairs made so far                            *)
  told,         (* ghost: the key last answered, until its removal begins  *)
  halved,       (* ghost: aliases a crash caught between two writes        *)
  stray         (* ghost: the private halves whose removal met the public  *)
                (* half of another pair                                    *)

vars == <<ring, toLoad, private, public, exported, agent, conn, open, job,
          setup, repo, minted, told, halved, stray>>
disk == <<private, public, exported>>
ghosts == <<minted, told, halved, stray>>
newrepos == <<setup, repo>>

MaybeKey == Keys \union {NoKey}
Idle == [client |-> NoClient, op |-> "none", alias |-> "none", step |-> "none"]
NoConn == [up |-> FALSE, asked |-> FALSE, op |-> "none", alias |-> "none",
           got |-> "nothing", key |-> NoKey]
NoSetup == [step |-> "idle", alias |-> "none"]
Bare == [block |-> FALSE, rewrites |-> FALSE, clone |-> "none",
         identity |-> FALSE, files |-> FALSE]

Ops == {"create", "pubkey", "remove", "list"}
Steps == {"look", "half", "export", "load", "unload", "wipe", "wiping",
          "unlink", "answer"}

TypeOK ==
  /\ ring \in {"down", "starting", "serving"}
  /\ toLoad \subseteq Aliases
  /\ private \in [Aliases -> MaybeKey]
  /\ public \in [Aliases -> MaybeKey]
  /\ exported \in [Aliases -> MaybeKey]
  /\ agent \subseteq Keys
  /\ \A c \in Clients :
       /\ conn[c].up \in BOOLEAN /\ conn[c].asked \in BOOLEAN
       /\ conn[c].got \in {"nothing", "key", "error"}
       /\ conn[c].key \in MaybeKey
       /\ setup[c].step \in {"idle", "key", "block", "rewrites", "clone", "origin",
                             "identity", "populate", "ready"}
  /\ open \in 0 .. Cardinality(Clients)
  /\ job = Idle \/ (job.client \in Clients /\ job.step \in Steps /\ job.op \in Ops)
  /\ minted \subseteq Keys
  /\ told \in [Aliases -> MaybeKey]
  /\ halved \subseteq Aliases
  /\ stray \subseteq Keys

Init ==
  /\ ring = "down" /\ toLoad = {}
  /\ private = [a \in Aliases |-> NoKey]
  /\ public = [a \in Aliases |-> NoKey]
  /\ exported = [a \in Aliases |-> NoKey]
  /\ agent = {}
  /\ conn = [c \in Clients |-> NoConn]
  /\ open = 0
  /\ job = Idle
  /\ setup = [c \in Clients |-> NoSetup]
  /\ repo = [a \in Aliases |-> Bare]
  /\ minted = {} /\ told = [a \in Aliases |-> NoKey] /\ halved = {} /\ stray = {}

-----------------------------------------------------------------------------
(* The process.                                                            *)

(* listAliases: a directory with an id.pub. *)
Listed == {a \in Aliases : public[a] # NoKey}

(* main: stale sockets go, a new agent is spawned and waited for.          *)
Boot ==
  /\ ring = "down"
  /\ ring' = "starting" /\ toLoad' = Listed
  /\ agent' = {}
  /\ UNCHANGED <<disk, conn, open, job, newrepos, ghosts>>

(* start: what is held is exported and loaded; one that cannot be loaded   *)
(* (its id is missing) is logged, and the next one's turn comes.           *)
Publish(a) ==
  /\ ring = "starting" /\ a \in toLoad
  /\ toLoad' = toLoad \ {a}
  /\ exported' = [exported EXCEPT ![a] = public[a]]
  /\ agent' = agent \union ({private[a]} \ {NoKey})
  /\ UNCHANGED <<ring, private, public, conn, open, job, newrepos, ghosts>>

Serve ==
  /\ ring = "starting" /\ toLoad = {}
  /\ ring' = "serving"
  /\ UNCHANGED <<toLoad, disk, agent, conn, open, job, newrepos, ghosts>>

(* The container goes down, the agent with it: the keys leave memory, the  *)
(* connections break, and whatever was being written stays as it is.       *)
Crash ==
  /\ ring # "down"
  /\ ring' = "down" /\ toLoad' = {}
  /\ agent' = {} /\ open' = 0
  /\ job' = Idle
  /\ conn' = [c \in Clients |-> [NoConn EXCEPT !.got = conn[c].got]]
  /\ halved' = halved \union
                 (IF job.step \in {"half", "wiping", "unlink"} THEN {job.alias} ELSE {})
  /\ stray' = {}
  /\ UNCHANGED <<disk, newrepos, minted, told>>

-----------------------------------------------------------------------------
(* The control socket.                                                     *)

Listening == ring = "serving" /\ job = Idle

(* A connection is counted and may say a line; past the limit it is told   *)
(* so and destroyed, and not counted.  A refusal reads as an error.        *)
Connected(c, op, a) ==
  conn' = [conn EXCEPT ![c] =
             IF open < Concurrent THEN [NoConn EXCEPT !.up = TRUE, !.op = op, !.alias = a]
                                  ELSE [NoConn EXCEPT !.got = "error"]]
(* The fault to seed: a place taken before the limit is looked at.         *)
ConnectFirst(c, op, a) ==
  /\ Listening /\ ~conn[c].up
  /\ Connected(c, op, a)
  /\ open' = open + 1
Connect(c, op, a) ==
  /\ Listening /\ ~conn[c].up
  /\ Connected(c, op, a)
  /\ open' = IF open < Concurrent THEN open + 1 ELSE open

Ask(c) ==
  /\ ring = "serving" /\ conn[c].up /\ ~conn[c].asked /\ conn[c].got = "nothing"
  /\ conn' = [conn EXCEPT ![c] = [@ EXCEPT !.asked = TRUE]]
  /\ UNCHANGED <<ring, toLoad, disk, agent, open, job, newrepos, ghosts>>

(* A connection ends: the client has its line, or leaves without one, or   *)
(* is destroyed for a line past the limit.  Its close lowers the count.    *)
Close(c) ==
  /\ Listening /\ conn[c].up
  /\ ~(setup[c].step = "key" /\ conn[c].got = "key")
  /\ conn' = [conn EXCEPT ![c] = NoConn]
  /\ open' = open - 1
  /\ UNCHANGED <<ring, toLoad, disk, agent, job, newrepos, ghosts>>

(* What a stranger to newrepo asks: anything, on a connection of its own.  *)
Visit(c, op, a) ==
  /\ setup[c] = NoSetup
  /\ Connect(c, op, a)
  /\ UNCHANGED <<ring, toLoad, disk, agent, job, newrepos, ghosts>>

-----------------------------------------------------------------------------
(* handle.                                                                 *)

FirstStep(op) == CASE op = "create" -> "look"
                   [] op = "pubkey" -> "export"
                   [] op = "remove" -> "unload"
                   [] op = "list" -> "answer"

(* A line is read: an alias whose public half is not there has none to     *)
(* give.  A removal forgets what was told.                                 *)
Begin(c) ==
  /\ Listening /\ conn[c].asked
  /\ ~(conn[c].op = "pubkey" /\ public[conn[c].alias] = NoKey)
  /\ job' = [client |-> c, op |-> conn[c].op, alias |-> conn[c].alias,
             step |-> FirstStep(conn[c].op)]
  /\ told' = IF conn[c].op = "remove" THEN [told EXCEPT ![conn[c].alias] = NoKey] ELSE told
  /\ UNCHANGED <<ring, toLoad, disk, agent, conn, open, newrepos, minted, halved, stray>>

Answer(c, got, key) ==
  /\ conn' = [conn EXCEPT ![c] = [@ EXCEPT !.asked = FALSE, !.got = got, !.key = key]]
  /\ job' = Idle

NoSuchKey(c) ==
  /\ Listening /\ conn[c].asked
  /\ conn[c].op = "pubkey" /\ public[conn[c].alias] = NoKey
  /\ Answer(c, "error", NoKey)
  /\ UNCHANGED <<ring, toLoad, disk, agent, open, newrepos, ghosts>>

At(step) == job.step = step
Then(step) == job' = [job EXCEPT !.step = step]

(* The fault to seed: every create generates.                              *)
KeepsNothing(a) == FALSE
(* createKey: an id that is there is kept.                                 *)
KeepsKey(a) == private[a] # NoKey
Keep ==
  /\ At("look") /\ KeepsKey(job.alias)
  /\ Then("export")
  /\ UNCHANGED <<ring, toLoad, disk, agent, conn, open, newrepos, ghosts>>

(* ssh-keygen writes the private half first and then the public one.       *)
Generate(k) ==
  /\ At("look") /\ ~KeepsKey(job.alias)
  /\ k \in Keys \ minted /\ minted' = minted \union {k}
  /\ private' = [private EXCEPT ![job.alias] = k]
  /\ Then("half")
  /\ UNCHANGED <<ring, toLoad, public, exported, agent, conn, open, newrepos, told, halved, stray>>
GenerateRest ==
  /\ At("half")
  /\ public' = [public EXCEPT ![job.alias] = private[job.alias]]
  /\ Then("export")
  /\ UNCHANGED <<ring, toLoad, private, exported, agent, conn, open, newrepos, ghosts>>

(* exportPublic: a copy of the public half, which throws when there is     *)
(* none: the request is answered with the error.                           *)
Export ==
  /\ At("export") /\ public[job.alias] # NoKey
  /\ exported' = [exported EXCEPT ![job.alias] = public[job.alias]]
  /\ Then(IF job.op = "create" THEN "load" ELSE "answer")
  /\ UNCHANGED <<ring, toLoad, private, public, agent, conn, open, newrepos, ghosts>>
ExportFails ==
  /\ At("export") /\ public[job.alias] = NoKey
  /\ Answer(job.client, "error", NoKey)
  /\ UNCHANGED <<ring, toLoad, disk, agent, open, newrepos, ghosts>>

(* addToAgent: ssh-add reads id. *)
Load ==
  /\ At("load") /\ private[job.alias] # NoKey
  /\ agent' = agent \union {private[job.alias]}
  /\ Then("answer")
  /\ UNCHANGED <<ring, toLoad, disk, conn, open, newrepos, ghosts>>

(* removeKey: ssh-add -d <id> takes one key out of the agent, the one that *)
(* id.pub names, and id's own only where there is no id.pub.  It fails if  *)
(* the agent does not hold that one, which is taken for "not loaded".      *)
Named(a) == IF public[a] # NoKey THEN public[a] ELSE private[a]
(* The fault to seed: ssh-add -d is asked once the files are gone.         *)
UnloadNothing ==
  /\ At("unload")
  /\ Then("wipe")
  /\ UNCHANGED <<ring, toLoad, disk, agent, conn, open, newrepos, ghosts>>
Unload ==
  /\ At("unload")
  /\ agent' = agent \ {Named(job.alias)}
  /\ stray' = stray \union ({private[job.alias]} \ {Named(job.alias), NoKey})
  /\ Then("wipe")
  /\ UNCHANGED <<ring, toLoad, disk, conn, open, newrepos, minted, told, halved>>

(* rmSync takes the directory's files one by one, in the order the file    *)
(* system lists them.                                                      *)
WipeFirst(half) ==
  /\ At("wipe")
  /\ IF half = "id"
     THEN private' = [private EXCEPT ![job.alias] = NoKey] /\ UNCHANGED public
     ELSE public' = [public EXCEPT ![job.alias] = NoKey] /\ UNCHANGED private
  /\ Then("wiping")
  /\ UNCHANGED <<ring, toLoad, exported, agent, conn, open, newrepos, ghosts>>
WipeRest ==
  /\ At("wiping")
  /\ private' = [private EXCEPT ![job.alias] = NoKey]
  /\ public' = [public EXCEPT ![job.alias] = NoKey]
  /\ Then("unlink")
  /\ UNCHANGED <<ring, toLoad, exported, agent, conn, open, newrepos, ghosts>>
UnlinkExport ==
  /\ At("unlink")
  /\ exported' = [exported EXCEPT ![job.alias] = NoKey]
  /\ halved' = halved \ {job.alias}
  /\ Then("answer")
  /\ UNCHANGED <<ring, toLoad, private, public, agent, conn, open, newrepos, minted, told, stray>>

(* The reply: a create's tells the public half it reads back.              *)
Reply ==
  /\ At("answer")
  /\ LET key == IF job.op \in {"create", "pubkey"} THEN public[job.alias] ELSE NoKey
     IN /\ Answer(job.client, "key", key)
        /\ told' = IF job.op = "create" THEN [told EXCEPT ![job.alias] = key] ELSE told
  /\ UNCHANGED <<ring, toLoad, disk, agent, open, newrepos, minted, halved, stray>>

KeyringStep ==
  \/ Keep \/ (\E k \in Keys : Generate(k)) \/ GenerateRest
  \/ Export \/ ExportFails \/ Load
  \/ Unload \/ (\E half \in {"id", "id.pub"} : WipeFirst(half)) \/ WipeRest
  \/ UnlinkExport \/ Reply

-----------------------------------------------------------------------------
(* newrepo: key, then clone.                                               *)

InSetup(c, step) == setup[c].step = step
GoOn(c, step) == setup' = [setup EXCEPT ![c] = [@ EXCEPT !.step = step]]
Sets(a, field, value) == repo' = [repo EXCEPT ![a] = [@ EXCEPT ![field] = value]]
OnlyNewrepo == UNCHANGED <<ring, toLoad, disk, agent, conn, open, job, ghosts>>

(* ensureKey asks the keyring for the key, over a connection of its own.   *)
Setup(c, a) ==
  /\ setup[c] = NoSetup
  /\ Connect(c, "create", a)
  /\ setup' = [setup EXCEPT ![c] = [step |-> "key", alias |-> a]]
  /\ UNCHANGED <<ring, toLoad, disk, agent, job, repo, ghosts>>

GotKey(c) ==
  /\ InSetup(c, "key") /\ conn[c].got = "key"
  /\ GoOn(c, "block")
  /\ UNCHANGED repo /\ OnlyNewrepo

(* ensureKey: the Host block is appended unless it is there, and the       *)
(* canonical URLs are rewritten to it.                                     *)
WriteBlock(c) ==
  /\ InSetup(c, "block")
  /\ Sets(setup[c].alias, "block", TRUE)
  /\ GoOn(c, "rewrites") /\ OnlyNewrepo
WriteRewrites(c) ==
  /\ InSetup(c, "rewrites")
  /\ Sets(setup[c].alias, "rewrites", TRUE)
  /\ GoOn(c, "clone") /\ OnlyNewrepo

(* doClone: a .git that is there is taken for a clone that was finished;   *)
(* cloneThroughCache clones, and then points origin from the cache at the  *)
(* registered remote.                                                      *)
SeesClone(a) == repo[a].clone # "none"
SkipClone(c) ==
  /\ InSetup(c, "clone") /\ SeesClone(setup[c].alias)
  /\ GoOn(c, "identity")
  /\ UNCHANGED repo /\ OnlyNewrepo
Clone(c) ==
  /\ InSetup(c, "clone") /\ ~SeesClone(setup[c].alias)
  /\ Sets(setup[c].alias, "clone", "origin is the cache")
  /\ GoOn(c, "origin") /\ OnlyNewrepo
PointOrigin(c) ==
  /\ InSetup(c, "origin")
  /\ Sets(setup[c].alias, "clone", "whole")
  /\ GoOn(c, "identity") /\ OnlyNewrepo
WriteIdentity(c) ==
  /\ InSetup(c, "identity")
  /\ Sets(setup[c].alias, "identity", TRUE)
  /\ GoOn(c, "populate") /\ OnlyNewrepo
Populate(c) ==
  /\ InSetup(c, "populate")
  /\ Sets(setup[c].alias, "files", TRUE)
  /\ GoOn(c, "ready") /\ OnlyNewrepo

(* A newrepo ends: done, refused by the keyring, or killed at any step.    *)
EndSetup(c) ==
  /\ setup[c] # NoSetup
  /\ setup' = [setup EXCEPT ![c] = NoSetup]
  /\ UNCHANGED repo /\ OnlyNewrepo

NewrepoStep(c) ==
  \/ GotKey(c) \/ WriteBlock(c) \/ WriteRewrites(c) \/ SkipClone(c)
  \/ Clone(c) \/ PointOrigin(c) \/ WriteIdentity(c) \/ Populate(c)

Next ==
  \/ Boot \/ (\E a \in Aliases : Publish(a)) \/ Serve \/ Crash
  \/ KeyringStep
  \/ \E c \in Clients :
       \/ Ask(c) \/ Close(c) \/ Begin(c) \/ NoSuchKey(c)
       \/ NewrepoStep(c) \/ EndSetup(c)
       \/ \E a \in Aliases, op \in Ops : Visit(c, op, a)
  \/ \E c \in Newrepos, a \in Aliases : Setup(c, a)

Spec == Init /\ [][Next]_vars

-----------------------------------------------------------------------------
(* The key a create told is the alias's key, in both halves and in what    *)
(* the editor mounts, until somebody asks for its removal: across any      *)
(* number of restarts, creates and pubkeys (newrepo's "never               *)
(* regenerated").  Not after a crash between two files of a pair, which    *)
(* leaves halves of two pairs under one alias.                             *)
RegisteredKeyStays ==
  \A a \in Aliases : told[a] # NoKey /\ a \notin halved =>
    private[a] = told[a] /\ public[a] = told[a] /\ exported[a] = told[a]

(* And the agent signs with no key whose private half is gone from the     *)
(* disk: a removed key is loaded nowhere -- unless its removal met the     *)
(* public half of another pair, which takes an alias that a crash caught   *)
(* half written or half wiped, and lasts until the agent's next start.     *)
KeysAreKept ==
  /\ RegisteredKeyStays
  /\ \A k \in agent : k \in stray \/ \E a \in Aliases : private[a] = k
  /\ job.step = "unload" /\ job.alias \notin halved => Named(job.alias) = private[job.alias]

(* keyring.ts:157: what the agent is not asked to forget is "not loaded".  *)
(* This does not hold: ssh-add -d fails for id.pub's key, which is not     *)
(* loaded, and id's, which is, stays.                                      *)
RemovedIsUnloaded == \A k \in agent : \E a \in Aliases : private[a] = k

(* newrepo.ts:8: rerunning after any partial setup completes the missing   *)
(* steps, so a repository that is READY has all of them.                   *)
ReadyIsComplete ==
  \A c \in Clients : setup[c].step = "ready" =>
    LET r == repo[setup[c].alias] IN
    r.block /\ r.rewrites /\ r.identity /\ r.files /\ r.clone = "whole"
=============================================================================
