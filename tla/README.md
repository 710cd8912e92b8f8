# desolate in TLA+

desolate ("dev" + "isolate") runs several projects' devcontainers in one VM on a
Mac: an editor in front, an *orchestrator* container that drives docker, a
docker-in-docker daemon shared by most targets, a daemon of its own ("project
dind") for a project that declares `docker-outside-of-docker`, a *keyring* that
holds deploy keys, and an egress and an ingress proxy in the VM. A *target* is a
project or one of its worktrees. Everything a user does to a target is one
short-lived `desolate.ts` process, the *runner*; several run at once, share files
and docker daemons, and can be killed at any point. What those processes do to
each other through files, sockets and daemons is what this directory models.

Paths below are under `src/release/` unless they say otherwise.

## 1. Inventory

### Components that keep state or take decisions others rely on

| Component | Source | State it keeps | Operations |
|---|---|---|---|
| Per-target lock | `vscode-image/locks.ts` | one file per target in `/tmp` of the orchestrator, naming a pid | `hold`, `holderOf`, `release` at exit |
| Runner commands | `vscode-image/desolate.ts`, `state.ts` | state files per target (`ports`, `spec`, `token`, `daemon`), containers in a daemon | run, rebuild, stop, stop --all, purge, ports --move, exec, reclaim, worktree create/populate/remove, bundle, pull, review, suede report/build |
| Host-port allocation | `vscode-image/ports.ts`, `relays.ts` | none (pure) | `allocatePorts`, `movePort` |
| Ingress forwards registry | `vscode-image/ingress-files.ts` | `ports/<p>` files shared by all targets and read by the VM | claim, release, publish, withdraw, ownedForwards |
| Admission and reaping | `vscode-image/capacity.ts` | none (pure) | `admit`, `reapable`, `memoryPlan`, `budget` |
| Supervisor | `vscode-image/supervisor.ts`, `shutdown.ts`, `dind.ts` | project dind containers, networks, volumes; `dinds/<name>` files; `lastBusy` in memory | ensure, reset, stop, purge, status, reaper tick |
| Start broker | `vscode-image/broker.ts`, `snapshot.ts` | `inflight`, a snapshot directory per target | the operations a client may name; snapshot, judge, spawn |
| Command line | `vscode-image/desolate-client.ts`, `broker-client.ts`, `args.ts` | one connection per request | two grammars, one in the editor and one in the runner |
| VM ingress | `proxy/vm/ingress.py` | listeners, connections, last directory read | reconcile, admit, classify, pump, close |
| VM egress proxy | `proxy/vm/addon.py`, written by `cli.sh` | secrets, rules, per-project policies | request, websocket and response hooks |
| Worktrees | `vscode-image/worktrees.ts` | git worktrees of a project, their locks | create, populate, remove, mask |
| Transfer | `vscode-image/transfer.ts` | bare cache repository, registration lock | push, pull, clone, deliver, propose |
| Suede dependencies | `cli.sh`, `transfer.ts`, `docker.ts` | refs in a project's git dir, proposal branches | deliver, report, upstream |
| Keyring, new repositories | `vscode-image/keyring.ts`, `keyring-client.ts`, `newrepo.ts` | a key pair per repository, an ssh-agent, what the editor mounts; ssh config, clone | create, pubkey, remove, list; key, clone |
| Spec analysis | `vscode-image/policy.ts`, `projects.ts`, `devcontainer.ts`, `overlay.ts`, `feature-pins.ts`, `dockerfile-build.ts` | none, and the copy-on-write views' volumes | parse, judge, derive a run config, name things, build views |
| Editor panel | `vscode-image/panel.ts`, `extension/*.mts`, `review.ts` | what the editor shows; the review kept | actions on a row, review, push |
| Editor gate, status | `vscode-image/editor-gate.ts`, `status.ts` | one file per target | a check per request; a line per target |
| Docker CLI | `vscode-image/docker.ts` | none (the daemons' state is elsewhere) | one function per docker command, the scripts a sandbox runs |
| Mac-side scripts | `cli.sh`, `preflight.sh`, `unwedge.sh`, `observe.sh`, `vm/*`, `proxy/*/install*.sh` | compose project, VM firewall, the egress files | up, down, secret and policy commands, suede, diagnose |

### How they interact

- A **runner** takes its target's **lock**, drives a docker daemon, and tells the
  VM which host ports lead to its target by creating files in `ports/`. The
  **ingress** polls that directory and opens a listener per file.
- A runner whose project needs a daemon of its own asks the **supervisor** to
  `ensure` it (a request on a unix socket), and the supervisor makes room by
  stopping other projects' idle daemons, waits until the new one answers, and
  publishes its address in `dinds/`. The ingress forwards a port only if both
  files exist and agree.
- A **command line** typed in the editor is read by its client, sent as one or
  two requests to the **broker**, which checks their shape, snapshots the spec of
  a start, has **policy** judge it, and spawns a runner with a second command
  line, which the runner reads with a grammar of its own.
- A **push** or a **pull** goes through the editor's cache of a repository, under
  a lock of its own, and through a sandbox on the project's side; what leaves the
  editor signs with a key only the **keyring** has.
- The **egress proxy** puts a secret's value in place of its name in requests,
  by files that `cli.sh` rewrites while it serves.
- The supervisor reaps idle daemons on a timer; `cli.sh` removes daemons behind
  its back on `down`.

### Behaviours that are hard to test

Concurrent runners on one target and on several (lock files judged by name, file
claims read and then acted on); commands that hold no lock (`stop --all`,
`ports --move`, `exec`); kills between any two file operations, in the runner and
in the sandbox that outlives it; port scarcity with two targets allocating at
once; the supervisor's observations going stale while it evicts, its requests
queued behind a daemon that never answers, its own restart losing `lastBusy`;
files rewritten between two reads of one poll or one hook; a snapshot judged now
and read later; a review, a question and a push with commits in between; volumes
that anybody may prune. Each is listed under `hazards` in `PROJECT.json` at the
line where it bites, with the properties that would catch it going wrong.

### What makes each part correct

- *Per-target lock*: one command at a time per target, refused on account of a
  runner that is gone only where its pid misleads, and no runner that waits.
- *Runner commands and forwards*: a host port leads to the target that claimed
  it until that target lets it go; a target that came up stays reachable
  whatever the others do; what a failed start took is given back.
- *Port allocation*: remembered ports and moves kept, failure only when ports
  run out.
- *Admission and the supervisor*: limits hold for what is started, a daemon with
  a devcontainer up is not stopped to make room, idle daemons go, requests are
  answered, and `dinds/` never leads one project's forwards to another's daemon.
- *Broker and starts*: a target runs as one container, of a spec the policy
  passed for the daemon it is on, with no more power than that spec asks for;
  the in-flight count returns to zero.
- *Command line*: a command that exits 0 did what its words say.
- *Ingress*: what listens is what the files ask for, one quiet poll later;
  nothing that names another's host reaches a port's server; a listener's
  connections end with it.
- *Egress*: a value leaves only where its entry permits and comes back as its
  name; a project that is held gets only what a rule names.
- *Worktrees*: a worktree is not pruned by a main tree that hides it; work goes
  only if that was said.
- *Transfer and proposals*: one push or pull of a registration at a time; what
  was reviewed is what is pushed; a project is never left half a history; a
  proposal is what was built, on its pin.
- *Keyring*: a registered key stays the same pair until its removal; a removed
  key is in no agent, as far as its two halves are of one pair.
- *Spec analysis*: what desolate derives passes its own policy; nothing docker
  reads from a passed spec reaches past the project; a volume changes hands only
  to a longer name; a view never shows an old file over a new version.

## 2. Modules

| Module | Models | Builds on |
|---|---|---|
| `Locks` | `locks.ts`: `hold`, `release`, kills, pids given again | |
| `Ports`, `PortWorlds` | `ports.ts`: `allocatePorts`, `movePort` as relations; every world they are asked in | |
| `Forwards` | `ingress-files.ts` and the commands of `desolate.ts` that claim and release ports | `Ports`, and what `Locks` promises |
| `Capacity` | `capacity.ts`: `admit`, `reapable` | |
| `Supervisor` | `supervisor.ts`, `shutdown.ts`, and as its environment the dinds, `cli.sh down`, docker's subnets | `Capacity` |
| `Starts` | `broker.ts`, `snapshot.ts`, and `desolate.ts` from a snapshot to a running container, stop and purge | what `Locks` promises |
| `Runs` | what a start promises, and nothing of how | refined by `Starts` |
| `Calls` | a command line through `desolate-client.ts`, `broker.ts`, `args.ts` and `desolate.ts` | |
| `Policy` | `policy.ts` and what is derived of a spec that passed | |
| `Naming`, `Names` | `projects.ts`: how a target's objects are named; who may mount which volume | `Naming` |
| `Views` | `overlay.ts` and its use in `desolate.ts`: copy-on-write views | |
| `Worktrees` | `worktrees.ts`, its sandbox scripts, the main tree's mask, git's pruning | |
| `Transfer` | `transfer.ts` and the two sandbox scripts: push and pull through a cache | |
| `Proposals` | `cli.sh suede`, deliver, report, upstream | what `Transfer` says of the cache's lock |
| `Keyring` | `keyring.ts`, `keyring-client.ts`, `newrepo.ts` | |
| `Ingress` | `ingress.py`: `reconcile` over two directories | |
| `Admission` | `ingress.py`: one connection | |
| `Egress` | `addon.py` and the commands of `cli.sh` that rewrite its files | |
| `Panel` | `extension.mts`, `panel.ts`: review and push | |
| `Reviews` | `reviewScript` of `docker.ts`, `review.ts`, and the sides a view opens: one review, from git to the editor | |
| `Pieces` | an instance of each of the eight parts without theorems of their own module | `Worktrees` to `Proposals`, `Admission`, `Views` |
| `Parts` | all the parts that meet only through files, beside each other | `PiecesProofs`, `KeyringProofs`, `StartsProofs`, `TransferProofs` |
| `*Proofs` | the theorems of the module each is named after | |
| `MCLocks`, `MCForwards`, `MCSupervisor`, `MCParts` | instances for TLC | |

Lock, forwards and supervisor are checked each in runs of their own, because
their interleavings are large. The other modules do not act on each other's
state: they meet through files one of them writes and another reads, and each
models the other side as whatever may be in those files. `Parts` therefore
holds an instance of each, gives each its initial state, and lets one of them
move (`scene`): the states of the parts add up and do not multiply. A behaviour
of `Parts` is a behaviour of every part (the lemmas `StartsAlone`,
`IngressAlone` and so on, in `PartsProofs`), which is how what is proved of one
part is proved of `Parts`. `Moving`, the view of its configuration, is the
variables of the part that moves, since the others stay as they began.
`Pieces` is only the instances of the smaller parts, each with its constants in a
record, so that one module can hold what is proved of them; `MCParts` gives the
records their values.

### Locks

A runner's `pc` is the system call it makes next: `open` with `O_EXCL`, `write`
of its pid, `read` of a file that is there, `kill(pid, 0)`, `rm`. The file is a
`path` that leads to an inode and a `content` per inode, since a descriptor
keeps writing to an inode whose name is gone. `Kill` may strike between any two
calls, after which the pid belongs to nobody, to a later runner (`Start` takes any
pid that is free: `/tmp` outlives a restart of the container, after which pids
start over), or to another process (`PidRecycled`). `Ends` is the end of a
process, and of what it had in memory. Starting and ending a command are not
fair: a build may last for ever.

### Ports

`allocatePorts` is a loop over labels in declaration order; `IsAllocation`
relates a world to the map that loop returns, through what was taken for the
labels `Before` each one, so that the module has no recursion. `Allocations` is
the set of such maps: empty is `PortsExhaustedError`. The two lower bounds are
two: what is `Available` lies from `Base` on, and a move takes any of `HostPorts`
that is `NotAnothers`. `PortWorlds` asks about *every* world over three ports,
one of them below the base, and three labels.

### Forwards

`owner[p]` is the target named by `ports/<p>`. Reading, linking, renaming over
and unlinking such a file are separate steps (`Link`, `ClaimRead`, `Rename`,
`ReleaseRead`, `Unlink`) in the loops of `claim` and `release`; `phase` says
which caller the loop serves: an allocation, the giving back after a lost claim,
the two halves of `publish`, a move's one claim, or a `withdraw`. `LookPublished`
and `Allocate`/`PlanMove` are the two readings of the world. `up`, `relays` and
`reachable` are what the daemons hold. The lock is not modelled twice: `run`,
`stop` and `purge` of one target exclude each other (`LockFree`), which is the
first line of `locks.ts`; `ports --move` and `stop --all` hold nothing, as in
the code. `OneAtATime` additionally makes those two wait: the passing runs and
the theorems about forwards assume it, and `ForwardsUnlocked` shows what is
lost without it. A write of a small state file is one step.

### Capacity and Supervisor

An observation is a function from the dinds docker lists to what is known of
them; `Admissions` is the set of eviction sets `admit`'s loop can return, with
ties between equally idle daemons broken in any order. `Supervisor` has one
action per docker command of each operation. `queue` and `job` are `serially`
and the closure of the work in progress: only the head of the queue steps, and
`Status` runs where that work awaits (only while it is queued or polling for
health: every docker command is synchronous). Time is an age per dind, capped at
the idle period, in `lastBusy` (what the supervisor believes, gone in a crash)
and `ensured` (a ghost). `Faults` selects what may go wrong in a run: the
process killed, `cli.sh down`, a dind that exits, a daemon that binds its socket
and hangs, docker refusing a start, a stop that fails, a network rm that fails.

### Starts and Runs

One target. The spec is a `file` the editor writes at any moment; `copies` are
the broker's snapshot of it, a direct runner's, and the run config derived from
either. `req` and `inflight` are the broker's side, `runner` the process that
holds the target: its `pc` is the step of `runTarget` it is at, and it carries
what it has resolved, the daemon it picked and the config `devcontainer up`
will be given. `box` is the target's container per daemon, kept across stops,
daemons and versions (`Legacy`: one made before project dinds). `saved` and
`print` are the state files. A runner may `Die` at any step, and so may broker
and VM (`Restart`). It begins with no container, with one of before v2, or with
what a first start leaves that was killed, and the VM with it, before it had
saved its print. `Runs` is what that comes to: at most one container of the
target runs, of a pair of daemon and spec the policy passes, and one gives way to
another only by going down first. `RunsOnePassed` is `Target!Spec` under the
mapping "the containers that run": `Starts` implements `Runs`.

### Calls

A command line is a sequence of words; a request is a function from the fields
its JSON has. `Reads` is the loop both grammars share (an option takes the words
it waits for, whatever they are), `Requests` what the client makes of a line,
`Is`/`Valid` the broker's checks, `Spawns` the second command line, `ParseArgs`
the runner's reading of it, `Acts` what is done for it. `Answer` is a final
status, wherever it comes from; `CutOff` is a connection that ends with none.
A project called `all` may come or go meanwhile.

### Policy, Naming, Names, Views

`Policy` is a pure function over a record of the keys a spec may have; each text
is a value the checks tell apart. `enforcePolicy` is its rules in their order,
`deriveRunConfig`, `buildSpec` and `imageSpec` the rewrites that follow, and
`DockerReads`, `Merged` are the two programs the policy foresees: docker reading
arguments and the CLI joining what features and labels bring. TLC asks about
every draft, in every layout and for every kind of target, with one key changed.
`Naming` spells names as sequences of tokens, so that the encodings of `/` and
`@` can meet; `Names` lets directories come and go beside starts and the
container that has a volume: a start is `judged` by the listing of then and mounts
later, so that what it was judged by is kept with it (`claimants`). `Views` is one view of a shared directory: its two volumes, the key it
is stamped with, the container that holds it, with a kill after each docker
command of `ensureVolume`, a newer version and a prune at any step.

### Worktrees

A worktree is its directory, the admin directory its `.git` file names
(`pointer`), and what that admin directory says (`admin`: whose, indexed,
locked). A runner (`holder`) and the script in its sandbox (`sandbox`) are two
processes: the first may be killed and the second go on, or be cut. `main` is the
main tree's container, whether that hides `.worktrees`, and the start that is
under way: `DecideMask` is its look at the locks, `MainUp` what `up` makes of it,
which is a container with that mask only where there was none (`Creates`,
`Reused`). A stop keeps the container and its mask, a rebuild, a recreation and
a purge do not. `Prune` is a git in the container. `risked`, `atStart` and `since`
are ghosts: what was not locked when it was decided that this container hides
them, what was not locked when the start under way decided to hide them, and where
work was put after the worktree was asked about it.

### Transfer and Proposals

Commits are partly ordered by `Anc`. A process of the editor takes the lock file
of its registration (`CreateLock`, `WriteLock`, `ReadLock`, `RemoveStale`,
`Release`), and then goes through `refresh`, what the project is thought to
have, the sandbox's bundle, the push, and the refs that follow it. Each sandbox
script is one step that may be cut with some refs written (`SandboxCut`). Around
them the agent commits and goes back, others push and force, the project forgets
what no ref reaches. In `Proposals` a commit is the sequence of its history's
trees; a command delivers a repository's release branch, reports how a folder
differs from its pin, or builds one commit on the pin and pushes it as a branch.

### Keyring

The keyring is one process of synchronous steps with a step per file it writes
or removes; `Crash` may come between any two. `private`, `public` and
`exported` say which pair the three files are halves of. A client has one
connection, counted in `open`; `newrepo` is a sequence of steps that may be
killed and run again. A removal takes one key out of the agent, the one `Named`
by the alias's public half. `told` is a ghost: the key last answered for an alias,
until its removal begins; `halved` and `stray` are the aliases a crash caught
between two files, and the keys whose removal named another.

### Ingress and Admission

A file has content and a print (inode and mtime); `StatFile` and `ReadFile` are
two steps, and the writers of both directories take turns with them. `poll` is
the step of `reconcile`; closing and opening listeners are steps of their own.
`Admission` follows one connection from `_accept` to its end: who speaks first,
which bytes are passed on, and `close()` of the listener at any step. What a
client sends comes in parts of any size, told apart by what `classify` needs: less
than a method and a space, those, the line, the head. `atFirst` is how much the
first read held, by which alone something else is told from a request.

### Egress

The hook that runs reads two files by steps (`StatSettings`, `ReadSettings`,
`StatPolicy`, `RereadPolicy`) and then decides about *every* request there may
be (`Requests`), so that a state quantifies over them instead of having one.
A command of `cli.sh` rewrites a file by `install`: unlink, create, copy.
`flight` holds the values substituted and not yet answered.

### Panel

The extension has one event loop and an await between any two steps; `calls` are
the actions under way on one target, `dialog` the question a push asks,
`reviewing` what the view shows, `kept` the review on disk.

### Reviews

Where `Panel` takes a review as one step, `Reviews` goes through it. A `client`
is a `desolate --review`, at the git command its sandbox runs next; each of them
reads `head`, `refs` or `origin` as they are by then, while an agent commits,
switches branches or detaches and a fetch moves `origin`. `review` is what has
been said so far, the merge base (`from`) and the files with their kinds and
limits (`Files`) included. The client then empties the directory and keeps the
sides file by file (`dir`), with nobody's lock. `shown` is the view, `Opens` what
it reads of the directory, and `Pushes` the sandbox's answer to `--expect`.
`steady` and `alone` are ghosts: whether anything moved since the
review began, and whether anybody else kept one meanwhile.

## 3. Runs

| Run | Question | Instance |
|---|---|---|
| `LocksSafe` | Who can hold, who is refused, does every try end? | 3 runners and 3 pids, any of which may be given again, kills anywhere |
| `LocksMutex` *(violation)* | Is there one holder? | 2 runners |
| `ForwardsSafe` | Are forwards taken only by their owner, and is what was published served? | 2 targets (one on its own dind) with an editor each, 2 runners, 2 ports of which one is below the base, kills anywhere |
| `ForwardsRace` | Does the loser of a race give back, and do both end? | 2 targets with 2 labels each, 2 ports, 2 attempts |
| `ForwardsUnlocked` *(violation)* | Does a release remove what it read, when `stop --all` and `--move` hold no lock? | as `ForwardsSafe` |
| `SupervisorRoom` | Do starts respect the limits and spare dinds in use? | 3 dinds of unequal size, 2 clients, room for 2 |
| `SupervisorEntries` | Can `dinds/` name another dind's address? | 2 dinds, 3 subnets, every request, every fault |
| `SupervisorEnds` | Are requests answered and idle dinds reaped? | 2 dinds, room for 1, no hang |
| `SupervisorHung` *(violation)* | Does one hung daemon leave the others served? | 2 dinds |
| `Parts` | One safety property or more for each part of the table below, and `Starts` against `Runs` | see below |
| `StartsJudged` *(violation)* | Does a container start from the copy that was judged? | 2 requests, two starts may overlap |
| `BuildsFromSnapshot` *(violation)* | Is the Dockerfile that is built the one that was judged? | as the scene `policy` |

| Scene of `Parts` | Properties | Instance |
|---|---|---|
| `keyring` | `KeysAreKept` | 1 alias, 2 pairs, 2 clients of which one may run newrepo, one connection at a time, crashes anywhere |
| `starts` | `RunsOnePassed`, `RunsWhereSaved`, `NothingBeyondDeclared`, `InflightIsCounted` | 4 specs (two for the shared daemon, one refused, one built), 1 request at a time, runners from both sides |
| `transfer` | `OriginIsWhole`, `CommitsGoWhereSaid`, `OneUnlessStolen` | 3 commits in a line, 2 processes, 3 calls, kills or moves of others |
| `worktrees` | `PrunesNoneThatWasOpen`, `WorkGoesOnlyIfSaid` | one worktree of desolate's, one made elsewhere, wanting the same admin directory |
| `ingress` | `QuietPollSettles` | 1 port, 1 dind at either of 2 addresses, 4 changes |
| `admission` | `NothingMisdirected`, `CloseReachesAll` | every kind of client and server |
| `names` | `TakenOnlyByALongerName` | an owner's directory, a project of that name, a worktree and 3 names that begin alike; the volumes that several of them claim; 2 starts at once |
| `ports` | `MoveOutlivesARestart` | every world of 3 ports, one of them below the base, and 3 labels |
| `views` | `NothingOldShadows` | 3 versions |
| `policy` | `DerivedStillPasses`, `NothingReachesPast` | 10 sets of features, 2 base images, with every value of every other key, one at a time, and every two run arguments |
| `panel` | `PushedIsWhatWasAsked` | 2 commits, 2 actions at once |
| `egress` | `ValuesAreKept`, `HeldWhileSteady` | 2 names of which one contains the other, 2 hosts, 8 pairs of files to begin with, one rewrite, one hour |
| `proposals` | `ProposesWhatWasBuilt` | 2 commands, 2 folders, copies of a repository or of a fork, 3 commands, kills or moves of others |
| `calls` | `NothingLostOnTheWay` | any three of 15 phrases, four of the 6 a start takes, three of 8 after push, pull and review, the worktree command |
| `reviews` | `ReviewIsWhole` | 4 commits (a line and one beside it), 3 branches in 2 arrangements, 3 paths, 2 clients, one move of others |

### Bounds, and why they are enough

- *Locks*: `hold` distinguishes itself, a creator and somebody in between; three
  runners give every one of those roles to a different process, with a kill of
  any, and three pids let all run at once, or the third have the pid of either
  of the others once that is gone. The proofs remove the bound.
- *Ports*: with three labels, two ports from the base on and one below it there
  are a first label, one before and after another, a port too few, and a
  remembered port that is held by somebody else, by a relay of the target, by an
  earlier label, or that is below the base.
- *Forwards*: every race is between two runners over one port or over two; two
  ports for up to four labels make them run out, and `ClaimAttempts = 2` is the
  smallest bound at which an attempt is repeated and at which it gives up (the
  code's 5 only repeats the loop). `ForwardsSafe` gives its targets an editor
  alone, one port that both are allocated, and one below the base, which only a move
  takes and which no start comes back to. A killed runner frees its slot, so any number
  of commands follow one another.
- *Supervisor*: an eviction takes a newcomer and two others of which either
  would do; three subnets for two dinds let docker hand out a fresh one or one
  that was freed. Ages stop at `IdlePeriod`, beyond which the code makes no
  distinction; a second tick that falls due while one is queued is dropped,
  where the code would do the same pruning and reaping twice in a row.
- *Starts*: a spec must differ from another in daemon, in powers on the same
  daemon, in being refused, and in having a Dockerfile: four do. The proof
  removes this bound and the one on requests. `EditsAreRead` lets the file change
  only where a snapshot or a fingerprint of it is due: an edit that nothing reads
  before the next may as well come then.
- *Keyring*: two pairs show a key that is made again. `OneOrTheOther` lets
  nobody else ask once a newrepo has gone on with its key, which is nothing to
  the keyring.
- *Transfer*: three commits give a base, one the project has and one it has not.
  `Budget` (also of `Proposals`) counts what comes from outside; three are a call
  with two disturbances, or two calls with one. The proofs of `Transfer` hold for
  any budget.
- *Ingress*: `Changes` is four, with which a port goes to another target and a
  dind's address to another dind between two reads of one poll; one port and one
  dind suffice since `reconcile` treats each port by itself.
- *Worktrees*: the removal, the mask and the prune each concern one worktree and
  the admin directory it has; the one made elsewhere is there to take its name.
- *Names*: a name can be a prefix of another as an owner, as a project, as a
  worktree, by the separator or by the encoding of a slash: one place of each.
  `AtOnce` is two starts: the one that has a volume and the one that takes it.
- *Reviews*: the limits are two files, one commit and three bytes, so that each is
  met and passed; the blobs are of every kind. One move of the agent or of GitHub
  between any two git commands is what a violation needs, and two clients mix.
- *Egress*, *Policy*, *Calls*: inputs, of which every one is asked about; what
  they leave out is said with each module.

### Assumptions the instances make, by name

- `BuildsInTime`: a devcontainer comes up less than `Grace` after the ensure its
  run began with. README.md:2350 gives the grace that purpose; a slower build
  can lose its dind to another project's ensure, since nothing holds the dind
  between `ensure` and the devcontainer's start.
- `Grace <= IdlePeriod` (in `SupervisorAssumption`): the reaper takes a dind at
  the idle period without a look at the grace, so a longer grace would protect
  nothing. The code reads the two from separate variables and does not compare
  them; their defaults satisfy it.
- `OneAtATime`: see Forwards above.
- `Overtakes`: `FALSE` in `Parts`, where no start of a target is asked for while
  one goes on that reads the broker's copy; `StartsJudged` is the run without it.
- `Encoding`: `FALSE` in `Parts`, where no project's name ends as an encoded
  worktree begins; with it two targets share a namespace (see Findings).
- docker does not cut one subnet for two networks at once (`FreeSubnets`); a new
  file's inode and mtime are not those of the file before it (`age`); commands of
  `cli.sh` that rewrite the egress files come one at a time (`writer`).

### Fairness

Every step of a runner inside `hold`, and every step of a runner in `Forwards`
(`WF_vars(Step(r))`), is taken if it stays possible: a process that can run is
scheduled. No fairness makes anyone start a command, end a build, or kill. For
the supervisor: the event loop runs the work at the head of its queue, the
interval timer fires, time passes, and a supervisor that was killed is started
again by docker (`restart: unless-stopped`). A booting daemon, a client and a
devcontainer are not fair: `EveryWorkEnds` must follow from the code's own
bounds (ten polls, a boot time), and it does unless a synchronous docker command
never returns (`SupervisorHung`). The scenes of `Parts` are checked for safety
and assume none.

## 4. Findings

Five runs show a disagreement between the code and what it says of itself;
`PROJECT.json` quotes both sides of each.

1. **Two holders of one target** (`LocksMutex`): a file that was just created is
   empty, reads as nobody's, and is removed.
2. **A release can remove another target's forward** (`ForwardsUnlocked`): two
   runners of one owner, one of them without the lock.
3. **A hung daemon stops every project's requests** (`SupervisorHung`):
   `docker ps` in `observe` has no timeout.
4. **A start can read another's snapshot** (`StartsJudged`): the target's one
   snapshot is replaced before it is judged and before any lock is taken.
5. **The Dockerfile built may not be the one judged** (`BuildsFromSnapshot`): a
   path is resolved against two directories.

The modules also state, as definitions no run lists, what a comment says and TLC
refutes in the same instances. A reader who wants one adds it to a copy of the
configuration:

| Statement | What happens instead | Source |
|---|---|---|
| `Keyring!RemovedIsUnloaded` | `ssh-add -d` takes out the key that `id.pub` names: after two crashes it is of another pair than `id`, which stays in the agent until that restarts | `keyring.ts:157` |
| `Keyring!ReadyIsComplete` | a clone killed before its origin was set is taken for a finished one | `newrepo.ts:8` |
| `Starts!ReuseIsSaid` | a container built from an older spec is brought back without the note, after a recreation in `startEditor` | `desolate.ts:490` |
| `Locks!DeadHolderIsTakenOver` | a runner whose pid a killed runner left in the file finds itself alive and is refused, with nobody else there | `locks.ts:16` |
| `Transfer!RefusedByTheLiving` | a lock file left empty by a kill refuses everybody | `transfer.ts:255` |
| `PortWorlds!EveryMoveOutlivesARestart` | a move to a port below `DESOLATE_PORT_BASE` is saved, and the next start allocates another although nobody took it | `desolate.ts:1347` |
| `Worktrees!RestartLooksAgain` | a start brings up the container that a stop kept, hidden `.worktrees` and all, with a worktree unlocked | `worktrees.ts:220` |
| `Worktrees!RunningIsNotPruned` | a worktree unlocked for a removal that is then refused can be pruned while it runs | `worktrees.ts:220` |
| `Worktrees!RemovalLosesNothing` | work put there after the question goes with the worktree | `desolate.ts:1804` |
| `Admission!NothingReachesAnother` | a request whose first read is less than a method and a space is taken for something else and passed on, whatever its Host | `ingress.py:49` |
| `Admission!NoUpstreamLeft` | a client too slow with its head is closed, and the upstream dialled for it is not | `ingress.py:453` |
| `Egress!RestrictedIsHeld` | the policy file is absent for a moment of each `install`, and none is read as no policy | `addon.py:583` |
| `Policy!NeverADesolateBug` | a Dockerfile's base may carry a label the first judgement could not see | `desolate.ts:2110` |
| `Names!AlwaysTheLonger` | a start that was judged before the longer name was there brings its container up with that one's volume | `policy.ts:214` |
| `Names!NamesArePrivate` | project `f--wt` with worktree `f`, and `f` with `wt--f`, share a namespace | `projects.ts` |
| `Names!ViewsAreTheirTargets` | a project named as another's view is owns that view's volumes | `overlay.ts` |
| `Views!ReadyIsStamped` | a view that a stopped container holds keeps its old key through a rebuild, and is rebuilt by every start | `overlay.ts` |
| `Panel!SpinsWhileActing` | the end of one action stops the spinner of another on the same target | `extension.mts:331` |
| `Panel!ReviewShowsItsOwn` | the view shows the files of a review kept since | `review.ts:165` |
| `Reviews!ShowsNoOthers` | all reviews of a target are kept in one directory by file number and opened from it later: an earlier view shows a later review's content | `review.ts:165` |
| `Reviews!ReviewIsOfOneCommit` | the commit named is the `HEAD` resolved first, the files are those of the `HEAD` resolved last | `docker.ts:395` |
| `Reviews!SendsTheBranchReviewed` | the push expects the reviewed commit, and the agent may have another branch there | `transfer.ts:440` |
| `Proposals!TakenByTheSame` | two folders of one repository propose under one branch name | `transfer.ts:636` |
| `Calls!NeverASilentSuccess` | a connection closed with no status is an exit of 0 | `broker-client.ts:55` |

`Forwards!ForwardsAreExact` (forwards a killed start claimed are in no state file
and stay) and `Supervisor!CeilingKept` (`reset` starts a dind beyond the cap) are
of the same kind. Smaller ones, seen while reading and not stated: a stop that
fails during an eviction is not noticed and the newcomer starts anyway
(supervisor.ts:286, 386); a label that newly needs a port can take the one a
later label of the same target remembers (ports.ts:117); `copyTree` takes two
links to one directory for a cycle (snapshot.ts); a push refused by the cache's
lock leaves its bundle in the project (transfer.ts:627); whether `stop all` means
every target is decided twice, by the client and by the runner, with a
directory that may appear in between (desolate.ts:2264); the review script does
not check its git commands one by one, so one that fails leaves a gap before `END`
(docker.ts:447); a `--worktree` beside
`--stop --all` is dropped by the runner's grammar, which the client refuses.

## 5. Theorems

All are proved for every value of the constants that satisfies the named
assumptions, of the module or of the theorem.

**Locks.** `LocksTypeCorrect`; `LocksExclusive`: as long as no takeover removed a
live runner's file, there is one holder and the file names it. The inductive
invariant is `FileStaysWithItsCreator` (also checked by `LocksSafe`): whoever
created the file and still runs has its inode at the path, and has written it by
the time it holds. `LocksRefusal`: a refused runner met another live process, or
was told of itself, a killed runner having written the pid that it has. It rests
on `PidsAreTheirOwn` (what an inode says is its creator's pid, and running runners
have different ones), `LeftByTheKilled` (a file at the path is a running runner's
or a killed one's) and `AloneFindsTheWayClear`, which follows a runner that tries
alone through both of its rounds.

**Forwards.** `ForwardsTypeCorrect` needs two facts beside the types: whoever
works does so for a target (`HasTarget`), and a move being saved has a port
(`HasPort`). `ForwardsAreTheirOwners` and `ReleasesRemoveWhatTheyRead` assume
`OneAtATime`. The invariant is `Exclusive`: no two runners work for one target
(`Apart`), so whatever changes a file that names a target is that target's only
runner, and a file that is about to be replaced or removed still names whoever
read it (`ReadHolds`). That `owner` can change under `ReadHolds` only by a step
of the same runner is the heart of it, and what fails without the lock.
`ForwardsServe` and `ForwardsGiveBack` add, for each runner at work, what it is at
(`InOrder`), what is already in place for its target (`Placing`: the map it is
putting in place is saved before its relays start, its relays are there before it
publishes, and each port it no longer waits for is its own or lost) and what it
took (`Giving`: its target owns what it held at first, what this attempt claimed,
and what it is still giving back). A step keeps these for its own runner, one
lemma per group of actions, and for every other because it touches no file, map
or relay of another target (`StepChangesItsOwn`, `BystanderGoes`). A target is
served only once `publish` ends with nothing lost, which is where `Placing`
becomes `ServedIsForwarded`.

**Supervisor.** All three rest on `Orderly`: only the head of the queue has begun,
none has while the process is down, and each work has its dind.
`SupervisorEntriesNameNoOther` adds `Addressed`: networks have distinct subnets
(`Distinct`), an entry is its dind's own address, or, only while the supervisor
is down, one whose network is gone and which nobody has (`Accounted`), and a
purge has withdrawn what it removes (`Purging`). The supervisor prunes before it
serves, and only it makes networks: that is why a stale entry never meets the
dind its address goes to. `SupervisorLosesNone` adds `Sparing`: what the
supervisor knows of a dind's last use is never older than its last ensure
(`Known`; a restart forgets it, and the first observation counts as use), so what
a work is about to stop is past its grace and, under `BuildsInTime`, hosts
nothing and will host nothing (`Doomed`).

`SupervisorEnsureStartsWithRoom` is about sums. `HasRoom`, of each ensure that
has chosen its victims, says that the dinds without those still to be stopped
fit (`Fits`: their number and what they hold of the memory), and it stays so
because nothing else starts a dind meanwhile and what runs only becomes fewer
(`FewerFit`). `MapThenSumSet` folds by a recursive choice, so its laws (a part
holds no more than the whole, a sum splits at a member) are proved from one
fact: for each finite set there is a function that says the sum of every subset
of it (`SumsExist`, by a smallest subset that had none), and any two agree. The
theorem's condition is `"survives" \notin Faults`: a dind that runs on after
`docker stop` failed is one the ensure had counted as gone, and then `HasRoom`
is indeed lost, as TLC shows.

**Starts.** `Apart` is assumed of the constants: connections are finite in number,
the Mac is none of the daemons, `Gone` is no spec. `StartsTypeCorrect` and
`StartsInflightIsCounted` rest on `Counted`: a runner that was asked for is its
running request's, and the count is the cardinality of the requests that are not
idle. `StartsRunsWhereSaved` rests on `Placed`: once both migrations are behind a
runner nothing of the target runs on another daemon, once it has saved the file
names its own, and a purge that has come to the files has stopped everything.
`StartsNothingBeyondDeclared`, `StartsRunsWhatWasJudged` and
`StartsImplementsRuns` hold as long as no start is asked for while one goes on
(`~Overtakes`, which `StartsJudged` and `BuildsFromSnapshot` show is needed): the
copy is then the runner's own (`Judged`), what it judged is what it builds from
(`Passed`), and what is there has no more power (`Bounds`); only `up` starts a
container, and every other step leaves the same or none (`Lessens`).

**Keyring.** `KeyringTypeCorrect`, for any number of clients: the connections
counted are those that are up (`Counted`). `KeyringKeysAreKept` follows `Kept`: no
two aliases have one key (`Apart`), what the agent holds is on the disk or a stray
and what is being wiped it has been asked to forget or is a stray (`Loaded`), the
two files of an alias are of one pair but while a step writes them or where a crash
has caught it (`Paired`, whence a removal makes a stray of nothing else), and a
promise is withdrawn before the removal begins (`Promised`).
That the process serves one client at a time, and none before it serves, is what
keeps a key from being loaded between its forgetting and its wiping.

**Transfer.** For every history of commits: `History` assumes that `Anc` gives of
each commit the least set closed under `Parents`. `TransferTypeCorrect`.
`TransferOneUnlessStolen` follows `Mine`: until a lock is stolen, whoever has made
the file and not let go is whom it names, and while nobody has made another since
one was judged stale, nobody is at the cache; a pid that comes back changes
neither. `TransferOriginIsWhole` follows `Whole`: what the project has is closed
under parents and has every ref, since a bundle is only taken where it fits
(`FittingStaysClosed`), so what was guessed of the project does not matter.
`TransferCommitsGoWhereSaid` follows `Expected`.

The theorems of the parts below are in `PiecesProofs`. Where a part's constants
need an assumption it is named after the part (`WorktreesConstants`,
`PortsConstants`, ...), and `Parts` assumes all of them, so that TLC evaluates
them on every run of it.

Each keeps its types (`WorktreesTypeCorrect`, `IngressTypeCorrect`, ...), with a
fact beside them that the invariants below leave out: every set a worktree is in
is of the project's trees (`OfTrees`); a listener's target is an address and its
owner whatever a file says (`Bounded`); what the proxy has read, and a command is
about to write, is of projects there are (`Entered`); a cache is a command's that
ran (`Bookkept`).

**Admission.** `AdmissionTypeCorrect`; `AdmissionMisdirectsNothing` and
`AdmissionCloseReaches`, of every kind of client and of server. The first follows
`Judged`: a step that dials comes after the judgement, on each of the four ways
there, and what was judged stays `Allowed`, since a client keeps the kind it has
and what its first read held, and sends no more once it has ended (`PeersMove`).
What it excuses, a first read of less than a method and a space and a head that
is cut off, the code does pass on. The second follows
`Reached`: an upstream that is open is tracked, from the moment it is open, and
none is before `_accept` has begun.

**Views.** `ViewsTypeCorrect` and `ViewsNothingOldShadows`, for any number of
versions, upgrades, kills and volumes pruned: `Layered` says that nothing in
`upper/` is older than the key the view over it is stamped with, nor than what a
start that has looked at it wants. A view that docker keeps through a rebuild
keeps its old key, and is then rebuilt needlessly, never reused wrongly.

**Worktrees.** For any worktrees and admin directories, two of which may want one
name. `WorktreesPruneNoneThatWasOpen` follows `Masked`: a start that
decided to hide the worktrees found all of them locked, and a container that
hides them was given that by such a start, so nothing is at risk in it, through
however many stops and starts, but what was made or unlocked since.
`WorktreesWorkGoesOnlyIfSaid` needs `Placed` (an admin directory that says it is
somebody's is the one that worktree's own `.git` names: removing through one
never takes another's directory) and `Asked`: work that was there when its
worktree was asked sends the question a no, so a removal without force is of a
worktree whose work came since.

**Names and host ports.** `NamesTakenOnlyByALongerName`: of a finite set of names
that a volume matches the longest is its owner's (`LargestExists`, of a set of
numbers that is finite), so whoever is judged has a name as long as
every claimant's of then (`IsAStart`, kept while the start is under way, whatever
comes and goes), and takes a volume from a longer name only if that was not among
them. `PortsMoveOutlivesARestart`, for any ports, any base and any declaration
order: `Stated` says a saved map is one to one, and under `IsAllocation` each label
then finds what it had free of what was taken before it.

**Ingress.** `IngressQuietPollSettles`, for any number of ports, dinds, addresses
and changes. `Settling` follows a poll through its steps: what has been read
while nothing changed is what is there (`AsRead`); a listener whose file was
rewritten since it opened has a fingerprint that differs, or will (`Noticed`:
the stat comes before the read, so a file rewritten in between is seen as new
again); and once the listeners to be closed are closed, each is as wanted, still
to be opened, or its port is busy (`AsWanted`).

**Panel.** `PanelPushesWhatWasAsked`, for any number of commits and of actions at
once: `Carried` says that a push holds the commit its question named and that
what the sandbox bundled is that commit.

**Egress.** `EgressHoldsWhileSteady` and `EgressKeepsValues`, of any two files the
tools can have left (`EgressConstants`: each secret has a value of its own), any
rewrites, and every request. `FilesKept` is of the files and of the command that
rewrites one: it follows what was there, a secret only changing its switch or
being new, and new names overlap none. `Loadings` is of the hook: what it has
loaded is what the file with that stamp said. `Traced` is of the values: one that
was sent, or may be, is under the name it was under or is stored no more.

**Proposals.** `ProposalsProposeWhatWasBuilt`, for any number of commands and
folders: `Consumers` says that every copy is of a release and every proposal one
commit on such a copy's pin; `Commands` what a command has built and found by
each step, up to the push of a branch that it saw was not there.

**Policy.** Its theorems are in `PartsProofs`, of every spec that is well formed
(`Specs`, which every draft and every edit is: `PolicyAssumption`), whatever its
features, mounts, options and paths, and of arguments of any length.
`PartsDerivedStillPasses` goes check by check: a digest brings what its feature
brought, so the merge is the same (`MergedAlike`); an image brings nothing more
than was merged to build it (`MergedOfBuilt`); the mask behind the arguments adds
its own pair and takes nothing from the others (`MaskAddsItsOwn`).
`PartsNothingReachesPast` needs that two readers of one list agree: from every
argument on, what the policy lets through docker reads with the same values, and
comes to the image just behind them (`ReadAlike`). Both readings are recursive
functions from a place to those behind it. That such a function exists is proved
once, for whatever a place says of those behind it (`ReadingExists`), and what
holds of each place if it holds of those behind holds of all (`FromTheEnd`): the
largest place where it did not would be one where it does.

**Reviews.** `PartsReviewIsWhole`, in `PartsProofs`, for every history and every
tree, any limits and any clients. `Listed` follows a review: while it is steady,
what it has read so far is what is there, so that its counts are of the commits
GitHub lacks and its files are of the two trees compared, `more` said where the
limit cut them. Paths come in order: each that differs has its number among
those that do (`NumberedIsIt`), so a list of as many files as paths differ leaves
none out, and a list of commits as long as its range has them all
(`NewestAreAll`). `Keeping` is of the directory: a review that was alone there
has filled it with what it listed, but for what it has still to write
(`Filled`). The assumption is `Reviews!Constants`: trees are of one length, and
the branch that is checked out is at the commit that is.

**Parts.** Twenty-four theorems, one for each property of the run `Parts` that has
a proof: each part is alone in `Parts`, what is assumed of its constants is assumed
there, and so its theorem applies. `PartsNothingBeyondDeclared` and
`PartsRunsOnePassed` keep their condition, `~ForStarts.Overtakes`, which the run
sets.

**Only model-checked.**

- `EveryTryEnds`, `EveryCommandEnds`, `EveryWorkEnds` and `IdleDindsAreReaped` are
  liveness under fairness, which is out of the prover's reach.
- `NothingLostOnTheWay` (Calls) is about what the command line's parser, the
  script that wraps it and the flags it passes on make of one list of words, one
  after another: induction over several lists at once, each made from the last.
  Which lines are given is the run's choice too (`Lines`).

## 6. What comes next, in order

1. Proofs: that nothing is lost on the way, by `ReadingExists` over the words of a
   line, once for each of its readers.
2. `memoryPlan` in `Capacity`, with the ceilings it gives the dinds and the
   containers; the supervisor's `publishShared`.
3. The compositions that would find more than their parts: `Ingress` reading the
   directories `Forwards` and `Supervisor` write, instead of writers of its own;
   `Starts` over the lock of `Locks` instead of a slot.

## 7. Not modelled, and why

- `exec`, the reclaim command, the lists and the status: they read, and act on no
  state that another process decides by. `exec` looks once whether its target is
  coming or going and then uses the container id it has read (desolate.ts:1922): a
  stop that begins in between takes the container under the caller's command.
- `editor.ts` and the editor's start inside a container: docker commands in a
  row, each made to be run again; what of them has consequences for a start
  (`startEditor`'s one recreation) is in `Starts`. The editor gate is a proxy
  with a token and no state.
- `docker.ts`' argument lists and the parsing of docker's answers: one function
  per command. What its callers rely on (`hostsDevcontainer`, where anything but
  a clear answer reads as in use; the paths of `devcontainerUp`) is modelled
  where it is used.
- `supervisor-client.ts`: a request and its answer; its timeouts appear in
  `Supervisor` as a command that gives up.
- The Mac-side scripts (install, check, repair, the stack's compose files): they
  act before or after the system runs; `cli.sh down` appears where it removes
  another component's state.
- Of the egress proxy: the hosts whose TLS it passes through unread
  (`tls_passthrough`, addon.py:903-910, which ships empty and in which nothing is
  substituted), the self-test's own fixture, `scrub_responses: false` (with which
  nothing comes back scrubbed, by intent), private destinations and the audit.
- JSONC's syntax, globs and Dockerfile syntax: formats, whose cases are data and
  which the repository's unit tests enumerate; the models start from what was
  parsed, a failure to parse included.
- Host keys and git's own transport in `transfer.ts`: what is fetched or pushed,
  and whether it failed, is modelled; how is git's.
- `src/docs/` (the diagrams' DSL, its CLI and its editor extension): a
  documentation tool that the system does not contain.
