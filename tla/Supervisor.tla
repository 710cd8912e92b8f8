------------------------------ MODULE Supervisor ------------------------------
(***************************************************************************)
(* vscode-image/supervisor.ts: the one process that creates, starts,       *)
(* stops and removes project dinds, and publishes their addresses to the   *)
(* ingress in dinds/<name>.                                                *)
(*                                                                         *)
(* One event loop.  Requests (ensure, reset, stop, purge) and the timer's  *)
(* tick run one at a time, first come first served (`serially`); only      *)
(* `status` runs beside them, and only where they await.  Every docker     *)
(* command is a step of its own: daemons, devcontainers, cli.sh and time   *)
(* move in between, and the process may be killed there.                   *)
(*                                                                         *)
(* A dind's address is one of its network's subnet; a subnet stands for    *)
(* it.  The network outlives the container's stops, and only a purge or a  *)
(* cli.sh down removes it, after which docker may hand out its subnet to   *)
(* another dind's network.                                                 *)
(***************************************************************************)
EXTENDS Capacity, Sequences

CONSTANTS
  Dinds,         (* the projects that need a daemon of their own           *)
  Clients,       (* connections to the supervisor's socket                 *)
  Timer,         (* setInterval's callback                                 *)
  Subnets,       (* what docker cuts networks from                         *)
  NoSubnet,
  Nobody,        (* no dind                                                *)
  Unseen,        (* no entry in lastBusy                                   *)
  Total,         (* the memory dinds and what they run share               *)
  Holds,         (* what each dind holds while it runs                     *)
  Requested,     (* the requests clients send                              *)
  Faults,        (* what may go wrong: see Fault                           *)
  BuildsInTime   (* TRUE: a devcontainer comes up within Grace of the      *)
                 (* ensure its run began with                              *)

Operations == {"ensure", "reset", "stop", "purge"}

(* crash: the supervisor is killed.  down: cli.sh down.  dies: a dind      *)
(* exits on its own.  hangs: a booting daemon binds its socket and never   *)
(* answers.  refuses: docker fails to create, start or restart a dind.     *)
(* survives: a docker stop fails.  holdout: a docker network rm fails.     *)
Fault == {"crash", "down", "dies", "hangs", "refuses", "survives", "holdout"}

ASSUME SupervisorAssumption ==
  /\ Timer \notin Clients
  /\ NoSubnet \notin Subnets
  /\ Nobody \notin Dinds
  /\ IsFiniteSet(Dinds)
  /\ Unseen \notin Nat
  /\ Total \in Nat
  /\ Holds \in [Dinds -> Nat]
  /\ Requested \subseteq Operations
  /\ Faults \subseteq Fault
  /\ BuildsInTime \in BOOLEAN
  /\ Grace <= IdlePeriod

VARIABLES
  cont,       (* each dind's container: absent, exited or running          *)
  daemon,     (* its dockerd: down, booting, ready, or hung                *)
  hosts,      (* the dinds a devcontainer is up in                         *)
  subnet,     (* what each dind's network has, or NoSubnet                 *)
  entry,      (* dinds/<name>: the address it names, or NoSubnet           *)
  lastBusy,   (* how long ago each was last busy, as the supervisor knows  *)
  ensured,    (* ghost: how long ago an ensure of it last succeeded        *)
  serving,    (* the supervisor runs                                       *)
  queue,      (* the works of `serially`, the one that runs first          *)
  job,        (* each work's operation and local state                     *)
  lost        (* ghost: the dinds stopped to make room, or as idle, with a *)
              (* devcontainer up                                           *)

vars == <<cont, daemon, hosts, subnet, entry, lastBusy, ensured, serving, queue, job, lost>>
dinds == <<cont, daemon, hosts, subnet>>

Workers == Clients \union {Timer}

(* at: the next step.  found: the container's state when the work began.   *)
(* victims: what it is about to stop.  victim: the one being stopped.      *)
NoJob == [op |-> "none", dind |-> Nobody, at |-> "idle", found |-> "absent",
          available |-> 0, victims |-> {}, victim |-> Nobody]

(* Ages beyond the idle period are all the same. *)
Ages == 0..IdlePeriod
Older(age) == IF age = Unseen \/ age = IdlePeriod THEN age ELSE age + 1

Init ==
  /\ cont = [d \in Dinds |-> "absent"]
  /\ daemon = [d \in Dinds |-> "down"]
  /\ hosts = {}
  /\ subnet = [d \in Dinds |-> NoSubnet]
  /\ entry = [d \in Dinds |-> NoSubnet]
  /\ lastBusy = [d \in Dinds |-> Unseen]
  /\ ensured = [d \in Dinds |-> IdlePeriod]
  /\ serving = TRUE
  /\ queue = <<>>
  /\ job = [w \in Workers |-> NoJob]
  /\ lost = {}
-----------------------------------------------------------------------------
(* Helpers. *)

Running == {d \in Dinds : cont[d] = "running"}
Left(running) == Total - MapThenSumSet(LAMBDA d : Holds[d], running)
Available == Left(Running)
FreeSubnets == Subnets \ {subnet[d] : d \in Dinds}

Becomes(w, next) == job' = [job EXCEPT ![w] = next]

(* Faults to seed: works that do not wait for each other, or stay in the   *)
(* queue; observing that counts as use; a startup that keeps what dinds/   *)
(* says.                                                                   *)
AtOnce(w) == queue # <<>>
StaysQueued(w) == Becomes(w, NoJob) /\ UNCHANGED queue
SeenIsBusy == [d \in Dinds |-> IF cont[d] # "absent" THEN 0 ELSE lastBusy[d]]
KeepsEntries == entry

(* `serially`: the works are done in the order they came. *)
IsTurn(w) == queue # <<>> /\ Head(queue) = w
Answer(w) ==
  /\ Becomes(w, NoJob)
  /\ queue' = Tail(queue)

(* hostsDevcontainer: anything but a clear "none here" reads as in use. *)
InUse(d) == d \in hosts \/ daemon[d] # "ready"

(* observe asks every running dind's daemon over its socket, without a     *)
(* timeout, and notes who is busy.                                         *)
Answering == \A d \in Running : daemon[d] # "hung"
Listed == {d \in Dinds : cont[d] # "absent"}
Noted == [d \in Dinds |->
  IF d \in Listed /\ (lastBusy[d] = Unseen \/ (d \in Running /\ InUse(d))) THEN 0 ELSE lastBusy[d]]
Observation == [d \in Listed |->
  [running |-> d \in Running, inUse |-> d \in Running /\ InUse(d),
   idle |-> Noted[d], memory |-> Holds[d]]]

(* ingress.withdraw, ingress.prune *)
Withdrawn(d) == [entry EXCEPT ![d] = NoSubnet]
Pruned == [d \in Dinds |-> IF d \in Running THEN entry[d] ELSE NoSubnet]

(* daemons.stop: what a stop of d comes to.  Its status is not looked at.  *)
Stopped(d) ==
  /\ cont' = [cont EXCEPT ![d] = "exited"]
  /\ daemon' = [daemon EXCEPT ![d] = "down"]
  /\ hosts' = hosts \ {d}
  /\ UNCHANGED subnet
Stops(d) ==
  IF d \in Running
  THEN \/ Stopped(d)
       \/ "survives" \in Faults /\ UNCHANGED dinds
  ELSE UNCHANGED dinds
Booting(d) ==
  /\ cont' = [cont EXCEPT ![d] = "running"]
  /\ daemon' = [daemon EXCEPT ![d] = "booting"]
  /\ hosts' = hosts \ {d}

-----------------------------------------------------------------------------
(* Works arrive. *)

Request(c, op, d) ==
  /\ serving
  /\ job[c].at = "idle"
  /\ op \in Requested
  /\ Becomes(c, [NoJob EXCEPT !.op = op, !.dind = d, !.at = "queued"])
  /\ queue' = Append(queue, c)
  /\ UNCHANGED <<dinds, entry, lastBusy, ensured, serving, lost>>

(* A tick that is due while one waits adds nothing to it. *)
TimerFires ==
  /\ serving
  /\ job[Timer].at = "idle"
  /\ Becomes(Timer, [NoJob EXCEPT !.op = "tick", !.at = "queued"])
  /\ queue' = Append(queue, Timer)
  /\ UNCHANGED <<dinds, entry, lastBusy, ensured, serving, lost>>

(* The first step of each operation. *)
Begins(w, op) == IsTurn(w) /\ job[w].at = "queued" /\ job[w].op = op

(* The container's state and the budget are read; a dind that runs is only *)
(* waited for.                                                             *)
EnsureBegins(w) ==
  /\ Begins(w, "ensure")
  /\ Becomes(w, [job[w] EXCEPT !.at = IF job[w].dind \in Running THEN "wait" ELSE "observe",
                               !.found = cont[job[w].dind],
                               !.available = Available])
  /\ UNCHANGED <<dinds, entry, lastBusy, ensured, serving, queue, lost>>

ResetBegins(w) ==
  /\ Begins(w, "reset")
  /\ IF job[w].dind \in Listed
     THEN /\ entry' = Withdrawn(job[w].dind)
          /\ Becomes(w, [job[w] EXCEPT !.at = "restart"])
          /\ UNCHANGED queue
     ELSE /\ Answer(w)
          /\ UNCHANGED entry
  /\ UNCHANGED <<dinds, lastBusy, ensured, serving, lost>>

StopBegins(w) ==
  /\ Begins(w, "stop")
  /\ entry' = Withdrawn(job[w].dind)
  /\ Becomes(w, [job[w] EXCEPT !.at = "stopping", !.victim = job[w].dind])
  /\ UNCHANGED <<dinds, lastBusy, ensured, serving, queue, lost>>

PurgeBegins(w) ==
  /\ Begins(w, "purge")
  /\ entry' = Withdrawn(job[w].dind)
  /\ Becomes(w, [job[w] EXCEPT !.at = "stopping", !.victim = job[w].dind])
  /\ UNCHANGED <<dinds, lastBusy, ensured, serving, queue, lost>>

TickBegins(w) ==
  /\ Begins(w, "tick")
  /\ entry' = Pruned
  /\ Becomes(w, [job[w] EXCEPT !.at = "observe"])
  /\ UNCHANGED <<dinds, lastBusy, ensured, serving, queue, lost>>

-----------------------------------------------------------------------------
(* ensure: making room. *)

Admit(w) ==
  /\ job[w].at = "observe"
  /\ job[w].op = "ensure"
  /\ Answering
  /\ lastBusy' = Noted
  /\ LET admissions == Admissions(Observation, job[w].available) IN
     IF admissions = {} THEN Answer(w)
     ELSE /\ \E evict \in admissions :
               Becomes(w, [job[w] EXCEPT !.at = "evict", !.victims = evict])
          /\ UNCHANGED queue
  /\ UNCHANGED <<dinds, entry, ensured, serving, lost>>

(* An evicted dind stops first and is withdrawn then. *)
EvictStops(w, d) ==
  /\ job[w].at = "evict"
  /\ d \in job[w].victims
  /\ Stops(d)
  /\ lost' = IF d \in hosts \ hosts' THEN lost \union {d} ELSE lost
  /\ Becomes(w, [job[w] EXCEPT !.at = "evicted", !.victims = job[w].victims \ {d}, !.victim = d])
  /\ UNCHANGED <<entry, lastBusy, ensured, serving, queue>>

EvictWithdraws(w) ==
  /\ job[w].at = "evicted"
  /\ entry' = Withdrawn(job[w].victim)
  /\ Becomes(w, [job[w] EXCEPT !.at = "evict", !.victim = Nobody])
  /\ UNCHANGED <<dinds, lastBusy, ensured, serving, queue, lost>>

(* A dind that is made needs its network first. *)
MakeNetwork(w) ==
  LET d == job[w].dind IN
  /\ job[w].at = "evict"
  /\ job[w].victims = {}
  /\ job[w].found = "absent"
  /\ subnet[d] = NoSubnet
  /\ \/ /\ \E s \in FreeSubnets : subnet' = [subnet EXCEPT ![d] = s]
        /\ UNCHANGED <<job, queue>>
     \/ /\ FreeSubnets = {} \/ "refuses" \in Faults
        /\ Answer(w)
        /\ UNCHANGED subnet
  /\ UNCHANGED <<cont, daemon, hosts, entry, lastBusy, ensured, serving, lost>>

(* docker run, or docker start of the container that was found. *)
StartDind(w) ==
  LET d == job[w].dind IN
  /\ job[w].at = "evict"
  /\ job[w].victims = {}
  /\ job[w].found = "absent" => subnet[d] # NoSubnet
  /\ \/ /\ cont[d] = job[w].found
        /\ Booting(d)
        /\ Becomes(w, [job[w] EXCEPT !.at = "wait"])
        /\ UNCHANGED queue
     \/ /\ cont[d] # job[w].found \/ "refuses" \in Faults
        /\ Answer(w)
        /\ UNCHANGED <<cont, daemon, hosts>>
  /\ UNCHANGED <<subnet, entry, lastBusy, ensured, serving, lost>>

-----------------------------------------------------------------------------
(* ensure and reset: waiting for the daemon. *)

Restart(w) ==
  LET d == job[w].dind IN
  /\ job[w].at = "restart"
  /\ \/ /\ d \in Listed
        /\ Booting(d)
        /\ Becomes(w, [job[w] EXCEPT !.at = "wait"])
        /\ UNCHANGED queue
     \/ /\ d \notin Listed \/ "refuses" \in Faults
        /\ Answer(w)
        /\ UNCHANGED <<cont, daemon, hosts>>
  /\ UNCHANGED <<subnet, entry, lastBusy, ensured, serving, lost>>

Healthy(w) ==
  /\ job[w].at = "wait"
  /\ daemon[job[w].dind] = "ready"
  /\ Becomes(w, [job[w] EXCEPT !.at = "publish"])
  /\ UNCHANGED <<dinds, entry, lastBusy, ensured, serving, queue, lost>>

(* Ten polls of a daemon that does not answer, or every poll of the boot   *)
(* time: refused, and the container is left as it is.                      *)
GiveUp(w) ==
  /\ job[w].at = "wait"
  /\ daemon[job[w].dind] # "ready"
  /\ Answer(w)
  /\ UNCHANGED <<dinds, entry, lastBusy, ensured, serving, lost>>

(* A container that has gone since has no address. *)
Publish(w) ==
  LET d == job[w].dind IN
  /\ job[w].at = "publish"
  /\ IF d \in Running
     THEN /\ entry' = [entry EXCEPT ![d] = subnet[d]]
          /\ lastBusy' = [lastBusy EXCEPT ![d] = 0]
          /\ ensured' = IF job[w].op = "ensure" THEN [ensured EXCEPT ![d] = 0] ELSE ensured
     ELSE UNCHANGED <<entry, lastBusy, ensured>>
  /\ Answer(w)
  /\ UNCHANGED <<dinds, serving, lost>>

-----------------------------------------------------------------------------
(* stop, purge and the reaper. *)

Reap(w) ==
  /\ job[w].at = "observe"
  /\ job[w].op = "tick"
  /\ Answering
  /\ lastBusy' = Noted
  /\ Becomes(w, [job[w] EXCEPT !.at = "reap", !.victims = Reapable(Observation)])
  /\ UNCHANGED <<dinds, entry, ensured, serving, queue, lost>>

ReapWithdraws(w, d) ==
  /\ job[w].at = "reap"
  /\ d \in job[w].victims
  /\ entry' = Withdrawn(d)
  /\ Becomes(w, [job[w] EXCEPT !.at = "stopping", !.victims = job[w].victims \ {d}, !.victim = d])
  /\ UNCHANGED <<dinds, lastBusy, ensured, serving, queue, lost>>

ReapEnds(w) ==
  /\ job[w].at = "reap"
  /\ job[w].victims = {}
  /\ Answer(w)
  /\ UNCHANGED <<dinds, entry, lastBusy, ensured, serving, lost>>

StopVictim(w) ==
  /\ job[w].at = "stopping"
  /\ Stops(job[w].victim)
  /\ lost' = IF job[w].op = "tick" /\ job[w].victim \in hosts \ hosts'
             THEN lost \union {job[w].victim} ELSE lost
  /\ \/ job[w].op = "stop" /\ Answer(w)
     \/ /\ job[w].op \in {"purge", "tick"}
        /\ Becomes(w, [job[w] EXCEPT !.at = IF job[w].op = "purge" THEN "remove" ELSE "reap",
                                     !.victim = Nobody])
        /\ UNCHANGED queue
  /\ UNCHANGED <<entry, lastBusy, ensured, serving>>

RemoveContainer(w) ==
  LET d == job[w].dind IN
  /\ job[w].at = "remove"
  /\ cont' = [cont EXCEPT ![d] = "absent"]
  /\ daemon' = [daemon EXCEPT ![d] = "down"]
  /\ hosts' = hosts \ {d}
  /\ Becomes(w, [job[w] EXCEPT !.at = "removeNetwork"])
  /\ UNCHANGED <<subnet, entry, lastBusy, ensured, serving, queue, lost>>

RemoveNetwork(w) ==
  LET d == job[w].dind IN
  /\ job[w].at = "removeNetwork"
  /\ \/ subnet' = [subnet EXCEPT ![d] = NoSubnet]
     \/ "holdout" \in Faults /\ UNCHANGED subnet
  /\ lastBusy' = [lastBusy EXCEPT ![d] = Unseen]
  /\ Answer(w)
  /\ UNCHANGED <<cont, daemon, hosts, entry, ensured, serving, lost>>

(* status is answered at once, wherever the work in progress awaits; it    *)
(* notes who is busy, as every observation does.                           *)
Status ==
  /\ serving
  /\ queue # <<>> => job[Head(queue)].at \in {"queued", "wait"}
  /\ Answering
  /\ lastBusy' = Noted
  /\ UNCHANGED <<dinds, entry, ensured, serving, queue, job, lost>>

-----------------------------------------------------------------------------
(* The environment. *)

(* What the supervisor keeps in memory goes with its process. *)
Forgets ==
  /\ serving' = FALSE
  /\ queue' = <<>>
  /\ job' = [w \in Workers |-> NoJob]
  /\ lastBusy' = [d \in Dinds |-> Unseen]

Crash ==
  /\ "crash" \in Faults
  /\ serving
  /\ Forgets
  /\ UNCHANGED <<dinds, entry, ensured, lost>>

(* cli.sh down: the stack goes first, then the dinds, their networks, and  *)
(* the files the ingress reads -- which it may fail to reach.              *)
Down ==
  /\ "down" \in Faults
  /\ serving
  /\ Forgets
  /\ cont' = [d \in Dinds |-> "absent"]
  /\ daemon' = [d \in Dinds |-> "down"]
  /\ hosts' = {}
  /\ \E kept \in SUBSET Dinds :
       /\ kept # {} => "holdout" \in Faults
       /\ subnet' = [d \in Dinds |-> IF d \in kept THEN subnet[d] ELSE NoSubnet]
  /\ entry' \in {entry, [d \in Dinds |-> NoSubnet]}
  /\ UNCHANGED <<ensured, lost>>

(* It starts, and prunes before it serves its first request. *)
FirstEntries == Pruned
Serve ==
  /\ ~serving
  /\ serving' = TRUE
  /\ entry' = FirstEntries
  /\ UNCHANGED <<dinds, lastBusy, ensured, queue, job, lost>>

Dies(d) ==
  /\ "dies" \in Faults
  /\ d \in Running
  /\ Stopped(d)
  /\ UNCHANGED <<entry, lastBusy, ensured, serving, queue, job, lost>>

BootEnds(d) ==
  /\ daemon[d] = "booting"
  /\ \/ daemon' = [daemon EXCEPT ![d] = "ready"]
     \/ "hangs" \in Faults /\ daemon' = [daemon EXCEPT ![d] = "hung"]
  /\ UNCHANGED <<cont, hosts, subnet, entry, lastBusy, ensured, serving, queue, job, lost>>

(* A run that its ensure answered has built its devcontainer. *)
DevcontainerUp(d) ==
  /\ daemon[d] = "ready"
  /\ d \notin hosts
  /\ BuildsInTime => ensured[d] < Grace
  /\ hosts' = hosts \union {d}
  /\ UNCHANGED <<cont, daemon, subnet, entry, lastBusy, ensured, serving, queue, job, lost>>

DevcontainerDown(d) ==
  /\ d \in hosts
  /\ hosts' = hosts \ {d}
  /\ UNCHANGED <<cont, daemon, subnet, entry, lastBusy, ensured, serving, queue, job, lost>>

TimePasses ==
  /\ lastBusy' = [d \in Dinds |-> Older(lastBusy[d])]
  /\ ensured' = [d \in Dinds |-> Older(ensured[d])]
  /\ <<lastBusy', ensured'>> # <<lastBusy, ensured>>
  /\ UNCHANGED <<dinds, entry, serving, queue, job, lost>>

-----------------------------------------------------------------------------
Work(w) ==
  \/ EnsureBegins(w) \/ ResetBegins(w) \/ StopBegins(w) \/ PurgeBegins(w) \/ TickBegins(w)
  \/ Admit(w) \/ EvictWithdraws(w) \/ MakeNetwork(w) \/ StartDind(w)
  \/ \E d \in Dinds : EvictStops(w, d) \/ ReapWithdraws(w, d)
  \/ Restart(w) \/ Healthy(w) \/ GiveUp(w) \/ Publish(w)
  \/ Reap(w) \/ ReapEnds(w) \/ StopVictim(w) \/ RemoveContainer(w) \/ RemoveNetwork(w)

DindMoves(d) == Dies(d) \/ BootEnds(d) \/ DevcontainerUp(d) \/ DevcontainerDown(d)

Next ==
  \/ \E c \in Clients, op \in Operations, d \in Dinds : Request(c, op, d)
  \/ TimerFires
  \/ \E w \in Workers : Work(w)
  \/ Status
  \/ Crash \/ Down \/ Serve
  \/ \E d \in Dinds : DindMoves(d)
  \/ TimePasses

Spec == Init /\ [][Next]_vars

(* The event loop runs what it can, the timer fires, time passes, a killed *)
(* supervisor is restarted (restart: unless-stopped).  Nothing makes a     *)
(* client ask, a daemon boot or a devcontainer come or go.                 *)
Fairness ==
  /\ \A w \in Workers : WF_vars(Work(w))
  /\ WF_vars(TimerFires)
  /\ WF_vars(TimePasses)
  /\ WF_vars(Serve)
FairSpec == Spec /\ Fairness

-----------------------------------------------------------------------------
JobState ==
  [op : Operations \union {"tick", "none"}, dind : Dinds \union {Nobody},
   at : {"idle", "queued", "observe", "evict", "evicted", "restart", "wait", "publish",
         "stopping", "reap", "remove", "removeNetwork"},
   found : {"absent", "exited", "running"}, available : {0} \union {Left(running) : running \in SUBSET Dinds},
   victims : SUBSET Dinds, victim : Dinds \union {Nobody}]

TypeOK ==
  /\ cont \in [Dinds -> {"absent", "exited", "running"}]
  /\ daemon \in [Dinds -> {"down", "booting", "ready", "hung"}]
  /\ hosts \subseteq Dinds
  /\ subnet \in [Dinds -> Subnets \union {NoSubnet}]
  /\ entry \in [Dinds -> Subnets \union {NoSubnet}]
  /\ lastBusy \in [Dinds -> Ages \union {Unseen}]
  /\ ensured \in [Dinds -> Ages]
  /\ serving \in BOOLEAN
  /\ queue \in Seq(Workers)
  /\ job \in [Workers -> JobState]
  /\ lost \subseteq Dinds

(* supervisor.ts:307-308, an entry may be "naming an address docker may    *)
(* hand a different dind next": what dinds/ says of one dind is never the  *)
(* address of another, so that nothing is forwarded to another project --  *)
(* through purges, crashes anywhere, and a cli.sh down that could not      *)
(* clear the directory.                                                    *)
EntriesNameNoOtherDind ==
  \A d, e \in Dinds : d # e /\ entry[d] # NoSubnet => subnet[e] # entry[d]

(* capacity.ts:12-15 and supervisor.ts:500-501: an ensure starts a dind    *)
(* only with fewer than MaxDinds running and with the floor still free     *)
(* once the newcomer has its share, whoever asked at the same time.        *)
EnsureStartsWithRoom ==
  [][\A w \in Workers :
       StartDind(w) /\ cont' # cont =>
         Cardinality(Running) + 1 <= MaxDinds /\ Available - Newcomer >= Floor]_vars

(* README.md:2350, "a daemon with a devcontainer running is never stopped  *)
(* for it", and none that is idle is reaped with one up.                   *)
NoneLost == lost = {}

(* README.md:2350, "Project daemons running at once": the cap holds        *)
(* whatever starts a dind.                                                 *)
CeilingKept == Cardinality(Running) <= MaxDinds

(* Every work of the queue is done: whatever a dind does, the others'      *)
(* requests are answered (docs/dind/SPEC-per-project-dind-v2.md:96, "blast *)
(* radius of a wedge": one).                                               *)
EveryWorkEnds == \A w \in Workers : job[w].at # "idle" ~> job[w].at = "idle"

(* DESOLATE_DIND_IDLE: a dind whose daemon answers, that hosts no          *)
(* devcontainer and that nobody asks for does not run for ever.            *)
Abandoned(d) ==
  /\ serving
  /\ daemon[d] = "ready"
  /\ d \notin hosts
  /\ \A c \in Clients : job[c].dind # d
IdleDindsAreReaped == \A d \in Dinds : []<>~Abandoned(d)
=============================================================================
