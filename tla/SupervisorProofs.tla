--------------------------- MODULE SupervisorProofs ---------------------------
(* What holds of Supervisor for all dinds, clients, subnets and limits.    *)
EXTENDS Supervisor, TLAPS, SequenceTheorems, FiniteSetTheorems, WellFoundedInduction

(* The works take turns: only the first of the queue has begun, and none   *)
(* waits while the supervisor is down.                                     *)
Serial == \A w \in Workers : job[w].at \notin {"idle", "queued"} => queue # <<>> /\ Head(queue) = w
Resting == ~serving => \A w \in Workers : job[w].at = "idle"
HasDind == \A w \in Workers : job[w].op \in Operations => job[w].dind \in Dinds
Orderly == TypeOK /\ Serial /\ Resting /\ HasDind

LEMMA NoJobIsJobState == NoJob \in JobState
BY DEF NoJob, JobState

LEMMA BecomesChangesOne ==
  ASSUME TypeOK, NEW w \in Workers, NEW next \in JobState, Becomes(w, next)
  PROVE  /\ job' \in [Workers -> JobState]
         /\ job'[w] = next
         /\ \A v \in Workers \ {w} : job'[v] = job[v]
BY DEF Becomes, TypeOK

LEMMA JobTypes ==
  ASSUME NEW j \in JobState
  PROVE  /\ j.op \in Operations \union {"tick", "none"}
         /\ j.dind \in Dinds \union {Nobody}
         /\ j.victims \subseteq Dinds
         /\ j.victim \in Dinds \union {Nobody}
BY DEF JobState

(* What a work's step does to the works: it goes on, or it is answered.    *)
GoesOn(w) ==
  /\ job'[w].at \notin {"idle", "queued"}
  /\ job'[w].op = job[w].op
  /\ job'[w].dind = job[w].dind
  /\ queue' = queue
IsAnswered(w) == job'[w] = NoJob /\ queue' = Tail(queue)
WorksOn(w) ==
  /\ IsTurn(w)
  /\ job[w].at # "idle"
  /\ job' \in [Workers -> JobState]
  /\ \A v \in Workers \ {w} : job'[v] = job[v]
  /\ GoesOn(w) \/ IsAnswered(w)
  /\ serving' = serving

LEMMA GoingOn ==
  ASSUME TypeOK, NEW w \in Workers, NEW next \in JobState, Becomes(w, next),
         IsTurn(w), job[w].at # "idle", next.at \notin {"idle", "queued"},
         next.op = job[w].op, next.dind = job[w].dind, queue' = queue, serving' = serving
  PROVE  WorksOn(w)
BY BecomesChangesOne DEF WorksOn, GoesOn

LEMMA Answered ==
  ASSUME TypeOK, NEW w \in Workers, Answer(w), IsTurn(w), job[w].at # "idle", serving' = serving
  PROVE  WorksOn(w)
BY BecomesChangesOne, NoJobIsJobState DEF WorksOn, IsAnswered, Answer

LEMMA MyTurn ==
  ASSUME Serial, NEW w \in Workers, job[w].at \notin {"idle", "queued"}
  PROVE  IsTurn(w)
BY DEF Serial, IsTurn

(* One case for each step of a work.                                       *)
LEMMA WorkTakesTurns ==
  ASSUME TypeOK, Serial, HasDind, NEW w \in Workers, Work(w)
  PROVE  WorksOn(w)
<1> DEFINE Begun == {"observe", "evict", "evicted", "restart", "wait", "publish", "stopping",
                     "reap", "remove", "removeNetwork"}
           Fits(next) == /\ next \in JobState
                         /\ next.at \notin {"idle", "queued"}
                         /\ next.op = job[w].op
                         /\ next.dind = job[w].dind
<1>job. job[w] \in JobState
  BY DEF TypeOK
<1>at. ASSUME NEW at \in Begun PROVE Fits([job[w] EXCEPT !.at = at])
  <2>1. [job[w] EXCEPT !.at = at] \in JobState
    BY <1>job, Zenon DEF JobState
  <2> QED BY <1>job, <2>1 DEF JobState
<1>victim. ASSUME NEW at \in Begun, NEW victim \in Dinds \union {Nobody}
           PROVE  Fits([job[w] EXCEPT !.at = at, !.victim = victim])
  <2>1. [job[w] EXCEPT !.at = at, !.victim = victim] \in JobState
    BY <1>job, Zenon DEF JobState
  <2> QED BY <1>job, <2>1 DEF JobState
<1>victims. ASSUME NEW at \in Begun, NEW victims \in SUBSET Dinds
            PROVE  Fits([job[w] EXCEPT !.at = at, !.victims = victims])
  <2>1. [job[w] EXCEPT !.at = at, !.victims = victims] \in JobState
    BY <1>job, Zenon DEF JobState
  <2> QED BY <1>job, <2>1 DEF JobState
<1>both. ASSUME NEW at \in Begun, NEW d \in Dinds
         PROVE  Fits([job[w] EXCEPT !.at = at, !.victims = job[w].victims \ {d}, !.victim = d])
  <2>1. job[w].victims \ {d} \in SUBSET Dinds
    BY <1>job, JobTypes
  <2>2. [job[w] EXCEPT !.at = at, !.victims = job[w].victims \ {d}, !.victim = d] \in JobState
    BY <1>job, <2>1, Zenon DEF JobState
  <2> QED BY <1>job, <2>2 DEF JobState
<1>goes. ASSUME NEW next, Fits(next), Becomes(w, next), IsTurn(w), job[w].at # "idle",
                queue' = queue, serving' = serving
         PROVE  WorksOn(w)
  BY <1>goes, GoingOn
<1> HIDE DEF Fits
<1>1. CASE EnsureBegins(w)
  <2> DEFINE at == IF job[w].dind \in Running THEN "wait" ELSE "observe"
             found == cont[job[w].dind]
             next == [job[w] EXCEPT !.at = at, !.found = found, !.available = Available]
  <2>1. found \in {"absent", "exited", "running"}
    BY <1>1 DEF EnsureBegins, Begins, HasDind, Operations, TypeOK
  <2>2. Available \in {0} \union {Left(running) : running \in SUBSET Dinds}
    BY DEF Available, Running
  <2>3. at \in {"wait", "observe"}
    OBVIOUS
  <2> HIDE DEF at, found
  <2>4. next \in JobState
    BY <1>job, <2>1, <2>2, <2>3, Zenon DEF JobState
  <2>5. Fits(next)
    BY <1>job, <2>3, <2>4 DEF JobState, Fits
  <2>6. Becomes(w, next)
    BY <1>1 DEF EnsureBegins, at, found
  <2> HIDE DEF next
  <2> QED BY <1>1, <1>goes, <2>5, <2>6 DEF EnsureBegins, Begins
<1>2. CASE ResetBegins(w)
  BY <1>2, <1>at, <1>goes, Answered DEF ResetBegins, Begins
<1>3. CASE StopBegins(w) \/ PurgeBegins(w)
  BY <1>3, <1>job, <1>victim, <1>goes, JobTypes DEF StopBegins, PurgeBegins, Begins
<1>4. CASE TickBegins(w)
  BY <1>4, <1>at, <1>goes DEF TickBegins, Begins
<1>5. CASE Admit(w)
  <2>1. ASSUME NEW evict \in Admissions(Observation, job[w].available) PROVE evict \in SUBSET Dinds
    BY DEF Admissions, Evictable, Observation, Listed
  <2> QED BY <1>5, <1>victims, <1>goes, <2>1, Answered, MyTurn DEF Admit
<1>6. ASSUME NEW d \in Dinds, EvictStops(w, d) PROVE WorksOn(w)
  BY <1>6, <1>both, <1>goes, MyTurn DEF EvictStops
<1>7. CASE EvictWithdraws(w)
  BY <1>7, <1>victim, <1>goes, MyTurn DEF EvictWithdraws
<1>8. CASE MakeNetwork(w)
  <2>1. IsTurn(w)
    BY <1>8, MyTurn DEF MakeNetwork
  <2>2. CASE UNCHANGED <<job, queue>>
    BY <1>8, <2>1, <2>2 DEF MakeNetwork, WorksOn, GoesOn, TypeOK
  <2>3. CASE Answer(w)
    BY <1>8, <2>1, <2>3, Answered DEF MakeNetwork
  <2> QED BY <1>8, <2>2, <2>3 DEF MakeNetwork
<1>9. CASE StartDind(w)
  BY <1>9, <1>at, <1>goes, Answered, MyTurn DEF StartDind
<1>10. CASE Restart(w)
  BY <1>10, <1>at, <1>goes, Answered, MyTurn DEF Restart
<1>11. CASE Healthy(w)
  BY <1>11, <1>at, <1>goes, MyTurn DEF Healthy
<1>12. CASE GiveUp(w) \/ Publish(w) \/ ReapEnds(w) \/ RemoveNetwork(w)
  BY <1>12, Answered, MyTurn DEF GiveUp, Publish, ReapEnds, RemoveNetwork
<1>13. CASE Reap(w)
  <2>1. Reapable(Observation) \in SUBSET Dinds
    BY DEF Reapable, Observation, Listed
  <2> QED BY <1>13, <1>victims, <1>goes, <2>1, MyTurn DEF Reap
<1>14. ASSUME NEW d \in Dinds, ReapWithdraws(w, d) PROVE WorksOn(w)
  BY <1>14, <1>both, <1>goes, MyTurn DEF ReapWithdraws
<1>15. CASE StopVictim(w)
  BY <1>15, <1>victim, <1>goes, Answered, MyTurn DEF StopVictim
<1>16. CASE RemoveContainer(w)
  BY <1>16, <1>at, <1>goes, MyTurn DEF RemoveContainer
<1> QED
  BY <1>1, <1>2, <1>3, <1>4, <1>5, <1>6, <1>7, <1>8, <1>9, <1>10, <1>11, <1>12, <1>13, <1>14,
     <1>15, <1>16 DEF Work

-----------------------------------------------------------------------------
(* Types. *)

LEMMA NotedIsTyped == TypeOK => Noted \in [Dinds -> Ages \union {Unseen}]
BY CapacityAssumption DEF TypeOK, Noted, Ages

LEMMA EntriesAreTyped ==
  ASSUME TypeOK
  PROVE  /\ Pruned \in [Dinds -> Subnets \union {NoSubnet}]
         /\ \A d \in Dinds \union {Nobody} : Withdrawn(d) \in [Dinds -> Subnets \union {NoSubnet}]
BY DEF TypeOK, Pruned, Withdrawn

LEMMA StopsKeepsTypes ==
  ASSUME TypeOK, NEW d \in Dinds \union {Nobody}, Stops(d)
  PROVE  /\ cont' \in [Dinds -> {"absent", "exited", "running"}]
         /\ daemon' \in [Dinds -> {"down", "booting", "ready", "hung"}]
         /\ hosts' \subseteq hosts
         /\ subnet' = subnet
         /\ \A e \in Dinds : cont'[e] = "running" => cont[e] = "running"
BY DEF TypeOK, Stops, Stopped, dinds

LEMMA BootingKeepsTypes ==
  ASSUME TypeOK, NEW d \in Dinds \union {Nobody}, Booting(d)
  PROVE  /\ cont' \in [Dinds -> {"absent", "exited", "running"}]
         /\ daemon' \in [Dinds -> {"down", "booting", "ready", "hung"}]
         /\ hosts' \subseteq hosts
BY DEF TypeOK, Booting

LEMMA OlderKeepsTypes ==
  ASSUME NEW age \in Ages \union {Unseen}
  PROVE  /\ Older(age) \in Ages \union {Unseen}
         /\ age # Unseen => Older(age) \in Ages
BY CapacityAssumption, SupervisorAssumption DEF Older, Ages

LEMMA WorkKeepsTypes ==
  ASSUME TypeOK, HasDind, NEW w \in Workers, Work(w), WorksOn(w)
  PROVE  TypeOK'
<1>1. queue' \in Seq(Workers) /\ job' \in [Workers -> JobState] /\ serving' \in BOOLEAN
  BY HeadTailProperties DEF WorksOn, IsTurn, GoesOn, IsAnswered, TypeOK
<1>2. job[w].dind \in Dinds \union {Nobody} /\ job[w].victim \in Dinds \union {Nobody} /\ job[w].victims \subseteq Dinds
  BY JobTypes DEF TypeOK
<1>3. 0 \in Ages /\ Unseen \notin Ages
  BY CapacityAssumption, SupervisorAssumption DEF Ages
<1>4. entry' \in [Dinds -> Subnets \union {NoSubnet}] /\ UNCHANGED <<cont, daemon, hosts, subnet, lastBusy, ensured, lost>>
        => TypeOK'
  BY <1>1 DEF TypeOK
<1>quiet. CASE EnsureBegins(w) \/ Healthy(w) \/ GiveUp(w) \/ ReapEnds(w)
  BY <1>4, <1>quiet DEF TypeOK, dinds, EnsureBegins, Healthy, GiveUp, ReapEnds
<1>first. CASE ResetBegins(w) \/ StopBegins(w) \/ PurgeBegins(w) \/ TickBegins(w)
  BY <1>2, <1>4, <1>first, EntriesAreTyped DEF TypeOK, dinds, ResetBegins, StopBegins, PurgeBegins, TickBegins
<1>withdraws. CASE EvictWithdraws(w) \/ \E d \in Dinds : ReapWithdraws(w, d)
  BY <1>2, <1>4, <1>withdraws, EntriesAreTyped DEF dinds, EvictWithdraws, ReapWithdraws
<1>5. CASE Admit(w) \/ Reap(w)
  BY <1>1, <1>5, NotedIsTyped DEF TypeOK, dinds, Admit, Reap
<1>6. ASSUME NEW d \in Dinds, EvictStops(w, d) PROVE TypeOK'
  BY <1>1, <1>6, StopsKeepsTypes DEF TypeOK, EvictStops
<1>7. CASE StopVictim(w)
  BY <1>1, <1>2, <1>7, StopsKeepsTypes DEF TypeOK, StopVictim
<1>8. CASE MakeNetwork(w)
  BY <1>1, <1>8 DEF TypeOK, MakeNetwork, FreeSubnets
<1>9. CASE StartDind(w) \/ Restart(w)
  BY <1>1, <1>2, <1>9, BootingKeepsTypes DEF TypeOK, StartDind, Restart
<1>10. CASE Publish(w)
  BY <1>1, <1>2, <1>3, <1>10 DEF TypeOK, dinds, Publish, Running
<1>11. CASE RemoveContainer(w)
  BY <1>1, <1>2, <1>11 DEF TypeOK, RemoveContainer
<1>12. CASE RemoveNetwork(w)
  BY <1>1, <1>2, <1>12 DEF TypeOK, RemoveNetwork
<1> QED
  BY <1>quiet, <1>first, <1>withdraws, <1>5, <1>6, <1>7, <1>8, <1>9, <1>10, <1>11, <1>12 DEF Work

-----------------------------------------------------------------------------
(* The works take turns. *)

(* A work arrives only while the supervisor runs, at the queue's end.      *)
LEMMA ArrivalKeepsOrder ==
  ASSUME Orderly, NEW w \in Workers, NEW next \in JobState, Becomes(w, next), next.at = "queued",
         next.op \in Operations => next.dind \in Dinds,
         serving, serving' = serving, job[w].at = "idle", queue' = Append(queue, w)
  PROVE  job' \in [Workers -> JobState] /\ queue' \in Seq(Workers) /\ Serial' /\ Resting' /\ HasDind'
<1> USE DEF Orderly
<1>1. /\ job' \in [Workers -> JobState]
      /\ job'[w] = next
      /\ \A v \in Workers \ {w} : job'[v] = job[v]
  BY BecomesChangesOne
<1>2. queue \in Seq(Workers) /\ queue' \in Seq(Workers) /\ queue' # <<>>
  BY AppendProperties DEF TypeOK
<1>3. queue # <<>> => Head(queue') = Head(queue)
  BY <1>2, HeadTailAppend
<1> QED BY <1>1, <1>2, <1>3 DEF Serial, Resting, HasDind

LEMMA WorkKeepsOrder ==
  ASSUME Orderly, NEW w \in Workers, Work(w)
  PROVE  Orderly'
<1> USE DEF Orderly
<1>1. WorksOn(w)
  BY WorkTakesTurns
<1>2. TypeOK'
  BY <1>1, WorkKeepsTypes
<1>3. Serial'
  BY <1>1 DEF WorksOn, IsTurn, GoesOn, IsAnswered, NoJob, Serial
<1>4. Resting' /\ HasDind'
  BY <1>1 DEF WorksOn, GoesOn, IsAnswered, NoJob, Resting, HasDind, Operations
<1> QED BY <1>2, <1>3, <1>4

LEMMA ForgetsKeepsOrder ==
  ASSUME TypeOK, Forgets
  PROVE  /\ job' \in [Workers -> JobState]
         /\ queue' \in Seq(Workers)
         /\ serving' \in BOOLEAN
         /\ lastBusy' \in [Dinds -> Ages \union {Unseen}]
         /\ Serial' /\ Resting' /\ HasDind'
<1>1. queue' \in Seq(Workers) /\ serving' \in BOOLEAN
  BY EmptySeq DEF Forgets
<1>4. job' \in [Workers -> JobState]
  BY NoJobIsJobState DEF Forgets
<1>2. lastBusy' \in [Dinds -> Ages \union {Unseen}]
  BY DEF Forgets
<1>3. Serial' /\ Resting' /\ HasDind'
  BY DEF Forgets, NoJob, Serial, Resting, HasDind, Operations
<1> QED BY <1>1, <1>2, <1>3, <1>4

LEMMA OrderlyInitially == Init => Orderly
<1> SUFFICES ASSUME Init PROVE Orderly
  OBVIOUS
<1>1. TypeOK
  BY NoJobIsJobState, CapacityAssumption DEF Init, TypeOK, Ages
<1>2. Serial /\ Resting /\ HasDind
  BY DEF Init, Serial, Resting, HasDind, NoJob, Operations
<1> QED BY <1>1, <1>2 DEF Orderly

LEMMA OrderlyStep ==
  ASSUME Orderly, [Next]_vars
  PROVE  Orderly'
<1>1. CASE UNCHANGED vars
  BY <1>1 DEF vars, Orderly, TypeOK, Serial, Resting, HasDind
<1>2. ASSUME NEW c \in Clients, NEW op \in Operations, NEW d \in Dinds, Request(c, op, d) PROVE Orderly'
  <2> DEFINE next == [NoJob EXCEPT !.op = op, !.dind = d, !.at = "queued"]
  <2>1. next \in JobState
    BY NoJobIsJobState, Zenon DEF JobState
  <2>2. next.at = "queued" /\ next.dind = d
    BY DEF NoJob
  <2>3. Becomes(c, next)
    BY <1>2 DEF Request
  <2> HIDE DEF next
  <2>4. job' \in [Workers -> JobState] /\ queue' \in Seq(Workers) /\ Serial' /\ Resting' /\ HasDind'
    BY <1>2, <2>1, <2>2, <2>3, ArrivalKeepsOrder DEF Request, Workers
  <2> QED BY <1>2, <2>4 DEF Orderly, TypeOK, Request, dinds
<1>3. CASE TimerFires
  <2> DEFINE next == [NoJob EXCEPT !.op = "tick", !.at = "queued"]
  <2>1. next \in JobState
    BY NoJobIsJobState, Zenon DEF JobState
  <2>2. next.at = "queued" /\ next.op \notin Operations
    BY DEF NoJob, Operations
  <2>3. Becomes(Timer, next)
    BY <1>3 DEF TimerFires
  <2> HIDE DEF next
  <2>4. job' \in [Workers -> JobState] /\ queue' \in Seq(Workers) /\ Serial' /\ Resting' /\ HasDind'
    BY <1>3, <2>1, <2>2, <2>3, ArrivalKeepsOrder DEF TimerFires, Workers
  <2> QED BY <1>3, <2>4 DEF Orderly, TypeOK, TimerFires, dinds
<1>4. ASSUME NEW w \in Workers, Work(w) PROVE Orderly'
  BY <1>4, WorkKeepsOrder
<1>5. CASE Status
  BY <1>5, NotedIsTyped DEF Status, dinds, Orderly, TypeOK, Serial, Resting, HasDind
<1>6. CASE Crash
  BY <1>6, ForgetsKeepsOrder DEF Crash, dinds, Orderly, TypeOK
<1>7. CASE Down
  BY <1>7, ForgetsKeepsOrder DEF Down, Orderly, TypeOK
<1>8. CASE Serve
  BY <1>8, EntriesAreTyped DEF Serve, FirstEntries, dinds, Orderly, TypeOK, Serial, Resting, HasDind
<1>9. ASSUME NEW d \in Dinds, DindMoves(d) PROVE Orderly'
  <2>1. CASE Dies(d)
    BY <1>9, <2>1 DEF Dies, Stopped, Orderly, TypeOK, Serial, Resting, HasDind
  <2>2. CASE BootEnds(d)
    BY <1>9, <2>2 DEF BootEnds, Orderly, TypeOK, Serial, Resting, HasDind
  <2>3. CASE DevcontainerUp(d) \/ DevcontainerDown(d)
    BY <1>9, <2>3 DEF DevcontainerUp, DevcontainerDown, Orderly, TypeOK, Serial, Resting, HasDind
  <2> QED BY <1>9, <2>1, <2>2, <2>3 DEF DindMoves
<1>10. CASE TimePasses
  <2>1. lastBusy' \in [Dinds -> Ages \union {Unseen}]
    BY <1>10, OlderKeepsTypes DEF TimePasses, Orderly, TypeOK
  <2>2. Unseen \notin Ages
    BY SupervisorAssumption, CapacityAssumption DEF Ages
  <2>3. ensured' \in [Dinds -> Ages]
    BY <1>10, <2>2, OlderKeepsTypes DEF TimePasses, Orderly, TypeOK
  <2> QED BY <1>10, <2>1, <2>3 DEF TimePasses, dinds, Orderly, TypeOK, Serial, Resting, HasDind
<1> QED
  BY <1>1, <1>2, <1>3, <1>4, <1>5, <1>6, <1>7, <1>8, <1>9, <1>10 DEF Next

(* The variables of the supervisor and of its dinds keep their types.      *)
THEOREM SupervisorTypeCorrect == Spec => []TypeOK
<1>1. Orderly => TypeOK
  BY DEF Orderly
<1> QED BY <1>1, OrderlyInitially, OrderlyStep, PTL DEF Spec

-----------------------------------------------------------------------------
(* What dinds/ says. *)

(* Networks never share a subnet, and what dinds/ says of a dind is its    *)
(* address; or, while the supervisor is down, the address of a network     *)
(* that is gone, whose subnet nobody has.                                  *)
Distinct == \A d, e \in Dinds : d # e /\ subnet[d] # NoSubnet => subnet[d] # subnet[e]
Truthful(d) == entry[d] = subnet[d]
Stale(d) == ~serving /\ cont[d] # "running" /\ \A e \in Dinds : subnet[e] # entry[d]
Accounted == \A d \in Dinds : entry[d] # NoSubnet => Truthful(d) \/ Stale(d)

(* A purge has withdrawn what it removes. *)
Purging ==
  \A w \in Workers :
    /\ job[w].at \in {"remove", "removeNetwork"} => job[w].op = "purge"
    /\ job[w].at = "reap" => job[w].op = "tick"
    /\ job[w].op = "purge" /\ job[w].at \in {"stopping", "remove", "removeNetwork"} =>
         entry[job[w].dind] = NoSubnet

Addressed == Orderly /\ Distinct /\ Accounted /\ Purging

(* What a step leaves in the fields a work goes on with.                   *)
Fields(next, at, victims, victim) == next.at = at /\ next.victims = victims /\ next.victim = victim

LEMMA FieldsThatChange ==
  ASSUME TypeOK, NEW w \in Workers
  PROVE  /\ \A at : Fields([job[w] EXCEPT !.at = at], at, job[w].victims, job[w].victim)
         /\ \A at, victim : Fields([job[w] EXCEPT !.at = at, !.victim = victim], at, job[w].victims, victim)
         /\ \A at, victims : Fields([job[w] EXCEPT !.at = at, !.victims = victims], at, victims, job[w].victim)
         /\ \A at, victims, victim :
              Fields([job[w] EXCEPT !.at = at, !.victims = victims, !.victim = victim], at, victims, victim)
         /\ \A at, found, available :
              Fields([job[w] EXCEPT !.at = at, !.found = found, !.available = available],
                     at, job[w].victims, job[w].victim)
         /\ Fields(NoJob, "idle", {}, Nobody)
<1>1. job[w] \in JobState
  BY DEF TypeOK
<1> QED BY <1>1 DEF Fields, JobState, NoJob

LEMMA FieldsOfJobs ==
  ASSUME TypeOK, NEW w \in Workers, NEW next, Becomes(w, next),
         NEW at, NEW victims, NEW victim, Fields(next, at, victims, victim)
  PROVE  job'[w].at = at /\ job'[w].victims = victims /\ job'[w].victim = victim
BY DEF Fields, Becomes, TypeOK

(* What a work does to networks and entries. *)
LEMMA WorkOnAddresses ==
  ASSUME Orderly, Purging, NEW w \in Workers, Work(w)
  PROVE  \/ /\ subnet' = subnet
            /\ \A d \in Dinds : entry'[d] \in {entry[d], NoSubnet, subnet[d]}
         \/ /\ entry' = entry
            /\ \E d \in Dinds, s \in Subnets \union {NoSubnet} :
                 /\ subnet' = [subnet EXCEPT ![d] = s]
                 /\ \/ subnet[d] = NoSubnet /\ s \in FreeSubnets
                    \/ s = NoSubnet /\ entry[d] = NoSubnet
<1> USE DEF Orderly, TypeOK
<1>1. CASE EnsureBegins(w) \/ Admit(w) \/ StartDind(w) \/ Restart(w) \/ Healthy(w) \/ GiveUp(w) \/ Reap(w)
           \/ ReapEnds(w) \/ RemoveContainer(w)
  BY <1>1 DEF dinds, EnsureBegins, Admit, StartDind, Restart, Healthy, GiveUp, Reap, ReapEnds, RemoveContainer
<1>2. CASE ResetBegins(w) \/ StopBegins(w) \/ PurgeBegins(w) \/ TickBegins(w) \/ EvictWithdraws(w) \/ Publish(w)
  BY <1>2 DEF dinds, ResetBegins, StopBegins, PurgeBegins, TickBegins, EvictWithdraws, Publish, Withdrawn, Pruned
<1>3. ASSUME NEW d \in Dinds, ReapWithdraws(w, d)
      PROVE  subnet' = subnet /\ \A e \in Dinds : entry'[e] \in {entry[e], NoSubnet, subnet[e]}
  BY <1>3 DEF dinds, ReapWithdraws, Withdrawn
<1>4. ASSUME NEW d \in Dinds, EvictStops(w, d) PROVE subnet' = subnet /\ entry' = entry
  BY <1>4, StopsKeepsTypes DEF EvictStops
<1>5. CASE StopVictim(w)
  BY <1>5, StopsKeepsTypes, JobTypes DEF StopVictim
<1>6. CASE MakeNetwork(w)
  <2>1. CASE job[w].dind \in Dinds
    BY <1>6, <2>1 DEF MakeNetwork, FreeSubnets
  <2>2. CASE job[w].dind \notin Dinds
    BY <1>6, <2>2 DEF MakeNetwork
  <2> QED BY <2>1, <2>2
<1>7. CASE RemoveNetwork(w)
  <2>1. job[w].op = "purge" /\ job[w].dind \in Dinds
    BY <1>7 DEF RemoveNetwork, Purging, HasDind, Operations
  <2>2. entry[job[w].dind] = NoSubnet
    BY <1>7, <2>1 DEF RemoveNetwork, Purging
  <2> QED BY <1>7, <2>1, <2>2 DEF RemoveNetwork
<1> QED BY <1>1, <1>2, <1>3, <1>4, <1>5, <1>6, <1>7 DEF Work

LEMMA WorkKeepsPurging ==
  ASSUME Orderly, Purging, NEW w \in Workers, Work(w)
  PROVE  Purging'
<1> USE DEF Orderly
<1> DEFINE Kept == /\ job'[w].at \in {"remove", "removeNetwork"} => job[w].op = "purge"
                   /\ job'[w].at = "reap" => job[w].op = "tick"
                   /\ job[w].op = "purge" /\ job'[w].at \in {"stopping", "remove", "removeNetwork"} =>
                        entry'[job[w].dind] = NoSubnet
<1>1. WorksOn(w)
  BY WorkTakesTurns
<1>becomes. ASSUME NEW next, NEW at, NEW victims, NEW victim, Becomes(w, next), Fields(next, at, victims, victim)
            PROVE  job'[w].at = at
  BY <1>becomes, FieldsOfJobs
<1>forms. /\ \A at : Fields([job[w] EXCEPT !.at = at], at, job[w].victims, job[w].victim)
          /\ \A at, victim : Fields([job[w] EXCEPT !.at = at, !.victim = victim], at, job[w].victims, victim)
          /\ \A at, victims : Fields([job[w] EXCEPT !.at = at, !.victims = victims], at, victims, job[w].victim)
          /\ \A at, victims, victim :
               Fields([job[w] EXCEPT !.at = at, !.victims = victims, !.victim = victim], at, victims, victim)
          /\ \A at, found, available :
               Fields([job[w] EXCEPT !.at = at, !.found = found, !.available = available],
                      at, job[w].victims, job[w].victim)
          /\ Fields(NoJob, "idle", {}, Nobody)
  BY FieldsThatChange
<1>2. Answer(w) => Kept
  BY <1>forms, <1>becomes DEF Answer
<1>3. ASSUME ResetBegins(w) PROVE Kept
  BY <1>2, <1>3, <1>forms, <1>becomes DEF ResetBegins, Begins
<1>15. ASSUME StopBegins(w) PROVE Kept
  <2>1. job'[w].at = "stopping"
    BY <1>15, <1>forms, <1>becomes DEF StopBegins
  <2> QED BY <1>15, <2>1 DEF StopBegins, Begins
<1>16. ASSUME TickBegins(w) PROVE Kept
  BY <1>16, <1>forms, <1>becomes DEF TickBegins
<1>17. ASSUME EvictWithdraws(w) PROVE Kept
  <2>1. Becomes(w, [job[w] EXCEPT !.at = "evict", !.victim = Nobody])
    BY <1>17 DEF EvictWithdraws
  <2>2. job'[w].at = "evict"
    BY <1>forms, <1>becomes, <2>1
  <2> QED BY <2>2
<1>ensure. ASSUME EnsureBegins(w) PROVE Kept
  <2> DEFINE at == IF job[w].dind \in Running THEN "wait" ELSE "observe"
             next == [job[w] EXCEPT !.at = at, !.found = cont[job[w].dind], !.available = Available]
  <2>1. Becomes(w, next)
    BY <1>ensure DEF EnsureBegins
  <2>2. Fields(next, at, job[w].victims, job[w].victim)
    BY <1>forms
  <2> HIDE DEF next
  <2>3. job'[w].at = at
    BY <1>becomes, <2>1, <2>2
  <2> QED BY <2>3
<1>admit. ASSUME Admit(w) PROVE Kept
  BY <1>2, <1>admit, <1>forms, <1>becomes DEF Admit
<1>4. ASSUME \/ StartDind(w) \/ Restart(w) \/ Healthy(w) \/ GiveUp(w) \/ Publish(w) \/ ReapEnds(w)
             \/ RemoveNetwork(w)
      PROVE  Kept
  BY <1>2, <1>4, <1>forms, <1>becomes
  DEF StartDind, Restart, Healthy, GiveUp, Publish, ReapEnds, RemoveNetwork
<1>5. ASSUME MakeNetwork(w) PROVE Kept
  BY <1>2, <1>5, <1>forms, <1>becomes DEF MakeNetwork
<1>6. ASSUME PurgeBegins(w) PROVE Kept
  BY <1>6, <1>forms, <1>becomes DEF PurgeBegins, Begins, HasDind, Operations, Withdrawn, TypeOK
<1>7. ASSUME NEW d \in Dinds, EvictStops(w, d) PROVE Kept
  <2>1. Becomes(w, [job[w] EXCEPT !.at = "evicted", !.victims = job[w].victims \ {d}, !.victim = d])
    BY <1>7 DEF EvictStops
  <2>2. Fields([job[w] EXCEPT !.at = "evicted", !.victims = job[w].victims \ {d}, !.victim = d],
               "evicted", job[w].victims \ {d}, d)
    BY <1>forms
  <2>3. job'[w].at = "evicted"
    BY <1>becomes, <2>1, <2>2
  <2> QED BY <2>3
<1>8. ASSUME Reap(w) PROVE Kept
  BY <1>8, <1>forms, <1>becomes DEF Reap
<1>9. ASSUME NEW d \in Dinds, ReapWithdraws(w, d) PROVE Kept
  BY <1>9, <1>forms, <1>becomes DEF ReapWithdraws, Purging
<1>10. ASSUME StopVictim(w) PROVE Kept
  BY <1>2, <1>10, <1>forms, <1>becomes DEF StopVictim, Purging
<1>11. ASSUME RemoveContainer(w) PROVE Kept
  BY <1>11, <1>forms, <1>becomes DEF RemoveContainer, Purging
<1> HIDE DEF Kept
<1>12. Kept
  BY <1>3, <1>15, <1>16, <1>17, <1>ensure, <1>admit, <1>4, <1>5, <1>6, <1>7, <1>8, <1>9, <1>10, <1>11 DEF Work
<1>13. \A v \in Workers \ {w} : job'[v] = job[v] /\ job[v].at \in {"idle", "queued"}
  BY <1>1 DEF WorksOn, IsTurn, Serial
<1>14. job'[w] = NoJob \/ (job'[w].op = job[w].op /\ job'[w].dind = job[w].dind)
  BY <1>1 DEF WorksOn, GoesOn, IsAnswered
<1> QED BY <1>12, <1>13, <1>14 DEF Purging, Kept, NoJob

LEMMA AddressedInitially == Init => Addressed
<1>1. Init => Distinct /\ Accounted /\ Purging
  BY DEF Init, Distinct, Accounted, Purging, NoJob
<1> QED BY <1>1, OrderlyInitially DEF Addressed

LEMMA WorkKeepsAddresses ==
  ASSUME Addressed, NEW w \in Workers, Work(w)
  PROVE  Distinct' /\ Accounted'
<1> USE DEF Addressed, Orderly, TypeOK
<1>1. serving /\ serving'
  BY WorkTakesTurns DEF WorksOn, Resting
<1>2. CASE /\ subnet' = subnet
           /\ \A d \in Dinds : entry'[d] \in {entry[d], NoSubnet, subnet[d]}
  BY <1>1, <1>2 DEF Distinct, Accounted, Truthful, Stale
<1>3. ASSUME entry' = entry, NEW d \in Dinds, NEW s \in Subnets \union {NoSubnet},
             subnet' = [subnet EXCEPT ![d] = s],
             \/ subnet[d] = NoSubnet /\ s \in FreeSubnets
             \/ s = NoSubnet /\ entry[d] = NoSubnet
      PROVE  Distinct' /\ Accounted'
  <2>1. Distinct'
    BY <1>3 DEF Distinct, FreeSubnets
  <2>2. Accounted'
    BY <1>1, <1>3 DEF Accounted, Truthful, Stale
  <2> QED BY <2>1, <2>2
<1> QED BY <1>2, <1>3, WorkOnAddresses

LEMMA DownKeepsAddresses ==
  ASSUME Addressed, Down
  PROVE  Distinct' /\ Accounted'
<1> USE DEF Addressed, Orderly, TypeOK
<1>1. /\ \A d \in Dinds : subnet'[d] \in {subnet[d], NoSubnet}
      /\ \A d \in Dinds : entry'[d] \in {entry[d], NoSubnet}
      /\ \A d \in Dinds : cont'[d] # "running"
      /\ serving /\ ~serving'
  BY DEF Down, Forgets
<1>2. Distinct'
  BY <1>1 DEF Distinct
<1>3. ASSUME NEW d \in Dinds, entry'[d] # NoSubnet PROVE Truthful(d)' \/ Stale(d)'
  <2>1. entry'[d] = entry[d] /\ entry[d] = subnet[d]
    BY <1>1, <1>3 DEF Accounted, Truthful, Stale
  <2> QED BY <1>1, <1>3, <2>1 DEF Distinct, Truthful, Stale
<1> QED BY <1>2, <1>3 DEF Accounted

LEMMA AddressedStep ==
  ASSUME Addressed, [Next]_vars
  PROVE  Addressed'
<1> USE DEF Addressed
<1>1. Orderly'
  BY OrderlyStep
<1>2. CASE UNCHANGED vars
  BY <1>1, <1>2 DEF vars, Distinct, Accounted, Truthful, Stale, Purging
<1>3. ASSUME NEW c \in Clients, NEW op \in Operations, NEW d \in Dinds, Request(c, op, d) PROVE Addressed'
  <2>1. Purging'
    <3>1. job' = [job EXCEPT ![c] = [NoJob EXCEPT !.op = op, !.dind = d, !.at = "queued"]]
      BY <1>3 DEF Request, Becomes
    <3>2. [NoJob EXCEPT !.op = op, !.dind = d, !.at = "queued"].at = "queued"
      BY DEF NoJob
    <3> QED BY <1>3, <3>1, <3>2 DEF Request, Purging, Orderly, TypeOK
  <2> QED BY <1>1, <1>3, <2>1 DEF Request, dinds, Distinct, Accounted, Truthful, Stale
<1>4. CASE TimerFires
  <2>1. Purging'
    <3>1. job' = [job EXCEPT ![Timer] = [NoJob EXCEPT !.op = "tick", !.at = "queued"]]
      BY <1>4 DEF TimerFires, Becomes
    <3>2. [NoJob EXCEPT !.op = "tick", !.at = "queued"].at = "queued"
      BY DEF NoJob
    <3> QED BY <1>4, <3>1, <3>2 DEF TimerFires, Purging, Orderly, TypeOK
  <2> QED BY <1>1, <1>4, <2>1 DEF TimerFires, dinds, Distinct, Accounted, Truthful, Stale
<1>5. ASSUME NEW w \in Workers, Work(w) PROVE Addressed'
  BY <1>1, <1>5, WorkKeepsAddresses, WorkKeepsPurging
<1>6. CASE Status
  BY <1>1, <1>6 DEF Status, dinds, Distinct, Accounted, Truthful, Stale, Purging
<1>7. CASE Crash
  BY <1>1, <1>7 DEF Crash, Forgets, NoJob, dinds, Distinct, Accounted, Truthful, Stale, Purging
<1>8. CASE Down
  <2>1. Purging'
    BY <1>8 DEF Down, Forgets, NoJob, Purging
  <2> QED BY <1>1, <1>8, <2>1, DownKeepsAddresses
<1>9. CASE Serve
  <2>1. Purging'
    BY <1>9 DEF Serve, Purging, Orderly, Resting
  <2>2. \A d \in Dinds : entry'[d] # NoSubnet => entry'[d] = entry[d] /\ cont[d] = "running"
    BY <1>9 DEF Serve, FirstEntries, Pruned, Running
  <2>3. Accounted'
    BY <1>9, <2>2 DEF Serve, dinds, Accounted, Truthful, Stale
  <2> QED BY <1>1, <1>9, <2>1, <2>3 DEF Serve, dinds, Distinct
<1>10. ASSUME NEW d \in Dinds, DindMoves(d) PROVE Addressed'
  <2>1. UNCHANGED <<subnet, entry, serving, job>> /\ \A e \in Dinds : cont'[e] \in {cont[e], "exited"}
    BY <1>10 DEF DindMoves, Dies, Stopped, BootEnds, DevcontainerUp, DevcontainerDown, Orderly, TypeOK
  <2> QED BY <1>1, <2>1 DEF Distinct, Accounted, Truthful, Stale, Purging
<1>11. CASE TimePasses
  BY <1>1, <1>11 DEF TimePasses, dinds, Distinct, Accounted, Truthful, Stale, Purging
<1> QED
  BY <1>2, <1>3, <1>4, <1>5, <1>6, <1>7, <1>8, <1>9, <1>10, <1>11 DEF Next

(* What dinds/ says of a dind is never another one's address, through      *)
(* crashes of the supervisor and a cli.sh down at any moment.              *)
THEOREM SupervisorEntriesNameNoOther == Spec => []EntriesNameNoOtherDind
<1>1. Addressed => EntriesNameNoOtherDind
  BY DEF Addressed, Distinct, Accounted, Truthful, Stale, EntriesNameNoOtherDind
<1> QED BY <1>1, AddressedInitially, AddressedStep, PTL DEF Spec

-----------------------------------------------------------------------------
(* Who is stopped to make room, or as idle. *)

(* As long as devcontainers come up within the grace of their ensure: a    *)
(* dind that no work may stop is one whose last ensure is as old as the    *)
(* grace, and that hosts nothing.  No dind is busier than its last ensure  *)
(* is recent, and what a work is about to stop is spent.                   *)
Spent(d) == d \notin hosts /\ ensured[d] >= Grace
Known == \A d \in Dinds : lastBusy[d] # Unseen => lastBusy[d] <= ensured[d]
Doomed ==
  \A w \in Workers :
    /\ \A d \in job[w].victims : Spent(d)
    /\ job[w].at \in {"idle", "queued"} => job[w].victims = {}
    /\ job[w].op = "tick" /\ job[w].at = "stopping" /\ job[w].victim \in Dinds => Spent(job[w].victim)
Sparing == Orderly /\ Known /\ Doomed /\ NoneLost

LEMMA WhoIsIdleIsSpent ==
  ASSUME TypeOK, Known, NEW d \in DOMAIN Observation, Stoppable(Observation[d]), Observation[d].idle >= Grace
  PROVE  Spent(d)
<1>1. d \in Dinds /\ d \in Listed
  BY DEF Observation, Listed
<1>2. d \in Running /\ ~InUse(d) /\ Noted[d] >= Grace
  BY <1>1 DEF Observation, Stoppable
<1>3. Noted[d] = 0 \/ (Noted[d] = lastBusy[d] /\ lastBusy[d] # Unseen)
  BY <1>1 DEF Noted
<1>4. ensured[d] \in Nat /\ Grace \in Nat /\ (lastBusy[d] # Unseen => lastBusy[d] \in Nat)
  BY <1>1, CapacityAssumption DEF TypeOK, Ages
<1>5. ensured[d] >= Grace
  BY <1>1, <1>2, <1>3, <1>4 DEF Known
<1> QED BY <1>2, <1>5 DEF Spent, InUse

LEMMA VictimsAreSpent ==
  ASSUME TypeOK, Known
  PROVE  /\ \A d \in Reapable(Observation) : Spent(d)
         /\ \A available : \A evict \in Admissions(Observation, available) : \A d \in evict : Spent(d)
<1>1. ASSUME NEW d \in Reapable(Observation) PROVE Spent(d)
  <2>1. d \in DOMAIN Observation /\ Stoppable(Observation[d]) /\ Observation[d].idle >= IdlePeriod
    BY DEF Reapable
  <2>2. Observation[d].idle \in Ages
    <3>1. Observation[d].idle = Noted[d] /\ d \in Dinds /\ d \in Listed
      BY <2>1 DEF Observation, Listed
    <3>2. Noted[d] # Unseen
      BY <3>1, CapacityAssumption, SupervisorAssumption DEF Noted
    <3> QED BY <3>1, <3>2, NotedIsTyped
  <2>3. Observation[d].idle >= Grace
    BY <2>1, <2>2, CapacityAssumption, SupervisorAssumption DEF Ages
  <2> QED BY <2>1, <2>3, WhoIsIdleIsSpent
<1>2. ASSUME NEW available, NEW evict \in Admissions(Observation, available), NEW d \in evict PROVE Spent(d)
  <2>1. d \in Evictable(Observation)
    BY <1>2 DEF Admissions
  <2> QED BY <2>1, WhoIsIdleIsSpent DEF Evictable, GivesWay
<1> QED BY <1>1, <1>2

(* What a work's step leaves alone. *)
LEMMA WorkSpares ==
  ASSUME Sparing, NEW w \in Workers, Work(w)
  PROVE  /\ hosts' \subseteq hosts
         /\ ensured' = ensured \/ Publish(w)
         /\ lost' = lost
<1> USE DEF Sparing, Orderly
<1>1. CASE EnsureBegins(w) \/ ResetBegins(w) \/ StopBegins(w) \/ PurgeBegins(w) \/ TickBegins(w) \/ Admit(w)
           \/ EvictWithdraws(w) \/ MakeNetwork(w) \/ Healthy(w) \/ GiveUp(w) \/ Reap(w) \/ ReapEnds(w)
  BY <1>1 DEF dinds, EnsureBegins, ResetBegins, StopBegins, PurgeBegins, TickBegins, Admit, EvictWithdraws,
     MakeNetwork, Healthy, GiveUp, Reap, ReapEnds
<1>2. ASSUME NEW d \in Dinds, EvictStops(w, d)
      PROVE  hosts' \subseteq hosts /\ ensured' = ensured /\ lost' = lost
  BY <1>2, StopsKeepsTypes DEF EvictStops, Doomed, Spent
<1>3. CASE StartDind(w) \/ Restart(w) \/ RemoveContainer(w) \/ RemoveNetwork(w)
  BY <1>3 DEF StartDind, Restart, Booting, RemoveContainer, RemoveNetwork
<1>4. CASE Publish(w)
  BY <1>4 DEF Publish, dinds
<1>5. ASSUME NEW d \in Dinds, ReapWithdraws(w, d)
      PROVE  hosts' \subseteq hosts /\ ensured' = ensured /\ lost' = lost
  BY <1>5 DEF ReapWithdraws, dinds
<1>6. CASE StopVictim(w)
  <2>1. job[w].victim \in Dinds \union {Nobody}
    BY JobTypes DEF TypeOK
  <2>2. hosts' \subseteq hosts
    BY <1>6, <2>1, StopsKeepsTypes DEF StopVictim
  <2>3. job[w].op = "tick" => job[w].victim \notin hosts
    BY <1>6, <2>1, SupervisorAssumption DEF StopVictim, Doomed, Spent, TypeOK
  <2> QED BY <1>6, <2>2, <2>3 DEF StopVictim
<1> QED BY <1>1, <1>2, <1>3, <1>4, <1>5, <1>6 DEF Work

LEMMA WorkKeepsKnown ==
  ASSUME Sparing, NEW w \in Workers, Work(w)
  PROVE  Known'
<1> USE DEF Sparing, Orderly
<1>1. \A d \in Dinds : ensured[d] \in Nat
  BY CapacityAssumption DEF TypeOK, Ages
<1>2. Noted = [d \in Dinds |-> IF Noted[d] = 0 THEN 0 ELSE lastBusy[d]]
  BY DEF Noted
<1>3. CASE Admit(w) \/ Reap(w)
  <2>1. lastBusy' = Noted /\ ensured' = ensured
    BY <1>3 DEF Admit, Reap
  <2>2. ASSUME NEW d \in Dinds, lastBusy'[d] # Unseen PROVE lastBusy'[d] <= ensured'[d]
    <3>1. Noted[d] = 0 \/ Noted[d] = lastBusy[d]
      BY DEF Noted
    <3> QED BY <1>1, <2>1, <2>2, <3>1 DEF Known
  <2> QED BY <2>2 DEF Known
<1>4. CASE Publish(w)
  <2>1. ASSUME NEW d \in Dinds
        PROVE  \/ lastBusy'[d] = 0 /\ ensured'[d] \in {0, ensured[d]}
               \/ lastBusy'[d] = lastBusy[d] /\ ensured'[d] = ensured[d]
    BY <1>4 DEF Publish, TypeOK
  <2> QED BY <1>1, <2>1 DEF Known
<1>5. CASE RemoveNetwork(w)
  BY <1>5 DEF RemoveNetwork, Known, TypeOK
<1>6. CASE lastBusy' = lastBusy /\ ensured' = ensured
  BY <1>6 DEF Known
<1> QED
  BY <1>3, <1>4, <1>5, <1>6 DEF Work, EnsureBegins, ResetBegins, StopBegins, PurgeBegins, TickBegins,
     EvictStops, EvictWithdraws, MakeNetwork, StartDind, Restart, Healthy, GiveUp, ReapWithdraws, ReapEnds,
     StopVictim, RemoveContainer

LEMMA WorkKeepsDoomed ==
  ASSUME Sparing, NEW w \in Workers, Work(w)
  PROVE  Doomed'
<1> USE DEF Sparing, Orderly
<1> DEFINE Fine(at, victims, victim) ==
             /\ \A d \in victims : Spent(d)
             /\ at \in {"idle", "queued"} => victims = {}
             /\ job[w].op = "tick" /\ at = "stopping" /\ victim \in Dinds => Spent(victim)
           Kept == Fine(job'[w].at, job'[w].victims, job'[w].victim)
<1>1. WorksOn(w)
  BY WorkTakesTurns
<1>becomes. ASSUME NEW next, NEW at, NEW victims, NEW victim,
                   Becomes(w, next), Fields(next, at, victims, victim), Fine(at, victims, victim)
            PROVE  Kept
  BY <1>becomes, FieldsOfJobs
<1>forms. /\ \A at : Fields([job[w] EXCEPT !.at = at], at, job[w].victims, job[w].victim)
          /\ \A at, victim : Fields([job[w] EXCEPT !.at = at, !.victim = victim], at, job[w].victims, victim)
          /\ \A at, victims : Fields([job[w] EXCEPT !.at = at, !.victims = victims], at, victims, job[w].victim)
          /\ \A at, victims, victim :
               Fields([job[w] EXCEPT !.at = at, !.victims = victims, !.victim = victim], at, victims, victim)
          /\ \A at, found, available :
               Fields([job[w] EXCEPT !.at = at, !.found = found, !.available = available],
                      at, job[w].victims, job[w].victim)
          /\ Fields(NoJob, "idle", {}, Nobody)
  BY FieldsThatChange
<1>goes. ASSUME NEW at, at \notin {"idle", "queued", "stopping"}, NEW victim PROVE Fine(at, job[w].victims, victim)
  BY <1>goes DEF Doomed
<1>stops. ASSUME job[w].op # "tick", NEW victim PROVE Fine("stopping", job[w].victims, victim)
  BY <1>stops DEF Doomed
<1>some. ASSUME NEW d \in job[w].victims, NEW at, at \notin {"idle", "queued"}
         PROVE  Fine(at, job[w].victims \ {d}, d)
  BY <1>some DEF Doomed
<1>new. ASSUME NEW victims, \A d \in victims : Spent(d), NEW at, at \notin {"idle", "queued", "stopping"}, NEW victim
        PROVE  Fine(at, victims, victim)
  BY <1>new
<1>none. Fine("idle", {}, Nobody)
  OBVIOUS
<1> HIDE DEF Fine
<1>2. Answer(w) => Kept
  BY <1>forms, <1>becomes, <1>none DEF Answer
<1>3. ASSUME EnsureBegins(w) PROVE Kept
  <2> DEFINE at == IF job[w].dind \in Running THEN "wait" ELSE "observe"
             next == [job[w] EXCEPT !.at = at, !.found = cont[job[w].dind], !.available = Available]
  <2>1. Becomes(w, next)
    BY <1>3 DEF EnsureBegins
  <2>2. Fields(next, at, job[w].victims, job[w].victim)
    BY <1>forms
  <2>3. Fine(at, job[w].victims, job[w].victim)
    BY <1>goes
  <2> HIDE DEF next, at
  <2> QED BY <1>becomes, <2>1, <2>2, <2>3
<1>4. ASSUME ResetBegins(w) PROVE Kept
  BY <1>2, <1>4, <1>forms, <1>becomes, <1>goes DEF ResetBegins
<1>5. ASSUME StopBegins(w) \/ PurgeBegins(w) PROVE Kept
  <2>1. Becomes(w, [job[w] EXCEPT !.at = "stopping", !.victim = job[w].dind]) /\ job[w].op # "tick"
    BY <1>5 DEF StopBegins, PurgeBegins, Begins
  <2> QED BY <1>forms, <1>becomes, <1>stops, <2>1
<1>6. ASSUME TickBegins(w) PROVE Kept
  BY <1>6, <1>forms, <1>becomes, <1>goes DEF TickBegins
<1>7. ASSUME Admit(w) PROVE Kept
  <2>1. ASSUME NEW evict \in Admissions(Observation, job[w].available)
        PROVE  /\ Fields([job[w] EXCEPT !.at = "evict", !.victims = evict], "evict", evict, job[w].victim)
               /\ Fine("evict", evict, job[w].victim)
    BY <1>forms, <1>new, VictimsAreSpent
  <2>2. Answer(w) \/ \E evict \in Admissions(Observation, job[w].available) :
                       Becomes(w, [job[w] EXCEPT !.at = "evict", !.victims = evict])
    BY <1>7 DEF Admit
  <2> QED BY <1>2, <1>becomes, <2>1, <2>2
<1>8. ASSUME NEW d \in Dinds, EvictStops(w, d) PROVE Kept
  <2>1. Becomes(w, [job[w] EXCEPT !.at = "evicted", !.victims = job[w].victims \ {d}, !.victim = d])
    BY <1>8 DEF EvictStops
  <2>2. d \in job[w].victims
    BY <1>8 DEF EvictStops
  <2>3. Fine("evicted", job[w].victims \ {d}, d)
    BY <1>some, <2>2
  <2>4. Fields([job[w] EXCEPT !.at = "evicted", !.victims = job[w].victims \ {d}, !.victim = d],
               "evicted", job[w].victims \ {d}, d)
    BY <1>forms
  <2> QED BY <1>becomes, <2>1, <2>3, <2>4
<1>9. ASSUME EvictWithdraws(w) PROVE Kept
  <2>1. Becomes(w, [job[w] EXCEPT !.at = "evict", !.victim = Nobody])
    BY <1>9 DEF EvictWithdraws
  <2> QED BY <1>forms, <1>becomes, <1>goes, <2>1
<1>10. ASSUME StartDind(w) \/ Restart(w) PROVE Kept
  BY <1>2, <1>10, <1>forms, <1>becomes, <1>goes DEF StartDind, Restart
<1>11. ASSUME Healthy(w) \/ RemoveContainer(w) PROVE Kept
  BY <1>11, <1>forms, <1>becomes, <1>goes DEF Healthy, RemoveContainer
<1>12. ASSUME GiveUp(w) \/ Publish(w) \/ ReapEnds(w) \/ RemoveNetwork(w) PROVE Kept
  BY <1>2, <1>12 DEF GiveUp, Publish, ReapEnds, RemoveNetwork
<1>13. ASSUME Reap(w) PROVE Kept
  <2> DEFINE victims == Reapable(Observation)
  <2>1. Becomes(w, [job[w] EXCEPT !.at = "reap", !.victims = victims])
    BY <1>13 DEF Reap
  <2>2. Fine("reap", victims, job[w].victim)
    BY <1>new, VictimsAreSpent
  <2> HIDE DEF victims
  <2>3. Fields([job[w] EXCEPT !.at = "reap", !.victims = victims], "reap", victims, job[w].victim)
    BY <1>forms
  <2> QED BY <1>becomes, <2>1, <2>2, <2>3
<1>14. ASSUME NEW d \in Dinds, ReapWithdraws(w, d) PROVE Kept
  <2>1. Becomes(w, [job[w] EXCEPT !.at = "stopping", !.victims = job[w].victims \ {d}, !.victim = d])
    BY <1>14 DEF ReapWithdraws
  <2>2. d \in job[w].victims
    BY <1>14 DEF ReapWithdraws
  <2>3. Fine("stopping", job[w].victims \ {d}, d)
    BY <1>some, <2>2
  <2>4. Fields([job[w] EXCEPT !.at = "stopping", !.victims = job[w].victims \ {d}, !.victim = d],
               "stopping", job[w].victims \ {d}, d)
    BY <1>forms
  <2> QED BY <1>becomes, <2>1, <2>3, <2>4
<1>15. ASSUME StopVictim(w) PROVE Kept
  BY <1>2, <1>15, <1>forms, <1>becomes, <1>goes DEF StopVictim
<1>16. ASSUME MakeNetwork(w), ~Answer(w) PROVE Kept
  BY <1>16 DEF MakeNetwork, Doomed, Fine
<1> HIDE DEF Kept
<1>17. Kept
  BY <1>2, <1>3, <1>4, <1>5, <1>6, <1>7, <1>8, <1>9, <1>10, <1>11, <1>12, <1>13, <1>14, <1>15, <1>16 DEF Work
<1>18. \A v \in Workers \ {w} : job'[v] = job[v] /\ job[v].at \in {"idle", "queued"}
  BY <1>1 DEF WorksOn, IsTurn, Serial
<1>19. job'[w] = NoJob \/ job'[w].op = job[w].op
  BY <1>1 DEF WorksOn, GoesOn, IsAnswered
<1>20. CASE Publish(w)
  <2>1. job'[w] = NoJob
    BY <1>20, FieldsThatChange DEF Publish, Answer, Becomes, TypeOK
  <2> QED BY <1>18, <2>1 DEF Doomed, NoJob
<1>21. CASE ~Publish(w)
  <2>1. \A d : Spent(d) => Spent(d)'
    BY <1>21, WorkSpares DEF Spent
  <2> QED BY <1>17, <1>18, <1>19, <2>1 DEF Doomed, Kept, Fine, NoJob
<1> QED BY <1>20, <1>21

LEMMA SparingInitially == Init => Sparing
<1>1. Init => Known /\ Doomed /\ NoneLost
  BY DEF Init, Known, Doomed, NoneLost, NoJob
<1> QED BY <1>1, OrderlyInitially DEF Sparing

LEMMA SparingStep ==
  ASSUME BuildsInTime, Sparing, [Next]_vars
  PROVE  Sparing'
<1> USE DEF Sparing
<1>1. Orderly' /\ TypeOK
  BY OrderlyStep DEF Orderly
<1>2. \A d \in Dinds : ensured[d] \in Nat
  BY <1>1, CapacityAssumption DEF TypeOK, Ages
<1>3. CASE UNCHANGED vars
  BY <1>1, <1>3 DEF vars, Known, Doomed, Spent, NoneLost
<1>4. ASSUME NEW c \in Clients, NEW op \in Operations, NEW d \in Dinds, Request(c, op, d) PROVE Sparing'
  <2>1. Doomed'
    <3>1. job' = [job EXCEPT ![c] = [NoJob EXCEPT !.op = op, !.dind = d, !.at = "queued"]]
      BY <1>4 DEF Request, Becomes
    <3>2. [NoJob EXCEPT !.op = op, !.dind = d, !.at = "queued"].at = "queued"
          /\ [NoJob EXCEPT !.op = op, !.dind = d, !.at = "queued"].victims = {}
      BY DEF NoJob
    <3> QED BY <1>1, <1>4, <3>1, <3>2 DEF Request, dinds, Doomed, Spent, TypeOK
  <2> QED BY <1>1, <1>4, <2>1 DEF Request, Known, NoneLost
<1>5. CASE TimerFires
  <2>1. Doomed'
    <3>1. job' = [job EXCEPT ![Timer] = [NoJob EXCEPT !.op = "tick", !.at = "queued"]]
      BY <1>5 DEF TimerFires, Becomes
    <3>2. [NoJob EXCEPT !.op = "tick", !.at = "queued"].at = "queued"
          /\ [NoJob EXCEPT !.op = "tick", !.at = "queued"].victims = {}
      BY DEF NoJob
    <3> QED BY <1>1, <1>5, <3>1, <3>2 DEF TimerFires, dinds, Doomed, Spent, TypeOK
  <2> QED BY <1>1, <1>5, <2>1 DEF TimerFires, Known, NoneLost
<1>6. ASSUME NEW w \in Workers, Work(w) PROVE Sparing'
  BY <1>1, <1>6, WorkKeepsKnown, WorkKeepsDoomed, WorkSpares DEF NoneLost
<1>7. CASE Status
  <2>1. Known'
    <3>1. \A d \in Dinds : Noted[d] = 0 \/ Noted[d] = lastBusy[d]
      BY DEF Noted
    <3> QED BY <1>2, <1>7, <3>1 DEF Status, Known
  <2> QED BY <1>1, <1>7, <2>1 DEF Status, dinds, Doomed, Spent, NoneLost
<1>8. CASE Crash \/ Down
  BY <1>1, <1>8 DEF Crash, Down, Forgets, NoJob, Known, Doomed, NoneLost
<1>9. CASE Serve
  BY <1>1, <1>9 DEF Serve, dinds, Known, Doomed, Spent, NoneLost
<1>10. ASSUME NEW d \in Dinds, DindMoves(d) PROVE Sparing'
  <2>1. UNCHANGED <<lastBusy, ensured, job, lost>>
    BY <1>10 DEF DindMoves, Dies, BootEnds, DevcontainerUp, DevcontainerDown
  <2>2. hosts' \subseteq hosts \/ (hosts' = hosts \union {d} /\ ensured[d] < Grace)
    BY <1>10 DEF DindMoves, Dies, Stopped, BootEnds, DevcontainerUp, DevcontainerDown
  <2>3. \A e : e \in Dinds /\ Spent(e) => Spent(e)'
    BY <1>2, <2>1, <2>2, CapacityAssumption DEF Spent
  <2>4. Doomed'
    BY <1>1, <2>1, <2>3, JobTypes DEF Doomed, TypeOK
  <2> QED BY <1>1, <2>1, <2>4 DEF Known, NoneLost
<1>11. CASE TimePasses
  <2>1. \A d \in Dinds : ensured'[d] >= ensured[d]
    BY <1>2, <1>11 DEF TimePasses, Older
  <2>2. Known'
    BY <1>1, <1>2, <1>11, CapacityAssumption, SupervisorAssumption DEF TimePasses, Older, Known, TypeOK, Ages
  <2>3. \A d \in Dinds : Spent(d) => Spent(d)'
    BY <1>2, <1>11, <2>1, CapacityAssumption, OlderKeepsTypes, SupervisorAssumption
    DEF Spent, TimePasses, dinds, Older, Ages
  <2>4. Doomed'
    BY <1>1, <1>11, <2>3, JobTypes DEF TimePasses, Doomed, TypeOK
  <2> QED BY <1>1, <1>11, <2>2, <2>4 DEF TimePasses, NoneLost
<1> QED
  BY <1>3, <1>4, <1>5, <1>6, <1>7, <1>8, <1>9, <1>10, <1>11 DEF Next

(* No dind is stopped to make room, or as idle, with a devcontainer up, as *)
(* long as devcontainers come up within the grace (README.md:2350).        *)
THEOREM SupervisorLosesNone == BuildsInTime => (Spec => []NoneLost)
<1> SUFFICES ASSUME BuildsInTime PROVE Spec => []NoneLost
  OBVIOUS
<1>1. Sparing => NoneLost
  BY DEF Sparing
<1> QED BY <1>1, SparingInitially, SparingStep, PTL DEF Spec

-----------------------------------------------------------------------------
(* Sums. *)

(* A finite set's subsets are not all larger than others: among some of    *)
(* them one contains none of the rest.                                     *)
LEMMA SmallestSubset ==
  ASSUME NEW S, IsFiniteSet(S), NEW Some \in SUBSET SUBSET S, Some # {}
  PROVE  \E U \in Some : \A T \in SUBSET U : T # U => T \notin Some
<1>1. Some \subseteq FiniteSubsetsOf(S)
  BY FS_Subset DEF FiniteSubsetsOf
<1>2. IsWellFoundedOn(StrictSubsetOrdering(S), FiniteSubsetsOf(S))
  BY FS_StrictSubsetOrderingWellFounded
<1>3. PICK U \in Some : \A T \in Some : <<T, U>> \notin StrictSubsetOrdering(S)
  BY <1>1, <1>2, WFMin, Zenon
<1> QED BY <1>3 DEF StrictSubsetOrdering

(* What MapThenSumSet sums with: the sums of a set's subsets, each from    *)
(* that of one element less.                                               *)
First(s) == CHOOSE x \in s : TRUE
Less(s) == s \ {First(s)}
AreSums(sums, f, S) == sums = [s \in SUBSET S |-> IF s = {} THEN 0 ELSE f[First(s)] + sums[Less(s)]]
Sum(f, S) == MapThenSumSet(LAMBDA x : f[x], S)

(* What the sums of a set say of each of its subsets. *)
LEMMA SumsAt ==
  ASSUME NEW sums, NEW f, NEW S, AreSums(sums, f, S), NEW U \in SUBSET S
  PROVE  sums[U] = IF U = {} THEN 0 ELSE f[First(U)] + sums[Less(U)]
<1>. DEFINE step(s) == IF s = {} THEN 0 ELSE f[First(s)] + sums[Less(s)]
<1>1. sums = [s \in SUBSET S |-> step(s)]
  BY DEF AreSums
<1>. HIDE DEF step
<1>2. sums[U] = step(U)
  BY <1>1
<1> QED BY <1>2 DEF step

LEMMA FirstIsIn == ASSUME NEW U, U # {} PROVE First(U) \in U /\ Less(U) \subseteq U /\ Less(U) # U
BY DEF First, Less

(* Sums of two sets say the same of what both contain. *)
LEMMA SumsAgree ==
  ASSUME NEW f, NEW S, IsFiniteSet(S), NEW T, NEW g, NEW h, AreSums(g, f, S), AreSums(h, f, T),
         NEW U \in SUBSET S, U \subseteq T
  PROVE  g[U] = h[U]
<1> DEFINE Apart == {V \in SUBSET S : V \subseteq T /\ g[V] # h[V]}
<1>1. SUFFICES ASSUME Apart # {} PROVE FALSE
  OBVIOUS
<1>2. PICK V \in Apart : \A W \in SUBSET V : W # V => W \notin Apart
  <2>1. Apart \in SUBSET SUBSET S
    OBVIOUS
  <2> HIDE DEF Apart
  <2> QED BY <1>1, <2>1, SmallestSubset
<1>3. /\ g[V] = IF V = {} THEN 0 ELSE f[First(V)] + g[Less(V)]
      /\ h[V] = IF V = {} THEN 0 ELSE f[First(V)] + h[Less(V)]
  BY SumsAt
<1>4. V # {} => g[Less(V)] = h[Less(V)]
  BY <1>2, FirstIsIn
<1> QED BY <1>3, <1>4

LEMMA SumsExist ==
  ASSUME NEW f, NEW S, IsFiniteSet(S)
  PROVE  \E sums : AreSums(sums, f, S)
<1> DEFINE Without == {T \in SUBSET S : ~\E g : AreSums(g, f, T)}
<1>1. SUFFICES ASSUME Without # {} PROVE FALSE
  OBVIOUS
<1>2. PICK U \in Without : \A T \in SUBSET U : T # U => T \notin Without
  <2>1. Without \in SUBSET SUBSET S
    OBVIOUS
  <2> HIDE DEF Without
  <2> QED BY <1>1, <2>1, SmallestSubset
<1> DEFINE of(T) == CHOOSE g : AreSums(g, f, T)
           step(s) == IF s = {} THEN 0 ELSE f[First(s)] + of(Less(s))[Less(s)]
           sums == [s \in SUBSET U |-> step(s)]
<1>3. ASSUME NEW T \in SUBSET U, T # U PROVE AreSums(of(T), f, T)
  <2>1. \E g : AreSums(g, f, T)
    BY <1>2, <1>3
  <2> QED BY <2>1
<1>4. ASSUME NEW T \in SUBSET U, T # U PROVE sums[T] = of(T)[T]
  <2>1. sums[T] = step(T)
    BY <1>4
  <2> HIDE DEF of, sums
  <2>2. of(T)[T] = IF T = {} THEN 0 ELSE f[First(T)] + of(T)[Less(T)]
    BY <1>3, <1>4, SumsAt
  <2>3. CASE T # {}
    <3>1. AreSums(of(T), f, T) /\ AreSums(of(Less(T)), f, Less(T)) /\ IsFiniteSet(T)
      BY <1>3, <1>4, <2>3, FirstIsIn, FS_Subset
    <3>2. of(T)[Less(T)] = of(Less(T))[Less(T)]
      BY <2>3, <3>1, FirstIsIn, SumsAgree
    <3> QED BY <2>1, <2>2, <2>3, <3>2
  <2> QED BY <2>1, <2>2, <2>3
<1>5. ASSUME NEW s \in SUBSET U, s # {} PROVE sums[Less(s)] = of(Less(s))[Less(s)]
  <2>1. Less(s) \in SUBSET U /\ Less(s) # U
    BY <1>5, FirstIsIn
  <2> HIDE DEF of, sums
  <2> QED BY <1>4, <2>1
<1>6. AreSums(sums, f, U)
  <2> HIDE DEF of
  <2>1. sums = [s \in SUBSET U |-> IF s = {} THEN 0 ELSE f[First(s)] + sums[Less(s)]]
    <3>1. \A s \in SUBSET U : step(s) = IF s = {} THEN 0 ELSE f[First(s)] + sums[Less(s)]
      <4> HIDE DEF sums
      <4> QED BY <1>5
    <3> HIDE DEF step
    <3> QED BY <3>1
  <2> QED BY <2>1 DEF AreSums
<1> QED BY <1>2, <1>6

LEMMA SumIsASum ==
  ASSUME NEW f, NEW S, IsFiniteSet(S)
  PROVE  \E sums : AreSums(sums, f, S) /\ Sum(f, S) = sums[S]
<1> DEFINE sums == CHOOSE g : AreSums(g, f, S)
<1>1. AreSums(sums, f, S)
  BY SumsExist
<1>2. Sum(f, S) = sums[S]
  BY DEF Sum, MapThenSumSet, MapThenFoldSet, AreSums, First, Less
<1> QED BY <1>1, <1>2

LEMMA SumIsNat ==
  ASSUME NEW S, IsFiniteSet(S), NEW f, \A x \in S : f[x] \in Nat
  PROVE  Sum(f, S) \in Nat
<1>1. PICK sums : AreSums(sums, f, S) /\ Sum(f, S) = sums[S]
  BY SumIsASum
<1> DEFINE Odd == {T \in SUBSET S : sums[T] \notin Nat}
<1>2. SUFFICES ASSUME Odd # {} PROVE FALSE
  BY <1>1
<1>3. PICK U \in Odd : \A T \in SUBSET U : T # U => T \notin Odd
  <2>1. Odd \in SUBSET SUBSET S
    OBVIOUS
  <2> HIDE DEF Odd
  <2> QED BY <1>2, <2>1, SmallestSubset
<1>4. sums[U] = IF U = {} THEN 0 ELSE f[First(U)] + sums[Less(U)]
  BY <1>1, SumsAt
<1>5. U # {} => First(U) \in S /\ Less(U) \in SUBSET U /\ Less(U) # U /\ sums[Less(U)] \in Nat
  BY <1>3, FirstIsIn
<1> QED BY <1>4, <1>5

LEMMA SumsOfParts ==
  ASSUME NEW f, NEW S, IsFiniteSet(S), NEW T \in SUBSET S, NEW sums, AreSums(sums, f, S)
  PROVE  Sum(f, T) = sums[T]
<1>1. IsFiniteSet(T)
  BY FS_Subset
<1>2. PICK other : AreSums(other, f, T) /\ Sum(f, T) = other[T]
  BY <1>1, SumIsASum
<1> QED BY <1>1, <1>2, SumsAgree

(* One element is counted once, whichever the sum takes first.             *)
LEMMA SumWithout ==
  ASSUME NEW S, IsFiniteSet(S), NEW f, \A x \in S : f[x] \in Nat, NEW x \in S
  PROVE  Sum(f, S) = f[x] + Sum(f, S \ {x})
<1>1. PICK sums : AreSums(sums, f, S)
  BY SumIsASum
<1>2. \A T \in SUBSET S : Sum(f, T) = sums[T] /\ Sum(f, T) \in Nat
  <2> TAKE T \in SUBSET S
  <2>1. IsFiniteSet(T)
    BY FS_Subset
  <2> QED BY <1>1, <2>1, SumsOfParts, SumIsNat
<1> DEFINE Off == {T \in SUBSET S : \E y \in T : sums[T] # f[y] + sums[T \ {y}]}
<1>3. SUFFICES ASSUME Off # {} PROVE FALSE
  <2>1. Sum(f, S) = sums[S] /\ Sum(f, S \ {x}) = sums[S \ {x}]
    <3>1. S \in SUBSET S /\ S \ {x} \in SUBSET S
      OBVIOUS
    <3> HIDE DEF Off
    <3> QED BY <1>2, <3>1
  <2>2. ASSUME Off = {} PROVE sums[S] = f[x] + sums[S \ {x}]
    <3>1. S \notin Off /\ S \in SUBSET S
      BY <2>2
    <3> QED BY <3>1, Zenon
  <2> HIDE DEF Off
  <2> QED BY <2>1, <2>2
<1>4. PICK U \in Off : \A T \in SUBSET U : T # U => T \notin Off
  <2>1. Off \in SUBSET SUBSET S
    OBVIOUS
  <2> HIDE DEF Off
  <2> QED BY <1>3, <2>1, SmallestSubset
<1>5. PICK y \in U : sums[U] # f[y] + sums[U \ {y}]
  OBVIOUS
<1> DEFINE z == First(U)
<1>6. z \in U /\ sums[U] = f[z] + sums[U \ {z}]
  BY <1>1, <1>5, SumsAt, FirstIsIn DEF Less
<1> HIDE DEF z
<1>7. sums[U \ {z}] = f[y] + sums[(U \ {z}) \ {y}]
  <2>1. U \ {z} \in SUBSET S /\ U \ {z} \in SUBSET U /\ U \ {z} # U /\ y \in U \ {z}
    BY <1>5, <1>6
  <2>2. U \ {z} \notin Off
    BY <1>4, <2>1
  <2> QED BY <2>1, <2>2
<1>8. sums[U \ {y}] = f[z] + sums[(U \ {y}) \ {z}]
  <2>1. U \ {y} \in SUBSET S /\ U \ {y} \in SUBSET U /\ U \ {y} # U /\ z \in U \ {y}
    BY <1>5, <1>6
  <2>2. U \ {y} \notin Off
    BY <1>4, <2>1
  <2> QED BY <2>1, <2>2
<1>9. (U \ {z}) \ {y} = (U \ {y}) \ {z}
  OBVIOUS
<1>10. f[y] \in Nat /\ f[z] \in Nat /\ sums[(U \ {y}) \ {z}] \in Nat
  BY <1>2, <1>6
<1>11. \A a, b, c \in Nat : a + (b + c) = b + (a + c)
  OBVIOUS
<1>12. sums[U \ {z}] = f[y] + sums[(U \ {y}) \ {z}]
  BY <1>7, <1>9, Zenon
<1> HIDE DEF Off
<1> QED BY <1>5, <1>6, <1>8, <1>10, <1>11, <1>12

(* The sum of a set is that of a part of it and that of the rest. *)
LEMMA SumSplits ==
  ASSUME NEW S, IsFiniteSet(S), NEW f, \A x \in S : f[x] \in Nat, NEW T \in SUBSET S
  PROVE  Sum(f, S) = Sum(f, T) + Sum(f, S \ T)
<1> DEFINE Off == {U \in SUBSET S : Sum(f, U) # Sum(f, U \cap T) + Sum(f, U \ T)}
<1>1. \A U \in SUBSET S : IsFiniteSet(U) /\ Sum(f, U) \in Nat
  BY FS_Subset, SumIsNat
<1>2. SUFFICES ASSUME Off # {} PROVE FALSE
  <2>1. S \cap T = T
    OBVIOUS
  <2> QED BY <2>1
<1>3. PICK U \in Off : \A V \in SUBSET U : V # U => V \notin Off
  <2>1. Off \in SUBSET SUBSET S
    OBVIOUS
  <2> HIDE DEF Off
  <2> QED BY <1>2, <2>1, SmallestSubset
<1>4. U # {}
  <2>1. Sum(f, {}) = 0
    <3>1. PICK sums : AreSums(sums, f, {}) /\ Sum(f, {}) = sums[{}]
      BY SumIsASum, FS_EmptySet
    <3> QED BY <3>1, SumsAt
  <2>2. ASSUME U = {} PROVE FALSE
    <3>1. U \cap T = {} /\ U \ T = {}
      BY <2>2
    <3> QED BY <2>1, <2>2, <3>1
  <2> QED BY <2>2
<1>5. PICK x \in U : TRUE
  BY <1>4
<1>6. U \ {x} \notin Off /\ U \ {x} \in SUBSET S
  BY <1>3, <1>5
<1>7. Sum(f, U \ {x}) = Sum(f, (U \ {x}) \cap T) + Sum(f, (U \ {x}) \ T)
  BY <1>6
<1>8. Sum(f, U) = f[x] + Sum(f, U \ {x})
  BY <1>1, <1>5, SumWithout
<1>9. f[x] \in Nat
  BY <1>5
<1>10. CASE x \in T
  <2>1. (U \ {x}) \cap T = (U \cap T) \ {x} /\ (U \ {x}) \ T = U \ T /\ x \in U \cap T
    BY <1>5, <1>10
  <2>2. Sum(f, U \cap T) = f[x] + Sum(f, (U \cap T) \ {x})
    <3>1. U \cap T \in SUBSET S
      OBVIOUS
    <3> QED BY <1>1, <2>1, <3>1, SumWithout
  <2>3. Sum(f, (U \cap T) \ {x}) \in Nat /\ Sum(f, U \ T) \in Nat
    BY <1>1
  <2>4. \A a, b, c \in Nat : a + (b + c) = (a + b) + c
    OBVIOUS
  <2>5. Sum(f, U) = Sum(f, U \cap T) + Sum(f, U \ T)
    <3>1. Sum(f, U \ {x}) = Sum(f, (U \cap T) \ {x}) + Sum(f, U \ T)
      BY <1>7, <2>1, Zenon
    <3> HIDE DEF Off
    <3> QED BY <1>8, <1>9, <2>2, <2>3, <2>4, <3>1
  <2> QED BY <2>5
<1>11. CASE x \notin T
  <2>1. (U \ {x}) \cap T = U \cap T /\ (U \ {x}) \ T = (U \ T) \ {x} /\ x \in U \ T
    BY <1>5, <1>11
  <2>2. Sum(f, U \ T) = f[x] + Sum(f, (U \ T) \ {x})
    <3>1. U \ T \in SUBSET S
      OBVIOUS
    <3> QED BY <1>1, <2>1, <3>1, SumWithout
  <2>3. Sum(f, (U \ T) \ {x}) \in Nat /\ Sum(f, U \cap T) \in Nat
    BY <1>1
  <2>4. \A a, b, c \in Nat : a + (b + c) = b + (a + c)
    OBVIOUS
  <2>5. Sum(f, U) = Sum(f, U \cap T) + Sum(f, U \ T)
    <3>1. Sum(f, U \ {x}) = Sum(f, U \cap T) + Sum(f, (U \ T) \ {x})
      BY <1>7, <2>1, Zenon
    <3> HIDE DEF Off
    <3> QED BY <1>8, <1>9, <2>2, <2>3, <2>4, <3>1
  <2> QED BY <2>5
<1> QED BY <1>10, <1>11

-----------------------------------------------------------------------------
(* Room. *)

(* What the supervisor promised itself when it let a newcomer in still     *)
(* holds once the victims it has yet to stop are gone.                     *)
Fits(running) ==
  /\ Cardinality(running) + 1 <= MaxDinds
  /\ Left(running) - Newcomer >= Floor
HasRoom(w) ==
  /\ job[w].at = "observe" /\ job[w].op = "ensure" => job[w].available <= Available
  /\ job[w].at \in {"evict", "evicted"} => Fits(Running \ job[w].victims)
Roomy == Orderly /\ \A w \in Workers : HasRoom(w)

LEMMA LeftOfRunning ==
  ASSUME NEW running \in SUBSET Dinds
  PROVE  /\ IsFiniteSet(running)
         /\ Cardinality(running) \in Nat
         /\ Left(running) \in Int
         /\ \A stopped \in SUBSET running :
              /\ Left(running \ stopped) = Left(running) + Sum(Holds, stopped)
              /\ Sum(Holds, stopped) \in Nat
              /\ Cardinality(running \ stopped) <= Cardinality(running)
<1>1. IsFiniteSet(running)
  BY SupervisorAssumption, FS_Subset
<1>2. \A part \in SUBSET running : IsFiniteSet(part) /\ Sum(Holds, part) \in Nat
  <2> TAKE part \in SUBSET running
  <2>1. IsFiniteSet(part) /\ \A d \in part : Holds[d] \in Nat
    BY <1>1, SupervisorAssumption, FS_Subset
  <2> QED BY <2>1, SumIsNat
<1>3. \A part : Left(part) = Total - Sum(Holds, part)
  BY DEF Left, Sum
<1>4. Total \in Nat
  BY SupervisorAssumption
<1>5. ASSUME NEW stopped \in SUBSET running
      PROVE  Left(running \ stopped) = Left(running) + Sum(Holds, stopped)
  <2>1. \A d \in running : Holds[d] \in Nat
    BY SupervisorAssumption
  <2>2. Sum(Holds, running) = Sum(Holds, stopped) + Sum(Holds, running \ stopped)
    BY <1>1, <2>1, SumSplits
  <2>3. /\ Sum(Holds, running) \in Nat
        /\ Sum(Holds, stopped) \in Nat
        /\ Sum(Holds, running \ stopped) \in Nat
    BY <1>2
  <2>4. /\ Left(running) = Total - Sum(Holds, running)
        /\ Left(running \ stopped) = Total - Sum(Holds, running \ stopped)
    BY <1>3
  <2> QED BY <1>4, <2>2, <2>3, <2>4
<1>6. \A stopped \in SUBSET running : Cardinality(running \ stopped) <= Cardinality(running)
  BY <1>1, FS_Subset
<1>7. Cardinality(running) \in Nat
  BY <1>1, FS_CardinalityType
<1>8. Left(running) \in Int
  BY <1>2, <1>3, <1>4
<1> QED BY <1>1, <1>2, <1>5, <1>6, <1>7, <1>8

LEMMA FewerFit ==
  ASSUME NEW running \in SUBSET Dinds, Fits(running), NEW fewer \in SUBSET running
  PROVE  Fits(fewer)
<1> DEFINE stopped == running \ fewer
<1>1. fewer = running \ stopped /\ stopped \in SUBSET running
  OBVIOUS
<1> HIDE DEF stopped
<1>2. /\ Left(running \ stopped) = Left(running) + Sum(Holds, stopped)
      /\ Sum(Holds, stopped) \in Nat
      /\ Cardinality(running \ stopped) <= Cardinality(running)
      /\ Cardinality(running) \in Nat /\ Left(running) \in Int
  BY <1>1, LeftOfRunning
<1>3. Cardinality(fewer) \in Nat
  BY LeftOfRunning
<1>4. /\ Left(fewer) = Left(running) + Sum(Holds, stopped)
      /\ Cardinality(fewer) <= Cardinality(running)
  BY <1>1, <1>2, Zenon
<1> QED BY <1>2, <1>3, <1>4, CapacityAssumption DEF Fits

(* While no dind starts, there is no less room.                            *)
LEMMA RoomStays ==
  ASSUME TypeOK, NEW w \in Workers, HasRoom(w), job'[w] = job[w], Running' \subseteq Running
  PROVE  HasRoom(w)'
<1>1. Running \in SUBSET Dinds
  BY DEF Running
<1>2. Available' >= Available /\ Available \in Int /\ Available' \in Int
  <2> DEFINE stopped == Running \ Running'
  <2>1. Running' = Running \ stopped /\ stopped \in SUBSET Running
    OBVIOUS
  <2> HIDE DEF stopped
  <2>2. Left(Running') = Left(Running \ stopped)
    BY <2>1, Zenon
  <2>3. /\ Left(Running \ stopped) = Left(Running) + Sum(Holds, stopped)
        /\ Sum(Holds, stopped) \in Nat
        /\ Left(Running) \in Int
    BY <1>1, <2>1, LeftOfRunning
  <2> QED BY <2>2, <2>3 DEF Available
<1>3. job[w].available \in Int
  <2>1. \A running \in SUBSET Dinds : Left(running) \in Int
    BY LeftOfRunning
  <2> QED BY <2>1 DEF TypeOK, JobState
<1>4. Fits(Running \ job[w].victims) => Fits(Running' \ job[w].victims)
  BY <1>1, FewerFit
<1> QED BY <1>2, <1>3, <1>4 DEF HasRoom

(* The dinds that give way free what they hold. *)
LEMMA AdmittedFits ==
  ASSUME NEW available \in Int, available <= Available,
         NEW evict \in Admissions(Observation, available)
  PROVE  evict \subseteq Running /\ Fits(Running \ evict)
<1>1. evict \subseteq Running
  BY DEF Admissions, Evictable, GivesWay, Stoppable, Observation
<1>2. {d \in DOMAIN Observation : Observation[d].running} = Running
  BY DEF Observation, Listed, Running
<1>3. Cardinality(Running \ evict) + 1 <= MaxDinds
  BY <1>2, Zenon DEF Admissions, MakesRoom, UnderCeiling
<1> DEFINE freed == MapThenSumSet(LAMBDA d : Held(Observation[d]), evict)
<1>4. available + freed - Newcomer >= Floor
  BY DEF Admissions, MakesRoom, LeavesFloor
<1>5. Running \in SUBSET Dinds /\ evict \in SUBSET Dinds
  BY <1>1 DEF Running
<1>6. \A d \in evict : Held(Observation[d]) = Holds[d]
  BY <1>1, <1>5, CapacityAssumption, SupervisorAssumption DEF Held, Observation, Listed, Running
<1>7. freed = Sum(Holds, evict)
  <2> DEFINE Frees(sums) == sums = [s \in SUBSET evict |->
               IF s = {} THEN 0 ELSE Held(Observation[First(s)]) + sums[Less(s)]]
             sums == CHOOSE g : Frees(g)
  <2>1. ASSUME NEW g PROVE Frees(g) <=> AreSums(g, Holds, evict)
    <3>1. \A s \in SUBSET evict : (IF s = {} THEN 0 ELSE Held(Observation[First(s)]) + g[Less(s)])
                                  = (IF s = {} THEN 0 ELSE Holds[First(s)] + g[Less(s)])
      BY <1>6, FirstIsIn
    <3> DEFINE one(s) == IF s = {} THEN 0 ELSE Held(Observation[First(s)]) + g[Less(s)]
               other(s) == IF s = {} THEN 0 ELSE Holds[First(s)] + g[Less(s)]
    <3>2. [s \in SUBSET evict |-> one(s)] = [s \in SUBSET evict |-> other(s)]
      <4> HIDE DEF one, other
      <4>1. \A s \in SUBSET evict : one(s) = other(s)
        BY <3>1 DEF one, other
      <4> QED BY <4>1
    <3> QED BY <3>2 DEF AreSums
  <2>2. IsFiniteSet(evict)
    BY <1>5, LeftOfRunning
  <2>3. Frees(sums)
    <3>1. \E g : Frees(g)
      BY <2>1, <2>2, SumsExist
    <3> HIDE DEF Frees
    <3> QED BY <3>1
  <2>4. freed = sums[evict]
    BY DEF MapThenSumSet, MapThenFoldSet, First, Less
  <2> HIDE DEF Frees, sums, freed
  <2>5. AreSums(sums, Holds, evict)
    BY <2>1, <2>3
  <2> QED BY <2>2, <2>4, <2>5, SumsOfParts
<1>8. /\ Left(Running \ evict) = Left(Running) + Sum(Holds, evict)
      /\ Sum(Holds, evict) \in Nat /\ Left(Running) \in Int
  BY <1>1, <1>5, LeftOfRunning
<1> HIDE DEF freed
<1> QED BY <1>1, <1>3, <1>4, <1>7, <1>8, CapacityAssumption DEF Fits, Available

LEMMA WorkKeepsRoom ==
  ASSUME Roomy, "survives" \notin Faults, NEW w \in Workers, Work(w), NEW v \in Workers
  PROVE  HasRoom(v)'
<1> USE DEF Roomy, Orderly
<1>1. WorksOn(w)
  BY WorkTakesTurns
<1>2. CASE v # w
  <2>1. job'[v] = job[v] /\ job[v].at \in {"idle", "queued"}
    BY <1>1, <1>2 DEF WorksOn, IsTurn, Serial
  <2> QED BY <2>1 DEF HasRoom
<1>3. CASE v = w
  <2> SUFFICES HasRoom(w)'
    BY <1>3
  <2>1. job[w] \in JobState /\ job \in [Workers -> JobState]
    BY DEF TypeOK
  <2>2. ASSUME NEW next, NEW at, NEW victims, NEW victim, Becomes(w, next), Fields(next, at, victims, victim)
        PROVE  job'[w].at = at /\ job'[w].victims = victims
    BY <2>2, FieldsOfJobs
  <2>3. ASSUME Answer(w) PROVE HasRoom(w)'
    <3>1. job'[w] = NoJob
      BY <2>1, <2>3 DEF Answer, Becomes
    <3> QED BY <3>1 DEF NoJob, HasRoom
  <2>4. ASSUME NEW at \in {"restart", "wait", "publish", "stopping", "reap", "remove", "removeNetwork"},
               job'[w].at = at
        PROVE  HasRoom(w)'
    BY <2>4 DEF HasRoom
  <2>5. CASE EnsureBegins(w)
    <3>1. /\ job'[w].at \in {"wait", "observe"}
          /\ job'[w].available = Available
          /\ Running' = Running
      BY <2>1, <2>5 DEF EnsureBegins, Becomes, JobState, dinds, Running
    <3>2. Available' = Available /\ Available \in Int
      BY <3>1, LeftOfRunning DEF Available, Running
    <3> QED BY <3>1, <3>2 DEF HasRoom
  <2>6. CASE Admit(w)
    <3>1. CASE Answer(w)
      BY <2>3, <3>1
    <3>2. ASSUME NEW evict \in Admissions(Observation, job[w].available),
                 Becomes(w, [job[w] EXCEPT !.at = "evict", !.victims = evict])
          PROVE  HasRoom(w)'
      <4>1. Running' = Running
        <5>1. UNCHANGED dinds
          BY <2>6, Zenon DEF Admit
        <5> QED BY <5>1 DEF dinds, Running
      <4>4. job'[w].at = "evict" /\ job'[w].victims = evict
        BY <2>2, <3>2, FieldsThatChange, Zenon
      <4>2. job[w].available \in Int /\ job[w].available <= Available
        <5>1. \A running \in SUBSET Dinds : Left(running) \in Int
          BY LeftOfRunning
        <5>2. HasRoom(w) /\ job[w].at = "observe" /\ job[w].op = "ensure"
          BY <2>6, Zenon DEF Admit
        <5>3. job[w].available \in {0} \union {Left(running) : running \in SUBSET Dinds}
          BY <2>1 DEF JobState
        <5> QED BY <5>1, <5>2, <5>3 DEF HasRoom
      <4>3. Fits(Running \ evict)
        BY <4>2, AdmittedFits
      <4> QED BY <4>1, <4>3, <4>4 DEF HasRoom
    <3>3. \/ Answer(w)
          \/ \E evict \in Admissions(Observation, job[w].available) :
               Becomes(w, [job[w] EXCEPT !.at = "evict", !.victims = evict])
      BY <2>6, Zenon DEF Admit
    <3> QED BY <3>1, <3>2, <3>3, Zenon
  <2>7. ASSUME NEW d \in Dinds, EvictStops(w, d) PROVE HasRoom(w)'
    <3>1. Fits(Running \ job[w].victims)
      BY <2>7 DEF EvictStops, HasRoom
    <3>2. job'[w].at = "evicted" /\ job'[w].victims = job[w].victims \ {d}
      BY <2>1, <2>7 DEF EvictStops, Becomes, JobState
    <3>3. Running' = Running \ {d} /\ d \in job[w].victims
      BY <2>7 DEF EvictStops, Stops, Stopped, Running, dinds, TypeOK
    <3>4. Running' \ job'[w].victims = Running \ job[w].victims
      BY <3>2, <3>3
    <3>5. Fits(Running' \ job'[w].victims)
      BY <3>1, <3>4, Zenon
    <3> QED BY <3>2, <3>5 DEF HasRoom
  <2>8. CASE EvictWithdraws(w)
    <3>1. job[w].at = "evicted" /\ job'[w].at = "evict" /\ job'[w].victims = job[w].victims /\ Running' = Running
      BY <2>1, <2>8 DEF EvictWithdraws, Becomes, JobState, dinds, Running
    <3> QED BY <3>1 DEF HasRoom
  <2>9. CASE MakeNetwork(w)
    <3>1. job' = job \/ Answer(w)
      BY <2>9 DEF MakeNetwork
    <3>2. Running' = Running
      BY <2>9 DEF MakeNetwork, Running
    <3> QED BY <2>3, <3>1, <3>2, RoomStays
  <2>10. CASE StartDind(w) \/ Restart(w) \/ ReapEnds(w) \/ GiveUp(w) \/ Publish(w) \/ ResetBegins(w) \/ RemoveNetwork(w)
    <3>1. Answer(w) \/ job'[w].at \in {"wait", "restart"}
      BY <2>1, <2>10 DEF StartDind, Restart, ReapEnds, GiveUp, Publish, ResetBegins, RemoveNetwork, Becomes, JobState
    <3> QED BY <2>3, <2>4, <3>1
  <2>11. CASE StopBegins(w) \/ PurgeBegins(w) \/ Healthy(w) \/ Reap(w) \/ RemoveContainer(w)
              \/ \E d \in Dinds : ReapWithdraws(w, d)
    <3>1. ASSUME NEW at, NEW victims, NEW victim,
                 \/ Becomes(w, [job[w] EXCEPT !.at = at])
                 \/ Becomes(w, [job[w] EXCEPT !.at = at, !.victim = victim])
                 \/ Becomes(w, [job[w] EXCEPT !.at = at, !.victims = victims])
                 \/ Becomes(w, [job[w] EXCEPT !.at = at, !.victims = victims, !.victim = victim])
          PROVE  job'[w].at = at
      BY <2>2, <3>1, FieldsThatChange, Zenon
    <3>2. \E at \in {"stopping", "publish", "reap", "removeNetwork"} : job'[w].at = at
      BY <2>11, <3>1, Zenon DEF StopBegins, PurgeBegins, Healthy, Reap, RemoveContainer, ReapWithdraws
    <3> QED BY <2>4, <3>2
  <2>12. CASE TickBegins(w)
    <3>1. job'[w].at = "observe" /\ job'[w].op = "tick"
      BY <2>1, <2>12 DEF TickBegins, Begins, Becomes, JobState
    <3> QED BY <3>1 DEF HasRoom
  <2>13. CASE StopVictim(w)
    <3> DEFINE at == IF job[w].op = "purge" THEN "remove" ELSE "reap"
    <3>1. Answer(w) \/ Becomes(w, [job[w] EXCEPT !.at = at, !.victim = Nobody])
      BY <2>13, Zenon DEF StopVictim
    <3>2. at \in {"remove", "reap"}
      OBVIOUS
    <3> HIDE DEF at
    <3>3. Fields([job[w] EXCEPT !.at = at, !.victim = Nobody], at, job[w].victims, Nobody)
      BY FieldsThatChange, Zenon
    <3>4. Answer(w) \/ job'[w].at = at
      BY <2>2, <3>1, <3>3, Zenon
    <3> QED BY <2>3, <2>4, <3>2, <3>4
  <2> QED BY <1>3, <2>5, <2>6, <2>7, <2>8, <2>9, <2>10, <2>11, <2>12, <2>13 DEF Work
<1> QED BY <1>2, <1>3

LEMMA RoomyInitially == Init => Roomy
BY OrderlyInitially DEF Init, Roomy, HasRoom, NoJob

LEMMA RoomyStep ==
  ASSUME Roomy, "survives" \notin Faults, [Next]_vars
  PROVE  Roomy'
<1>1. Orderly' /\ TypeOK
  BY OrderlyStep DEF Roomy, Orderly
<1> SUFFICES ASSUME NEW w \in Workers PROVE HasRoom(w)'
  BY <1>1 DEF Roomy
<1>2. HasRoom(w)
  BY DEF Roomy
<1>3. ASSUME job'[w] = job[w], \A d \in Dinds : cont'[d] = "running" => cont[d] = "running" PROVE HasRoom(w)'
  <2>1. Running' \subseteq Running
    BY <1>3 DEF Running
  <2> QED BY <1>1, <1>2, <1>3, <2>1, RoomStays
<1>4. CASE UNCHANGED vars
  BY <1>3, <1>4 DEF vars
<1>5. ASSUME NEW v \in Workers, NEW next \in JobState, next.at = "queued", Becomes(v, next), UNCHANGED dinds
      PROVE  HasRoom(w)'
  <2>1. job'[w] = job[w] \/ job'[w].at = "queued"
    BY <1>1, <1>5, BecomesChangesOne
  <2>2. job'[w].at = "queued" => HasRoom(w)'
    BY DEF HasRoom
  <2> QED BY <1>3, <1>5, <2>1, <2>2 DEF dinds
<1>6. ASSUME NEW c \in Clients, NEW op \in Operations, NEW d \in Dinds, Request(c, op, d) PROVE HasRoom(w)'
  <2> DEFINE next == [NoJob EXCEPT !.op = op, !.dind = d, !.at = "queued"]
  <2>1. next \in JobState
    BY NoJobIsJobState, Zenon DEF JobState
  <2>2. next.at = "queued"
    BY DEF NoJob
  <2>3. Becomes(c, next) /\ UNCHANGED dinds
    BY <1>6 DEF Request
  <2> HIDE DEF next
  <2> QED BY <1>5, <2>1, <2>2, <2>3 DEF Workers
<1>7. CASE TimerFires
  <2> DEFINE next == [NoJob EXCEPT !.op = "tick", !.at = "queued"]
  <2>1. next \in JobState
    BY NoJobIsJobState, Zenon DEF JobState
  <2>2. next.at = "queued"
    BY DEF NoJob
  <2>3. Becomes(Timer, next) /\ UNCHANGED dinds
    BY <1>7 DEF TimerFires
  <2> HIDE DEF next
  <2> QED BY <1>5, <2>1, <2>2, <2>3 DEF Workers
<1>8. ASSUME NEW v \in Workers, Work(v) PROVE HasRoom(w)'
  BY <1>8, WorkKeepsRoom
<1>9. CASE Crash \/ Down
  BY <1>9 DEF Crash, Down, Forgets, HasRoom, NoJob
<1>10. CASE Status \/ Serve \/ TimePasses
  BY <1>3, <1>10 DEF Status, Serve, TimePasses, dinds
<1>11. ASSUME NEW d \in Dinds, DindMoves(d) PROVE HasRoom(w)'
  <2>1. job' = job /\ \A e \in Dinds : cont'[e] = "running" => cont[e] = "running"
    BY <1>1, <1>11 DEF DindMoves, Dies, Stopped, BootEnds, DevcontainerUp, DevcontainerDown, TypeOK
  <2> QED BY <1>3, <2>1
<1> QED
  BY <1>4, <1>6, <1>7, <1>8, <1>9, <1>10, <1>11 DEF Next

(* An ensure starts a dind only with fewer than the ceiling running and    *)
(* the floor free once the newcomer has its share, whoever asked, died or  *)
(* was killed meanwhile (capacity.ts:12-15, supervisor.ts:500-501), as     *)
(* long as docker stops what it is told to stop.                           *)
THEOREM SupervisorEnsureStartsWithRoom ==
  "survives" \notin Faults => (Spec => EnsureStartsWithRoom)
<1> SUFFICES ASSUME "survives" \notin Faults PROVE Spec => EnsureStartsWithRoom
  OBVIOUS
<1>1. Roomy => [\A w \in Workers :
         StartDind(w) /\ cont' # cont =>
           Cardinality(Running) + 1 <= MaxDinds /\ Available - Newcomer >= Floor]_vars
  <2> SUFFICES ASSUME Roomy, NEW w \in Workers, StartDind(w)
               PROVE  Cardinality(Running) + 1 <= MaxDinds /\ Available - Newcomer >= Floor
    OBVIOUS
  <2>1. job[w].at = "evict" /\ job[w].victims = {}
    BY DEF StartDind
  <2>2. Running \ job[w].victims = Running
    BY <2>1
  <2>3. Fits(Running \ job[w].victims)
    BY <2>1 DEF Roomy, HasRoom
  <2>4. Fits(Running)
    BY <2>2, <2>3, Zenon
  <2> QED BY <2>4 DEF Fits, Available
<1> QED BY <1>1, RoomyInitially, RoomyStep, PTL DEF Spec, EnsureStartsWithRoom
=============================================================================
