----------------------------- MODULE KeyringProofs ------------------------------
(* What holds of Keyring for any number of aliases, keys and clients.      *)
EXTENDS Keyring, FiniteSetTheorems, TLAPS

Constants == /\ NoKey \notin Keys /\ NoClient \notin Clients /\ "none" \notin Aliases
             /\ Newrepos \subseteq Clients
             /\ IsFiniteSet(Clients) /\ Concurrent \in Nat

Halves == [Aliases -> MaybeKey]
(* What is asked on a connection is of an alias.                           *)
Conns ==
  {n \in [up : BOOLEAN, asked : BOOLEAN, op : Ops \union {"none"}, alias : Aliases \union {"none"},
          got : {"nothing", "key", "error"}, key : MaybeKey] :
     n.up \/ n.asked => n.op \in Ops /\ n.alias \in Aliases}
(* A key is made and loaded only for a create, and wiped for a removal.    *)
Busy ==
  {j \in [client : Clients, op : Ops, alias : Aliases, step : Steps] :
     /\ j.step \in {"look", "half", "load"} => j.op = "create"
     /\ j.step \in {"unload", "wipe", "wiping", "unlink"} => j.op = "remove"
     /\ j.step = "export" => j.op \in {"create", "pubkey"}}
Setups == [step : {"idle", "key", "block", "rewrites", "clone", "origin", "identity", "populate", "ready"},
           alias : Aliases \union {"none"}]

DiskTyped == /\ private \in Halves /\ public \in Halves /\ exported \in Halves /\ told \in Halves
             /\ agent \in SUBSET Keys /\ minted \in SUBSET Keys /\ halved \in SUBSET Aliases /\ stray \in SUBSET Keys
JobTyped == /\ job = Idle \/ job \in Busy
            /\ ring \in {"down", "starting", "serving"} /\ (ring # "serving" => job = Idle)
            /\ conn \in [Clients -> Conns]
Typed == DiskTyped /\ JobTyped

-----------------------------------------------------------------------------
(* Every step, by what it does to the files, the agent and the job.        *)
held == <<private, public, exported, agent, minted, told, halved, stray>>

LEMMA IdleIsNoJob ==
  Idle.step = "none" /\ Idle.op = "none" /\ Idle \notin Busy
BY DEF Idle, Busy, Steps

LEMMA AtIsBusy ==
  ASSUME Typed, NEW step \in Steps, At(step)
  PROVE  job \in Busy /\ ring = "serving"
BY IdleIsNoJob DEF Typed, JobTyped, At, Steps

LEMMA ThenMoves ==
  ASSUME job \in Busy, NEW step \in Steps, Then(step),
         \/ step = "answer" \/ (step \in {"half", "load"} /\ job.op = "create")
         \/ (step \in {"wipe", "wiping", "unlink"} /\ job.op = "remove")
         \/ (step = "export" /\ job.op \in {"create", "pubkey"})
  PROVE  job' \in Busy /\ job'.step = step /\ job'.alias = job.alias /\ job'.op = job.op
<1>1. job' = [job EXCEPT !.step = step]
  BY DEF Then
<1> QED BY <1>1 DEF Busy

LEMMA AnswerMoves ==
  ASSUME Constants, Typed, NEW c \in Clients, NEW got \in {"key", "error"}, NEW key \in MaybeKey,
         Answer(c, got, key)
  PROVE  job' = Idle /\ conn' \in [Clients -> Conns] /\ \A d \in Clients : conn'[d].up = conn[d].up
<1> DEFINE n == [conn[c] EXCEPT !.asked = FALSE, !.got = got, !.key = key]
<1>1. job' = Idle /\ conn' = [conn EXCEPT ![c] = n]
  BY DEF Answer
<1>2. conn[c] \in Conns /\ conn \in [Clients -> Conns]
  BY DEF Typed, JobTyped
<1>3. n \in Conns /\ n.up = conn[c].up
  BY <1>2 DEF Conns
<1> HIDE DEF n, Conns
<1> QED BY <1>1, <1>2, <1>3

LEMMA NoConnIsAConn ==
  ASSUME Constants
  PROVE  /\ NoConn \in Conns /\ NoConn.up = FALSE
         /\ \A got \in {"nothing", "key", "error"} :
              [NoConn EXCEPT !.got = got] \in Conns /\ [NoConn EXCEPT !.got = got].up = FALSE
         /\ \A op \in Ops, a \in Aliases :
              /\ [NoConn EXCEPT !.up = TRUE, !.op = op, !.alias = a] \in Conns
              /\ [NoConn EXCEPT !.up = TRUE, !.op = op, !.alias = a].up = TRUE
BY DEF NoConn, Conns, MaybeKey
LEMMA ConnectMoves ==
  ASSUME Constants, Typed, NEW c \in Clients, NEW op \in Ops, NEW a \in Aliases, Connect(c, op, a)
  PROVE  /\ conn' \in [Clients -> Conns] /\ ~conn[c].up
         /\ \A d \in Clients \ {c} : conn'[d] = conn[d]
         /\ open < Concurrent => conn'[c].up = TRUE
         /\ ~(open < Concurrent) => conn'[c].up = FALSE
<1>1. conn \in [Clients -> Conns]
  BY DEF Typed, JobTyped
<1>2. ~conn[c].up
  BY DEF Connect
<1>3. CASE open < Concurrent
  <2> DEFINE n == [NoConn EXCEPT !.up = TRUE, !.op = op, !.alias = a]
  <2>1. conn' = [conn EXCEPT ![c] = n]
    BY <1>3 DEF Connect, Connected
  <2>2. n \in Conns /\ n.up = TRUE
    BY NoConnIsAConn
  <2> HIDE DEF n, Conns
  <2> QED BY <1>1, <1>2, <1>3, <2>1, <2>2
<1>4. CASE ~(open < Concurrent)
  <2> DEFINE n == [NoConn EXCEPT !.got = "error"]
  <2>1. conn' = [conn EXCEPT ![c] = n]
    BY <1>4 DEF Connect, Connected
  <2>2. n \in Conns /\ n.up = FALSE
    BY NoConnIsAConn
  <2> HIDE DEF n, Conns
  <2> QED BY <1>1, <1>2, <1>4, <2>1, <2>2
<1> QED BY <1>3, <1>4

-----------------------------------------------------------------------------
(* The types. *)
LEMMA FilesTyped ==
  ASSUME Constants, Typed, KeyringStep
  PROVE  DiskTyped'
<1>a. /\ private \in Halves /\ public \in Halves /\ exported \in Halves /\ told \in Halves
      /\ agent \in SUBSET Keys /\ minted \in SUBSET Keys /\ halved \in SUBSET Aliases /\ stray \in SUBSET Keys
  BY DEF Typed, DiskTyped
<1>b. /\ \A f \in Halves, a \in Aliases, k \in MaybeKey : [f EXCEPT ![a] = k] \in Halves
      /\ \A f \in Halves, a \in Aliases : f[a] \in MaybeKey
      /\ NoKey \in MaybeKey /\ \A k \in Keys : k \in MaybeKey
      /\ \A k \in MaybeKey : k # NoKey => k \in Keys
  BY DEF Halves, MaybeKey
<1>c. ASSUME NEW step \in Steps, At(step) PROVE job.alias \in Aliases
  BY <1>c, AtIsBusy DEF Busy
<1>d. {"look", "half", "export", "load", "unload", "wipe", "wiping", "unlink", "answer"} = Steps
  BY DEF Steps
<1> USE DEF disk, ghosts
<1> HIDE DEF Halves, MaybeKey, Typed, Constants, At, Steps
<1>1. ASSUME Keep \/ ExportFails PROVE DiskTyped'
  BY <1>1, <1>a DEF Keep, ExportFails, DiskTyped
<1>2. ASSUME NEW k \in Keys, Generate(k) PROVE DiskTyped'
  BY <1>2, <1>a, <1>b, <1>c, <1>d DEF Generate, DiskTyped
<1>3. ASSUME GenerateRest PROVE DiskTyped'
  BY <1>3, <1>a, <1>b, <1>c, <1>d DEF GenerateRest, DiskTyped
<1>4. ASSUME Export PROVE DiskTyped'
  BY <1>4, <1>a, <1>b, <1>c, <1>d DEF Export, DiskTyped
<1>5. ASSUME Load PROVE DiskTyped'
  BY <1>5, <1>a, <1>b, <1>c, <1>d DEF Load, DiskTyped
<1>6. ASSUME Unload PROVE DiskTyped'
  BY <1>6, <1>a, <1>b, <1>c, <1>d DEF Unload, DiskTyped
<1>7. ASSUME NEW half \in {"id", "id.pub"}, WipeFirst(half) PROVE DiskTyped'
  BY <1>7, <1>a, <1>b, <1>c, <1>d DEF WipeFirst, DiskTyped
<1>8. ASSUME WipeRest PROVE DiskTyped'
  BY <1>8, <1>a, <1>b, <1>c, <1>d DEF WipeRest, DiskTyped
<1>9. ASSUME UnlinkExport PROVE DiskTyped'
  BY <1>9, <1>a, <1>b, <1>c, <1>d DEF UnlinkExport, DiskTyped
<1>10. ASSUME Reply PROVE DiskTyped'
  <2>1. told' = told \/ told' = [told EXCEPT ![job.alias] = public[job.alias]]
    BY <1>10, Zenon DEF Reply
  <2>2. UNCHANGED <<private, public, exported, agent, minted, halved, stray>>
    BY <1>10 DEF Reply
  <2>3. At("answer")
    BY <1>10 DEF Reply
  <2> QED BY <2>1, <2>2, <2>3, <1>a, <1>b, <1>c, <1>d DEF DiskTyped
<1> QED BY <1>1, <1>2, <1>3, <1>4, <1>5, <1>6, <1>7, <1>8, <1>9, <1>10, Zenon DEF KeyringStep

(* A step of the process goes on to the next, or answers.                  *)
LEMMA StepMoves ==
  ASSUME Constants, Typed, KeyringStep
  PROVE  /\ job \in Busy /\ ring = "serving" /\ ring' = ring
         /\ \/ /\ job' \in Busy /\ conn' = conn
               /\ job'.alias = job.alias /\ job'.op = job.op
            \/ /\ job' = Idle /\ conn' \in [Clients -> Conns]
               /\ \A d \in Clients : conn'[d].up = conn[d].up
<1>a. Steps = {"look", "half", "export", "load", "unload", "wipe", "wiping", "unlink", "answer"}
  BY DEF Steps
<1>1. job \in Busy /\ ring = "serving" /\ ring' = ring
  <2>1. \E step \in Steps : At(step)
    BY <1>a DEF KeyringStep, Keep, Generate, GenerateRest, Export, ExportFails, Load, Unload, WipeFirst,
                WipeRest, UnlinkExport, Reply
  <2>2. ring' = ring
    BY Zenon DEF KeyringStep, Keep, Generate, GenerateRest, Export, ExportFails, Load, Unload, WipeFirst,
           WipeRest, UnlinkExport, Reply
  <2> QED BY <2>1, <2>2, AtIsBusy
<1>2. /\ job.step \in {"look", "half", "load"} => job.op = "create"
      /\ job.step \in {"unload", "wipe", "wiping", "unlink"} => job.op = "remove"
      /\ job.step = "export" => job.op \in {"create", "pubkey"}
      /\ job.client \in Clients /\ job.alias \in Aliases
  BY <1>1 DEF Busy
<1> DEFINE goal == \/ /\ job' \in Busy /\ conn' = conn
                      /\ job'.alias = job.alias /\ job'.op = job.op
                   \/ /\ job' = Idle /\ conn' \in [Clients -> Conns]
                      /\ \A d \in Clients : conn'[d].up = conn[d].up
<1>3. ASSUME NEW step \in Steps, Then(step), conn' = conn,
             \/ step = "answer" \/ (step \in {"half", "load"} /\ job.op = "create")
             \/ (step \in {"wipe", "wiping", "unlink"} /\ job.op = "remove")
             \/ (step = "export" /\ job.op \in {"create", "pubkey"})
      PROVE  goal
  BY <1>1, <1>3, ThenMoves
<1>4. ASSUME NEW got \in {"key", "error"}, NEW key \in MaybeKey, Answer(job.client, got, key)
      PROVE  goal
  BY <1>2, <1>4, AnswerMoves
<1> HIDE DEF goal, Constants, Typed
<1>5. Keep \/ (\E k \in Keys : Generate(k)) \/ GenerateRest => goal
  BY <1>2, <1>3, <1>a DEF Keep, Generate, GenerateRest, At
<1>6. Export => goal
  BY <1>2, <1>3, <1>a DEF Export, At
<1>7. ExportFails => goal
  BY <1>4 DEF ExportFails, MaybeKey
<1>8. Load \/ Unload \/ (\E half \in {"id", "id.pub"} : WipeFirst(half)) => goal
  BY <1>2, <1>3, <1>a DEF Load, Unload, WipeFirst, At
<1>9. WipeRest \/ UnlinkExport => goal
  BY <1>2, <1>3, <1>a DEF WipeRest, UnlinkExport, At
<1>10. Reply => goal
  <2>1. public[job.alias] \in MaybeKey /\ NoKey \in MaybeKey
    BY <1>2 DEF Typed, DiskTyped, Halves, MaybeKey
  <2>2. Reply => \/ Answer(job.client, "key", public[job.alias]) \/ Answer(job.client, "key", NoKey)
    BY Zenon DEF Reply
  <2> QED BY <2>1, <2>2, <1>4
<1>11. goal
  BY <1>5, <1>6, <1>7, <1>8, <1>9, <1>10, Zenon DEF KeyringStep
<1> QED BY <1>1, <1>11 DEF goal

(* What touches neither the files nor the job.                             *)
Elsewhere(c) ==
  \/ Ask(c) \/ Close(c) \/ NewrepoStep(c) \/ EndSetup(c)
  \/ \E a \in Aliases : Setup(c, a) \/ \E op \in Ops : Visit(c, op, a)

LEMMA NextIs ==
  ASSUME Constants, Next
  PROVE  \/ KeyringStep \/ Boot \/ (\E a \in Aliases : Publish(a)) \/ Serve \/ Crash
         \/ \E c \in Clients : Begin(c) \/ NoSuchKey(c) \/ Elsewhere(c)
BY DEF Next, Elsewhere, Constants

LEMMA ElsewhereMoves ==
  ASSUME Constants, Typed, NEW c \in Clients, Elsewhere(c)
  PROVE  /\ UNCHANGED <<held, job>> /\ ring' = ring /\ conn' \in [Clients -> Conns]
         /\ \/ open' = open /\ \A d \in Clients : conn'[d].up = conn[d].up
            \/ /\ ~conn[c].up /\ open < Concurrent /\ conn'[c].up /\ open' = open + 1
               /\ \A d \in Clients \ {c} : conn'[d] = conn[d]
            \/ /\ conn[c].up /\ ~conn'[c].up /\ open' = open - 1
               /\ \A d \in Clients \ {c} : conn'[d] = conn[d]
<1> DEFINE goal == \/ open' = open /\ \A d \in Clients : conn'[d].up = conn[d].up
                   \/ /\ ~conn[c].up /\ open < Concurrent /\ conn'[c].up /\ open' = open + 1
                      /\ \A d \in Clients \ {c} : conn'[d] = conn[d]
                   \/ /\ conn[c].up /\ ~conn'[c].up /\ open' = open - 1
                      /\ \A d \in Clients \ {c} : conn'[d] = conn[d]
<1>a. conn \in [Clients -> Conns] /\ conn[c] \in Conns
  BY DEF Typed, JobTyped
<1>b. conn[c].up \in BOOLEAN
  BY <1>a DEF Conns
<1>1. UNCHANGED <<held, job>> /\ ring' = ring
  BY Zenon DEF Elsewhere, Ask, Close, NewrepoStep, EndSetup, Setup, Visit, Connect, held, disk, ghosts,
     GotKey, WriteBlock, WriteRewrites, SkipClone, Clone, PointOrigin, WriteIdentity, Populate, OnlyNewrepo
<1>2. ASSUME NewrepoStep(c) \/ EndSetup(c) PROVE conn' \in [Clients -> Conns] /\ goal
  <2>1. conn' = conn /\ open' = open
    BY <1>2, Zenon DEF NewrepoStep, EndSetup, GotKey, WriteBlock, WriteRewrites, SkipClone, Clone,
                       PointOrigin, WriteIdentity, Populate, OnlyNewrepo
  <2> QED BY <2>1, <1>a
<1>3. ASSUME Ask(c) PROVE conn' \in [Clients -> Conns] /\ goal
  <2> DEFINE n == [conn[c] EXCEPT !.asked = TRUE]
  <2>1. conn' = [conn EXCEPT ![c] = n] /\ open' = open /\ conn[c].up
    BY <1>3 DEF Ask
  <2>2. n \in Conns /\ n.up = conn[c].up
    BY <1>a, <2>1 DEF Conns
  <2> HIDE DEF n, Conns
  <2> QED BY <1>a, <2>1, <2>2
<1>4. ASSUME Close(c) PROVE conn' \in [Clients -> Conns] /\ goal
  <2>1. conn' = [conn EXCEPT ![c] = NoConn] /\ open' = open - 1 /\ conn[c].up
    BY <1>4 DEF Close
  <2> HIDE DEF Conns, NoConn
  <2> QED BY <1>a, <2>1, NoConnIsAConn
<1>5. ASSUME NEW a \in Aliases, NEW op \in Ops, Connect(c, op, a)
      PROVE  conn' \in [Clients -> Conns] /\ goal
  <2>1. open' = IF open < Concurrent THEN open + 1 ELSE open
    BY <1>5 DEF Connect
  <2>2. CASE open < Concurrent
    BY <1>5, <2>1, <2>2, ConnectMoves
  <2>3. CASE ~(open < Concurrent)
    <3>1. \A d \in Clients : conn'[d].up = conn[d].up
      BY <1>5, <1>b, <2>3, ConnectMoves
    <3> QED BY <1>5, <2>1, <2>3, <3>1, ConnectMoves
  <2> QED BY <2>2, <2>3
<1>6. ASSUME NEW a \in Aliases, Setup(c, a) \/ \E op \in Ops : Visit(c, op, a)
      PROVE  conn' \in [Clients -> Conns] /\ goal
  <2>1. \E op \in Ops : Connect(c, op, a)
    BY <1>6 DEF Setup, Visit, Ops
  <2> HIDE DEF goal
  <2> QED BY <1>5, <2>1
<1> HIDE DEF goal
<1>7. conn' \in [Clients -> Conns] /\ goal
  BY <1>2, <1>3, <1>4, <1>6, Zenon DEF Elsewhere
<1> QED BY <1>1, <1>7 DEF goal

LEMMA BeginMoves ==
  ASSUME Constants, Typed, NEW c \in Clients, Begin(c)
  PROVE  /\ job = Idle /\ ring = "serving" /\ UNCHANGED <<ring, conn, open, private, public, exported, agent, minted, halved, stray>>
         /\ job' \in Busy /\ job'.alias = conn[c].alias /\ job'.op = conn[c].op
         /\ job'.step \in {"look", "export", "unload", "answer"}
         /\ told' = IF job'.op = "remove" THEN [told EXCEPT ![job'.alias] = NoKey] ELSE told
         /\ job'.op = "create" => job'.step = "look"
<1>1. conn[c].op \in Ops /\ conn[c].alias \in Aliases
  BY DEF Begin, Typed, JobTyped, Conns
<1>2. job' = [client |-> c, op |-> conn[c].op, alias |-> conn[c].alias, step |-> FirstStep(conn[c].op)]
  BY DEF Begin
<1>3. /\ FirstStep(conn[c].op) \in {"look", "export", "unload", "answer"}
      /\ FirstStep(conn[c].op) = "look" => conn[c].op = "create"
      /\ conn[c].op = "create" => FirstStep(conn[c].op) = "look"
      /\ FirstStep(conn[c].op) = "export" => conn[c].op = "pubkey"
      /\ FirstStep(conn[c].op) = "unload" => conn[c].op = "remove"
  BY <1>1 DEF FirstStep, Ops
<1>4. job' \in Busy /\ job'.alias = conn[c].alias /\ job'.op = conn[c].op /\ job'.step = FirstStep(conn[c].op)
  <2> HIDE DEF FirstStep
  <2> QED BY <1>1, <1>2, <1>3 DEF Busy, Steps
<1>5. /\ job = Idle /\ ring = "serving"
      /\ UNCHANGED <<ring, conn, open, private, public, exported, agent, minted, halved, stray>>
      /\ told' = IF conn[c].op = "remove" THEN [told EXCEPT ![conn[c].alias] = NoKey] ELSE told
  BY DEF Begin, Listening, disk
<1> QED BY <1>3, <1>4, <1>5

LEMMA TypedHolds ==
  ASSUME Constants
  PROVE  Spec => []Typed
<1>1. Init => Typed
  <2> SUFFICES ASSUME Init PROVE Typed
    OBVIOUS
  <2>1. DiskTyped
    BY DEF Init, DiskTyped, Halves, MaybeKey
  <2>2. conn \in [Clients -> Conns]
    <3> HIDE DEF Conns, NoConn
    <3> QED BY NoConnIsAConn DEF Init
  <2> QED BY <2>1, <2>2 DEF Init, Typed, JobTyped
<1>2. Typed /\ [Next]_vars => Typed'
  <2> SUFFICES ASSUME Typed, [Next]_vars PROVE Typed'
    OBVIOUS
  <2>1. CASE KeyringStep
    BY <2>1, FilesTyped, StepMoves DEF Typed, JobTyped
  <2>2. ASSUME NEW c \in Clients, Elsewhere(c) PROVE Typed'
    BY <2>2, ElsewhereMoves DEF Typed, JobTyped, DiskTyped, held
  <2>3. ASSUME NEW c \in Clients, Begin(c) PROVE Typed'
    <3>1. told' \in Halves
      BY <2>3, BeginMoves DEF Typed, DiskTyped, Halves, MaybeKey, Busy
    <3> QED BY <2>3, <3>1, BeginMoves DEF Typed, JobTyped, DiskTyped
  <2>4. ASSUME NEW c \in Clients, NoSuchKey(c) PROVE Typed'
    <3>1. Answer(c, "error", NoKey) /\ UNCHANGED held /\ ring' = ring /\ ring = "serving"
      BY <2>4 DEF NoSuchKey, held, disk, ghosts, Listening
    <3> QED BY <3>1, AnswerMoves DEF Typed, JobTyped, DiskTyped, held, MaybeKey
  <2>5. CASE Boot \/ Serve
    BY <2>5 DEF Boot, Serve, Typed, JobTyped, DiskTyped, disk, ghosts
  <2>6. ASSUME NEW a \in Aliases, Publish(a) PROVE Typed'
    <3>1. /\ exported' = [exported EXCEPT ![a] = public[a]]
          /\ agent' = agent \union ({private[a]} \ {NoKey})
          /\ UNCHANGED <<private, public, told, minted, halved, ring, job, conn, stray>>
      BY <2>6 DEF Publish, ghosts
    <3>2. DiskTyped'
      BY <3>1 DEF Typed, DiskTyped, Halves, MaybeKey
    <3> QED BY <3>1, <3>2 DEF Typed, JobTyped
  <2>7. CASE Crash
    <3>1. conn' \in [Clients -> Conns]
      <4>1. \A c \in Clients : [NoConn EXCEPT !.got = conn[c].got] \in Conns
        BY NoConnIsAConn DEF Typed, JobTyped, Conns
      <4> QED BY <2>7, <4>1, Zenon DEF Crash
    <3>2. halved' \in SUBSET Aliases
      BY <2>7, IdleIsNoJob DEF Crash, Typed, DiskTyped, JobTyped, Busy
    <3> QED BY <2>7, <3>1, <3>2 DEF Crash, Typed, JobTyped, DiskTyped, disk
  <2>8. CASE UNCHANGED vars
    BY <2>8 DEF vars, disk, ghosts, Typed, JobTyped, DiskTyped
  <2> QED BY <2>1, <2>2, <2>3, <2>4, <2>5, <2>6, <2>7, <2>8, NextIs
<1> QED BY <1>1, <1>2, PTL DEF Spec

-----------------------------------------------------------------------------
(* Two aliases have two keys. *)
Apart ==
  /\ \A a, b \in Aliases : private[a] = private[b] /\ private[a] # NoKey => a = b
  /\ \A a \in Aliases : private[a] # NoKey => private[a] \in minted
(* What the agent holds is on the disk, and what is being wiped it has     *)
(* been asked to forget by its own public half, or is a stray.             *)
Loaded ==
  /\ \A k \in agent : k \in stray \/ \E a \in Aliases : private[a] = k
  /\ job.step \in {"wipe", "wiping"} => private[job.alias] \notin agent \/ private[job.alias] \in stray
(* The halves are of one pair but while a step writes them, and where a    *)
(* crash has caught it.                                                    *)
Paired ==
  /\ \A a \in Aliases \ halved :
       private[a] = public[a] \/ (job.alias = a /\ job.step \in {"half", "wiping", "unlink"})
  /\ job.step = "unlink" => private[job.alias] = NoKey /\ public[job.alias] = NoKey
  /\ job.op = "create" /\ job.step \in {"load", "answer"} => exported[job.alias] = public[job.alias]
Promised ==
  /\ RegisteredKeyStays
  /\ job.op = "remove" => told[job.alias] = NoKey
Kept == Apart /\ Loaded /\ Paired /\ Promised

LEMMA KeyringStepKeeps ==
  ASSUME Constants, Typed, Kept, KeyringStep
  PROVE  Kept'
<1> DEFINE a == job.alias
<1>a. /\ job \in Busy /\ a \in Aliases
      /\ \/ job'.alias = a /\ job'.op = job.op
         \/ job' = Idle
  BY StepMoves DEF Busy
<1>b. /\ private \in [Aliases -> MaybeKey] /\ public \in [Aliases -> MaybeKey]
      /\ exported \in [Aliases -> MaybeKey] /\ told \in [Aliases -> MaybeKey]
      /\ agent \subseteq Keys /\ NoKey \notin agent /\ NoKey \notin Keys
  BY DEF Typed, DiskTyped, Halves, Constants
<1>c. /\ job.step \in {"look", "half", "load"} => job.op = "create"
      /\ job.step \in {"unload", "wipe", "wiping", "unlink"} => job.op = "remove"
  BY <1>a DEF Busy
<1>d. Idle.step = "none" /\ Idle.op = "none"
  BY IdleIsNoJob
<1>e. ASSUME NEW step \in Steps, Then(step)
      PROVE  job'.step = step /\ job'.alias = a /\ job'.op = job.op
  BY <1>a, <1>e DEF Then, Busy
<1>f. ASSUME NEW c, NEW got, NEW key, Answer(c, got, key) PROVE job' = Idle
  BY <1>f DEF Answer
<1>s. Steps = {"look", "half", "export", "load", "unload", "wipe", "wiping", "unlink", "answer"}
  BY DEF Steps
<1> HIDE DEF Typed, Constants, Steps, Idle, Busy
<1> USE DEF Kept, disk, ghosts, At
<1>1. ASSUME Keep PROVE Kept'
  <2>1. job'.step = "export" /\ job'.alias = a /\ job'.op = job.op /\ job.step = "look"
        /\ UNCHANGED <<private, public, exported, agent, minted, told, halved, stray>>
    BY <1>1, <1>e, <1>s DEF Keep
  <2>2. Apart' /\ Loaded'
    BY <2>1 DEF Apart, Loaded
  <2>3. Paired'
    BY <2>1 DEF Paired
  <2>4. Promised'
    BY <2>1 DEF Promised, RegisteredKeyStays
  <2> QED BY <2>2, <2>3, <2>4
<1>2. ASSUME NEW k \in Keys, Generate(k) PROVE Kept'
  <2>1. /\ job'.step = "half" /\ job'.alias = a /\ job'.op = job.op /\ job.step = "look"
        /\ private[a] = NoKey /\ private' = [private EXCEPT ![a] = k] /\ k \notin minted
        /\ minted' = minted \union {k} /\ UNCHANGED <<public, exported, agent, told, halved, stray>>
    BY <1>2, <1>e, <1>s DEF Generate, KeepsKey
  <2>2. Apart'
    BY <2>1, <1>a, <1>b DEF Apart
  <2>3. Loaded'
    BY <2>1, <1>a, <1>b DEF Loaded
  <2>4. Paired'
    BY <2>1, <1>a, <1>b DEF Paired
  <2>5. Promised'
    BY <2>1, <1>a, <1>b, <1>c DEF Promised, RegisteredKeyStays
  <2> QED BY <2>2, <2>3, <2>4, <2>5
<1>3. ASSUME GenerateRest PROVE Kept'
  <2>1. /\ job'.step = "export" /\ job'.alias = a /\ job'.op = job.op /\ job.step = "half"
        /\ public' = [public EXCEPT ![a] = private[a]]
        /\ UNCHANGED <<private, exported, agent, minted, told, halved, stray>>
    BY <1>3, <1>e, <1>s DEF GenerateRest
  <2>2. Apart' /\ Loaded'
    BY <2>1 DEF Apart, Loaded
  <2>4. Paired'
    BY <2>1, <1>a, <1>b DEF Paired
  <2>5. Promised'
    BY <2>1, <1>a, <1>b, <1>c DEF Promised, RegisteredKeyStays
  <2> QED BY <2>2, <2>4, <2>5
<1>4. ASSUME Export PROVE Kept'
  <2>1. /\ job'.step \in {"load", "answer"} /\ job'.alias = a /\ job'.op = job.op /\ job.step = "export"
        /\ exported' = [exported EXCEPT ![a] = public[a]]
        /\ UNCHANGED <<private, public, agent, minted, told, halved, stray>>
    BY <1>4, <1>e, <1>s DEF Export
  <2>2. Apart' /\ Loaded'
    BY <2>1 DEF Apart, Loaded
  <2>4. Paired'
    BY <2>1, <1>a, <1>b DEF Paired
  <2>5. Promised'
    BY <2>1, <1>a, <1>b DEF Promised, RegisteredKeyStays, Paired
  <2> QED BY <2>2, <2>4, <2>5
<1>5. ASSUME ExportFails PROVE Kept'
  <2>1. job' = Idle /\ job.step = "export" /\ UNCHANGED <<private, public, exported, agent, minted, told, halved, stray>>
    BY <1>5, <1>f DEF ExportFails
  <2> QED BY <2>1, <1>d DEF Apart, Loaded, Paired, Promised, RegisteredKeyStays
<1>6. ASSUME Load PROVE Kept'
  <2>1. /\ job'.step = "answer" /\ job'.alias = a /\ job'.op = job.op /\ job.step = "load"
        /\ agent' = agent \union {private[a]}
        /\ UNCHANGED <<private, public, exported, minted, told, halved, stray>>
    BY <1>6, <1>e, <1>s DEF Load
  <2>2. Apart' /\ Loaded'
    BY <2>1, <1>a DEF Apart, Loaded
  <2>4. Paired'
    BY <2>1 DEF Paired
  <2>5. Promised'
    BY <2>1 DEF Promised, RegisteredKeyStays
  <2> QED BY <2>2, <2>4, <2>5
<1>7. ASSUME Unload PROVE Kept'
  <2>1. /\ job'.step = "wipe" /\ job'.alias = a /\ job'.op = job.op /\ job.step = "unload"
        /\ agent' = agent \ {Named(a)} /\ stray' = stray \union ({private[a]} \ {Named(a), NoKey})
        /\ UNCHANGED <<private, public, exported, minted, told, halved>>
    BY <1>7, <1>e, <1>s DEF Unload
  <2>2. Apart' /\ Loaded'
    BY <2>1, <1>a, <1>b DEF Apart, Loaded
  <2>4. Paired'
    BY <2>1 DEF Paired
  <2>5. Promised'
    BY <2>1 DEF Promised, RegisteredKeyStays
  <2> QED BY <2>2, <2>4, <2>5
<1>8. ASSUME NEW half \in {"id", "id.pub"}, WipeFirst(half) PROVE Kept'
  <2>1. /\ job'.step = "wiping" /\ job'.alias = a /\ job'.op = job.op /\ job.step = "wipe"
        /\ \/ private' = [private EXCEPT ![a] = NoKey] /\ public' = public
           \/ public' = [public EXCEPT ![a] = NoKey] /\ private' = private
        /\ UNCHANGED <<exported, agent, minted, told, halved, stray>>
    BY <1>8, <1>e, <1>s DEF WipeFirst
  <2>2. Apart'
    BY <2>1, <1>a, <1>b DEF Apart
  <2>3. Loaded'
    BY <2>1, <1>a, <1>b DEF Loaded
  <2>4. Paired'
    BY <2>1, <1>a, <1>b, <1>c DEF Paired
  <2>5. Promised'
    BY <2>1, <1>a, <1>b, <1>c DEF Promised, RegisteredKeyStays
  <2> QED BY <2>2, <2>3, <2>4, <2>5
<1>9. ASSUME WipeRest PROVE Kept'
  <2>1. /\ job'.step = "unlink" /\ job'.alias = a /\ job'.op = job.op /\ job.step = "wiping"
        /\ private' = [private EXCEPT ![a] = NoKey] /\ public' = [public EXCEPT ![a] = NoKey]
        /\ UNCHANGED <<exported, agent, minted, told, halved, stray>>
    BY <1>9, <1>e, <1>s DEF WipeRest
  <2>2. Apart'
    BY <2>1, <1>a, <1>b DEF Apart
  <2>3. Loaded'
    BY <2>1, <1>a, <1>b DEF Loaded
  <2>4. Paired'
    BY <2>1, <1>a, <1>b, <1>c DEF Paired
  <2>5. Promised'
    BY <2>1, <1>a, <1>b, <1>c DEF Promised, RegisteredKeyStays
  <2> QED BY <2>2, <2>3, <2>4, <2>5
<1>10. ASSUME UnlinkExport PROVE Kept'
  <2>1. /\ job'.step = "answer" /\ job'.alias = a /\ job'.op = job.op /\ job.step = "unlink"
        /\ exported' = [exported EXCEPT ![a] = NoKey] /\ halved' = halved \ {a}
        /\ UNCHANGED <<private, public, agent, minted, told, stray>>
    BY <1>10, <1>e, <1>s DEF UnlinkExport
  <2>2. Apart' /\ Loaded'
    BY <2>1 DEF Apart, Loaded
  <2>4. Paired'
    BY <2>1, <1>a, <1>b, <1>c DEF Paired
  <2>5. Promised'
    BY <2>1, <1>a, <1>b, <1>c DEF Promised, RegisteredKeyStays
  <2> QED BY <2>2, <2>4, <2>5
<1>11. ASSUME Reply PROVE Kept'
  <2>1. /\ job' = Idle /\ job.step = "answer"
        /\ told' = told \/ (job.op = "create" /\ told' = [told EXCEPT ![a] = public[a]])
        /\ UNCHANGED <<private, public, exported, agent, minted, halved, stray>>
    BY <1>11, <1>f DEF Reply
  <2>2. Apart' /\ Loaded' /\ Paired'
    BY <2>1, <1>d DEF Apart, Loaded, Paired
  <2>3. RegisteredKeyStays'
    <3>1. CASE told' = told
      BY <2>1, <3>1 DEF Promised, RegisteredKeyStays
    <3>2. CASE job.op = "create" /\ told' = [told EXCEPT ![a] = public[a]]
      BY <2>1, <3>2, <1>a, <1>b DEF Promised, RegisteredKeyStays, Paired
    <3> QED BY <2>1, <3>1, <3>2
  <2> QED BY <2>1, <2>2, <2>3, <1>d DEF Promised
<1> HIDE DEF Kept
<1> QED BY <1>1, <1>2, <1>3, <1>4, <1>5, <1>6, <1>7, <1>8, <1>9, <1>10, <1>11, Zenon DEF KeyringStep

LEMMA KeptHolds ==
  ASSUME Constants
  PROVE  Spec => []Kept
<1>1. Init => Kept
  <2> SUFFICES ASSUME Init PROVE Kept
    OBVIOUS
  <2> USE IdleIsNoJob
  <2>1. Apart /\ Loaded
    BY DEF Init, Apart, Loaded
  <2>2. Paired
    BY DEF Init, Paired
  <2>3. Promised
    BY DEF Init, Promised, RegisteredKeyStays
  <2> QED BY <2>1, <2>2, <2>3 DEF Kept
<1>2. Typed /\ Kept /\ [Next]_vars => Kept'
  <2> SUFFICES ASSUME Typed, Kept, [Next]_vars PROVE Kept'
    OBVIOUS
  <2>a. ASSUME UNCHANGED <<held, job>> PROVE Kept'
    BY <2>a DEF held, Kept, Apart, Loaded, Paired, Promised, RegisteredKeyStays
  <2>b. ring # "serving" => job = Idle
    BY DEF Typed, JobTyped
  <2>c. Idle.step = "none" /\ Idle.op = "none"
    BY IdleIsNoJob
  <2> HIDE DEF Idle
  <2>1. CASE KeyringStep
    BY <2>1, KeyringStepKeeps
  <2>2. ASSUME NEW c \in Clients, Elsewhere(c) PROVE Kept'
    BY <2>2, <2>a, ElsewhereMoves
  <2>3. ASSUME NEW c \in Clients, Begin(c) PROVE Kept'
    <3>1. /\ job = Idle /\ job'.step \in {"look", "export", "unload", "answer"} /\ job'.alias \in Aliases
          /\ job'.op = "create" => job'.step = "look"
          /\ told' = IF job'.op = "remove" THEN [told EXCEPT ![job'.alias] = NoKey] ELSE told
          /\ UNCHANGED <<private, public, exported, agent, minted, halved, stray>>
      BY <2>3, BeginMoves DEF Busy
    <3>2. Apart' /\ Loaded'
      BY <3>1, <2>c DEF Kept, Apart, Loaded
    <3>3. Paired'
      BY <3>1, <2>c DEF Kept, Paired
    <3>4. Promised'
      BY <3>1, <2>c DEF Kept, Promised, RegisteredKeyStays, Typed, DiskTyped, Halves
    <3> QED BY <3>2, <3>3, <3>4 DEF Kept
  <2>4. ASSUME NEW c \in Clients, NoSuchKey(c) PROVE Kept'
    BY <2>4, <2>a DEF NoSuchKey, Listening, Answer, held, disk, ghosts
  <2>5. CASE Serve
    BY <2>5, <2>a DEF Serve, held, disk, ghosts
  <2>6. CASE Boot
    <3>1. agent' = {} /\ job' = job /\ job = Idle
          /\ UNCHANGED <<private, public, exported, minted, told, halved, stray>>
      BY <2>6, <2>b DEF Boot, disk, ghosts
    <3> QED BY <3>1, <2>c DEF Kept, Apart, Loaded, Paired, Promised, RegisteredKeyStays
  <2>7. ASSUME NEW a \in Aliases, Publish(a) PROVE Kept'
    <3>1. /\ exported' = [exported EXCEPT ![a] = public[a]]
          /\ agent' = agent \union ({private[a]} \ {NoKey}) /\ job' = job /\ job = Idle
          /\ UNCHANGED <<private, public, minted, told, halved, stray>>
      BY <2>7, <2>b DEF Publish, ghosts
    <3>2. Apart' /\ Loaded'
      BY <3>1, <2>c DEF Kept, Apart, Loaded
    <3>3. Paired'
      BY <3>1, <2>c DEF Kept, Paired
    <3>4. Promised'
      BY <3>1, <2>c DEF Kept, Promised, RegisteredKeyStays, Paired, Typed, DiskTyped, Halves
    <3> QED BY <3>2, <3>3, <3>4 DEF Kept
  <2>8. CASE Crash
    <3>1. /\ job' = Idle /\ agent' = {}
          /\ halved' = halved \union (IF job.step \in {"half", "wiping", "unlink"} THEN {job.alias} ELSE {})
          /\ stray' = {} /\ UNCHANGED <<private, public, exported, minted, told>>
      BY <2>8 DEF Crash, disk
    <3>2. Apart' /\ Loaded'
      BY <3>1, <2>c DEF Kept, Apart, Loaded
    <3>3. Paired'
      BY <3>1, <2>c DEF Kept, Paired
    <3>4. Promised'
      BY <3>1, <2>c DEF Kept, Promised, RegisteredKeyStays
    <3> QED BY <3>2, <3>3, <3>4 DEF Kept
  <2>9. CASE UNCHANGED vars
    BY <2>9, <2>a DEF vars, held, disk, ghosts
  <2> QED BY <2>1, <2>2, <2>3, <2>4, <2>5, <2>6, <2>7, <2>8, <2>9, NextIs
<1> QED BY <1>1, <1>2, TypedHolds, PTL DEF Spec

(* keyring.ts: the key a create told stays the alias's, in both halves and *)
(* in what the editor mounts, until its removal is asked for; and the      *)
(* agent signs with no key that is gone from the disk, but one whose       *)
(* removal met the other half of another pair, which no removal does       *)
(* unless a crash has caught that alias between two files.                 *)
THEOREM KeyringKeysAreKept == ASSUME Constants PROVE Spec => []KeysAreKept
<1>1. Typed /\ Kept => KeysAreKept
  <2> SUFFICES ASSUME Typed, Kept, job.step = "unload", job.alias \notin halved
               PROVE  Named(job.alias) = private[job.alias]
    BY DEF Kept, Loaded, Promised, KeysAreKept
  <2>1. job.alias \in Aliases \ halved
    BY IdleIsNoJob DEF Typed, JobTyped, Busy
  <2>2. private[job.alias] = public[job.alias]
    BY <2>1 DEF Kept, Paired
  <2> QED BY <2>2 DEF Named
<1> QED BY <1>1, TypedHolds, KeptHolds, PTL

-----------------------------------------------------------------------------
(* The connections counted are those that are up.                          *)
Up == {c \in Clients : conn[c].up}
Counted == open = Cardinality(Up)
SetupTyped == setup \in [Clients -> Setups] /\ toLoad \subseteq Aliases

LEMMA UpIsFinite ==
  ASSUME Constants
  PROVE  /\ IsFiniteSet(Up) /\ Cardinality(Up) \in 0..Cardinality(Clients)
         /\ IsFiniteSet(Up') /\ Cardinality(Up') \in Nat
<1>1. Up \subseteq Clients /\ Up' \subseteq Clients
  BY DEF Up
<1> QED BY <1>1, FS_Subset, FS_CardinalityType DEF Constants

LEMMA CountedHolds ==
  ASSUME Constants
  PROVE  Spec => []Counted
<1> USE UpIsFinite
<1>1. Init => Counted
  <2> SUFFICES ASSUME Init PROVE Counted
    OBVIOUS
  <2>1. Up = {} /\ open = 0
    BY NoConnIsAConn DEF Init, Up
  <2> QED BY <2>1, FS_EmptySet DEF Counted
<1>2. Typed /\ Counted /\ [Next]_vars => Counted'
  <2> SUFFICES ASSUME Typed, Counted, [Next]_vars PROVE Counted'
    OBVIOUS
  <2>a. ASSUME open' = open, \A c \in Clients : conn'[c].up = conn[c].up PROVE Counted'
    <3>1. Up' = Up
      BY <2>a DEF Up
    <3> QED BY <2>a, <3>1 DEF Counted
  <2>1. CASE KeyringStep
    <3>1. open' = open
      BY <2>1, Zenon DEF KeyringStep, Keep, Generate, GenerateRest, Export, ExportFails, Load, Unload,
                         WipeFirst, WipeRest, UnlinkExport, Reply
    <3>2. \A c \in Clients : conn'[c].up = conn[c].up
      BY <2>1, StepMoves
    <3> QED BY <3>1, <3>2, <2>a
  <2>2. ASSUME NEW c \in Clients, Elsewhere(c) PROVE Counted'
    <3>1. CASE open' = open /\ \A d \in Clients : conn'[d].up = conn[d].up
      BY <3>1, <2>a
    <3>2. CASE /\ ~conn[c].up /\ open < Concurrent /\ conn'[c].up /\ open' = open + 1
               /\ \A d \in Clients \ {c} : conn'[d] = conn[d]
      <4>1. Up' = Up \union {c} /\ c \notin Up
        BY <3>2 DEF Up
      <4> QED BY <3>2, <4>1, FS_AddElement DEF Counted
    <3>3. CASE /\ conn[c].up /\ ~conn'[c].up /\ open' = open - 1
               /\ \A d \in Clients \ {c} : conn'[d] = conn[d]
      <4>1. Up' = Up \ {c} /\ c \in Up
        BY <3>3 DEF Up
      <4> QED BY <3>3, <4>1, FS_RemoveElement DEF Counted
    <3> QED BY <2>2, <3>1, <3>2, <3>3, ElsewhereMoves
  <2>3. ASSUME NEW c \in Clients, Begin(c) PROVE Counted'
    BY <2>3, <2>a, BeginMoves
  <2>4. ASSUME NEW c \in Clients, NoSuchKey(c) PROVE Counted'
    <3>1. Answer(c, "error", NoKey) /\ open' = open
      BY <2>4 DEF NoSuchKey
    <3> QED BY <3>1, <2>a, AnswerMoves DEF MaybeKey
  <2>5. CASE Boot \/ Serve \/ \E a \in Aliases : Publish(a)
    BY <2>5, <2>a DEF Boot, Serve, Publish
  <2>6. CASE Crash
    <3>1. \A c \in Clients : [NoConn EXCEPT !.got = conn[c].got].up = FALSE
      BY NoConnIsAConn DEF Typed, JobTyped, Conns
    <3>2. conn' = [c \in Clients |-> [NoConn EXCEPT !.got = conn[c].got]] /\ open' = 0
      BY <2>6 DEF Crash
    <3>3. Up' = {}
      <4> HIDE DEF NoConn
      <4> QED BY <3>1, <3>2 DEF Up
    <3> QED BY <3>2, <3>3, FS_EmptySet DEF Counted
  <2>7. CASE UNCHANGED vars
    BY <2>7, <2>a DEF vars
  <2> QED BY <2>1, <2>2, <2>3, <2>4, <2>5, <2>6, <2>7, NextIs
<1> QED BY <1>1, <1>2, TypedHolds, PTL DEF Spec

LEMMA LoadingTyped ==
  ASSUME Constants
  PROVE  Spec => []SetupTyped
<1>1. Init => SetupTyped
  BY DEF Init, SetupTyped, Setups, NoSetup
<1>2. SetupTyped /\ [Next]_vars => SetupTyped'
  <2> SUFFICES ASSUME SetupTyped, [Next]_vars
               PROVE  SetupTyped'
    OBVIOUS
  <2>1. CASE KeyringStep
    <3>1. UNCHANGED <<setup, toLoad>>
      BY <2>1, Zenon DEF KeyringStep, Keep, Generate, GenerateRest, Export, ExportFails, Load, Unload,
                         WipeFirst, WipeRest, UnlinkExport, Reply, newrepos
    <3> QED BY <3>1 DEF SetupTyped
  <2>2. ASSUME NEW c \in Clients, Elsewhere(c) PROVE SetupTyped'
    <3>1. toLoad' = toLoad
      BY <2>2, Zenon DEF Elsewhere, Ask, Close, NewrepoStep, EndSetup, Setup, Visit, Connect, GotKey,
         WriteBlock, WriteRewrites, SkipClone, Clone, PointOrigin, WriteIdentity, Populate, OnlyNewrepo
    <3>2. ASSUME NEW step \in {"block", "rewrites", "clone", "origin", "identity", "populate", "ready"},
                 GoOn(c, step)
          PROVE  setup' \in [Clients -> Setups]
      BY <3>2 DEF GoOn, SetupTyped, Setups
    <3>3. NewrepoStep(c) => setup' \in [Clients -> Setups]
      BY <3>2 DEF NewrepoStep, GotKey, WriteBlock, WriteRewrites, SkipClone, Clone, PointOrigin,
                  WriteIdentity, Populate
    <3>4. Ask(c) \/ Close(c) \/ (\E a \in Aliases : \E op \in Ops : Visit(c, op, a)) => setup' \in [Clients -> Setups]
      BY DEF Ask, Close, Visit, newrepos, SetupTyped
    <3>5. EndSetup(c) \/ (\E a \in Aliases : Setup(c, a)) => setup' \in [Clients -> Setups]
      BY DEF EndSetup, Setup, SetupTyped, Setups, NoSetup
    <3>6. setup' \in [Clients -> Setups]
      BY <2>2, <3>3, <3>4, <3>5, Zenon DEF Elsewhere
    <3> QED BY <3>1, <3>6 DEF SetupTyped
  <2>3. ASSUME NEW c \in Clients, Begin(c) \/ NoSuchKey(c) PROVE SetupTyped'
    BY <2>3 DEF Begin, NoSuchKey, newrepos, SetupTyped
  <2>4. CASE Boot \/ Serve \/ Crash \/ \E a \in Aliases : Publish(a)
    BY <2>4 DEF Boot, Serve, Crash, Publish, newrepos, Listed, SetupTyped
  <2>5. CASE UNCHANGED vars
    BY <2>5 DEF vars, newrepos, SetupTyped
  <2> QED BY <2>1, <2>2, <2>3, <2>4, <2>5, NextIs
<1> QED BY <1>1, <1>2, PTL DEF Spec

(* Every variable keeps its type, the count of connections among them: it  *)
(* is never less than none, and never more than there are clients.         *)
THEOREM KeyringTypeCorrect == ASSUME Constants PROVE Spec => []TypeOK
<1>1. Typed /\ Counted /\ SetupTyped => TypeOK
  <2> SUFFICES ASSUME Typed, Counted, SetupTyped PROVE TypeOK
    OBVIOUS
  <2>1. open \in 0..Cardinality(Clients)
    BY UpIsFinite DEF Counted
  <2>2. job = Idle \/ (job.client \in Clients /\ job.step \in Steps /\ job.op \in Ops)
    BY DEF Typed, JobTyped, Busy
  <2>3. ASSUME NEW c \in Clients
        PROVE  /\ conn[c].up \in BOOLEAN /\ conn[c].asked \in BOOLEAN
               /\ conn[c].got \in {"nothing", "key", "error"} /\ conn[c].key \in MaybeKey
               /\ setup[c].step \in {"idle", "key", "block", "rewrites", "clone", "origin",
                                     "identity", "populate", "ready"}
    BY DEF Typed, JobTyped, Conns, SetupTyped, Setups
  <2>4. /\ ring \in {"down", "starting", "serving"}
        /\ private \in [Aliases -> MaybeKey] /\ public \in [Aliases -> MaybeKey]
        /\ exported \in [Aliases -> MaybeKey] /\ told \in [Aliases -> MaybeKey]
        /\ toLoad \subseteq Aliases /\ agent \subseteq Keys /\ minted \subseteq Keys /\ halved \subseteq Aliases
        /\ stray \subseteq Keys
    BY DEF Typed, JobTyped, DiskTyped, Halves, SetupTyped
  <2> QED BY <2>1, <2>2, <2>3, <2>4 DEF TypeOK
<1> QED BY <1>1, TypedHolds, CountedHolds, LoadingTyped, PTL
=============================================================================
