------------------------------ MODULE PiecesProofs ------------------------------
(* What holds of the smaller parts, each whatever its constants.           *)
EXTENDS Pieces, TLAPS, FiniteSetTheorems, SequenceTheorems, WellFoundedInduction

-----------------------------------------------------------------------------
(* Admission.                                                              *)
(* Who may be passed on: whoever does not name another's host, began with  *)
(* too little to tell, or ended half way.  Nobody is dialled for, and      *)
(* nothing passed on from, any other, and what is judged is what a first   *)
(* read held.                                                              *)
Allowed ==
  client.kind \in A!Anothers => (client.kind \notin A!Tls /\ atFirst = A!Part) \/ A!CutOff
Judged ==
  /\ step = "connect" \/ toServer => Allowed
  /\ step \in {"classify", "raced", "late"} => atFirst # A!NoBytes
  /\ toServer => step \in {"pump", "ended"}

(* An upstream that is open is one close() will find, and a connection     *)
(* that had begun when the listener closed is over.                        *)
Reached ==
  /\ upstream = "open" => tracked
  /\ step = "accepted" => upstream = "none" /\ ~tracked
  /\ A!CloseReachesAll

(* The peers' own moves: the client stays of its kind, and one that ended  *)
(* says no more.                                                           *)
LEMMA PeersMove ==
  ASSUME A!TypeOK, A!ClientSends \/ A!ClientEnds \/ A!ServerSpeaks
  PROVE  /\ client'.kind = client.kind /\ (A!CutOff => client' = client)
         /\ UNCHANGED <<atFirst, step, upstream, tracked, toServer, toClient, listener, late>>
<1>1. CASE A!ClientSends \/ A!ClientEnds
  BY <1>1 DEF A!TypeOK, A!ClientSends, A!ClientEnds, A!CutOff, A!passed, A!shut
<1>2. CASE A!ServerSpeaks
  BY <1>2 DEF A!ServerSpeaks, A!passed, A!shut
<1> QED BY <1>1, <1>2

(* Whoever classify and admits let through is allowed.                     *)
LEMMA AdmittedIsAllowed ==
  ASSUME A!TypeOK, atFirst # A!NoBytes, A!Classified, A!Admits \/ A!SomethingElse
  PROVE  Allowed
<1>1. client.sent \in 0..4 /\ atFirst \in 1..4
  BY DEF A!TypeOK, A!Amounts, A!NoBytes, A!Whole
<1>2. CASE A!SomethingElse
  <2>1. CASE A!TooLittle
    <3>1. client.kind \notin A!Tls /\ atFirst = A!Part
      BY <1>1, <2>1 DEF A!TooLittle, A!Begun, A!Part
    <3> QED BY <3>1 DEF Allowed
  <2>2. CASE client.kind = "neither"
    BY <2>2 DEF Allowed, A!Anothers
  <2>3. CASE ~A!TooLittle /\ client.kind # "neither" /\ client.sent < A!Line
    <3>1. client.sent # A!Whole
      BY <1>1, <2>3 DEF A!Line, A!Whole
    <3>2. ~client.open
      BY <2>3, <3>1 DEF A!Classified
    <3> QED BY <3>1, <3>2 DEF A!CutOff, Allowed
  <2> QED BY <1>2, <2>1, <2>2, <2>3 DEF A!SomethingElse
<1>3. CASE ~A!SomethingElse
  BY <1>3 DEF A!Admits, Allowed
<1> QED BY <1>2, <1>3

(* Every variable of a connection keeps its type.                          *)
THEOREM AdmissionTypeCorrect == A!Spec => []A!TypeOK
<1> DEFINE ClientOK == client \in [kind : A!Kinds, sent : A!Amounts, open : BOOLEAN] /\ atFirst \in A!Amounts
           ServerOK == server \in [says : {"http", "else"}, spoke : BOOLEAN]
           RestOK == /\ step \in A!Steps /\ upstream \in {"none", "open", "closed"}
                     /\ tracked \in BOOLEAN /\ toServer \in BOOLEAN /\ late \in BOOLEAN
                     /\ toClient \in {"nothing", "http", "else"} /\ listener \in {"open", "closed"}
<1>1. A!Init => A!TypeOK
  <2> SUFFICES ASSUME A!Init PROVE A!TypeOK
    OBVIOUS
  <2>1. PICK kind \in A!Kinds : client = [kind |-> kind, sent |-> A!NoBytes, open |-> TRUE]
    BY DEF A!Init
  <2>2. PICK says \in {"http", "else"} : server = [says |-> says, spoke |-> FALSE]
    BY DEF A!Init
  <2>3. ClientOK
    BY <2>1 DEF A!Init, A!Amounts, A!NoBytes, A!Whole
  <2>4. ServerOK
    BY <2>2
  <2>5. RestOK
    BY DEF A!Init, A!Steps
  <2> QED
    BY <2>3, <2>4, <2>5 DEF A!TypeOK
<1>2. A!TypeOK /\ [A!Next]_A!vars => A!TypeOK'
  <2> SUFFICES ASSUME A!TypeOK, [A!Next]_A!vars PROVE A!TypeOK'
    OBVIOUS
  <2>1. ClientOK /\ ServerOK /\ RestOK
    BY DEF A!TypeOK
  <2>2. ClientOK'
    <3>1. CASE A!ClientSends
      BY <2>1, <3>1 DEF A!ClientSends
    <3>2. CASE A!ClientEnds
      BY <2>1, <3>2 DEF A!ClientEnds
    <3>3. CASE A!FirstBytes \/ A!RaceToClient \/ A!Answer
      <4>1. client' = client /\ atFirst' = client.sent
        BY <3>3 DEF A!FirstBytes, A!RaceToClient, A!Answer
      <4> QED BY <2>1, <4>1
    <3>4. CASE UNCHANGED <<client, atFirst>>
      BY <2>1, <3>4
    <3> QED
      BY <3>1, <3>2, <3>3, <3>4 DEF A!Next, A!vars, A!peers, A!ServerSpeaks, A!AcceptBegins, A!FirstBytes, A!ClientFirst,
         A!Connect, A!DoesNotAnswer, A!RaceToClient, A!RaceClassified, A!Greeting, A!Answer, A!AnswerClassified,
         A!TooSlow, A!PumpToClient, A!PumpEnds, A!ListenerCloses
  <2>3. ServerOK'
    <3>1. CASE A!ServerSpeaks
      BY <2>1, <3>1 DEF A!ServerSpeaks
    <3>2. CASE UNCHANGED server
      BY <2>1, <3>2
    <3> QED
      BY <3>1, <3>2 DEF A!Next, A!vars, A!peers, A!ClientSends, A!ClientEnds, A!AcceptBegins, A!FirstBytes, A!ClientFirst,
         A!Connect, A!DoesNotAnswer, A!RaceToClient, A!RaceClassified, A!Greeting, A!Answer, A!AnswerClassified,
         A!TooSlow, A!PumpToClient, A!PumpEnds, A!ListenerCloses
  <2>4. RestOK'
    <3> USE <2>1 DEF A!Steps, A!passed, A!shut
    <3>1. CASE A!ClientSends \/ A!ClientEnds \/ A!ServerSpeaks
      BY <3>1, PeersMove
    <3>2. CASE A!AcceptBegins \/ A!FirstBytes \/ A!ClientFirst \/ A!Connect \/ A!DoesNotAnswer
      BY <3>2 DEF A!AcceptBegins, A!FirstBytes, A!ClientFirst, A!Connect, A!DoesNotAnswer, A!Tracks
    <3>3. CASE A!RaceToClient
      BY <3>3 DEF A!RaceToClient, A!Drop, A!PassesEarly
    <3>4. CASE A!RaceClassified
      BY <3>4 DEF A!RaceClassified, A!Drop
    <3>5. CASE A!Greeting \/ A!Answer \/ A!AnswerClassified \/ A!TooSlow
      BY <3>5 DEF A!Greeting, A!Answer, A!AnswerClassified, A!TooSlow, A!Drop
    <3>6. CASE A!PumpToClient \/ A!PumpEnds \/ A!ListenerCloses
      BY <3>6 DEF A!PumpToClient, A!PumpEnds, A!ListenerCloses, A!Drop
    <3>7. CASE UNCHANGED A!vars
      BY <3>7 DEF A!vars
    <3> QED
      BY <3>1, <3>2, <3>3, <3>4, <3>5, <3>6, <3>7 DEF A!Next
  <2> QED
    BY <2>2, <2>3, <2>4 DEF A!TypeOK
<1> QED BY <1>1, <1>2, PTL DEF A!Spec

(* By no order of first words does a request or a hello that names         *)
(* another's host reach this port's server (ingress.py:415-484), unless    *)
(* its first read held less than a method and a space, or its sender ended *)
(* half way.                                                               *)
THEOREM AdmissionMisdirectsNothing == A!Spec => []A!NothingMisdirected
<1> USE DEF Judged
<1>1. A!Init => Judged
  BY DEF A!Init
<1>2. A!TypeOK /\ Judged /\ [A!Next]_A!vars => Judged'
  <2> SUFFICES ASSUME A!TypeOK, Judged, [A!Next]_A!vars PROVE Judged'
    OBVIOUS
  <2> DEFINE Same == client' = client /\ atFirst' = atFirst
             Quiet == step' # "connect" /\ toServer' = toServer
             Judging(at) == at \in {"classify", "raced", "late"}
  <2> USE DEF A!peers, A!passed, A!shut
  <2>0. ASSUME Same, Allowed PROVE Allowed'
    BY <2>0 DEF Allowed, A!CutOff, A!Part, A!Whole
  <2>1. CASE A!ClientSends \/ A!ClientEnds \/ A!ServerSpeaks
    <3>1. /\ client'.kind = client.kind /\ (A!CutOff => client' = client)
          /\ UNCHANGED <<atFirst, step, toServer>>
      BY <2>1, PeersMove
    <3>2. Allowed => Allowed'
      BY <3>1 DEF Allowed, A!CutOff, A!Part, A!Whole
    <3> QED BY <3>1, <3>2 DEF A!NoBytes
  <2>2. CASE A!AcceptBegins \/ A!DoesNotAnswer \/ A!TooSlow \/ A!PumpToClient \/ A!PumpEnds
             \/ A!Greeting \/ A!ListenerCloses \/ UNCHANGED A!vars
    <3>1. Same /\ toServer' = toServer /\ (step' = step \/ (step' # "connect" /\ ~Judging(step')))
          /\ (step \in {"pump", "ended"} => step' \in {"pump", "ended"})
      BY <2>2 DEF A!AcceptBegins, A!DoesNotAnswer, A!TooSlow, A!PumpToClient, A!PumpEnds, A!Drop,
         A!Greeting, A!ListenerCloses, A!vars
    <3> QED BY <2>0, <3>1 DEF A!NoBytes
  <2>3. CASE A!FirstBytes \/ A!RaceToClient \/ A!Answer
    <3>1. client' = client /\ Quiet /\ atFirst' = client.sent
      BY <2>3 DEF A!FirstBytes, A!RaceToClient, A!Answer, A!Drop
    <3>2. Judging(step') => atFirst' # A!NoBytes
      BY <2>3 DEF A!FirstBytes, A!RaceToClient, A!Answer, A!Drop
    <3>3. ~toServer
      BY <2>3 DEF A!FirstBytes, A!RaceToClient, A!Answer
    <3> QED BY <3>1, <3>2, <3>3 DEF A!NoBytes
  <2>4. CASE A!ClientFirst
    <3>1. Same /\ toServer' = toServer /\ ~Judging(step') /\ (step' = "connect" => A!Admits) /\ ~toServer
      BY <2>4 DEF A!ClientFirst
    <3>2. step' = "connect" => Allowed
      BY <2>4, <3>1, AdmittedIsAllowed DEF A!ClientFirst
    <3> QED BY <2>0, <3>1, <3>2
  <2>5. CASE A!Connect
    <3>1. Same /\ step' \in {"pump", "race"} /\ (toServer' => step = "connect" /\ step' = "pump")
      BY <2>5 DEF A!Connect
    <3> QED BY <2>0, <3>1
  <2>6. CASE A!RaceClassified \/ A!AnswerClassified
    <3>1. Same /\ step' \in {"pump", "ended"}
      BY <2>6 DEF A!RaceClassified, A!AnswerClassified, A!Drop
    <3>2. toServer' = toServer \/ (A!Classified /\ (A!Admits \/ A!SomethingElse) /\ Judging(step))
      BY <2>6 DEF A!RaceClassified, A!AnswerClassified
    <3>3. toServer' = toServer \/ Allowed
      BY <3>2, AdmittedIsAllowed
    <3> QED BY <2>0, <3>1, <3>3
  <2> HIDE DEF Judged
  <2> QED
    BY <2>1, <2>2, <2>3, <2>4, <2>5, <2>6 DEF A!Next
<1>3. Judged => A!NothingMisdirected
  BY DEF Allowed, A!NothingMisdirected
<1> QED BY <1>1, <1>2, <1>3, AdmissionTypeCorrect, PTL DEF A!Spec

(* A listener's close ends each of its connections, at whatever step of    *)
(* their admission it comes, and leaves none of them an upstream           *)
(* (ingress.py:541): every upstream is tracked from the moment it is open. *)
THEOREM AdmissionCloseReaches == A!Spec => []A!CloseReachesAll
<1> USE DEF A!TypeOK, A!Steps, Reached, A!CloseReachesAll, A!peers, A!passed, A!shut
<1>1. A!Init => Reached
  BY DEF A!Init
<1>2. A!TypeOK /\ Reached /\ [A!Next]_A!vars => Reached'
  <2> SUFFICES ASSUME A!TypeOK, Reached, [A!Next]_A!vars PROVE Reached'
    OBVIOUS
  <2>1. CASE A!ClientSends \/ A!ClientEnds \/ A!ServerSpeaks
    BY <2>1, PeersMove
  <2>2. CASE A!AcceptBegins \/ A!FirstBytes \/ A!ClientFirst \/ A!DoesNotAnswer
    BY <2>2 DEF A!AcceptBegins, A!FirstBytes, A!ClientFirst, A!DoesNotAnswer
  <2>3. CASE A!Connect
    BY <2>3 DEF A!Connect, A!Tracks
  <2>4. CASE A!RaceToClient \/ A!RaceClassified \/ A!Greeting \/ A!Answer \/ A!AnswerClassified
    BY <2>4 DEF A!RaceToClient, A!RaceClassified, A!Greeting, A!Answer, A!AnswerClassified, A!Drop
  <2>5. CASE A!TooSlow \/ A!PumpToClient \/ A!PumpEnds
    BY <2>5 DEF A!TooSlow, A!PumpToClient, A!PumpEnds, A!Drop
  <2>6. CASE A!ListenerCloses
    <3>1. CASE step = "accepted"
      <4>1. late' = (step = "accepted")
        BY <2>6, Zenon DEF A!ListenerCloses
      <4>2. late'
        BY <3>1, <4>1, Zenon
      <4>3. upstream = "none" /\ ~tracked /\ tracked' = tracked
        BY <2>6, <3>1, Zenon DEF A!ListenerCloses
      <4>4. upstream' = "none"
        BY <2>6, <4>3 DEF A!ListenerCloses
      <4>5. A!CloseReachesAll'
        BY <4>2, Zenon
      <4> QED
        BY <4>3, <4>4, <4>5, Zenon
    <3>2. CASE step # "accepted"
      <4>1. tracked' = tracked /\ step' = "ended" /\ (upstream' = "closed" \/ (~tracked /\ upstream' = upstream))
        BY <2>6, <3>2, Zenon DEF A!ListenerCloses
      <4>2. upstream' # "open"
        BY <4>1, Zenon
      <4> QED
        BY <4>1, <4>2
    <3> QED
      BY <3>1, <3>2
  <2>7. CASE UNCHANGED A!vars
    BY <2>7 DEF A!vars
  <2> QED
    BY <2>1, <2>2, <2>3, <2>4, <2>5, <2>6, <2>7 DEF A!Next
<1>3. Reached => A!CloseReachesAll
  OBVIOUS
<1> QED BY <1>1, <1>2, <1>3, AdmissionTypeCorrect, PTL DEF A!Spec

-----------------------------------------------------------------------------
(* Views.  Versions are numbers, from 0.                                   *)
ViewsConstants == ForViews.Versions \subseteq Nat /\ 0 \in ForViews.Versions

(* Every volume, and every start, is of a version there has been.          *)
THEOREM ViewsTypeCorrect ==
  ASSUME ViewsConstants PROVE  V!Spec => []V!TypeOK
<1> USE DEF V!TypeOK, V!Steps, ViewsConstants
<1>1. V!Init => V!TypeOK
  BY DEF V!Init, V!NoView, V!NoVolume
<1>2. V!TypeOK /\ [V!Next]_V!vars => V!TypeOK'
  <2> SUFFICES ASSUME V!TypeOK, [V!Next]_V!vars PROVE V!TypeOK'
    OBVIOUS
  <2> USE DEF V!At, V!Goes
  <2>1. CASE V!Reuse
    BY <2>1 DEF V!Reuse
  <2>2. CASE V!Discard
    BY <2>2 DEF V!Discard, V!CleansUp, V!Removed, V!NoView, V!NoVolume
  <2>3. CASE V!CreateData \/ V!Prepare
    BY <2>3 DEF V!CreateData, V!Prepare
  <2>4. CASE V!CreateOverlay
    BY <2>4 DEF V!CreateOverlay
  <2>5. CASE V!Prove \/ V!Killed \/ V!Up
    BY <2>5 DEF V!Prove, V!Killed, V!Up
  <2>6. CASE V!Failed
    BY <2>6 DEF V!Failed, V!CleansUp, V!Removed, V!NoView, V!NoVolume
  <2>7. CASE V!Writes
    BY <2>7 DEF V!Writes
  <2>8. CASE V!Stops \/ V!RemoveBox \/ V!Upgrade
    BY <2>8 DEF V!Stops, V!RemoveBox, V!Upgrade
  <2>9. CASE V!PurgeViews
    BY <2>9 DEF V!PurgeViews, V!NoView, V!NoVolume
  <2>10. CASE V!Prune
    BY <2>10 DEF V!Prune, V!Removed, V!NoView, V!NoVolume
  <2>11. CASE UNCHANGED V!vars
    BY <2>11 DEF V!vars
  <2> QED
    BY <2>1, <2>2, <2>3, <2>4, <2>5, <2>6, <2>7, <2>8, <2>9, <2>10, <2>11 DEF V!Next
<1> QED BY <1>1, <1>2, PTL DEF V!Spec

(* What is in upper/ is never older than what the view over it is stamped  *)
(* with, nor, once a start has seen to it, than what that start wants.     *)
NotOlder(key) == \A v \in data.upper : v >= key
Layered ==
  /\ ensure.want <= lower
  /\ view.is => view.key <= lower /\ NotOlder(view.key)
  /\ ~V!At("idle") => NotOlder(ensure.want)

(* The view a start is about to mount holds no file that was written over  *)
(* an older version than the one it wants (desolate.ts overlay,            *)
(* overlay.ts identityFile): with any number of upgrades, of kills and of  *)
(* volumes pruned in between.                                              *)
THEOREM ViewsNothingOldShadows ==
  ASSUME ViewsConstants PROVE  V!Spec => []V!NothingOldShadows
<1>1. V!Init => Layered
  BY DEF ViewsConstants, V!Init, Layered, V!At, NotOlder, V!NoView, V!NoVolume
<1>2. V!TypeOK /\ Layered /\ [V!Next]_V!vars => Layered'
  <2> SUFFICES ASSUME V!TypeOK, Layered, [V!Next]_V!vars PROVE Layered'
    OBVIOUS
  <2> USE DEF V!TypeOK, V!Steps, V!At, V!Goes, Layered, NotOlder, ViewsConstants
  <2>1. CASE V!Reuse
    BY <2>1 DEF V!Reuse, V!Intact
  <2>2. CASE V!Discard
    BY <2>2 DEF V!Discard, V!CleansUp, V!Removed, V!NoView, V!NoVolume
  <2>3. CASE V!CreateData \/ V!Prepare
    BY <2>3 DEF V!CreateData, V!Prepare
  <2>4. CASE V!CreateOverlay
    BY <2>4 DEF V!CreateOverlay
  <2>5. CASE V!Prove \/ V!Killed \/ V!Up
    BY <2>5 DEF V!Prove, V!Killed, V!Up
  <2>6. CASE V!Failed \/ V!Prune
    BY <2>6 DEF V!Failed, V!Prune, V!CleansUp, V!Removed, V!NoView, V!NoVolume
  <2>7. CASE V!Writes
    BY <2>7 DEF V!Writes
  <2>8. CASE V!Stops \/ V!RemoveBox
    BY <2>8 DEF V!Stops, V!RemoveBox
  <2>9. CASE V!Upgrade
    <3>1. lower \in Nat /\ ensure.want \in Nat /\ view.key \in Nat
      OBVIOUS
    <3>2. lower' = lower + 1 /\ view' = view /\ data' = data /\ ensure' = ensure
      BY <2>9 DEF V!Upgrade
    <3> QED
      BY <3>1, <3>2
  <2>10. CASE V!PurgeViews
    BY <2>10 DEF V!PurgeViews, V!NoView, V!NoVolume
  <2>11. CASE UNCHANGED V!vars
    BY <2>11 DEF V!vars
  <2> QED
    BY <2>1, <2>2, <2>3, <2>4, <2>5, <2>6, <2>7, <2>8, <2>9, <2>10, <2>11 DEF V!Next
<1>3. Layered => V!NothingOldShadows
  BY DEF Layered, V!NothingOldShadows, V!At, NotOlder
<1>4. V!Spec => []V!TypeOK
  BY ViewsTypeCorrect
<1> QED BY <1>1, <1>2, <1>3, <1>4, PTL DEF V!Spec

-----------------------------------------------------------------------------
(* The editor's panel.  A push carries the commit its question named, and  *)
(* what it has bundled is that commit, if one was named.                   *)
PanelConstants == ForPanel.Commits \in Nat \ {0}
Seen == 0..ForPanel.Commits
Actions ==
  {c \in [op : {"none", "start", "stop", "review", "push"},
          step : {"idle", "running", "read", "kept", "bundled"},
          expect : Seen, got : Seen, allow : BOOLEAN, asked : Seen] :
     /\ c.op = "push" => c.expect = c.asked
     /\ c.step = "bundled" => c.op = "push" /\ c.expect \in {0, c.got}}
Carried ==
  /\ atCommit \in 1..ForPanel.Commits
  /\ {atGithub, keptReview, reviewing} \subseteq Seen
  /\ calls \in [ForPanel.Slots -> Actions]
  /\ doing \in {"none", "start", "stop", "review", "push"}
  /\ dialog \in [asks : {"none", "push", "anyway"}, review : Seen]

LEMMA CarriedInitially == ASSUME PanelConstants, Z!Init PROVE Carried
<1>1. Z!Idle \in Actions
  BY PanelConstants DEF PanelConstants, Z!Idle, Actions, Seen
<1>2. Z!NoDialog \in [asks : {"none", "push", "anyway"}, review : Seen]
  BY PanelConstants DEF PanelConstants, Z!NoDialog, Seen
<1> QED BY <1>1, <1>2 DEF PanelConstants, Z!Init, Carried, Seen

(* An action begins, and it ends.                                          *)
LEMMA ActionBegins ==
  ASSUME PanelConstants, Carried, NEW i \in ForPanel.Slots,
         NEW op \in {"start", "stop", "review", "push"}, NEW expect \in Seen, NEW allow \in BOOLEAN,
         Z!Begin(i, op, expect, allow, expect)
  PROVE  calls' \in [ForPanel.Slots -> Actions] /\ doing' = op
<1> DEFINE begun == [op |-> op, step |-> "running", expect |-> expect, got |-> 0,
                     allow |-> allow, asked |-> expect]
<1>1. begun \in Actions
  BY PanelConstants DEF PanelConstants, Actions, Seen
<1>2. calls' = [calls EXCEPT ![i] = begun] /\ doing' = op
  BY DEF Z!Begin
<1> QED BY <1>1, <1>2 DEF Carried

LEMMA CarriedStep == ASSUME PanelConstants, Carried, [Z!Next]_Z!vars PROVE Carried'
<1> USE DEF Carried, Z!world
<1>1. Z!Idle \in Actions /\ 0 \in Seen /\ atCommit \in Seen
  BY PanelConstants DEF PanelConstants, Z!Idle, Actions, Seen
<1>2. \A i \in ForPanel.Slots : Z!Ends(i) => Carried!3' /\ Carried!4'
  BY <1>1 DEF Z!Ends
<1>3. CASE Z!AgentCommits
  BY <1>3, PanelConstants DEF Z!AgentCommits, PanelConstants
<1>4. ASSUME NEW i \in ForPanel.Slots, Z!Command(i) \/ Z!ReviewRefresh(i) PROVE Carried'
  <2>1. PICK op \in {"start", "stop", "review"} : Z!Begin(i, op, 0, FALSE, 0)
    BY <1>4 DEF Z!Command, Z!ReviewRefresh, Z!BeginReview
  <2>2. calls' \in [ForPanel.Slots -> Actions] /\ doing' = op
    BY <1>1, <2>1, ActionBegins, PanelConstants
  <2> QED BY <1>4, <2>2 DEF Z!Command, Z!ReviewRefresh, Z!BeginReview
<1>5. ASSUME NEW i \in ForPanel.Slots, Z!Fails(i) \/ Z!Done(i) PROVE Carried'
  BY <1>2, <1>5 DEF Z!Fails, Z!Done
<1>6. ASSUME NEW i \in ForPanel.Slots, Z!ReviewReads(i) PROVE Carried'
  <2>1. [calls[i] EXCEPT !.step = "read", !.got = atCommit] \in Actions
    BY <1>1, <1>6 DEF Z!ReviewReads, Actions
  <2> QED BY <1>6, <2>1 DEF Z!ReviewReads
<1>7. ASSUME NEW i \in ForPanel.Slots, Z!ReviewKept(i) PROVE Carried'
  <2>1. [calls[i] EXCEPT !.step = "kept"] \in Actions /\ calls[i].got \in Seen
    BY <1>7 DEF Z!ReviewKept, Actions
  <2> QED BY <1>7, <2>1 DEF Z!ReviewKept
<1>8. ASSUME NEW i \in ForPanel.Slots, Z!ReviewShown(i) PROVE Carried'
  <2>1. calls[i].got \in Seen
    BY DEF Actions
  <2> QED BY <1>2, <1>8, <2>1 DEF Z!ReviewShown
<1>9. ASSUME NEW i \in ForPanel.Slots, Z!PushConfirmed(i) PROVE Carried'
  <2>1. Z!Begin(i, "push", dialog.review, dialog.asks = "anyway", dialog.review)
    BY <1>9 DEF Z!PushConfirmed, Z!Expected
  <2>2. calls' \in [ForPanel.Slots -> Actions] /\ doing' = "push"
    BY <2>1, ActionBegins, PanelConstants
  <2> QED BY <1>1, <1>9, <2>2 DEF Z!PushConfirmed, Z!NoDialog
<1>10. ASSUME NEW i \in ForPanel.Slots, Z!PushBundles(i) PROVE Carried'
  <2>1. /\ calls[i] \in Actions /\ calls[i].op = "push" /\ calls[i].expect \in {0, atCommit}
        /\ calls' = [calls EXCEPT ![i] = [calls[i] EXCEPT !.step = "bundled", !.got = atCommit]]
    BY <1>10 DEF Z!PushBundles
  <2>2. [calls[i] EXCEPT !.step = "bundled", !.got = atCommit] \in Actions
    BY <1>1, <2>1 DEF Actions
  <2> QED BY <1>10, <2>1, <2>2 DEF Z!PushBundles
<1>11. ASSUME NEW i \in ForPanel.Slots, Z!PushRefusedForDefault(i) PROVE Carried'
  <2>1. calls[i].asked \in Seen
    BY DEF Actions
  <2> QED BY <1>2, <1>11, <2>1 DEF Z!PushRefusedForDefault
<1>12. ASSUME NEW i \in ForPanel.Slots, Z!Pushes(i) PROVE Carried'
  <2>1. calls[i].got \in Seen
    BY DEF Actions
  <2>2. [Z!Idle EXCEPT !.op = "review", !.step = "running"] \in Actions
    BY <1>1 DEF Actions, Z!Idle
  <2> QED BY <1>2, <1>12, <2>1, <2>2 DEF Z!Pushes
<1>13. CASE Z!ReviewClose \/ Z!PushAsks \/ Z!PushDismissed
  BY <1>1, <1>13 DEF Z!ReviewClose, Z!PushAsks, Z!PushDismissed, Z!NoDialog
<1>14. CASE UNCHANGED Z!vars
  BY <1>14 DEF Z!vars
<1> QED BY <1>3, <1>4, <1>5, <1>6, <1>7, <1>8, <1>9, <1>10, <1>11, <1>12, <1>13, <1>14 DEF Z!Next

(* Whatever the branch, the view and other actions do meanwhile: a push    *)
(* puts on GitHub the commit its question named, if it named one           *)
(* (extension.mts push).                                                   *)
THEOREM PanelPushesWhatWasAsked == ASSUME PanelConstants PROVE Z!Spec => Z!PushedIsWhatWasAsked
<1>1. Carried /\ [Z!Next]_Z!vars => [Z!SendsWhatWasAsked]_Z!vars
  <2> SUFFICES ASSUME Carried, Z!Next, atGithub' # atGithub
               PROVE  \E i \in ForPanel.Slots : /\ calls[i].op = "push" /\ calls'[i] # calls[i]
                                                /\ calls[i].asked \in {0, atGithub'}
    BY DEF Z!SendsWhatWasAsked
  <2>1. PICK i \in ForPanel.Slots : Z!Pushes(i)
    BY DEF Z!Next, Z!AgentCommits, Z!Command, Z!ReviewRefresh, Z!BeginReview, Z!Fails, Z!Done,
       Z!ReviewReads, Z!ReviewKept, Z!ReviewShown, Z!PushConfirmed, Z!PushBundles,
       Z!PushRefusedForDefault, Z!ReviewClose, Z!PushAsks, Z!PushDismissed, Z!world
  <2>2. calls[i].step = "bundled" /\ atGithub' = calls[i].got
    BY <2>1 DEF Z!Pushes
  <2>3. calls[i].op = "push" /\ calls[i].asked \in {0, atGithub'}
    BY <2>2 DEF Carried, Actions
  <2>4. \/ calls' = [calls EXCEPT ![i] = Z!Idle]
        \/ calls' = [calls EXCEPT ![i] = [Z!Idle EXCEPT !.op = "review", !.step = "running"]]
    BY <2>1 DEF Z!Pushes, Z!Ends
  <2>5. Z!Idle.step = "idle" /\ [Z!Idle EXCEPT !.op = "review", !.step = "running"].step = "running"
    BY DEF Z!Idle
  <2>6. calls'[i].step \in {"idle", "running"}
    BY <2>4, <2>5 DEF Carried
  <2> QED BY <2>2, <2>3, <2>6
<1>2. Z!Init => Carried
  BY CarriedInitially
<1>3. Carried /\ [Z!Next]_Z!vars => Carried'
  BY CarriedStep
<1> QED BY <1>1, <1>2, <1>3, PTL DEF Z!Spec, Z!PushedIsWhatWasAsked

(* What the panel shows, keeps and is reviewing are commits the project    *)
(* has (extension.mts).                                                    *)
THEOREM PanelTypeCorrect == ASSUME PanelConstants PROVE Z!Spec => []Z!TypeOK
<1>1. Z!Init => Carried
  BY CarriedInitially
<1>2. Carried /\ [Z!Next]_Z!vars => Carried'
  BY CarriedStep
<1>3. Carried => Z!TypeOK
  BY DEF Carried, Z!TypeOK, Seen
<1> QED BY <1>1, <1>2, <1>3, PTL DEF Z!Spec

-----------------------------------------------------------------------------
(* Worktrees.  git's admin directories are those of worktrees that are     *)
(* there, each the one the worktree's own .git file names.                 *)
WorktreesConstants ==
  /\ ForWorktrees.None \notin W!Trees \union W!Admins

Placed == /\ dir \in [W!Trees -> {"none", "bare", "files"}]
          /\ pointer \in [W!Trees -> W!Admins \union {ForWorktrees.None}]
          /\ admin \in [W!Admins -> [of : W!Trees \union {ForWorktrees.None},
                                     index : BOOLEAN, locked : BOOLEAN]]
          /\ \A n \in W!Admins : admin[n].of # ForWorktrees.None =>
               dir[admin[n].of] # "none" /\ pointer[admin[n].of] = n
Sandboxes == [at : {"done", "add", "lock", "checkout", "status", "unlock", "remove", "relock"},
              code : 0..5, force : BOOLEAN]
Holders == [op : {"none", "create", "checkout", "start", "asked", "remove"}, force : BOOLEAN]
MainKinds == [box : {"none", "stopped", "running"}, masked : BOOLEAN,
              start : {"none", "decided", "up"}, mask : BOOLEAN]
Kinds == /\ holder \in [ForWorktrees.Ours -> Holders]
         /\ sandbox \in [ForWorktrees.Ours -> Sandboxes]
         /\ main \in MainKinds
         /\ made \in BOOLEAN
(* A mask is decided when every worktree under it is locked, and is then a *)
(* container's as it was decided; what is not locked by now came later.    *)
Masked == risked = {} /\ (main.mask => atStart = {})
(* Work is in files; a worktree that is being asked was asked in this      *)
(* sandbox; and the one that is being removed without force had none, but  *)
(* what was put there since.                                               *)
AskedOf(w) ==
  /\ holder[w].op = "asked" => sandbox[w].at \in {"status", "done"}
  /\ w \in dirty \ since =>
       /\ sandbox[w].at \in {"unlock", "remove"} => sandbox[w].force
       /\ holder[w].op = "asked" /\ sandbox[w].at = "done" => sandbox[w].code # 0
Asked == /\ \A t \in dirty : t \in W!Trees /\ dir[t] = "files"
         /\ \A w \in ForWorktrees.Ours : AskedOf(w)

LEMMA PlacedInitially == ASSUME WorktreesConstants, W!Init PROVE Placed
BY DEF WorktreesConstants, W!Init, Placed, W!Gone

(* What the main tree's own steps leave alone.                             *)
LEMMA MainStepsLeave ==
  ASSUME W!MainSteps
  PROVE  UNCHANGED <<dir, pointer, admin, dirty, made, holder, sandbox, up, since>>
BY DEF W!MainSteps, W!DecideMask, W!MainUp, W!MainRecreated, W!MainStartEnds, W!MainDown, W!MainPurged,
   W!files

(* What a step may do to the directories: nothing, lock or index them,     *)
(* add one, or take some away.                                             *)
LEMMA PlacedStep == ASSUME WorktreesConstants, Placed, [W!Next]_W!vars PROVE Placed'
<1> DEFINE Same == UNCHANGED <<dir, pointer, admin>>
           Kept == /\ UNCHANGED <<dir, pointer>>
                   /\ admin' \in [W!Admins -> [of : W!Trees \union {ForWorktrees.None},
                                               index : BOOLEAN, locked : BOOLEAN]]
                   /\ \A n \in W!Admins : admin'[n].of \in {admin[n].of, ForWorktrees.None}
<1>1. CASE Same
  BY <1>1 DEF Placed
<1>2. CASE Kept
  BY <1>2 DEF Placed
<1>3. ASSUME NEW t \in W!Trees, NEW locked \in BOOLEAN, W!SetLock(t, locked), UNCHANGED <<dir, pointer>>
      PROVE  Kept
  BY <1>3 DEF Placed, W!SetLock
<1>4. ASSUME NEW t \in W!Trees, NEW n \in W!Admins, NEW how \in {"bare", "files"}, W!Adds(t, n, how)
      PROVE  Placed'
  <2>1. /\ dir[t] = "none"
        /\ dir' = [dir EXCEPT ![t] = how] /\ pointer' = [pointer EXCEPT ![t] = n]
        /\ admin' = [admin EXCEPT ![n] = [of |-> t, index |-> how = "files", locked |-> FALSE]]
    BY <1>4 DEF W!Adds
  <2>2. [of |-> t, index |-> how = "files", locked |-> FALSE]
          \in [of : W!Trees \union {ForWorktrees.None}, index : BOOLEAN, locked : BOOLEAN]
    OBVIOUS
  <2>3. \A m \in W!Admins : admin[m].of # t
    BY <2>1, WorktreesConstants DEF Placed, WorktreesConstants
  <2>4. /\ dir' \in [W!Trees -> {"none", "bare", "files"}]
        /\ pointer' \in [W!Trees -> W!Admins \union {ForWorktrees.None}]
    BY <2>1 DEF Placed
  <2>5. admin' \in [W!Admins -> [of : W!Trees \union {ForWorktrees.None}, index : BOOLEAN, locked : BOOLEAN]]
    BY <2>1, <2>2 DEF Placed
  <2>6. ASSUME NEW m \in W!Admins, admin'[m].of # ForWorktrees.None
        PROVE  dir'[admin'[m].of] # "none" /\ pointer'[admin'[m].of] = m
    <3>1. CASE m = n
      BY <2>1, <3>1 DEF Placed
    <3>2. CASE m # n
      BY <2>1, <2>3, <2>6, <3>2 DEF Placed
    <3> QED BY <3>1, <3>2
  <2> QED BY <2>4, <2>5, <2>6 DEF Placed
<1>5. ASSUME NEW w \in ForWorktrees.Ours PROVE w \in W!Trees
  BY DEF W!Trees
<1>6. ASSUME NEW w \in ForWorktrees.Ours,
             \/ W!Create(w) \/ W!CreateEnds(w) \/ W!Start(w) \/ W!PopulateEnds(w) \/ W!StartEnds(w)
             \/ W!Stop(w) \/ W!RemoveRefused(w) \/ W!RemoveGoesOn(w) \/ W!RemoveEnds(w)
             \/ \E force \in BOOLEAN : W!Remove(w, force)
             \/ W!KilledRunner(w) \/ W!SandboxCut(w) \/ W!ScriptReports(w) \/ W!ScriptIsRefused(w)
             \/ W!Commit(w)
      PROVE  Same
  BY <1>6 DEF W!Create, W!CreateEnds, W!Start, W!PopulateEnds, W!StartEnds, W!Stop, W!RemoveRefused,
     W!RemoveGoesOn, W!RemoveEnds, W!Remove, W!KilledRunner, W!SandboxCut, W!ScriptReports,
     W!ScriptIsRefused, W!Commit, W!files
<1>7. ASSUME NEW w \in ForWorktrees.Ours, NEW n \in W!Admins, W!ScriptAdds(w, n) PROVE Placed'
  BY <1>4, <1>5, <1>7 DEF W!ScriptAdds
<1>8. ASSUME NEW w \in ForWorktrees.Ours, W!ScriptLocks(w) \/ W!ScriptUnlocks(w) \/ W!ScriptRelocks(w)
      PROVE  Placed'
  <2>1. UNCHANGED <<dir, pointer>> /\ (W!SetLock(w, TRUE) \/ W!SetLock(w, FALSE) \/ UNCHANGED admin)
    BY <1>8 DEF W!ScriptLocks, W!ScriptUnlocks, W!ScriptRelocks
  <2> QED BY <1>1, <1>2, <1>3, <1>5, <2>1
<1>9. ASSUME NEW w \in ForWorktrees.Ours, W!ScriptChecksOut(w) PROVE Placed'
  <2>1. /\ dir' = [dir EXCEPT ![w] = "files"] /\ pointer' = pointer
        /\ admin' = [n \in W!Admins |-> IF n \in W!Own(w) THEN [admin[n] EXCEPT !.index = TRUE]
                                                         ELSE admin[n]]
    BY <1>9 DEF W!ScriptChecksOut
  <2>2. /\ admin' \in [W!Admins -> [of : W!Trees \union {ForWorktrees.None},
                                    index : BOOLEAN, locked : BOOLEAN]]
        /\ \A n \in W!Admins : admin'[n].of = admin[n].of
    BY <2>1 DEF Placed
  <2>3. dir' \in [W!Trees -> {"none", "bare", "files"}] /\ \A t \in W!Trees : dir'[t] \in {dir[t], "files"}
    BY <2>1, <1>5 DEF Placed
  <2> QED BY <2>1, <2>2, <2>3 DEF Placed
<1>10. ASSUME NEW w \in ForWorktrees.Ours, W!ScriptRemoves(w) PROVE Placed'
  <2>1. admin' = [n \in W!Admins |-> IF admin[n].of = w THEN W!Gone ELSE admin[n]]
    BY <1>10 DEF W!ScriptRemoves, W!Own
  <2>2. \/ UNCHANGED <<dir, pointer>>
        \/ dir' = [dir EXCEPT ![w] = "none"] /\ pointer' = [pointer EXCEPT ![w] = ForWorktrees.None]
    BY <1>10 DEF W!ScriptRemoves
  <2>3. w # ForWorktrees.None
    BY <1>5, WorktreesConstants DEF WorktreesConstants
  <2> QED BY <1>5, <2>1, <2>2, <2>3 DEF Placed, W!Gone
<1>11. ASSUME NEW w \in ForWorktrees.Ours, W!Work(w) PROVE Placed'
  BY <1>5, <1>11 DEF W!Work, Placed
<1>12. ASSUME NEW t \in ForWorktrees.Others, W!OtherLocks(t) PROVE Placed'
  BY <1>2, <1>3, <1>12 DEF W!OtherLocks, W!Trees
<1>13. ASSUME NEW t \in ForWorktrees.Others, NEW n \in W!Admins, W!OtherAdds(t, n) PROVE Placed'
  BY <1>4, <1>13 DEF W!OtherAdds, W!Trees
<1>14. CASE W!MainSteps \/ UNCHANGED W!vars
  BY <1>1, <1>14, MainStepsLeave DEF W!vars, W!files
<1>15. CASE W!Prune
  <2>1. UNCHANGED <<dir, pointer>>
    BY <1>15 DEF W!Prune
  <2>2. admin' = [n \in W!Admins |-> IF W!Prunable(n) THEN W!Gone ELSE admin[n]]
    BY <1>15 DEF W!Prune
  <2> QED BY <1>2, <2>1, <2>2 DEF Placed, W!Gone
<1> QED BY <1>1, <1>6, <1>7, <1>8, <1>9, <1>10, <1>11, <1>12, <1>13, <1>14, <1>15 DEF W!Next

LEMMA KindsInitially == ASSUME W!Init PROVE Kinds
<1>1. W!Idle \in Holders /\ W!Done \in Sandboxes
  BY DEF W!Idle, W!Done, Sandboxes, Holders
<1> QED BY <1>1 DEF W!Init, W!NoBox, Kinds, MainKinds

(* A step that has to do with one worktree's sandbox, or with its holder.  *)
Sandboxed(w) == /\ sandbox' \in [ForWorktrees.Ours -> Sandboxes]
                /\ \A v \in ForWorktrees.Ours \ {w} : sandbox'[v] = sandbox[v]
HeldBy(w) == /\ holder' \in [ForWorktrees.Ours -> Holders]
             /\ \A v \in ForWorktrees.Ours \ {w} : holder'[v] = holder[v]

LEMMA SandboxRuns ==
  ASSUME Kinds, NEW w \in ForWorktrees.Ours, NEW force \in BOOLEAN,
         NEW at \in {"add", "checkout", "status", "unlock"}, W!RunIn(w, at, force)
  PROVE  Sandboxed(w) /\ sandbox'[w].at = at /\ sandbox'[w].force = force
<1>1. [at |-> at, code |-> 0, force |-> force] \in Sandboxes
  BY DEF Sandboxes
<1> QED BY <1>1 DEF Kinds, W!RunIn, Sandboxed

LEMMA SandboxExits ==
  ASSUME Kinds, NEW w \in ForWorktrees.Ours, NEW code \in 0..5, W!Exit(w, code)
  PROVE  Sandboxed(w) /\ sandbox'[w].at = "done" /\ sandbox'[w].code = code
<1> DEFINE ended == [W!Done EXCEPT !.code = code]
<1>1. ended \in Sandboxes /\ ended.at = "done" /\ ended.code = code
  BY DEF Sandboxes, W!Done
<1>2. sandbox' = [sandbox EXCEPT ![w] = ended]
  BY DEF W!Exit
<1> HIDE DEF ended
<1> QED BY <1>1, <1>2 DEF Kinds, Sandboxed

LEMMA SandboxGoesOn ==
  ASSUME Kinds, NEW w \in ForWorktrees.Ours, NEW at \in {"lock", "remove", "relock"}, W!Then(w, at)
  PROVE  Sandboxed(w) /\ sandbox'[w].at = at /\ sandbox'[w].force = sandbox[w].force
<1> DEFINE next == [sandbox[w] EXCEPT !.at = at]
<1>1. next \in Sandboxes /\ next.at = at /\ next.force = sandbox[w].force
  BY DEF Kinds, Sandboxes
<1>2. sandbox' = [sandbox EXCEPT ![w] = next]
  BY DEF W!Then
<1> HIDE DEF next
<1> QED BY <1>1, <1>2 DEF Kinds, Sandboxed

LEMMA HolderRuns ==
  ASSUME Kinds, NEW w \in ForWorktrees.Ours, NEW force \in BOOLEAN,
         NEW op \in {"create", "checkout", "start", "asked", "remove"}, W!Runs(w, op, force)
  PROVE  HeldBy(w) /\ holder'[w].op = op
<1>1. [op |-> op, force |-> force] \in Holders
  BY DEF Holders
<1> QED BY <1>1 DEF Kinds, W!Runs, HeldBy

LEMMA HolderEnds ==
  ASSUME Kinds, NEW w \in ForWorktrees.Ours, holder' = [holder EXCEPT ![w] = W!Idle]
  PROVE  HeldBy(w) /\ holder'[w].op = "none"
<1>1. W!Idle \in Holders /\ W!Idle.op = "none"
  BY DEF Holders, W!Idle
<1> QED BY <1>1 DEF Kinds, HeldBy

LEMMA HolderGoesOn ==
  ASSUME Kinds, NEW w \in ForWorktrees.Ours, NEW op \in {"start", "none"},
         holder' = [holder EXCEPT ![w].op = op]
  PROVE  HeldBy(w) /\ holder'[w].op = op
<1> DEFINE next == [holder[w] EXCEPT !.op = op]
<1>1. next \in Holders /\ next.op = op
  BY DEF Kinds, Holders
<1>2. holder' = [holder EXCEPT ![w] = next]
  OBVIOUS
<1> HIDE DEF next
<1> QED BY <1>1, <1>2 DEF Kinds, HeldBy

LEMMA AskedInitially == ASSUME W!Init PROVE Asked
BY DEF W!Init, Asked, AskedOf, W!Idle

LEMMA AskedStep ==
  ASSUME WorktreesConstants, Placed, Kinds, Asked, [W!Next]_W!vars PROVE Kinds' /\ Asked'
<1> USE DEF Kinds, Asked, AskedOf, Sandboxed, HeldBy
<1>1. ASSUME NEW w \in ForWorktrees.Ours, W!Create(w) PROVE Kinds' /\ Asked'
  <2>1. Sandboxed(w) /\ sandbox'[w].at = "add"
    BY <1>1, SandboxRuns DEF W!Create
  <2>2. HeldBy(w) /\ holder'[w].op = "create"
    BY <1>1, HolderRuns DEF W!Create
  <2>3. UNCHANGED <<dir, dirty, made, main, since>>
    BY <1>1 DEF W!Create, W!files
  <2> QED BY <2>1, <2>2, <2>3
<1>2. ASSUME NEW w \in ForWorktrees.Ours, W!CreateEnds(w) \/ W!StartEnds(w) \/ W!RemoveRefused(w) \/ W!RemoveEnds(w) \/ W!KilledRunner(w) PROVE Kinds' /\ Asked'
  <2>1. HeldBy(w) /\ holder'[w].op = "none"
    BY <1>2, HolderEnds DEF W!CreateEnds, W!StartEnds, W!RemoveRefused, W!RemoveEnds, W!KilledRunner
  <2>2. UNCHANGED <<dir, dirty, made, sandbox, main, since>>
    BY <1>2 DEF W!CreateEnds, W!StartEnds, W!RemoveRefused, W!RemoveEnds, W!KilledRunner, W!files
  <2> QED BY <2>1, <2>2
<1>3. ASSUME NEW w \in ForWorktrees.Ours, W!Start(w) PROVE Kinds' /\ Asked'
  <2>1. \/ Sandboxed(w) /\ sandbox'[w].at = "checkout"
        \/ UNCHANGED sandbox
    BY <1>3, SandboxRuns DEF W!Start
  <2>2. HeldBy(w) /\ holder'[w].op \in {"checkout", "start"}
    BY <1>3, HolderRuns DEF W!Start
  <2>3. UNCHANGED <<dir, dirty, made, main, since>>
    BY <1>3 DEF W!Start, W!files
  <2> QED BY <2>1, <2>2, <2>3
<1>4. ASSUME NEW w \in ForWorktrees.Ours, W!PopulateEnds(w) PROVE Kinds' /\ Asked'
  <2>1. HeldBy(w) /\ holder'[w].op \in {"start", "none"}
    BY <1>4, HolderGoesOn DEF W!PopulateEnds
  <2>2. UNCHANGED <<dir, dirty, made, sandbox, main, since>>
    BY <1>4 DEF W!PopulateEnds, W!files
  <2> QED BY <2>1, <2>2
<1>5. ASSUME NEW w \in ForWorktrees.Ours, W!Stop(w) PROVE Kinds' /\ Asked'
  <2>1. UNCHANGED <<dir, dirty, made, holder, sandbox, main, since>>
    BY <1>5 DEF W!Stop, W!files
  <2> QED BY <2>1
<1>6. ASSUME NEW w \in ForWorktrees.Ours, NEW force \in BOOLEAN, W!Remove(w, force) PROVE Kinds' /\ Asked'
  <2>1. UNCHANGED <<dir, dirty, made, main>> /\ since' = since \ {w}
    BY <1>6 DEF W!Remove, W!files
  <2>2. CASE W!Removal(w, force) = "check"
    <3>1. Sandboxed(w) /\ sandbox'[w].at = "status"
      BY <1>6, <2>2, SandboxRuns DEF W!Remove
    <3>2. HeldBy(w)
      BY <1>6, <2>2, HolderRuns DEF W!Remove
    <3> QED BY <2>1, <3>1, <3>2
  <2>3. CASE W!Removal(w, force) # "check"
    <3>1. Sandboxed(w) /\ sandbox'[w].at = "unlock" /\ sandbox'[w].force = force
      BY <1>6, <2>3, SandboxRuns DEF W!Remove
    <3>2. HeldBy(w) /\ holder'[w].op = "remove"
      BY <1>6, <2>3, HolderRuns DEF W!Remove
    <3>3. force \/ dir[w] # "files"
      BY <1>6, <2>3 DEF W!Remove, W!Removal
    <3> QED BY <2>1, <3>1, <3>2, <3>3
  <2> QED BY <2>2, <2>3
<1>7. ASSUME NEW w \in ForWorktrees.Ours, W!RemoveGoesOn(w) PROVE Kinds' /\ Asked'
  <2>1. Sandboxed(w) /\ sandbox'[w].at = "unlock"
    BY <1>7, SandboxRuns DEF W!RemoveGoesOn
  <2>2. HeldBy(w) /\ holder'[w].op = "remove"
    BY <1>7, HolderRuns DEF W!RemoveGoesOn
  <2>3. UNCHANGED <<dir, dirty, made, main, since>>
    BY <1>7 DEF W!RemoveGoesOn, W!files
  <2>4. holder[w].op = "asked" /\ sandbox[w].at = "done" /\ sandbox[w].code = 0
    BY <1>7 DEF W!RemoveGoesOn, W!Finished
  <2> QED BY <2>1, <2>2, <2>3, <2>4
<1>8. ASSUME NEW w \in ForWorktrees.Ours, W!SandboxCut(w) PROVE Kinds' /\ Asked'
  <2>1. Sandboxed(w) /\ sandbox'[w].at = "done" /\ sandbox'[w].code = 1
    <3>1. W!Exit(w, 1)
      BY <1>8 DEF W!SandboxCut, W!Exit
    <3> QED BY <3>1, SandboxExits
  <2>2. UNCHANGED <<dir, dirty, made, holder, main, since>>
    BY <1>8 DEF W!SandboxCut, W!files
  <2> QED BY <2>1, <2>2
<1>9. ASSUME NEW w \in ForWorktrees.Ours, NEW n \in W!Admins, W!ScriptAdds(w, n) PROVE Kinds' /\ Asked'
  <2>1. Sandboxed(w) /\ sandbox'[w].at = "lock"
    BY <1>9, SandboxGoesOn DEF W!ScriptAdds
  <2>2. sandbox[w].at = "add" /\ dir[w] = "none" /\ dir' = [dir EXCEPT ![w] = "bare"]
    BY <1>9 DEF W!ScriptAdds, W!Adds
  <2>3. UNCHANGED <<dirty, holder, main>> /\ made' = TRUE /\ since' = since \ {w}
    BY <1>9 DEF W!ScriptAdds, W!others
  <2>4. \A t \in dirty : dir'[t] = "files"
    BY <2>2 DEF Placed
  <2> QED BY <2>1, <2>2, <2>3, <2>4
<1>10. ASSUME NEW w \in ForWorktrees.Ours, W!ScriptLocks(w) PROVE Kinds' /\ Asked'
  <2>1. Sandboxed(w) /\ sandbox'[w].at = "done"
    <3>1. W!Exit(w, 0) \/ W!Exit(w, 5)
      BY <1>10 DEF W!ScriptLocks
    <3> QED BY <3>1, SandboxExits
  <2>2. sandbox[w].at = "lock"
    BY <1>10 DEF W!ScriptLocks
  <2>3. UNCHANGED <<dir, dirty, made, holder, main, since>>
    BY <1>10 DEF W!ScriptLocks, W!others
  <2> QED BY <2>1, <2>2, <2>3
<1>11. ASSUME NEW w \in ForWorktrees.Ours, W!ScriptChecksOut(w) PROVE Kinds' /\ Asked'
  <2>1. Sandboxed(w) /\ sandbox'[w].at = "done"
    BY <1>11, SandboxExits DEF W!ScriptChecksOut
  <2>2. sandbox[w].at = "checkout" /\ dir' = [dir EXCEPT ![w] = "files"]
    BY <1>11 DEF W!ScriptChecksOut
  <2>3. UNCHANGED <<dirty, made, holder, main, since>>
    BY <1>11 DEF W!ScriptChecksOut, W!others
  <2>4. \A t \in dirty : dir'[t] = "files"
    BY <2>2 DEF Placed
  <2> QED BY <2>1, <2>2, <2>3, <2>4
<1>12. ASSUME NEW w \in ForWorktrees.Ours, W!ScriptReports(w) PROVE Kinds' /\ Asked'
  <2>1. Sandboxed(w) /\ sandbox'[w].at = "done" /\ (w \in dirty => sandbox'[w].code = 3)
    BY <1>12, SandboxExits DEF W!ScriptReports
  <2>2. UNCHANGED <<dir, dirty, made, holder, main>> /\ since' = since \ {w}
    BY <1>12 DEF W!ScriptReports, W!files, W!others
  <2> QED BY <2>1, <2>2
<1>13. ASSUME NEW w \in ForWorktrees.Ours, W!ScriptUnlocks(w) PROVE Kinds' /\ Asked'
  <2>1. Sandboxed(w) /\ sandbox'[w].at = "remove" /\ sandbox'[w].force = sandbox[w].force
    BY <1>13, SandboxGoesOn DEF W!ScriptUnlocks
  <2>2. sandbox[w].at = "unlock"
    BY <1>13 DEF W!ScriptUnlocks
  <2>3. UNCHANGED <<dir, dirty, made, holder, main, since>>
    BY <1>13 DEF W!ScriptUnlocks, W!others
  <2> QED BY <2>1, <2>2, <2>3
<1>14. ASSUME NEW w \in ForWorktrees.Ours, W!ScriptRemoves(w) PROVE Kinds' /\ Asked'
  <2>1. Sandboxed(w) /\ sandbox'[w].at = "done"
    BY <1>14, SandboxExits DEF W!ScriptRemoves
  <2>2. sandbox[w].at = "remove"
    BY <1>14 DEF W!ScriptRemoves
  <2>3. \/ dir' = [dir EXCEPT ![w] = "none"] /\ dirty' = dirty \ {w}
        \/ UNCHANGED <<dir, dirty>>
    BY <1>14 DEF W!ScriptRemoves
  <2>4. UNCHANGED <<made, holder, main, since>>
    BY <1>14 DEF W!ScriptRemoves, W!others
  <2>5. \A t \in dirty' : t \in dirty /\ dir'[t] = "files"
    BY <2>3 DEF Placed
  <2> QED BY <2>1, <2>2, <2>3, <2>4, <2>5
<1>15. ASSUME NEW w \in ForWorktrees.Ours, W!ScriptIsRefused(w) PROVE Kinds' /\ Asked'
  <2>1. Sandboxed(w) /\ sandbox'[w].at \in {"relock", "done"}
    BY <1>15, SandboxGoesOn, SandboxExits DEF W!ScriptIsRefused
  <2>2. sandbox[w].at = "remove"
    BY <1>15 DEF W!ScriptIsRefused
  <2>3. UNCHANGED <<dir, dirty, made, holder, main, since>>
    BY <1>15 DEF W!ScriptIsRefused, W!files, W!others
  <2> QED BY <2>1, <2>2, <2>3
<1>16. ASSUME NEW w \in ForWorktrees.Ours, W!ScriptRelocks(w) PROVE Kinds' /\ Asked'
  <2>1. Sandboxed(w) /\ sandbox'[w].at = "done"
    BY <1>16, SandboxExits DEF W!ScriptRelocks
  <2>2. sandbox[w].at = "relock"
    BY <1>16 DEF W!ScriptRelocks
  <2>3. UNCHANGED <<dir, dirty, made, holder, main, since>>
    BY <1>16 DEF W!ScriptRelocks, W!others
  <2> QED BY <2>1, <2>2, <2>3
<1>17. ASSUME NEW w \in ForWorktrees.Ours, W!Work(w) PROVE Kinds' /\ Asked'
  <2>1. dir' = [dir EXCEPT ![w] = "files"] /\ dirty' = dirty \union {w} /\ since' = since \union {w}
    BY <1>17 DEF W!Work
  <2>2. UNCHANGED <<made, holder, sandbox, main>>
    BY <1>17 DEF W!Work
  <2>3. \A t \in dirty' : t \in W!Trees /\ dir'[t] = "files"
    BY <2>1 DEF Placed, W!Trees
  <2> QED BY <2>1, <2>2, <2>3
<1>18. ASSUME NEW w \in ForWorktrees.Ours, W!Commit(w) PROVE Kinds' /\ Asked'
  <2>1. dirty' = dirty \ {w}
    BY <1>18 DEF W!Commit
  <2>2. UNCHANGED <<dir, made, holder, sandbox, main, since>>
    BY <1>18 DEF W!Commit
  <2> QED BY <2>1, <2>2
<1>19. ASSUME NEW t \in ForWorktrees.Others, W!OtherLocks(t) PROVE Kinds' /\ Asked'
  BY <1>19 DEF W!OtherLocks
<1>20. ASSUME NEW t \in ForWorktrees.Others, NEW n \in W!Admins, W!OtherAdds(t, n) PROVE Kinds' /\ Asked'
  <2>1. dir[t] = "none" /\ dir' = [dir EXCEPT ![t] = "files"]
    BY <1>20 DEF W!OtherAdds, W!Adds
  <2>2. UNCHANGED <<dirty, made, holder, sandbox, main, since>>
    BY <1>20 DEF W!OtherAdds
  <2>3. \A u \in dirty : dir'[u] = "files"
    BY <2>1 DEF Placed
  <2> QED BY <2>2, <2>3
<1>21. CASE W!MainSteps
  <2>1. UNCHANGED <<dir, dirty, made, holder, sandbox, since>>
    BY <1>21, MainStepsLeave DEF W!files
  <2>2. W!Masks \in BOOLEAN /\ W!NoBox \in MainKinds /\ main \in MainKinds
    BY DEF W!Masks, W!NoBox, MainKinds, Kinds
  <2>3. main' \in MainKinds
    <3>1. ASSUME NEW rebuild \in BOOLEAN, W!DecideMask(rebuild) PROVE main' \in MainKinds
      BY <2>2, <3>1 DEF W!DecideMask, MainKinds
    <3>2. CASE W!MainUp \/ W!MainRecreated
      BY <2>2, <3>2 DEF W!MainUp, W!MainRecreated, W!Creates, W!Reused, MainKinds
    <3>3. CASE W!MainStartEnds \/ W!MainDown \/ W!MainPurged
      BY <2>2, <3>3 DEF W!MainStartEnds, W!MainDown, W!MainPurged, MainKinds
    <3> QED BY <1>21, <3>1, <3>2, <3>3 DEF W!MainSteps
  <2> QED BY <2>1, <2>3
<1>22. CASE W!Prune
  BY <1>22 DEF W!Prune
<1>23. CASE UNCHANGED W!vars
  BY <1>23 DEF W!vars
<1> QED
  BY <1>1, <1>2, <1>3, <1>4, <1>5, <1>6, <1>7, <1>8, <1>9, <1>10, <1>11, <1>12, <1>13,
     <1>14, <1>15, <1>16, <1>17, <1>18, <1>19, <1>20, <1>21, <1>22, <1>23 DEF W!Next

(* The mask goes by the lock each worktree's own .git file leads to, and   *)
(* that is the one git looks at.                                           *)
LEMMA MaskedStep ==
  ASSUME WorktreesConstants, Placed, Kinds, Masked, [W!Next]_W!vars PROVE Masked'
<1>1. CASE main' = main /\ risked' \subseteq risked /\ atStart' \subseteq atStart
  BY <1>1 DEF Masked
<1>2. ASSUME NEW rebuild \in BOOLEAN, W!DecideMask(rebuild) PROVE Masked'
  <2>1. /\ main'.mask = W!Masks /\ atStart' = IF W!Masks THEN W!Open ELSE {}
        /\ risked' \in {risked, {}}
    <3>1. main \in MainKinds /\ W!NoBox \in MainKinds
      BY DEF Kinds, MainKinds, W!NoBox
    <3> QED BY <1>2, <3>1 DEF W!DecideMask, MainKinds
  <2>2. SUFFICES ASSUME W!Masks, NEW w \in W!Open PROVE FALSE
    BY <2>1 DEF Masked
  <2>3. w \in ForWorktrees.Ours /\ \E n \in W!Admins : admin[n].of = w /\ ~admin[n].locked
    BY DEF W!Open, W!Own
  <2>4. w # ForWorktrees.None
    BY <2>3, WorktreesConstants DEF WorktreesConstants, W!Trees
  <2>5. PICK n \in W!Admins : admin[n].of = w /\ ~admin[n].locked
    BY <2>3
  <2>6. dir[w] # "none" /\ pointer[w] = n
    BY <2>4, <2>5 DEF Placed
  <2>7. ~W!IsLocked(w)
    BY <2>5, <2>6 DEF W!IsLocked, W!AdminDirectory
  <2> QED BY <2>2, <2>3, <2>6, <2>7 DEF W!Masks, W!Unlocked
<1>3. CASE W!MainUp \/ W!MainRecreated
  <2>1. main'.mask = main.mask /\ atStart' = atStart
    BY <1>3 DEF W!MainUp, W!MainRecreated, W!Creates, W!Reused, Kinds, MainKinds
  <2>2. risked' = risked \/ risked' = IF main.mask THEN atStart ELSE {}
    BY <1>3 DEF W!MainUp, W!MainRecreated, W!Creates
  <2> QED BY <2>1, <2>2 DEF Masked
<1>4. CASE W!MainStartEnds \/ W!MainDown \/ W!MainPurged
  <2>1. W!NoBox.mask = FALSE
    BY DEF W!NoBox
  <2>2. atStart' = {} \/ (atStart' = atStart /\ main'.mask \in {main.mask, FALSE})
    BY <1>4, <2>1 DEF W!MainStartEnds, W!MainDown, W!MainPurged, Kinds, MainKinds
  <2>3. risked' \in {risked, {}}
    BY <1>4 DEF W!MainStartEnds, W!MainDown, W!MainPurged
  <2> QED BY <2>2, <2>3 DEF Masked
<1>5. CASE UNCHANGED W!vars
  BY <1>1, <1>5 DEF W!vars
<1>6. ASSUME NEW w \in ForWorktrees.Ours,
             \/ W!Create(w) \/ W!CreateEnds(w) \/ W!Start(w) \/ W!PopulateEnds(w) \/ W!StartEnds(w)
             \/ W!Stop(w) \/ W!RemoveRefused(w) \/ W!RemoveGoesOn(w) \/ W!RemoveEnds(w)
             \/ \E force \in BOOLEAN : W!Remove(w, force)
             \/ W!KilledRunner(w) \/ W!SandboxCut(w)
      PROVE  main' = main /\ risked' \subseteq risked /\ atStart' \subseteq atStart
  BY <1>6 DEF W!Create, W!CreateEnds, W!Start, W!PopulateEnds, W!StartEnds, W!Stop, W!RemoveRefused,
     W!RemoveGoesOn, W!RemoveEnds, W!Remove, W!KilledRunner, W!SandboxCut
<1>7. ASSUME NEW w \in ForWorktrees.Ours,
             \/ \E n \in W!Admins : W!ScriptAdds(w, n)
             \/ W!ScriptLocks(w) \/ W!ScriptChecksOut(w) \/ W!ScriptReports(w) \/ W!ScriptUnlocks(w)
             \/ W!ScriptRemoves(w) \/ W!ScriptIsRefused(w) \/ W!ScriptRelocks(w)
             \/ W!Work(w) \/ W!Commit(w)
      PROVE  main' = main /\ risked' \subseteq risked /\ atStart' \subseteq atStart
  BY <1>7 DEF W!ScriptAdds, W!ScriptLocks, W!ScriptChecksOut, W!ScriptReports, W!ScriptUnlocks,
     W!ScriptRemoves, W!ScriptIsRefused, W!ScriptRelocks, W!Work, W!Commit, W!others
<1>8. ASSUME NEW t \in ForWorktrees.Others, W!OtherLocks(t) \/ \E n \in W!Admins : W!OtherAdds(t, n)
      PROVE  main' = main /\ risked' \subseteq risked /\ atStart' \subseteq atStart
  BY <1>8 DEF W!OtherLocks, W!OtherAdds
<1>9. CASE W!Prune
  BY <1>1, <1>9 DEF W!Prune
<1> QED BY <1>1, <1>2, <1>3, <1>4, <1>5, <1>6, <1>7, <1>8, <1>9 DEF W!Next, W!MainSteps

LEMMA WorktreesInvariant ==
  ASSUME WorktreesConstants PROVE W!Spec => [](Placed /\ Kinds /\ Asked /\ Masked)
<1>1. W!Init => Placed /\ Kinds /\ Asked /\ Masked
  BY PlacedInitially, KindsInitially, AskedInitially DEF W!Init, Masked
<1>2. Placed /\ Kinds /\ Asked /\ Masked /\ [W!Next]_W!vars => (Placed /\ Kinds /\ Asked /\ Masked)'
  BY PlacedStep, AskedStep, MaskedStep
<1> QED BY <1>1, <1>2, PTL DEF W!Spec

(* Whatever is made, unlocked, killed or cut meanwhile, and however often  *)
(* the main tree is stopped, started, rebuilt and purged: a git in a       *)
(* container that hides the worktrees prunes none that was not locked when *)
(* that was decided for it (worktrees.ts:220).                             *)
THEOREM WorktreesPruneNoneThatWasOpen ==
  ASSUME WorktreesConstants PROVE W!Spec => W!PrunesNoneThatWasOpen
<1>1. Masked /\ [W!Next]_W!vars => [W!SparesTheOpen]_W!vars
  BY DEF Masked, W!SparesTheOpen
<1>2. W!Spec => [](Placed /\ Kinds /\ Asked /\ Masked)
  BY WorktreesInvariant
<1> QED BY <1>1, <1>2, PTL DEF W!Spec, W!PrunesNoneThatWasOpen

(* Nothing but a removal takes a worktree's directory, and it takes work   *)
(* only if it was forced, or the work was put there after the worktree had *)
(* been asked what it holds (desolate.ts removeWorktree): whichever runner *)
(* is killed and whichever sandbox is cut.                                 *)
THEOREM WorktreesWorkGoesOnlyIfSaid ==
  ASSUME WorktreesConstants PROVE W!Spec => W!WorkGoesOnlyIfSaid
<1>1. Placed /\ Kinds /\ Asked /\ [W!Next]_W!vars => [W!SaidOrPutThereSince]_W!vars
  <2> SUFFICES ASSUME Placed, Asked, W!Next, NEW w \in ForWorktrees.Ours,
                      w \in dirty, dir'[w] = "none"
               PROVE  sandbox[w].force \/ w \in since
    BY DEF W!SaidOrPutThereSince
  <2>1. dir[w] = "files" /\ w \in W!Trees
    BY DEF Asked
  <2>2. W!ScriptRemoves(w)
    <3>1. ASSUME NEW v \in ForWorktrees.Ours, W!ScriptRemoves(v) PROVE v = w
      <4>1. \/ dir' = [dir EXCEPT ![v] = "none"]
            \/ dir' = dir
        BY <3>1 DEF W!ScriptRemoves
      <4> QED BY <2>1, <4>1 DEF Placed
    <3>2. ASSUME NEW v \in ForWorktrees.Ours,
             \/ W!Create(v) \/ W!CreateEnds(v) \/ W!Start(v) \/ W!PopulateEnds(v) \/ W!StartEnds(v)
             \/ W!Stop(v) \/ W!RemoveRefused(v) \/ W!RemoveGoesOn(v) \/ W!RemoveEnds(v)
             \/ \E force \in BOOLEAN : W!Remove(v, force)
             \/ W!KilledRunner(v) \/ W!SandboxCut(v)
             \/ W!ScriptLocks(v) \/ W!ScriptReports(v) \/ W!ScriptUnlocks(v)
             \/ W!ScriptIsRefused(v) \/ W!ScriptRelocks(v) \/ W!Commit(v)
          PROVE dir' = dir
      BY <3>2 DEF W!Create, W!CreateEnds, W!Start, W!PopulateEnds, W!StartEnds, W!Stop, W!RemoveRefused,
         W!RemoveGoesOn, W!RemoveEnds, W!Remove, W!KilledRunner, W!SandboxCut, W!ScriptLocks,
         W!ScriptReports, W!ScriptUnlocks, W!ScriptIsRefused, W!ScriptRelocks, W!Commit, W!files
    <3>3. ASSUME NEW v \in W!Trees, NEW how \in {"bare", "files"}, dir' = [dir EXCEPT ![v] = how]
          PROVE  dir'[w] # "none"
      BY <2>1, <3>3 DEF Placed
    <3>4. ASSUME NEW v \in ForWorktrees.Ours,
                 W!Work(v) \/ W!ScriptChecksOut(v) \/ \E n \in W!Admins : W!ScriptAdds(v, n)
          PROVE  dir'[w] # "none"
      BY <3>3, <3>4 DEF W!Work, W!ScriptChecksOut, W!ScriptAdds, W!Adds, W!Trees
    <3>5. ASSUME NEW t \in ForWorktrees.Others, W!OtherLocks(t) \/ \E n \in W!Admins : W!OtherAdds(t, n)
          PROVE  dir'[w] # "none"
      BY <2>1, <3>3, <3>5 DEF W!OtherLocks, W!OtherAdds, W!Adds, W!Trees
    <3>6. CASE W!MainSteps \/ W!Prune
      BY <2>1, <3>6, MainStepsLeave DEF W!Prune, W!files
    <3> QED BY <2>1, <3>1, <3>2, <3>4, <3>5, <3>6 DEF W!Next
  <2>3. sandbox[w].at = "remove"
    BY <2>2 DEF W!ScriptRemoves
  <2> QED BY <2>3 DEF Asked, AskedOf
<1>2. W!Spec => [](Placed /\ Kinds /\ Asked /\ Masked)
  BY WorktreesInvariant
<1> QED BY <1>1, <1>2, PTL DEF W!Spec, W!WorkGoesOnlyIfSaid

(* Which trees are dirty, up, or were at risk.                             *)
OfTrees == /\ dirty \subseteq W!Trees /\ up \subseteq W!Trees /\ since \subseteq W!Trees
           /\ risked \subseteq ForWorktrees.Ours /\ atStart \subseteq ForWorktrees.Ours

(* A worktree's state is one of those desolate leaves it in, and every set *)
(* of trees it keeps is of the project's (docker.ts, desolate.ts).         *)
THEOREM WorktreesTypeCorrect ==
  ASSUME WorktreesConstants PROVE W!Spec => []W!TypeOK
<1>1. W!Init => OfTrees
  BY DEF W!Init, OfTrees
<1>2. OfTrees /\ [W!Next]_W!vars => OfTrees'
  <2> SUFFICES ASSUME OfTrees, [W!Next]_W!vars PROVE OfTrees'
    OBVIOUS
  <2>1. ForWorktrees.Ours \subseteq W!Trees
    BY DEF W!Trees
  <2>2. ASSUME NEW w \in ForWorktrees.Ours,
               \/ W!Create(w) \/ W!CreateEnds(w) \/ W!Start(w) \/ W!PopulateEnds(w) \/ W!StartEnds(w)
               \/ W!Stop(w) \/ W!RemoveRefused(w) \/ W!RemoveGoesOn(w) \/ W!RemoveEnds(w)
               \/ \E force \in BOOLEAN : W!Remove(w, force)
               \/ W!KilledRunner(w) \/ W!SandboxCut(w)
        PROVE  OfTrees'
    BY <2>1, <2>2 DEF OfTrees, W!Create, W!CreateEnds, W!Start, W!PopulateEnds, W!StartEnds,
       W!Stop, W!RemoveRefused, W!RemoveGoesOn, W!RemoveEnds, W!Remove, W!KilledRunner,
       W!SandboxCut, W!files
  <2>3. ASSUME NEW w \in ForWorktrees.Ours,
               \/ \E n \in W!Admins : W!ScriptAdds(w, n)
               \/ W!ScriptLocks(w) \/ W!ScriptChecksOut(w) \/ W!ScriptReports(w)
               \/ W!ScriptUnlocks(w) \/ W!ScriptRemoves(w) \/ W!ScriptIsRefused(w)
               \/ W!ScriptRelocks(w) \/ W!Work(w) \/ W!Commit(w)
        PROVE  OfTrees'
    BY <2>1, <2>3 DEF OfTrees, W!ScriptAdds, W!ScriptLocks, W!ScriptChecksOut, W!ScriptReports,
       W!ScriptUnlocks, W!ScriptRemoves, W!ScriptIsRefused, W!ScriptRelocks, W!Work, W!Commit,
       W!files, W!others
  <2>4. ASSUME NEW t \in ForWorktrees.Others, W!OtherLocks(t) \/ \E n \in W!Admins : W!OtherAdds(t, n)
        PROVE  OfTrees'
    BY <2>4 DEF OfTrees, W!OtherLocks, W!OtherAdds
  <2>5. CASE W!MainSteps
    <3>1. UNCHANGED <<dirty, up, since>>
      BY <2>5, MainStepsLeave DEF W!files
    <3>2. W!Open \subseteq ForWorktrees.Ours
      BY DEF W!Open
    <3>3. risked' \in {risked, {}, atStart} /\ atStart' \in {atStart, {}, W!Open}
      BY <2>5 DEF W!MainSteps, W!DecideMask, W!MainUp, W!Creates, W!MainRecreated, W!MainStartEnds,
         W!MainDown, W!MainPurged
    <3> QED BY <3>1, <3>2, <3>3 DEF OfTrees
  <2>7. CASE W!Prune
    BY <2>7 DEF OfTrees, W!Prune
  <2>6. CASE UNCHANGED W!vars
    BY <2>6 DEF OfTrees, W!vars
  <2> QED BY <2>2, <2>3, <2>4, <2>5, <2>6, <2>7 DEF W!Next
<1>3. OfTrees /\ Placed /\ Kinds => W!TypeOK
  BY DEF OfTrees, Placed, Kinds, W!TypeOK, Sandboxes, Holders, MainKinds
<1>4. W!Spec => [](Placed /\ Kinds /\ Asked /\ Masked)
  BY WorktreesInvariant
<1> QED BY <1>1, <1>2, <1>3, <1>4, PTL DEF W!Spec

-----------------------------------------------------------------------------
(* A finite set of numbers that is not empty has a largest.                *)
LEMMA LargestExists ==
  ASSUME NEW S \in SUBSET Nat, IsFiniteSet(S), S # {}
  PROVE  \E m \in S : \A n \in S : n <= m
<1> DEFINE Largest(U) == \E m \in U : \A n \in U : n <= m
           Without == {U \in SUBSET S : U # {} /\ ~Largest(U)}
           Sizes == {Cardinality(U) : U \in Without}
<1>1. \A U \in SUBSET S : IsFiniteSet(U) /\ Cardinality(U) \in Nat
  BY FS_Subset, FS_CardinalityType
<1>2. SUFFICES ASSUME Without # {} PROVE FALSE
  OBVIOUS
<1>3. PICK U \in Without : \A T \in Without : Cardinality(U) <= Cardinality(T)
  <2>1. Sizes \in SUBSET Nat /\ Sizes # {}
    BY <1>1, <1>2
  <2>2. PICK size \in Sizes : \A other \in Sizes : <<other, size>> \notin OpToRel(<, Nat)
    BY <2>1, NatLessThanWellFounded, WFMin, Zenon
  <2>3. size \in Sizes /\ \A other \in Sizes : ~(other < size)
    BY <2>1, <2>2, Zenon DEF OpToRel
  <2>4. \A other \in Sizes : size <= other
    <3> HIDE DEF Sizes
    <3> QED BY <2>1, <2>3
  <2>5. PICK U \in Without : Cardinality(U) = size
    OBVIOUS
  <2>6. \A T \in Without : Cardinality(T) \in Sizes
    OBVIOUS
  <2> QED BY <2>4, <2>5, <2>6
<1>4. PICK x \in U : TRUE
  OBVIOUS
<1>5. Cardinality(U \ {x}) < Cardinality(U)
  BY <1>1, <1>4, FS_RemoveElement
<1>6. U \ {x} \in SUBSET S /\ U \ {x} \notin Without
  <2>1. U \ {x} \in SUBSET S
    OBVIOUS
  <2>2. Cardinality(U) \in Nat /\ Cardinality(U \ {x}) \in Nat
    BY <1>1, <2>1
  <2>3. ~(Cardinality(U) <= Cardinality(U \ {x}))
    BY <1>5, <2>2
  <2> HIDE DEF Without
  <2> QED BY <1>3, <2>1, <2>3
<1>7. CASE U = {x}
  BY <1>7
<1>8. CASE U # {x}
  <2>1. PICK m \in U \ {x} : \A n \in U \ {x} : n <= m
    BY <1>6, <1>8
  <2> QED BY <2>1
<1> QED BY <1>7, <1>8

-----------------------------------------------------------------------------
(* Names.  Whoever has a volume, or was judged for it, is one it matches,  *)
(* and nobody who claimed it when it was judged had a longer name.         *)
NamesConstants ==
  /\ IsFiniteSet(ForNames.Places)
  /\ \A t \in ForNames.Places : Len(ForNames.Namespace[t]) \in Nat

IsAStart(s) ==
  /\ s \in [target : ForNames.Places, volume : ForNames.Volumes,
             claimants : SUBSET ForNames.Places]
  /\ s.target \in ForNames.Matches[s.volume]
  /\ \A u \in s.claimants : Len(ForNames.Namespace[u]) <= Len(ForNames.Namespace[s.target])
Mounted ==
  /\ dirs \subseteq ForNames.Places /\ specs \subseteq dirs
  /\ \A s \in judged : IsAStart(s)
  /\ mounting # <<>> => /\ mounting \in ForNames.Places \X ForNames.Volumes
                        /\ mounting[1] \in ForNames.Matches[mounting[2]]

(* Whoever claims a volume, one of them owns it.                           *)
LEMMA SomebodyOwns ==
  ASSUME NamesConstants, dirs \subseteq ForNames.Places, NEW volume, NEW u \in N!Claimants(volume)
  PROVE  \E o \in N!Owners(volume) : Len(ForNames.Namespace[u]) <= Len(ForNames.Namespace[o])
<1> DEFINE length(t) == Len(ForNames.Namespace[t])
           Lengths == {length(t) : t \in N!Claimants(volume)}
<1>1. N!Claimants(volume) \subseteq ForNames.Places
  BY DEF N!Claimants, N!List
<1>2. IsFiniteSet(N!Claimants(volume))
  BY <1>1, FS_Subset DEF NamesConstants
<1>3. IsFiniteSet(Lengths)
  <2> DEFINE f == [t \in N!Claimants(volume) |-> length(t)]
  <2>1. f \in Surjection(N!Claimants(volume), Lengths)
    BY DEF Surjection
  <2> QED BY <1>2, <2>1, FS_Surjection
<1>4. Lengths \in SUBSET Nat /\ Lengths # {}
  BY <1>1 DEF NamesConstants
<1>5. PICK m \in Lengths : \A n \in Lengths : n <= m
  BY <1>3, <1>4, LargestExists
<1> QED BY <1>5 DEF N!Owners

(* A start is judged only when nobody who claims the volume has a longer   *)
(* name.                                                                   *)
LEMMA JudgedIsAStart ==
  ASSUME NamesConstants, dirs \subseteq ForNames.Places,
         NEW volume \in ForNames.Volumes, NEW t \in N!Claimants(volume), N!Judge(t, volume)
  PROVE  IsAStart([target |-> t, volume |-> volume, claimants |-> N!Claimants(volume)])
<1>1. /\ N!Claimants(volume) \subseteq ForNames.Places
      /\ t \in ForNames.Matches[volume] /\ t \in ForNames.Places
  BY DEF N!Claimants, N!List
<1>2. ASSUME NEW u \in N!Claimants(volume)
      PROVE  Len(ForNames.Namespace[u]) <= Len(ForNames.Namespace[t])
  <2>1. PICK o \in N!Owners(volume) :
          Len(ForNames.Namespace[u]) <= Len(ForNames.Namespace[o])
    BY SomebodyOwns
  <2>2. ForNames.Namespace[o] = ForNames.Namespace[t]
    BY DEF N!Judge, N!WithinNamespace
  <2> QED BY <2>1, <2>2
<1> QED BY <1>1, <1>2 DEF IsAStart

LEMMA MountedStep == ASSUME NamesConstants, Mounted, [N!Next]_N!vars PROVE Mounted'
<1>1. ASSUME NEW t \in ForNames.Places, N!Appears(t) PROVE Mounted'
  BY <1>1 DEF Mounted, IsAStart, N!Appears
<1>2. ASSUME NEW t \in ForNames.Places, N!Goes(t) PROVE Mounted'
  BY <1>2 DEF Mounted, IsAStart, N!Goes
<1>3. ASSUME NEW t \in ForNames.Places, N!Respecs(t) PROVE Mounted'
  BY <1>3 DEF Mounted, IsAStart, N!Respecs
<1>4. ASSUME NEW volume \in ForNames.Volumes, NEW t \in N!Claimants(volume), N!Judge(t, volume)
      PROVE  Mounted'
  <2>1. IsAStart([target |-> t, volume |-> volume, claimants |-> N!Claimants(volume)])
    BY <1>4, JudgedIsAStart DEF Mounted
  <2>2. \A s \in judged' : IsAStart(s)
    BY <1>4, <2>1 DEF Mounted, N!Judge
  <2>3. \A s : IsAStart(s)' <=> IsAStart(s)
    BY DEF IsAStart
  <2> QED BY <1>4, <2>2, <2>3 DEF Mounted, N!Judge
<1>5. ASSUME NEW s \in judged, N!Mount(s) PROVE Mounted'
  <2>1. IsAStart(s)
    BY DEF Mounted
  <2>2. /\ <<s.target, s.volume>> \in ForNames.Places \X ForNames.Volumes
        /\ s.target \in ForNames.Matches[s.volume]
    BY <2>1 DEF IsAStart
  <2> QED BY <1>5, <2>2 DEF Mounted, IsAStart, N!Mount
<1>6. ASSUME NEW s \in judged, N!StartEnds(s) PROVE Mounted'
  BY <1>6 DEF Mounted, IsAStart, N!StartEnds
<1>7. CASE UNCHANGED N!vars
  BY <1>7 DEF Mounted, IsAStart, N!vars
<1> QED BY <1>1, <1>2, <1>3, <1>4, <1>5, <1>6, <1>7 DEF N!Next

(* However directories, specs and starts come and go, a volume that a      *)
(* target's container has goes over only to a target whose name is at      *)
(* least as long, or whose start was judged when the other was not listed  *)
(* (policy.ts mount.owner).                                                *)
THEOREM NamesTakenOnlyByALongerName ==
  ASSUME NamesConstants PROVE N!Spec => N!TakenOnlyByALongerName
<1>1. N!Init => Mounted
  BY DEF N!Init, Mounted
<1>2. Mounted /\ [N!Next]_N!vars => Mounted'
  BY MountedStep
<1>3. Mounted /\ [N!Next]_N!vars =>
        [N!Passes => N!ToALonger \/ N!JudgedBefore(mounting[1])]_N!vars
  <2> SUFFICES ASSUME Mounted, N!Next, N!Passes, ~N!JudgedBefore(mounting[1])
               PROVE  N!ToALonger
    OBVIOUS
  <2> DEFINE length(t) == Len(ForNames.Namespace[t])
  <2>1. mounting[1] \in ForNames.Places /\ length(mounting[1]) \in Nat
    BY DEF Mounted, N!Passes, NamesConstants
  <2>2. CASE mounting' = mounting
    BY <2>1, <2>2 DEF N!ToALonger
  <2>3. CASE mounting' # mounting
    <3>1. PICK s \in judged : N!Mount(s)
      BY <2>3 DEF N!Next, N!Appears, N!Goes, N!Respecs, N!Judge, N!StartEnds, N!Passes
    <3>2. s \in judged /\ mounting' = <<s.target, s.volume>>
      BY <3>1 DEF N!Mount
    <3>3. mounting[1] \in s.claimants
      BY <3>2 DEF N!JudgedBefore
    <3>4. IsAStart(s)
      BY DEF Mounted
    <3>5. length(mounting[1]) <= length(s.target) /\ length(s.target) \in Nat
      BY <3>3, <3>4 DEF IsAStart, NamesConstants
    <3>6. mounting'[1] = s.target
      BY <3>2
    <3> QED BY <2>1, <3>5, <3>6 DEF N!ToALonger
  <2> QED BY <2>2, <2>3
<1> QED BY <1>1, <1>2, <1>3, PTL DEF N!Spec, N!TakenOnlyByALongerName

(* A spec is kept only of a directory that is there, and what is mounted   *)
(* is a place's volume (projects.ts, policy.ts).                           *)
THEOREM NamesTypeCorrect ==
  ASSUME NamesConstants PROVE N!Spec => []N!TypeOK
<1>1. N!Init => Mounted
  BY DEF N!Init, Mounted
<1>2. Mounted /\ [N!Next]_N!vars => Mounted'
  BY MountedStep
<1>3. Mounted => N!TypeOK
  BY DEF Mounted, IsAStart, N!TypeOK
<1> QED BY <1>1, <1>2, <1>3, PTL DEF N!Spec

-----------------------------------------------------------------------------
(* Host ports.  What the code's port range and labels are.                 *)
PortsConstants ==
  /\ ForPorts.HostPorts \subseteq Nat
  /\ ForPorts.Base \in Nat
  /\ ForPorts.NoPort \notin ForPorts.HostPorts
  /\ ForPorts.Rank \in [ForPorts.Labels -> Nat]
  /\ \A k, l \in ForPorts.Labels : ForPorts.Rank[k] = ForPorts.Rank[l] => k = l

Stated == previous \in O!PortMap /\ O!Apart(previous)

LEMMA PortsStated == ASSUME PortsConstants PROVE O!Spec => []Stated
<1>1. O!Init => Stated
  BY DEF O!Init, O!Blank, O!EmptyMap, O!PortMap, O!Apart, Stated
<1>2. Stated /\ [O!Next]_O!vars => Stated'
  <2> SUFFICES ASSUME Stated, [O!Next]_O!vars PROVE Stated'
    OBVIOUS
  <2>1. CASE O!Ask
    BY <2>1 DEF O!Ask, O!Apart, Stated
  <2>2. CASE O!Forget
    BY <2>2 DEF O!Forget, O!EmptyMap, O!PortMap, O!Apart, Stated
  <2>3. CASE UNCHANGED O!vars
    BY <2>3 DEF O!vars, O!Apart, Stated
  <2> QED BY <2>1, <2>2, <2>3 DEF O!Next
<1> QED BY <1>1, <1>2, PTL DEF O!Spec

(* Of a port map whose labels have ports of their own, a set the ports are *)
(* free in, and the labels it lists: it is an allocation of them,          *)
LEMMA AMapAllocatesItself ==
  ASSUME PortsConstants, NEW map \in O!PortMap, O!Apart(map), NEW available,
         O!PortsOf(map) \subseteq available
  PROVE  O!IsAllocation(map, {l \in ForPorts.Labels : map[l] # ForPorts.NoPort}, map, available)
<1> DEFINE listed == {l \in ForPorts.Labels : map[l] # ForPorts.NoPort}
<1> SUFFICES ASSUME NEW l \in ForPorts.Labels, l \in listed
             PROVE  map[l] \in available \ O!Before(map, l)
  BY DEF O!IsAllocation
<1>1. map[l] \in available
  BY DEF O!PortsOf
<1>2. map[l] \notin O!Before(map, l)
  BY DEF O!Before, O!Apart, PortsConstants
<1> QED BY <1>1, <1>2

(* and the only one: the first label two allocations of it disagree on     *)
(* would have had the same ports free.                                     *)
LEMMA NoOtherAllocates ==
  ASSUME PortsConstants, NEW map \in O!PortMap, NEW other \in O!PortMap, NEW listed, NEW available,
         O!IsAllocation(map, listed, map, available), O!IsAllocation(other, listed, map, available),
         \A l \in listed : l \in ForPorts.Labels => map[l] \in available \ O!Before(map, l)
  PROVE  other = map
<1> DEFINE rank(l) == ForPorts.Rank[l]
           Differ == {l \in ForPorts.Labels : other[l] # map[l]}
           Ranks == {rank(l) : l \in Differ}
<1> SUFFICES ASSUME Differ # {} PROVE FALSE
  BY DEF O!PortMap
<1>1. Ranks \in SUBSET Nat /\ Ranks # {}
  BY DEF PortsConstants
<1>2. PICK first \in Ranks : \A r \in Ranks : <<r, first>> \notin OpToRel(<, Nat)
  BY <1>1, NatLessThanWellFounded, WFMin, Zenon
<1>3. first \in Ranks /\ \A r \in Ranks : ~(r < first)
  BY <1>1, <1>2, Zenon DEF OpToRel
<1>4. PICK l \in Differ : rank(l) = first
  OBVIOUS
<1>5. \A j \in ForPorts.Labels : rank(j) < rank(l) => other[j] = map[j]
  BY <1>3, <1>4
<1>6. O!Before(other, l) = O!Before(map, l)
  BY <1>5 DEF O!Before
<1>7. CASE l \in listed
  <2>1. map[l] \in available \ O!Before(other, l)
    BY <1>6, <1>7
  <2>2. other[l] = map[l]
    BY <1>7, <2>1 DEF O!IsAllocation
  <2> QED BY <1>4, <2>2
<1>8. CASE l \notin listed
  BY <1>4, <1>8 DEF O!IsAllocation
<1> QED BY <1>7, <1>8

(* A move survives the next start: as long as nobody takes its ports, and  *)
(* they are from the base on, the labels the moved map lists get exactly   *)
(* that map (ports.ts movePort and allocatePorts), whatever the ports, the *)
(* base and the labels.                                                    *)
THEOREM PortsMoveOutlivesARestart ==
  ASSUME PortsConstants PROVE O!Spec => []O!MoveOutlivesARestart
<1>1. Stated => O!MoveOutlivesARestart
  <2> SUFFICES ASSUME Stated,
                      NEW label \in ForPorts.Labels, NEW port \in ForPorts.HostPorts,
                      O!CanMove(previous, label, port, published, own),
                      NEW moved, moved = O!MovePort(previous, label, port),
                      NEW listed, listed = {l \in ForPorts.Labels : moved[l] # ForPorts.NoPort},
                      O!PortsOf(moved) \subseteq O!Avail
               PROVE  O!Allocations(listed, moved, O!Avail) = {moved}
    BY DEF O!MoveOutlivesARestart, O!IsKept
  <2>1. moved \in O!PortMap
    BY DEF Stated, O!PortMap, O!MovePort
  <2>2. O!Apart(moved)
    BY DEF Stated, O!Apart, O!MovePort, O!CanMove, O!PortMap
  <2>3. O!IsAllocation(moved, listed, moved, O!Avail)
    BY <2>1, <2>2, AMapAllocatesItself
  <2>4. \A l \in listed : moved[l] \in O!Avail \ O!Before(moved, l)
    BY <2>2 DEF O!PortsOf, O!Before, O!Apart, PortsConstants
  <2>5. \A other \in O!PortMap :
          O!IsAllocation(other, listed, moved, O!Avail) => other = moved
    BY <2>1, <2>3, <2>4, NoOtherAllocates
  <2> QED BY <2>1, <2>3, <2>5 DEF O!Allocations
<1>2. O!Spec => []Stated
  BY PortsStated
<1> QED BY <1>1, <1>2, PTL

-----------------------------------------------------------------------------
(* The ingress.  What means nothing is no file and no claim.               *)
IngressConstants ==
  /\ ForIngress.Changes \in Nat
  /\ ForIngress.Absent \notin I!Files /\ ForIngress.Absent \notin I!Claims

Texts == I!Claims \union ForIngress.Addresses \union {ForIngress.Malformed, ForIngress.Absent}
Targets == Texts \X (ForIngress.Owners \union {ForIngress.Absent})
(* A file that is there has a fingerprint of its own: how many changes     *)
(* there had been when it was written.                                     *)
Filed ==
  /\ age \in Nat
  /\ disk \in [I!Files -> [print : 0..age, says : Texts]]
  /\ got \in [I!Files -> [print : 0..age, says : Texts]]
  /\ prints \in [ForIngress.Ports -> 0..age]
  /\ listeners \in [ForIngress.Ports -> [target : Targets, file : 0..age]]
  /\ poll \in [at : {"idle", "read", "subnets", "close", "open"}, todo : SUBSET I!Files,
               stat : I!Files \union {ForIngress.Absent}]
  /\ quiet \in BOOLEAN
  /\ \A f \in I!Files : /\ disk[f] = I!NoFile \/ disk[f].print # 0
                        /\ got[f].says # ForIngress.Absent => got[f].print # 0
(* What has been read while nothing changed is what is there.              *)
AsRead ==
  /\ poll.stat # ForIngress.Absent =>
       /\ poll.at = "read" /\ poll.stat \in poll.todo /\ got[poll.stat].print # 0
       /\ quiet => got[poll.stat].print = disk[poll.stat].print /\ disk[poll.stat] # I!NoFile
  /\ quiet /\ poll.at # "idle" =>
       \A f \in I!Files : (poll.at = "read" /\ f \in poll.todo) \/ got[f] = disk[f]
(* The fingerprints a listener's file is compared with: once the listeners *)
(* are being opened, those that will be remembered.                        *)
Compared(p) == IF poll.at = "open" THEN got[p].print ELSE prints[p]
(* A listener whose file was rewritten since it opened will be seen to     *)
(* have been.                                                              *)
Noticed ==
  \A p \in ForIngress.Ports : listeners[p] # I!Closed =>
    /\ Compared(p) # 0
    /\ disk[p].print = listeners[p].file \/ disk[p].print # Compared(p)
(* Once those to be closed are closed, what listens is wanted, and what is *)
(* wanted and does not listen is still to be opened or was busy.           *)
AsWanted ==
  poll.at = "open" => \A p \in ForIngress.Ports :
    LET asked == I!Wanted(p, I!Read, subnets) IN
    /\ p \in poll.todo => asked # I!NoTarget
    /\ IF listeners[p] # I!Closed THEN listeners[p].target = asked
       ELSE p \in poll.todo \/ asked = I!NoTarget \/ (quiet => p \in busy)
Settling == Filed /\ AsRead /\ Noticed /\ AsWanted

LEMMA SettlesInitially == ASSUME IngressConstants, I!Init PROVE Settling
<1>1. Filed
  BY DEF I!Init, I!NoFile, I!Idle, I!Closed, I!NoTarget, Filed, Texts, Targets
<1>2. AsRead /\ Noticed /\ AsWanted
  BY IngressConstants DEF IngressConstants, I!Init, I!Idle, I!Closed, AsRead, Noticed, AsWanted
<1> QED BY <1>1, <1>2 DEF Settling

(* What wants a listener is a target, of a file that has been read.        *)
LEMMA WantedIsATarget ==
  ASSUME IngressConstants, Filed, NEW p \in ForIngress.Ports
  PROVE  /\ I!Wanted(p, I!Read, subnets) \in Targets
         /\ I!Wanted(p, I!Read, subnets) # I!NoTarget => got[p].print # 0
<1>1. p \in I!Files /\ \A f \in I!Files : I!Read[f] = got[f].says /\ got[f].says \in Texts
  BY DEF I!Files, I!Read, Filed
<1>2. CASE got[p].says \in I!Claims
  <2>1. got[p].says[1] \in I!Files /\ got[p].says[2] \in ForIngress.Owners
    BY <1>2 DEF I!Claims, I!Files
  <2>2. got[got[p].says[1]].says \in Texts
    BY <1>1, <2>1
  <2>3. got[p].says # ForIngress.Absent
    BY <1>2, IngressConstants DEF IngressConstants
  <2> QED BY <1>1, <2>1, <2>2, <2>3 DEF I!Wanted, I!NoTarget, Targets, Texts, Filed
<1>3. CASE got[p].says \notin I!Claims
  BY <1>1, <1>3 DEF I!Wanted, I!NoTarget, Targets, Texts
<1> QED BY <1>2, <1>3

(* The writers: what they write is newer than anything read.               *)
LEMMA WritersSettle ==
  ASSUME IngressConstants, Settling,
         \/ \E f \in I!Files, says \in Texts : I!WriteFile(f, says)
         \/ \E f \in I!Files : I!RemoveFile(f)
         \/ \E a \in ForIngress.Addresses : I!BridgeChanges(a)
         \/ \E p \in ForIngress.Ports : I!PortBusyOrFree(p)
  PROVE  Settling'
<1>1. /\ age' = age + 1 /\ quiet' = FALSE
      /\ UNCHANGED <<poll, got, seen, subnets, prints, listeners>>
  BY DEF I!WriteFile, I!RemoveFile, I!BridgeChanges, I!PortBusyOrFree, I!Changed, I!memory
<1>2. \/ UNCHANGED disk
      \/ \E f \in I!Files, new \in [print : 0..age', says : Texts] :
           /\ disk' = [disk EXCEPT ![f] = new]
           /\ new = I!NoFile \/ new.print = age'
  <2>1. ASSUME NEW f \in I!Files, NEW says \in Texts, I!WriteFile(f, says)
        PROVE  <1>2
    <3>1. [print |-> age', says |-> says] \in [print : 0..age', says : Texts]
      BY <1>1 DEF Settling, Filed
    <3> QED BY <2>1, <3>1 DEF I!WriteFile
  <2>2. ASSUME NEW f \in I!Files, I!RemoveFile(f) PROVE <1>2
    <3>1. I!NoFile \in [print : 0..age', says : Texts]
      BY <1>1 DEF Settling, Filed, I!NoFile, Texts
    <3> QED BY <2>2, <3>1 DEF I!RemoveFile
  <2>3. CASE \/ \E a \in ForIngress.Addresses : I!BridgeChanges(a)
             \/ \E p \in ForIngress.Ports : I!PortBusyOrFree(p)
    BY <2>3 DEF I!BridgeChanges, I!PortBusyOrFree
  <2> QED BY <2>1, <2>2, <2>3
<1>3. Filed'
  <2> DEFINE Files1 == [print : 0..age, says : Texts]
             Files2 == [print : 0..age', says : Texts]
             Open1 == [target : Targets, file : 0..age]
             Open2 == [target : Targets, file : 0..age']
  <2>1. age \in Nat /\ age' \in Nat /\ 0..age \subseteq 0..age'
    BY <1>1 DEF Settling, Filed
  <2>2. Files1 \subseteq Files2 /\ Open1 \subseteq Open2
    BY <2>1
  <2>3. /\ disk \in [I!Files -> Files1] /\ got \in [I!Files -> Files1]
        /\ prints \in [ForIngress.Ports -> 0..age] /\ listeners \in [ForIngress.Ports -> Open1]
    BY DEF Settling, Filed
  <2> HIDE DEF Files1, Files2, Open1, Open2
  <2>4. /\ disk \in [I!Files -> Files2] /\ got' \in [I!Files -> Files2]
        /\ prints' \in [ForIngress.Ports -> 0..age'] /\ listeners' \in [ForIngress.Ports -> Open2]
    BY <1>1, <2>1, <2>2, <2>3
  <2>5. Filed' <=> /\ disk' \in [I!Files -> Files2]
                  /\ \A f \in I!Files : disk'[f] = I!NoFile \/ disk'[f].print # 0
    BY <1>1, <2>1, <2>4 DEF Settling, Filed, Files2, Open2, I!Files, I!NoFile, I!Claims, Texts, Targets
  <2>6. CASE UNCHANGED disk
    BY <2>6, <2>4, <2>5 DEF Settling, Filed
  <2>7. ASSUME NEW f \in I!Files, NEW new \in [print : 0..age', says : Texts],
               disk' = [disk EXCEPT ![f] = new], new = I!NoFile \/ new.print = age'
        PROVE  Filed'
    <3>1. new \in Files2
      BY <2>7 DEF Files2
    <3>2. age' # 0 /\ \A g \in I!Files : disk[g] = I!NoFile \/ disk[g].print # 0
      BY <1>1 DEF Settling, Filed
    <3> QED BY <2>7, <2>3, <2>4, <2>5, <3>1, <3>2
  <2> QED BY <1>2, <2>6, <2>7
<1>4. AsRead'
  BY <1>1 DEF Settling, AsRead
<1>5. Noticed'
  <2> SUFFICES ASSUME NEW p \in ForIngress.Ports, listeners[p] # I!Closed
               PROVE  /\ Compared(p)' # 0
                      /\ disk'[p].print = listeners[p].file \/ disk'[p].print # Compared(p)'
    BY <1>1 DEF Noticed, I!Closed, I!NoTarget
  <2>1. Compared(p)' = Compared(p) /\ Compared(p) # 0 /\ Compared(p) \in 0..age /\ p \in I!Files
    BY <1>1 DEF Settling, Filed, Noticed, Compared, I!Files
  <2>2. disk'[p] = disk[p] \/ disk'[p] = I!NoFile \/ disk'[p].print = age'
    BY <1>2, <2>1 DEF Settling, Filed
  <2>3. I!NoFile.print = 0
    BY DEF I!NoFile
  <2> QED BY <1>1, <2>1, <2>2, <2>3 DEF Settling, Filed, Noticed
<1>6. AsWanted'
  <2>1. \A p \in ForIngress.Ports : I!Wanted(p, I!Read, subnets)' = I!Wanted(p, I!Read, subnets)
    BY <1>1 DEF I!Wanted, I!Read, I!NoTarget
  <2> QED BY <1>1, <2>1 DEF Settling, AsWanted, I!Closed, I!NoTarget
<1> QED BY <1>3, <1>4, <1>5, <1>6 DEF Settling

(* The reading of the files.                                               *)
LEMMA ReadingSettles ==
  ASSUME IngressConstants, Settling,
         \/ I!Begin \/ I!SubnetsFail \/ \E fresh \in BOOLEAN : I!Subnets(fresh)
         \/ \E f \in I!Files : I!StatFile(f) \/ I!ReadFile(f)
  PROVE  Settling'
<1> USE DEF I!world, I!memory
<1>1. UNCHANGED <<disk, age, prints, listeners, busy>>
  BY DEF I!Begin, I!SubnetsFail, I!Subnets, I!StatFile, I!ReadFile
<1>2. poll.at # "open" /\ poll'.at # "open"
  <2>1. CASE I!Begin \/ I!SubnetsFail
    BY <2>1 DEF I!Begin, I!SubnetsFail, I!Idle
  <2>2. CASE \E fresh \in BOOLEAN : I!Subnets(fresh)
    BY <2>2 DEF I!Subnets, I!Idle
  <2>3. CASE \E f \in I!Files : I!StatFile(f) \/ I!ReadFile(f)
    <3>1. poll.at = "read" /\ poll'.at = poll.at
      BY <2>3 DEF I!StatFile, I!ReadFile, Settling, Filed
    <3> QED BY <3>1
  <2> QED BY <2>1, <2>2, <2>3
<1>3. Filed' /\ AsRead'
  <2>1. CASE I!Begin
    BY <2>1, IngressConstants DEF I!Begin, I!NoFile, Settling, Filed, AsRead, Texts, IngressConstants
  <2>2. CASE I!SubnetsFail
    BY <2>2, IngressConstants DEF I!SubnetsFail, I!Idle, Settling, Filed, AsRead, IngressConstants
  <2>3. CASE \E fresh \in BOOLEAN : I!Subnets(fresh)
    <3>1. /\ poll' = [at |-> "close", todo |-> {}, stat |-> ForIngress.Absent]
          /\ poll.at = "read" /\ poll.todo = {} /\ UNCHANGED <<got, quiet>>
      BY <2>3 DEF I!Subnets, I!Idle
    <3> QED BY <1>1, <3>1 DEF Settling, Filed, AsRead
  <2>4. ASSUME NEW f \in I!Files, I!StatFile(f) PROVE Filed' /\ AsRead'
    <3> DEFINE stat == [print |-> disk[f].print, says |-> ForIngress.Absent]
    <3>1. /\ poll.at = "read" /\ poll.stat = ForIngress.Absent /\ f \in poll.todo
          /\ got' = [got EXCEPT ![f] = stat] /\ UNCHANGED quiet
      BY <2>4 DEF I!StatFile, I!Turn
    <3>2. stat \in [print : 0..age, says : Texts]
      BY DEF Settling, Filed, Texts
    <3>3. CASE disk[f] = I!NoFile
      <4>1. poll' = [poll EXCEPT !.todo = @ \ {f}] /\ stat = disk[f]
        BY <2>4, <3>3 DEF I!StatFile, I!NoFile
      <4> QED BY <1>1, <3>1, <3>2, <4>1 DEF Settling, Filed, AsRead
    <3>4. CASE disk[f] # I!NoFile
      <4>1. poll' = [poll EXCEPT !.stat = f] /\ stat.print = disk[f].print /\ disk[f].print # 0
        BY <2>4, <3>4 DEF I!StatFile, Settling, Filed
      <4> QED BY <1>1, <3>1, <3>2, <3>4, <4>1 DEF Settling, Filed, AsRead
    <3> QED BY <3>3, <3>4
  <2>5. ASSUME NEW f \in I!Files, I!ReadFile(f) PROVE Filed' /\ AsRead'
    <3> DEFINE read == IF disk[f] = I!NoFile THEN I!NoFile ELSE [got[f] EXCEPT !.says = disk[f].says]
    <3>1. /\ poll.at = "read" /\ poll.stat = f /\ f # ForIngress.Absent
          /\ poll' = [poll EXCEPT !.stat = ForIngress.Absent, !.todo = @ \ {f}]
          /\ got' = [got EXCEPT ![f] = read] /\ UNCHANGED quiet
      BY <2>5, IngressConstants DEF I!ReadFile, IngressConstants
    <3>2. read \in [print : 0..age, says : Texts] /\ (read.says # ForIngress.Absent => read.print # 0)
      BY <3>1 DEF Settling, Filed, AsRead, I!NoFile, Texts
    <3>3. quiet => read = disk[f]
      BY <3>1 DEF Settling, Filed, AsRead
    <3> HIDE DEF read
    <3>4. Filed'
      BY <1>1, <3>1, <3>2 DEF Settling, Filed
    <3>5. AsRead'
      BY <1>1, <3>1, <3>3 DEF Settling, Filed, AsRead
    <3> QED BY <3>4, <3>5
  <2> QED BY <2>1, <2>2, <2>3, <2>4, <2>5
<1>4. Noticed'
  BY <1>1, <1>2 DEF Settling, Noticed, Compared, I!Closed, I!NoTarget
<1>5. AsWanted'
  BY <1>2 DEF AsWanted
<1> QED BY <1>3, <1>4, <1>5 DEF Settling

(* The closing and the opening of the listeners.                           *)
LEMMA ListeningSettles ==
  ASSUME IngressConstants, Settling,
         \/ I!AllClosed \/ I!Finish
         \/ \E p \in ForIngress.Ports : I!CloseListener(p) \/ I!OpenListener(p)
  PROVE  Settling'
<1> USE DEF I!world, I!memory
<1>1. UNCHANGED <<disk, age, busy, quiet, subnets>>
  BY DEF I!AllClosed, I!Finish, I!CloseListener, I!OpenListener
<1>2. CASE I!AllClosed
  <2>1. /\ UNCHANGED <<got, prints, listeners>> /\ poll.at = "close" /\ poll.stat = ForIngress.Absent
        /\ poll' = [poll EXCEPT !.at = "open",
             !.todo = {p \in ForIngress.Ports : /\ I!Wanted(p, I!Read, subnets) # I!NoTarget
                                                /\ listeners[p] = I!Closed}]
    BY <1>2 DEF I!AllClosed, Settling, AsRead
  <2>2. Filed' /\ AsRead'
    BY <1>1, <2>1 DEF Settling, Filed, AsRead, I!Files
  <2>3. \A p \in ForIngress.Ports : listeners[p] # I!Closed =>
           /\ I!Wanted(p, I!Read, subnets) = listeners[p].target /\ prints[p] = got[p].print
    BY <1>2 DEF I!AllClosed, I!Rewritten
  <2>4. Noticed'
    BY <1>1, <2>1, <2>3 DEF Settling, Filed, Noticed, Compared, I!Closed, I!NoTarget
  <2>5. AsWanted'
    <3>1. \A p \in ForIngress.Ports : I!Wanted(p, I!Read, subnets)' = I!Wanted(p, I!Read, subnets)
      <4>1. got' = got /\ subnets' = subnets
        BY <1>1, <2>1
      <4> QED BY <4>1 DEF I!Wanted, I!Read, I!NoTarget
    <3> QED BY <1>1, <2>1, <2>3, <3>1 DEF Settling, Filed, AsWanted, I!Closed, I!NoTarget
  <2> QED BY <2>2, <2>4, <2>5 DEF Settling
<1>3. CASE I!Finish
  <2>1. /\ poll.at = "open" /\ poll'.at = "idle" /\ poll' = I!Idle
        /\ prints' = [p \in ForIngress.Ports |-> got[p].print] /\ UNCHANGED listeners
        /\ got' = [f \in I!Files |-> I!NoFile]
    BY <1>3 DEF I!Finish, I!Idle
  <2>2. Filed' /\ AsRead'
    BY <1>1, <2>1 DEF Settling, Filed, AsRead, I!Files, I!NoFile, I!Idle, Texts
  <2>3. Noticed' /\ AsWanted'
    BY <1>1, <2>1 DEF Settling, Filed, Noticed, Compared, AsWanted, I!Closed, I!NoTarget
  <2> QED BY <2>2, <2>3 DEF Settling
<1>4. ASSUME NEW p \in ForIngress.Ports, I!CloseListener(p) PROVE Settling'
  <2>1. /\ UNCHANGED <<got, prints, poll>> /\ poll.at = "close"
        /\ listeners' = [listeners EXCEPT ![p] = I!Closed]
    BY <1>4 DEF I!CloseListener
  <2>2. I!Closed \in [target : Targets, file : 0..age]
    BY DEF I!Closed, I!NoTarget, Targets, Texts, Settling, Filed
  <2>3. Filed' /\ AsRead'
    BY <1>1, <2>1, <2>2 DEF Settling, Filed, AsRead
  <2>4. Noticed' /\ AsWanted'
    BY <1>1, <2>1 DEF Settling, Filed, Noticed, Compared, AsWanted, I!Closed, I!NoTarget
  <2> QED BY <2>3, <2>4 DEF Settling
<1>5. ASSUME NEW p \in ForIngress.Ports, I!OpenListener(p) PROVE Settling'
  <2> DEFINE asked == I!Wanted(p, I!Read, subnets)
             opened == [target |-> asked, file |-> disk[p].print]
  <2>1. /\ UNCHANGED <<got, prints>> /\ poll.at = "open" /\ p \in poll.todo /\ p \in I!Files
        /\ poll' = [poll EXCEPT !.todo = @ \ {p}]
        /\ listeners' = IF p \in busy THEN listeners ELSE [listeners EXCEPT ![p] = opened]
    BY <1>5 DEF I!OpenListener, I!Files
  <2>2. asked # I!NoTarget /\ asked \in Targets /\ got[p].print # 0
    BY <2>1, WantedIsATarget DEF Settling, AsWanted
  <2>3. /\ opened \in [target : Targets, file : 0..age]
        /\ opened # I!Closed /\ opened.target = asked /\ opened.file = disk[p].print
    BY <2>1, <2>2 DEF I!Closed, Settling, Filed
  <2>4. \A q \in ForIngress.Ports : I!Wanted(q, I!Read, subnets)' = I!Wanted(q, I!Read, subnets)
    BY <1>1, <2>1 DEF I!Wanted, I!Read, I!NoTarget
  <2> HIDE DEF asked, opened
  <2>5. Filed'
    BY <1>1, <2>1, <2>3 DEF Settling, Filed
  <2>6. AsRead'
    BY <1>1, <2>1 DEF Settling, Filed, AsRead
  <2>7. Noticed'
    BY <1>1, <2>1, <2>2, <2>3 DEF Settling, Filed, Noticed, Compared, I!Closed, I!NoTarget
  <2>8. AsWanted'
    <3> SUFFICES ASSUME NEW q \in ForIngress.Ports
                 PROVE  LET other == I!Wanted(q, I!Read, subnets) IN
                        /\ q \in poll'.todo => other # I!NoTarget
                        /\ IF listeners'[q] # I!Closed THEN listeners'[q].target = other
                           ELSE q \in poll'.todo \/ other = I!NoTarget \/ (quiet => q \in busy)
      BY <1>1, <2>4 DEF AsWanted, I!Closed, I!NoTarget
    <3>1. CASE q = p
      BY <2>1, <2>2, <2>3, <3>1 DEF Settling, Filed, AsWanted, asked
    <3>2. CASE q # p
      BY <2>1, <3>2 DEF Settling, Filed, AsWanted
    <3> QED BY <3>1, <3>2
  <2> QED BY <2>5, <2>6, <2>7, <2>8 DEF Settling
<1> QED BY <1>2, <1>3, <1>4, <1>5

LEMMA SettlesOnward ==
  ASSUME IngressConstants, Settling, [I!Next]_I!vars PROVE Settling'
<1>1. CASE UNCHANGED I!vars
  <2>1. \A p \in ForIngress.Ports : I!Wanted(p, I!Read, subnets)' = I!Wanted(p, I!Read, subnets)
    BY <1>1 DEF I!vars, I!Wanted, I!Read, I!NoTarget
  <2>2. Filed' /\ AsRead'
    BY <1>1 DEF I!vars, Settling, Filed, AsRead
  <2>3. Noticed' /\ AsWanted'
    BY <1>1, <2>1 DEF I!vars, Settling, Noticed, Compared, AsWanted, I!Closed, I!NoTarget
  <2> QED BY <2>2, <2>3 DEF Settling
<1>2. CASE I!Next
  <2>1. ForIngress.Ports \subseteq I!Files /\ ForIngress.Dinds \subseteq I!Files
    BY DEF I!Files
  <2>2. I!Claims \union ForIngress.Addresses \union {ForIngress.Malformed} \subseteq Texts
    BY DEF Texts
  <2>3. CASE \E f \in I!Files : I!RemoveFile(f)
    BY <2>3, WritersSettle
  <2>4. CASE \E f \in I!Files : I!StatFile(f) \/ I!ReadFile(f)
    BY <2>4, ReadingSettles
  <2>5. CASE \E p \in ForIngress.Ports, c \in I!Claims \union {ForIngress.Malformed} : I!WriteFile(p, c)
    BY <2>1, <2>2, <2>5, WritersSettle
  <2>6. CASE \E p \in ForIngress.Ports : I!PortBusyOrFree(p)
    BY <2>6, WritersSettle
  <2>7. CASE \E p \in ForIngress.Ports : I!CloseListener(p) \/ I!OpenListener(p)
    BY <2>7, ListeningSettles
  <2>8. CASE \E d \in ForIngress.Dinds, a \in ForIngress.Addresses \union {ForIngress.Malformed} :
               I!WriteFile(d, a)
    BY <2>1, <2>2, <2>8, WritersSettle
  <2>9. CASE \E a \in ForIngress.Addresses : I!BridgeChanges(a)
    BY <2>9, WritersSettle
  <2>10. CASE I!Begin \/ I!SubnetsFail \/ \E fresh \in BOOLEAN : I!Subnets(fresh)
    BY <2>10, ReadingSettles
  <2>11. CASE I!AllClosed \/ I!Finish
    BY <2>11, ListeningSettles
  <2> QED
    BY <1>2, <2>3, <2>4, <2>5, <2>6, <2>7, <2>8, <2>9, <2>10, <2>11 DEF I!Next
<1> QED BY <1>1, <1>2

(* A poll during which nothing changed leaves what the files now ask for,  *)
(* each listener opened after its file was last rewritten, whatever        *)
(* changed during the polls before it (ingress.py reconcile).              *)
THEOREM IngressQuietPollSettles ==
  ASSUME IngressConstants PROVE I!Spec => I!QuietPollSettles
<1>1. I!Init => Settling
  BY SettlesInitially
<1>2. Settling /\ [I!Next]_I!vars => Settling'
  BY SettlesOnward
<1>3. Settling /\ [I!Next]_I!vars => [I!SettlesWhatIsAsked]_I!vars
  <2> SUFFICES ASSUME Settling, I!Finish, quiet, NEW p \in ForIngress.Ports,
                      NEW asked, asked = I!Wanted(p, [f \in I!Files |-> disk[f].says], subnets)
               PROVE  /\ listeners[p].target =
                           (IF p \in busy /\ listeners[p] = I!Closed THEN I!NoTarget ELSE asked)
                      /\ listeners[p] # I!Closed => listeners[p].file = disk[p].print
    BY DEF I!SettlesWhatIsAsked
  <2>1. poll.at = "open" /\ poll.todo = {} /\ p \in I!Files
    BY DEF I!Finish, I!Files
  <2>2. \A f \in I!Files : got[f] = disk[f]
    BY <2>1 DEF Settling, AsRead
  <2>3. I!Read = [f \in I!Files |-> disk[f].says]
    BY <2>2 DEF I!Read
  <2>4. asked = I!Wanted(p, I!Read, subnets)
    BY <2>3
  <2>5. IF listeners[p] # I!Closed THEN listeners[p].target = asked
        ELSE asked = I!NoTarget \/ p \in busy
    BY <2>1, <2>4 DEF Settling, AsWanted
  <2>6. listeners[p] # I!Closed => listeners[p].file = disk[p].print
    BY <2>1, <2>2 DEF Settling, Noticed, Compared
  <2> QED BY <2>5, <2>6 DEF I!Closed
<1> QED BY <1>1, <1>2, <1>3, PTL DEF I!Spec, I!QuietPollSettles

(* Addresses, ports and the targets that listeners have.                   *)
Dialled == (ForIngress.Addresses \X ForIngress.Owners) \union {I!NoTarget}
Bounded ==
  /\ age \in 0..ForIngress.Changes /\ quiet \in BOOLEAN
  /\ bridges \subseteq ForIngress.Addresses /\ subnets \subseteq ForIngress.Addresses
  /\ busy \subseteq ForIngress.Ports
  /\ \A p \in ForIngress.Ports : listeners[p].target \in Dialled

(* Whatever the files say and whenever they are read, a listener's target  *)
(* is an address and an owner, and what it was opened on is a file's       *)
(* fingerprint (ingress.ts).                                               *)
THEOREM IngressTypeCorrect == ASSUME IngressConstants PROVE I!Spec => []I!TypeOK
<1>1. I!Init => Settling
  BY SettlesInitially
<1>2. Settling /\ [I!Next]_I!vars => Settling'
  BY SettlesOnward
<1>3. I!Init => Bounded
  BY DEF IngressConstants, I!Init, I!Closed, Bounded, Dialled
<1>4. Filed /\ Bounded /\ [I!Next]_I!vars => Bounded'
  <2> SUFFICES ASSUME Filed, Bounded, [I!Next]_I!vars PROVE Bounded'
    OBVIOUS
  <2> DEFINE ages == 0..ForIngress.Changes
  <2>1. age \in ages /\ \A p \in ForIngress.Ports : listeners[p].target \in Dialled
    BY DEF Bounded
  <2>2. ASSUME I!Changed PROVE age' \in ages /\ quiet' \in BOOLEAN /\ UNCHANGED <<subnets, listeners>>
    <3>1. age + 1 \in ages
      BY <2>1, <2>2 DEF IngressConstants, I!Changed
    <3> HIDE DEF ages
    <3> QED BY <2>2, <3>1, Zenon DEF I!Changed, I!memory
  <2> HIDE DEF ages
  <2>3. CASE \E f \in I!Files : I!RemoveFile(f) \/ \E says : I!WriteFile(f, says)
    <3>1. I!Changed /\ UNCHANGED <<bridges, busy>>
      BY <2>3, Zenon DEF I!RemoveFile, I!WriteFile
    <3> QED BY <2>2, <3>1 DEF Bounded, ages
  <2>4. CASE \E a \in ForIngress.Addresses : I!BridgeChanges(a)
    BY <2>2, <2>4 DEF I!BridgeChanges, Bounded, ages
  <2>5. CASE \E p \in ForIngress.Ports : I!PortBusyOrFree(p)
    BY <2>2, <2>5 DEF I!PortBusyOrFree, Bounded, ages
  <2>6. CASE \E f \in I!Files : I!StatFile(f) \/ I!ReadFile(f)
    <3>1. UNCHANGED <<age, quiet, bridges, subnets, busy, listeners>>
      BY <2>6, Zenon DEF I!StatFile, I!ReadFile, I!world, I!memory
    <3> QED BY <3>1 DEF Bounded
  <2>7. CASE I!Begin
    BY <2>7 DEF I!Begin, I!memory, Bounded
  <2>8. CASE \E fresh \in BOOLEAN : I!Subnets(fresh)
    <3>1. UNCHANGED <<age, quiet, bridges, busy, listeners>> /\ subnets' \in {bridges, subnets}
      BY <2>8 DEF I!Subnets, I!world
    <3> QED BY <3>1 DEF Bounded
  <2>9. CASE I!SubnetsFail \/ I!AllClosed \/ I!Finish \/ UNCHANGED I!vars
    <3>1. UNCHANGED <<age, quiet, bridges, subnets, busy, listeners>>
      BY <2>9, Zenon DEF I!SubnetsFail, I!AllClosed, I!Finish, I!vars, I!world, I!memory
    <3> QED BY <3>1 DEF Bounded
  <2>10. CASE \E p \in ForIngress.Ports : I!CloseListener(p)
    BY <2>10 DEF I!CloseListener, I!Closed, I!world, I!memory, Filed, Bounded, Dialled
  <2>11. CASE \E p \in ForIngress.Ports : I!OpenListener(p)
    <3>1. PICK p \in ForIngress.Ports : I!OpenListener(p)
      BY <2>11
    <3>2. I!Wanted(p, I!Read, subnets) \in Dialled
      BY DEF Bounded, I!Wanted, I!Claims, Dialled
    <3>3. UNCHANGED <<age, quiet, bridges, subnets, busy>>
      BY <3>1, Zenon DEF I!OpenListener, I!world, I!memory
    <3> HIDE DEF I!Wanted
    <3>4. \A q \in ForIngress.Ports : listeners'[q].target \in Dialled
      BY <2>1, <3>1, <3>2 DEF I!OpenListener, Filed
    <3> QED BY <3>3, <3>4 DEF Bounded
  <2>12. ForIngress.Ports \subseteq I!Files /\ ForIngress.Dinds \subseteq I!Files
    BY DEF I!Files
  <2> QED BY <2>3, <2>4, <2>5, <2>6, <2>7, <2>8, <2>9, <2>10, <2>11, <2>12 DEF I!Next
<1>5. Settling => Filed
  BY DEF Settling
<1>6. Filed /\ Bounded => I!TypeOK
  BY DEF IngressConstants, Filed, Bounded, Dialled, I!TypeOK
<1> QED BY <1>1, <1>2, <1>3, <1>4, <1>5, <1>6, PTL DEF I!Spec

-----------------------------------------------------------------------------
(* The egress.  Of the files as somebody left them: every secret has a     *)
(* value of its own, and none that a command will write.                   *)
Entries == [value : Nat, hosts : SUBSET (ForEgress.Hosts \union {"*"}),
            projects : (SUBSET ForEgress.Projects) \union {E!Garbled},
            headers : {"any", "authorization", "elsewhere", "garbled"},
            off : {"on", "off", "garbled"}, until : Nat]
FileFields == {"st", "stamp", "doc"}
HasSecrets(doc) ==
  /\ DOMAIN doc = {"secrets", "network", "open"}
  /\ doc.secrets = [n \in DOMAIN doc.secrets |-> doc.secrets[n]]
  /\ DOMAIN doc.secrets \subseteq ForEgress.Names
  /\ \A n \in DOMAIN doc.secrets : doc.secrets[n] \in Entries
OneValueEach(doc) ==
  \A m, n \in DOMAIN doc.secrets : doc.secrets[m].value = doc.secrets[n].value => m = n
Dated(doc) == \A p \in DOMAIN doc : doc[p].until \in Int
EgressConstants ==
  /\ ForEgress.Writes \in Nat /\ ForEgress.Hours \in Nat /\ "h" \in ForEgress.Hosts
  /\ \A w \in ForEgress.Worlds :
       /\ DOMAIN w.settings = FileFields /\ w.settings.st \in E!States /\ w.settings.stamp \in Nat
       /\ HasSecrets(w.settings.doc) /\ OneValueEach(w.settings.doc)
       /\ \A n \in DOMAIN w.settings.doc.secrets :
            w.settings.doc.secrets[n].value > ForEgress.Writes
       /\ DOMAIN w.policy = FileFields /\ w.policy.st \in E!States /\ w.policy.stamp \in Nat
       /\ Dated(w.policy.doc) /\ DOMAIN w.policy.doc \subseteq ForEgress.Projects

ValuesOf(secrets) == {secrets[n].value : n \in DOMAIN secrets}
(* A value that has been: of the files at first, or of a command.          *)
Past(v) == v \in Nat /\ (v <= written \/ v > ForEgress.Writes)
AtSettings == writer.at # "idle" /\ writer.file = "settings"
(* What a command writes: the secrets there were, but for the switch, and  *)
(* one with a new value, whose name no other name contains or is part of.  *)
SameButForItsSwitch(e, next) ==
  next = [e EXCEPT !.off = next.off, !.until = next.until]
Follows(doc, next) ==
  \A n \in DOMAIN next.secrets :
    \/ n \in DOMAIN doc.secrets /\ SameButForItsSwitch(doc.secrets[n], next.secrets[n])
    \/ next.secrets[n].value = written /\ n \notin E!Overlapping(DOMAIN next.secrets)
FilesKept ==
  /\ DOMAIN settingsFile = FileFields /\ settingsFile.st \in E!States /\ settingsFile.stamp \in Nat
  /\ HasSecrets(settingsFile.doc) /\ OneValueEach(settingsFile.doc)
  /\ \A n \in DOMAIN settingsFile.doc.secrets : Past(settingsFile.doc.secrets[n].value)
  /\ DOMAIN policyFile = FileFields /\ policyFile.st \in E!States /\ policyFile.stamp \in Nat
  /\ DOMAIN writer = {"at", "file", "doc"} /\ writer.at \in {"idle", "unlink", "create", "copy"}
  /\ writer.file \in {"none", "settings", "policy"}
  /\ written \in Nat /\ written <= ForEgress.Writes /\ clock \in Nat
  /\ AtSettings => /\ HasSecrets(writer.doc) /\ OneValueEach(writer.doc)
                   /\ Follows(settingsFile.doc, writer.doc)
                   /\ written \notin ValuesOf(settingsFile.doc.secrets)
  /\ Dated(policyFile.doc)
  /\ writer.at # "idle" /\ writer.file = "policy" => Dated(writer.doc)

(* What is loaded is what the file said, or it is an older file's.         *)
Parsed(doc) == [p \in DOMAIN doc |-> E!ReadPolicy(doc[p])]
AboutSettings ==
  /\ proxy.stamp \in Int /\ proxy.stamp <= settingsFile.stamp
  /\ hook.at = "read" => hook.stat <= settingsFile.stamp
  /\ settingsFile.st = "whole" /\ proxy.stamp = settingsFile.stamp =>
       proxy.secrets = E!Loaded(settingsFile.doc)
  /\ settingsFile.st = "whole" /\ steady /\ hook.at \in {"policy", "reread", "decide", "scrub"} =>
       proxy.secrets = E!Loaded(settingsFile.doc)
AboutPolicies ==
  /\ proxy.read \in Int /\ proxy.read <= policyFile.stamp
  /\ hook.at = "reread" => hook.stat <= policyFile.stamp
  /\ policyFile.st = "whole" /\ proxy.read = policyFile.stamp =>
       proxy.policies = Parsed(policyFile.doc)
  /\ policyFile.st = "whole" /\ steady /\ hook.at = "decide" =>
       proxy.policies = Parsed(policyFile.doc)
Loadings ==
  /\ DOMAIN proxy = {"stamp", "secrets", "network", "open", "read", "policies"}
  /\ hook \in [at : {"idle", "settings", "read", "policy", "reread", "decide", "scrub"},
               kind : {"none", "request", "message"}, stat : Int]
  /\ steady \in BOOLEAN /\ AboutSettings /\ AboutPolicies

(* A value that was sent, or may be: if it is stored still, or will be, it *)
(* is under the name it was under, which is one that is loaded.            *)
Sendable == flight \union ValuesOf(proxy.secrets)
Traced ==
  /\ \A v \in Sendable : Past(v)
  /\ \A n \in DOMAIN settingsFile.doc.secrets :
       settingsFile.doc.secrets[n].value \in Sendable => n \in DOMAIN E!Loaded(settingsFile.doc)
  /\ AtSettings => \A n \in DOMAIN writer.doc.secrets :
       writer.doc.secrets[n].value \in Sendable =>
         n \in DOMAIN settingsFile.doc.secrets /\
         settingsFile.doc.secrets[n].value = writer.doc.secrets[n].value
  /\ flight \intersect ValuesOf(settingsFile.doc.secrets) \subseteq ValuesOf(proxy.secrets)

LEMMA KeptInitially == ASSUME EgressConstants, E!Init PROVE FilesKept /\ Loadings /\ Traced
<1>1. PICK w \in ForEgress.Worlds : settingsFile = w.settings /\ policyFile = w.policy
  BY DEF E!Init
<1>2. writer.at = "idle" /\ DOMAIN writer = {"at", "file", "doc"} /\ writer.file = "none"
  BY DEF E!Init, E!AtRest
<1>3. FilesKept
  <2>1. written = 0 /\ clock = 0 /\ ~AtSettings
    BY <1>2 DEF E!Init, AtSettings
  <2>2. \A n \in DOMAIN settingsFile.doc.secrets : Past(settingsFile.doc.secrets[n].value)
    BY <1>1, <2>1 DEF EgressConstants, HasSecrets, Entries, Past
  <2> QED BY <1>1, <1>2, <2>1, <2>2 DEF EgressConstants, FilesKept
<1>4. DOMAIN proxy.secrets = {} /\ flight = {} /\ proxy.stamp = -1 /\ proxy.read = -1
  BY DEF E!Init, E!NoEntries
<1>5. Loadings
  BY <1>1, <1>4 DEF EgressConstants, E!Init, E!Idle, Loadings, AboutSettings, AboutPolicies
<1>6. Traced
  BY <1>2, <1>4 DEF Traced, Sendable, ValuesOf, AtSettings
<1> QED BY <1>3, <1>5, <1>6

(* What a name's entry is replaced by, and what the others keep.           *)
With(doc, n, e) == [doc EXCEPT !.secrets = E!Keep(doc.secrets, n, e)]
LEMMA KeepReplacesOne ==
  ASSUME NEW doc, HasSecrets(doc), NEW n \in ForEgress.Names, NEW e \in Entries
  PROVE  /\ HasSecrets(With(doc, n, e))
         /\ DOMAIN With(doc, n, e).secrets = DOMAIN doc.secrets \union {n}
         /\ With(doc, n, e).secrets[n] = e
         /\ \A m \in DOMAIN doc.secrets \ {n} : With(doc, n, e).secrets[m] = doc.secrets[m]
<1> DEFINE next == With(doc, n, e)
<1>1. DOMAIN next = DOMAIN doc /\ next.secrets = E!Keep(doc.secrets, n, e)
  BY DEF HasSecrets, With
<1>2. E!Keep(doc.secrets, n, e) =
        [m \in DOMAIN doc.secrets \union {n} |-> IF m = n THEN e ELSE doc.secrets[m]]
  BY DEF E!Keep
<1> QED BY <1>1, <1>2 DEF HasSecrets

(* What every command on a file does, whatever it writes.                  *)
Commanded(file) ==
  /\ writer.at = "idle" /\ written < ForEgress.Writes /\ written' = written + 1
  /\ DOMAIN writer' = {"at", "file", "doc"} /\ writer'.at = "unlink" /\ writer'.file = file
  /\ UNCHANGED <<clock, proxy, hook, flight>>
IsMade(file, doc) ==
  file.st = "gone" /\ file' = [st |-> "whole", stamp |-> file.stamp + 1, doc |-> doc]
OnTheSettings ==
  /\ Commanded("settings") /\ UNCHANGED policyFile
  /\ \/ UNCHANGED <<settingsFile, steady>>
     \/ IsMade(settingsFile, E!Fresh) /\ steady' = (steady /\ hook.at = "idle")
  /\ HasSecrets(writer'.doc) /\ OneValueEach(writer'.doc)
  /\ Follows(settingsFile.doc, writer.doc)'
OnThePolicies ==
  /\ Commanded("policy") /\ UNCHANGED settingsFile
  /\ \/ UNCHANGED <<policyFile, steady>>
     \/ IsMade(policyFile, E!NoEntries) /\ steady' = (hook.at = "idle")
  /\ Dated(writer'.doc)

(* The settings there were, or none, have no value a command may write.    *)
LEMMA NewValueIsNew ==
  ASSUME EgressConstants, FilesKept, written < ForEgress.Writes
  PROVE  /\ written + 1 \notin ValuesOf(settingsFile.doc.secrets)
         /\ HasSecrets(E!Fresh) /\ DOMAIN E!Fresh.secrets = {} /\ ValuesOf(E!Fresh.secrets) = {}
<1>1. \A n \in DOMAIN settingsFile.doc.secrets : settingsFile.doc.secrets[n].value # written + 1
  BY DEF EgressConstants, FilesKept, Past
<1>2. E!Fresh.secrets = [s \in {} |-> s] /\ DOMAIN E!Fresh = {"secrets", "network", "open"}
  BY DEF E!Fresh, E!NoEntries
<1> QED BY <1>1, <1>2 DEF HasSecrets, ValuesOf

LEMMA CommandsOnSettings ==
  ASSUME EgressConstants, FilesKept, Loadings, NEW n,
         \/ E!SecretRm(n)
         \/ \E off \in {"on", "off"}, ttl \in BOOLEAN : E!SecretOnOff(n, off, ttl)
         \/ \E host \in ForEgress.Hosts, p \in ForEgress.Projects : E!ProxyAllow(host, p)
  PROVE  OnTheSettings
<1> DEFINE doc == settingsFile.doc
<1>1. HasSecrets(doc) /\ OneValueEach(doc)
  BY DEF FilesKept
<1>2. \A e \in Entries : SameButForItsSwitch(e, e)
  BY DEF SameButForItsSwitch, Entries
<1>3. ASSUME NEW next, HasSecrets(next), DOMAIN next.secrets \subseteq DOMAIN doc.secrets,
             \A m \in DOMAIN next.secrets : SameButForItsSwitch(doc.secrets[m], next.secrets[m]),
             E!OnSettings(next)
      PROVE  OnTheSettings
  <2>1. \A m \in DOMAIN next.secrets : next.secrets[m].value = doc.secrets[m].value
    <3> TAKE m \in DOMAIN next.secrets
    <3>1. doc.secrets[m] \in Entries /\ next.secrets[m] =
            [doc.secrets[m] EXCEPT !.off = next.secrets[m].off, !.until = next.secrets[m].until]
      BY <1>1, <1>3 DEF HasSecrets, SameButForItsSwitch
    <3> QED BY <3>1 DEF Entries
  <2>2. OneValueEach(next)
    BY <1>1, <1>3, <2>1 DEF OneValueEach
  <2>3. /\ Commanded("settings") /\ writer'.doc = next /\ UNCHANGED <<policyFile, settingsFile, steady>>
    BY <1>3 DEF E!OnSettings, E!Command, E!files, Commanded
  <2>4. Follows(settingsFile.doc, writer.doc)'
    BY <1>3, <2>3 DEF Follows
  <2> QED BY <1>3, <2>2, <2>3, <2>4 DEF OnTheSettings
<1>4. CASE E!SecretRm(n)
  <2> DEFINE next == [doc EXCEPT !.secrets = [m \in DOMAIN doc.secrets \ {n} |-> doc.secrets[m]]]
  <2>1. next.secrets = [m \in DOMAIN doc.secrets \ {n} |-> doc.secrets[m]] /\ DOMAIN next = DOMAIN doc
    BY <1>1 DEF HasSecrets
  <2>2. HasSecrets(next)
    BY <1>1, <2>1 DEF HasSecrets
  <2>3. E!OnSettings(next)
    BY <1>4 DEF E!SecretRm, E!Secrets
  <2>4. \A m \in DOMAIN next.secrets : SameButForItsSwitch(doc.secrets[m], next.secrets[m])
    BY <1>1, <1>2, <2>1 DEF HasSecrets
  <2> HIDE DEF next
  <2> QED BY <1>3, <2>1, <2>2, <2>3, <2>4
<1>5. ASSUME NEW off \in {"on", "off"}, NEW ttl \in BOOLEAN, E!SecretOnOff(n, off, ttl)
      PROVE  OnTheSettings
  <2> DEFINE e == [doc.secrets[n] EXCEPT !.off = off, !.until = IF ttl THEN clock + 1 ELSE 0]
             next == With(doc, n, e)
  <2>1. /\ n \in DOMAIN doc.secrets /\ doc.secrets[n] \in Entries /\ n \in ForEgress.Names
        /\ E!OnSettings(next)
    BY <1>1, <1>5 DEF E!SecretOnOff, E!Secrets, HasSecrets, With
  <2>2. e \in Entries /\ SameButForItsSwitch(doc.secrets[n], e)
    <3>1. PICK until \in Nat : until = IF ttl THEN clock + 1 ELSE 0
      BY DEF FilesKept
    <3>2. e = [doc.secrets[n] EXCEPT !.off = off, !.until = until]
      BY <3>1
    <3> HIDE DEF e
    <3>3. e \in Entries /\ e.off = off /\ e.until = until
      BY <2>1, <3>2 DEF Entries
    <3> QED BY <3>2, <3>3 DEF SameButForItsSwitch
  <2> HIDE DEF e
  <2>3. /\ HasSecrets(next) /\ DOMAIN next.secrets = DOMAIN doc.secrets \union {n}
        /\ next.secrets[n] = e
        /\ \A m \in DOMAIN doc.secrets \ {n} : next.secrets[m] = doc.secrets[m]
    BY <1>1, <2>1, <2>2, KeepReplacesOne
  <2> HIDE DEF next
  <2>4. \A m \in DOMAIN next.secrets : SameButForItsSwitch(doc.secrets[m], next.secrets[m])
    BY <1>1, <1>2, <2>1, <2>2, <2>3 DEF HasSecrets
  <2> QED BY <1>3, <2>1, <2>3, <2>4
<1>6. ASSUME NEW host \in ForEgress.Hosts, NEW p \in ForEgress.Projects, E!ProxyAllow(host, p)
      PROVE  OnTheSettings
  <2>1. PICK next : /\ E!OnSettings(next)
                    /\ next = doc \/ \E rules : next = [doc EXCEPT !.network = rules]
    BY <1>6 DEF E!ProxyAllow
  <2>2. next.secrets = doc.secrets /\ DOMAIN next = DOMAIN doc
    BY <1>1, <2>1 DEF HasSecrets
  <2>3. HasSecrets(next)
    BY <1>1, <2>2 DEF HasSecrets
  <2>4. \A m \in DOMAIN next.secrets : SameButForItsSwitch(doc.secrets[m], next.secrets[m])
    BY <1>1, <1>2, <2>2 DEF HasSecrets
  <2> QED BY <1>3, <2>1, <2>2, <2>3, <2>4
<1> QED BY <1>4, <1>5, <1>6

LEMMA AddingASecret ==
  ASSUME EgressConstants, FilesKept, Loadings, NEW n \in ForEgress.Names,
         NEW projects \in {{}, ForEgress.Projects}, NEW headers \in {"any", "authorization"},
         E!SecretAdd(n, projects, headers)
  PROVE  OnTheSettings
<1> DEFINE new == [value |-> written + 1, hosts |-> {"h"}, projects |-> projects,
                   headers |-> headers, off |-> "on", until |-> 0]
           file == E!Made(settingsFile, E!Fresh)
           next == With(file.doc, n, new)
<1>1. /\ file.st = "whole" /\ n \notin E!Overlapping(DOMAIN file.doc.secrets \union {n})
      /\ E!Command("settings", next)
      /\ settingsFile' = file /\ UNCHANGED policyFile
      /\ steady' = (steady /\ (settingsFile.st = "whole" \/ hook.at = "idle"))
  BY DEF E!SecretAdd, With
<1>2. written < ForEgress.Writes
  BY <1>1 DEF E!Command
<1>3. \/ file = settingsFile /\ settingsFile.st = "whole"
      \/ IsMade(settingsFile, E!Fresh) /\ file.doc = E!Fresh /\ steady' = (steady /\ hook.at = "idle")
  BY <1>1 DEF E!Made, IsMade
<1>4. HasSecrets(file.doc) /\ OneValueEach(file.doc) /\ written + 1 \notin ValuesOf(file.doc.secrets)
  BY <1>2, <1>3, NewValueIsNew DEF FilesKept, OneValueEach
<1>5. new \in Entries /\ new.value = written + 1
  <2>1. written + 1 \in Nat /\ {"h"} \in SUBSET (ForEgress.Hosts \union {"*"})
        /\ projects \in SUBSET ForEgress.Projects
    BY DEF EgressConstants, FilesKept
  <2> QED BY <2>1 DEF Entries
<1> HIDE DEF new, file
<1>6. /\ HasSecrets(next) /\ DOMAIN next.secrets = DOMAIN file.doc.secrets \union {n}
      /\ next.secrets[n] = new
      /\ \A m \in DOMAIN file.doc.secrets \ {n} : next.secrets[m] = file.doc.secrets[m]
  BY <1>4, <1>5, KeepReplacesOne
<1>7. Commanded("settings") /\ writer'.doc = next
  BY <1>1 DEF E!Command, Commanded
<1> HIDE DEF next
<1>8. OneValueEach(next)
  BY <1>4, <1>5, <1>6 DEF OneValueEach, ValuesOf
<1>9. Follows(settingsFile.doc, writer.doc)'
  <2> SUFFICES ASSUME NEW m \in DOMAIN next.secrets
               PROVE  \/ m \in DOMAIN file.doc.secrets
                         /\ SameButForItsSwitch(file.doc.secrets[m], next.secrets[m])
                      \/ next.secrets[m].value = written' /\ m \notin E!Overlapping(DOMAIN next.secrets)
    BY <1>1, <1>7 DEF Follows
  <2>1. CASE m = n
    BY <1>1, <1>5, <1>6, <1>7, <2>1 DEF Commanded
  <2>2. CASE m # n
    <3>1. m \in DOMAIN file.doc.secrets /\ next.secrets[m] = file.doc.secrets[m]
          /\ file.doc.secrets[m] \in Entries
      BY <1>4, <1>6, <2>2 DEF HasSecrets
    <3> QED BY <3>1 DEF SameButForItsSwitch, Entries
  <2> QED BY <2>1, <2>2
<1>10. \/ UNCHANGED <<settingsFile, steady>>
       \/ IsMade(settingsFile, E!Fresh) /\ steady' = (steady /\ hook.at = "idle")
  BY <1>1, <1>3 DEF Loadings
<1> QED BY <1>1, <1>6, <1>7, <1>8, <1>9, <1>10 DEF OnTheSettings

LEMMA CommandsOnPolicies ==
  ASSUME EgressConstants, FilesKept, Loadings, NEW p, NEW e, e.until \in Int, E!Enforce(p, e)
  PROVE  OnThePolicies
<1>1. PICK doc : E!OnPolicy(doc) /\ Dated(doc)
  <2> DEFINE old == E!PolicyDoc
             without == [q \in DOMAIN old \ {p} |-> old[q]]
             with == [q \in DOMAIN old \union {p} |-> IF q = p THEN e ELSE old[q]]
  <2>1. Dated(old)
    BY DEF E!PolicyDoc, E!NoEntries, FilesKept, Dated
  <2> HIDE DEF old
  <2>2. Dated(without) /\ Dated(with)
    BY <2>1 DEF Dated
  <2>3. E!OnPolicy(IF e.action = "allow" THEN without ELSE with)
    BY DEF E!Enforce, old
  <2> HIDE DEF without, with
  <2> QED BY <2>2, <2>3
<1>2. Commanded("policy") /\ UNCHANGED settingsFile /\ policyFile.st # "torn" /\ Dated(writer'.doc)
  BY <1>1 DEF E!OnPolicy, E!Command, Commanded
<1>3. CASE policyFile.st = "whole"
  BY <1>1, <1>2, <1>3 DEF E!OnPolicy, E!Made, OnThePolicies
<1>4. CASE policyFile.st = "gone"
  BY <1>1, <1>2, <1>4 DEF E!OnPolicy, E!Made, IsMade, OnThePolicies
<1> QED BY <1>2, <1>3, <1>4 DEF FilesKept, E!States

LEMMA OperateWritesOneFile ==
  ASSUME EgressConstants, FilesKept, Loadings, E!Operate PROVE OnTheSettings \/ OnThePolicies
<1>1. CASE \E n \in ForEgress.Names :
             \/ \E p \in {{}, ForEgress.Projects}, h \in {"any", "authorization"} : E!SecretAdd(n, p, h)
             \/ E!SecretRm(n) \/ E!SecretOnOff(n, "off", FALSE)
             \/ \E ttl \in BOOLEAN : E!SecretOnOff(n, "on", ttl)
  BY <1>1, AddingASecret, CommandsOnSettings
<1>2. CASE \E p \in ForEgress.Projects, h \in ForEgress.Hosts : E!ProxyAllow(h, p)
  <2>1. PICK p \in ForEgress.Projects, h \in ForEgress.Hosts : E!ProxyAllow(h, p)
    BY <1>2
  <2> QED BY <2>1, CommandsOnSettings
<1>3. CASE \E p, e : e.until \in Int /\ E!Enforce(p, e)
  BY <1>3, CommandsOnPolicies
<1>4. /\ E!Denied.until \in Int /\ [E!Denied EXCEPT !.action = "allow"].until \in Int
      /\ \A then : [action |-> "learn", until |-> clock + 1, then |-> then].until \in Int
  BY DEF E!Denied, FilesKept
<1> QED BY <1>1, <1>2, <1>3, <1>4 DEF E!Operate, E!Learn

(* What a step of install does.                                            *)
Replaced(file, st) ==
  file' = [st |-> st, stamp |-> file.stamp + 1,
           doc |-> IF st = "whole" THEN writer.doc ELSE file.doc]
Installs(st) ==
  /\ writer.at # "idle" /\ steady' = (hook.at = "idle")
  /\ UNCHANGED <<written, clock, proxy, hook, flight>>
  /\ IF writer.file = "settings" THEN Replaced(settingsFile, st) ELSE UNCHANGED settingsFile
  /\ IF writer.file = "policy" THEN Replaced(policyFile, st) ELSE UNCHANGED policyFile
  /\ IF st = "whole" THEN writer' = E!AtRest
     ELSE /\ DOMAIN writer' = DOMAIN writer /\ writer'.at \in {"create", "copy"}
          /\ writer'.file = writer.file /\ writer'.doc = writer.doc
InstallStep == E!InstallUnlinks \/ E!InstallCreates \/ E!InstallCopies
LEMMA InstallReplaces ==
  ASSUME FilesKept, InstallStep PROVE \E st \in E!States : Installs(st)
<1>1. CASE E!InstallUnlinks
  BY <1>1 DEF FilesKept, E!States, Installs, Replaced, E!InstallUnlinks, E!Install, E!Rewritten
<1>2. CASE E!InstallCreates
  BY <1>2 DEF FilesKept, E!States, Installs, Replaced, E!InstallCreates, E!Install, E!Rewritten
<1>3. CASE E!InstallCopies
  BY <1>3 DEF FilesKept, E!States, Installs, Replaced, E!InstallCopies, E!Install, E!Rewritten
<1> QED BY <1>1, <1>2, <1>3 DEF InstallStep

(* The addon only reads them.                                              *)
HookStep == \/ \E kind \in {"request", "message"} : E!Arrive(kind)
            \/ E!StatSettings \/ E!ReadSettings \/ E!StatPolicy \/ E!RereadPolicy
            \/ E!Decide \/ E!Message
            \/ \E v \in flight : E!Respond(v)
LEMMA HookOnlyReads ==
  ASSUME HookStep PROVE UNCHANGED <<settingsFile, policyFile, writer, written, clock>>
BY DEF HookStep, E!Arrive, E!StatSettings, E!ReadSettings, E!StatPolicy, E!RereadPolicy,
       E!Decide, E!Message, E!Respond, E!At, E!files

LEMMA EgressSteps ==
  ASSUME EgressConstants, FilesKept, Loadings, [E!Next]_E!vars
  PROVE  \/ OnTheSettings \/ OnThePolicies \/ InstallStep \/ HookStep
         \/ E!Tick \/ UNCHANGED E!vars
BY OperateWritesOneFile DEF E!Next, InstallStep, HookStep

-----------------------------------------------------------------------------
LEMMA FollowedValues ==
  ASSUME NEW doc, HasSecrets(doc), NEW next, HasSecrets(next), Follows(doc, next),
         NEW n \in DOMAIN next.secrets
  PROVE  \/ n \in DOMAIN doc.secrets /\ doc.secrets[n].value = next.secrets[n].value
         \/ next.secrets[n].value = written
<1>1. CASE n \in DOMAIN doc.secrets /\ SameButForItsSwitch(doc.secrets[n], next.secrets[n])
  <2>1. doc.secrets[n] \in Entries
    BY <1>1 DEF HasSecrets
  <2> QED BY <1>1, <2>1 DEF SameButForItsSwitch, Entries
<1> QED BY <1>1 DEF Follows

LEMMA FilesStayKept ==
  ASSUME EgressConstants, FilesKept, Loadings, [E!Next]_E!vars PROVE FilesKept'
<1>1. CASE OnTheSettings
  <2>1. written' \in Nat /\ written' <= ForEgress.Writes /\ clock' \in Nat /\ written < ForEgress.Writes
        /\ written' = written + 1
    BY <1>1 DEF EgressConstants, FilesKept, OnTheSettings, Commanded
  <2>2. \A v : Past(v) => Past(v)'
    BY <2>1 DEF FilesKept, Past
  <2>3. CASE UNCHANGED settingsFile
    <3>1. written' \notin ValuesOf(settingsFile'.doc.secrets)
      BY <2>1, <2>3, NewValueIsNew
    <3> QED BY <1>1, <2>1, <2>2, <2>3, <3>1 DEF FilesKept, OnTheSettings, Commanded, AtSettings
  <2>4. CASE IsMade(settingsFile, E!Fresh)
    <3>1. settingsFile'.doc = E!Fresh /\ DOMAIN settingsFile' = FileFields
          /\ settingsFile'.st \in E!States /\ settingsFile'.stamp \in Nat
      BY <2>4 DEF FilesKept, IsMade, E!States, FileFields
    <3>2. HasSecrets(E!Fresh) /\ DOMAIN E!Fresh.secrets = {} /\ ValuesOf(E!Fresh.secrets) = {}
      BY <2>1, NewValueIsNew
    <3> QED BY <1>1, <2>1, <3>1, <3>2 DEF FilesKept, OnTheSettings, Commanded, AtSettings, OneValueEach
  <2> QED BY <1>1, <2>3, <2>4 DEF OnTheSettings
<1>2. CASE OnThePolicies
  <2>1. written' \in Nat /\ written' <= ForEgress.Writes /\ clock' \in Nat /\ written' = written + 1
    BY <1>2 DEF EgressConstants, FilesKept, OnThePolicies, Commanded
  <2>2. \A v : Past(v) => Past(v)'
    BY <2>1 DEF FilesKept, Past
  <2>3. DOMAIN policyFile' = FileFields /\ policyFile'.st \in E!States /\ policyFile'.stamp \in Nat
    BY <1>2 DEF OnThePolicies, IsMade, FilesKept, E!States, FileFields
  <2>4. ~AtSettings' /\ DOMAIN writer' = {"at", "file", "doc"}
        /\ writer'.at = "unlink" /\ writer'.file = "policy" /\ settingsFile' = settingsFile
    BY <1>2 DEF OnThePolicies, Commanded, AtSettings
  <2>5. Dated(policyFile'.doc) /\ Dated(writer'.doc)
    BY <1>2 DEF OnThePolicies, IsMade, FilesKept, Dated, E!NoEntries
  <2> QED BY <2>1, <2>2, <2>3, <2>4, <2>5 DEF FilesKept
<1>3. CASE InstallStep
  <2>1. PICK st \in E!States : Installs(st)
    BY <1>3, InstallReplaces
  <2>2. /\ DOMAIN policyFile' = FileFields /\ policyFile'.st \in E!States /\ policyFile'.stamp \in Nat
        /\ Dated(policyFile'.doc)
        /\ writer'.at # "idle" /\ writer'.file = "policy" => Dated(writer'.doc)
    BY <2>1 DEF Installs, Replaced, FilesKept, FileFields, Dated, E!AtRest
  <2>3. DOMAIN settingsFile' = FileFields /\ settingsFile'.st \in E!States /\ settingsFile'.stamp \in Nat
    BY <2>1 DEF Installs, Replaced, FilesKept, FileFields
  <2>4. /\ written' = written /\ clock' = clock
        /\ DOMAIN writer' = {"at", "file", "doc"} /\ writer'.at \in {"idle", "create", "copy"}
        /\ writer'.file \in {"none", "settings", "policy"}
    BY <2>1 DEF Installs, FilesKept, E!AtRest
  <2>5. CASE st = "whole" /\ writer.file = "settings"
    <3>1. settingsFile'.doc = writer.doc /\ AtSettings /\ ~AtSettings'
      BY <2>1, <2>5 DEF Installs, Replaced, AtSettings, E!AtRest
    <3>2. HasSecrets(writer.doc) /\ OneValueEach(writer.doc) /\ Follows(settingsFile.doc, writer.doc)
      BY <3>1 DEF FilesKept
    <3>3. \A n \in DOMAIN writer.doc.secrets : Past(writer.doc.secrets[n].value)
      BY <3>2, FollowedValues DEF FilesKept, Past
    <3> QED BY <2>2, <2>3, <2>4, <3>1, <3>2, <3>3 DEF FilesKept, Past
  <2>6. CASE ~(st = "whole" /\ writer.file = "settings")
    <3>1. settingsFile'.doc = settingsFile.doc /\ (AtSettings' => AtSettings /\ writer'.doc = writer.doc)
      BY <2>1, <2>6 DEF Installs, Replaced, AtSettings, E!AtRest
    <3> QED BY <2>2, <2>3, <2>4, <3>1 DEF FilesKept, Past, Follows
  <2> QED BY <2>5, <2>6
<1>4. CASE HookStep
  BY <1>4, HookOnlyReads DEF FilesKept, Past, AtSettings, Follows
<1>5. CASE E!Tick
  BY <1>5 DEF E!Tick, E!files, FilesKept, Past, AtSettings, Follows
<1>6. CASE UNCHANGED E!vars
  BY <1>6 DEF E!vars, FilesKept, Past, AtSettings, Follows
<1> QED BY <1>1, <1>2, <1>3, <1>4, <1>5, <1>6, EgressSteps

(* A file that is written anew is one the addon has not read, and as the   *)
(* hook is not to be judged then, nothing is said of it until the next.    *)
LEMMA FilesWrittenAnew ==
  ASSUME FilesKept, Loadings, UNCHANGED <<proxy, hook>>,
         steady' \in BOOLEAN, steady' => steady \/ hook.at = "idle",
         \/ UNCHANGED settingsFile
         \/ settingsFile'.stamp = settingsFile.stamp + 1 /\ (steady' => hook.at = "idle"),
         \/ UNCHANGED policyFile
         \/ policyFile'.stamp = policyFile.stamp + 1 /\ (steady' => hook.at = "idle")
  PROVE  Loadings'
<1>1. ASSUME UNCHANGED settingsFile PROVE AboutSettings'
  <2>1. E!Loaded(settingsFile.doc)' = E!Loaded(settingsFile.doc)
    BY <1>1 DEF E!Loaded, E!Overlapping
  <2> QED BY <1>1, <2>1 DEF Loadings, AboutSettings
<1>2. ASSUME settingsFile'.stamp = settingsFile.stamp + 1, steady' => hook.at = "idle"
      PROVE  AboutSettings'
  <2>1. proxy.stamp <= settingsFile'.stamp /\ proxy.stamp # settingsFile'.stamp
    BY <1>2 DEF FilesKept, Loadings, AboutSettings
  <2>2. hook.at = "read" => hook.stat <= settingsFile'.stamp
    BY <1>2 DEF FilesKept, Loadings, AboutSettings
  <2> QED BY <1>2, <2>1, <2>2 DEF Loadings, AboutSettings
<1>3. AboutSettings'
  BY <1>1, <1>2
<1>4. ASSUME UNCHANGED policyFile PROVE AboutPolicies'
  BY <1>4 DEF Loadings, AboutPolicies, Parsed
<1>5. ASSUME policyFile'.stamp = policyFile.stamp + 1, steady' => hook.at = "idle"
      PROVE  AboutPolicies'
  <2>1. proxy.read <= policyFile'.stamp /\ proxy.read # policyFile'.stamp
    BY <1>5 DEF FilesKept, Loadings, AboutPolicies
  <2>2. hook.at = "reread" => hook.stat <= policyFile'.stamp
    BY <1>5 DEF FilesKept, Loadings, AboutPolicies
  <2> QED BY <1>5, <2>1, <2>2 DEF Loadings, AboutPolicies
<1>6. AboutPolicies'
  BY <1>4, <1>5
<1> QED BY <1>3, <1>6 DEF Loadings

LEMMA LoadingsStay ==
  ASSUME EgressConstants, FilesKept, Loadings, [E!Next]_E!vars PROVE Loadings'
<1>1. CASE OnTheSettings
  <2>1. /\ UNCHANGED <<proxy, hook>> /\ UNCHANGED policyFile
        /\ \/ UNCHANGED <<settingsFile, steady>>
           \/ settingsFile' = [st |-> "whole", stamp |-> settingsFile.stamp + 1, doc |-> E!Fresh]
              /\ steady' = (steady /\ hook.at = "idle")
    BY <1>1 DEF OnTheSettings, Commanded, IsMade
  <2>2. CASE UNCHANGED <<settingsFile, steady>>
    BY <2>1, <2>2, FilesWrittenAnew DEF Loadings
  <2>3. CASE settingsFile'.stamp = settingsFile.stamp + 1 /\ steady' = (steady /\ hook.at = "idle")
    <3>1. steady' \in BOOLEAN
      BY <2>3
    <3>2. steady' => hook.at = "idle"
      BY <2>3
    <3> QED BY <2>1, <2>3, <3>1, <3>2, FilesWrittenAnew
  <2> QED BY <2>1, <2>2, <2>3
<1>2. CASE OnThePolicies
  <2>1. /\ UNCHANGED <<proxy, hook>> /\ UNCHANGED settingsFile
        /\ \/ UNCHANGED <<policyFile, steady>>
           \/ policyFile' = [st |-> "whole", stamp |-> policyFile.stamp + 1, doc |-> E!NoEntries]
              /\ steady' = (hook.at = "idle")
    BY <1>2 DEF OnThePolicies, Commanded, IsMade
  <2>2. CASE UNCHANGED <<policyFile, steady>>
    BY <2>1, <2>2, FilesWrittenAnew DEF Loadings
  <2>3. CASE policyFile'.stamp = policyFile.stamp + 1 /\ steady' = (hook.at = "idle")
    <3>1. steady' \in BOOLEAN
      BY <2>3
    <3>2. steady' => hook.at = "idle"
      BY <2>3
    <3> QED BY <2>1, <2>3, <3>1, <3>2, FilesWrittenAnew
  <2> QED BY <2>1, <2>2, <2>3
<1>3. CASE InstallStep
  <2>1. PICK st \in E!States : Installs(st)
    BY <1>3, InstallReplaces
  <2>2. /\ UNCHANGED <<proxy, hook>> /\ steady' = (hook.at = "idle")
        /\ UNCHANGED settingsFile \/ settingsFile'.stamp = settingsFile.stamp + 1
        /\ UNCHANGED policyFile \/ policyFile'.stamp = policyFile.stamp + 1
    BY <2>1 DEF Installs, Replaced
  <2> QED BY <2>2, FilesWrittenAnew
<1>4. CASE HookStep
  <2>1. UNCHANGED <<settingsFile, policyFile>>
    BY <1>4, HookOnlyReads
  <2>2. CASE \E kind \in {"request", "message"} : E!Arrive(kind)
    <3>1. PICK kind \in {"request", "message"} : hook' = [E!Idle EXCEPT !.at = "settings", !.kind = kind]
      BY <2>2 DEF E!Arrive
    <3>2. hook' = [at |-> "settings", kind |-> kind, stat |-> -1] /\ steady' = TRUE /\ UNCHANGED proxy
      BY <2>2, <3>1 DEF E!Idle, E!Arrive
    <3>3. E!Loaded(settingsFile.doc)' = E!Loaded(settingsFile.doc) /\ Parsed(policyFile.doc)' = Parsed(policyFile.doc)
      BY <2>1 DEF E!Loaded, E!Overlapping, Parsed
    <3> QED BY <2>1, <3>2, <3>3 DEF Loadings, AboutSettings, AboutPolicies
  <2>3. CASE E!StatSettings
    <3>1. UNCHANGED <<proxy, steady>> /\ hook.at = "settings"
      BY <2>3 DEF E!StatSettings, E!At
    <3>2. CASE settingsFile.st = "gone" \/ settingsFile.stamp = proxy.stamp
      <4>1. hook' = [hook EXCEPT !.at = hook'.at] /\ hook'.at \in {"policy", "scrub"}
        BY <2>3, <3>2 DEF Loadings, AboutSettings, AboutPolicies, E!StatSettings, E!Then, E!AfterSettings
      <4> QED BY <2>1, <3>1, <3>2, <4>1 DEF Loadings, AboutSettings, AboutPolicies, Parsed
    <3>3. CASE ~(settingsFile.st = "gone" \/ settingsFile.stamp = proxy.stamp)
      <4>1. hook' = [hook EXCEPT !.at = "read", !.stat = settingsFile.stamp]
        BY <2>3, <3>3 DEF E!StatSettings
      <4>2. hook' = [at |-> "read", kind |-> hook.kind, stat |-> settingsFile.stamp]
            /\ hook.kind \in {"none", "request", "message"} /\ settingsFile.stamp \in Int
        <5>1. settingsFile.stamp \in Int
          BY DEF FilesKept
        <5> QED BY <4>1, <5>1 DEF Loadings
      <4>3. AboutSettings' /\ AboutPolicies'
        BY <2>1, <3>1, <4>1, <4>2 DEF Loadings, AboutSettings, AboutPolicies, Parsed
      <4> QED BY <3>1, <4>1, <4>2, <4>3 DEF Loadings
    <3> QED BY <3>2, <3>3
  <2>4. CASE E!ReadSettings
    <3>1. /\ UNCHANGED steady /\ hook.at = "read"
          /\ hook' = [hook EXCEPT !.at = hook'.at] /\ hook'.at \in {"policy", "scrub"}
      BY <2>4 DEF Loadings, AboutSettings, AboutPolicies, E!ReadSettings, E!At, E!Then, E!AfterSettings
    <3>2. CASE settingsFile.st # "whole"
      <4>1. UNCHANGED proxy
        BY <2>4, <3>2 DEF E!ReadSettings
      <4> QED BY <2>1, <3>1, <3>2, <4>1 DEF Loadings, AboutSettings, AboutPolicies, Parsed
    <3>3. CASE settingsFile.st = "whole"
      <4>1. proxy' = [proxy EXCEPT !.stamp = hook.stat, !.secrets = E!Loaded(settingsFile.doc),
                       !.network = settingsFile.doc.network, !.open = settingsFile.doc.open]
        BY <2>4, <3>3 DEF E!ReadSettings
      <4>2. /\ DOMAIN proxy' = DOMAIN proxy /\ proxy'.stamp = hook.stat
            /\ proxy'.secrets = E!Loaded(settingsFile.doc)
            /\ proxy'.read = proxy.read /\ proxy'.policies = proxy.policies
        BY <4>1 DEF Loadings, AboutSettings, AboutPolicies
      <4>3. E!Loaded(settingsFile.doc)' = E!Loaded(settingsFile.doc)
        BY <2>1 DEF E!Loaded, E!Overlapping
      <4> QED BY <2>1, <3>1, <4>2, <4>3 DEF Loadings, AboutSettings, AboutPolicies, Parsed
    <3> QED BY <3>2, <3>3
  <2>5. CASE E!StatPolicy
    <3>1. UNCHANGED steady /\ hook.at = "policy"
      BY <2>5 DEF E!StatPolicy, E!At
    <3>2. CASE policyFile.st = "gone"
      <4>1. hook' = [hook EXCEPT !.at = "decide"]
            /\ proxy' = [proxy EXCEPT !.policies = E!NoEntries, !.read = -1]
        BY <2>5, <3>2 DEF E!StatPolicy, E!Then
      <4> QED BY <2>1, <3>1, <3>2, <4>1 DEF Loadings, AboutSettings, AboutPolicies, Parsed, FilesKept
    <3>3. CASE policyFile.st # "gone" /\ policyFile.stamp = proxy.read
      <4>1. hook' = [hook EXCEPT !.at = "decide"] /\ UNCHANGED proxy
        BY <2>5, <3>3 DEF E!StatPolicy, E!Then
      <4> QED BY <2>1, <3>1, <3>3, <4>1 DEF Loadings, AboutSettings, AboutPolicies, Parsed
    <3>4. CASE policyFile.st # "gone" /\ policyFile.stamp # proxy.read
      <4>1. hook' = [hook EXCEPT !.at = "reread", !.stat = policyFile.stamp] /\ UNCHANGED proxy
        BY <2>5, <3>4 DEF E!StatPolicy
      <4>2. hook' = [at |-> "reread", kind |-> hook.kind, stat |-> policyFile.stamp]
            /\ hook.kind \in {"none", "request", "message"} /\ policyFile.stamp \in Int
        <5>1. policyFile.stamp \in Int
          BY DEF FilesKept
        <5> QED BY <4>1, <5>1 DEF Loadings
      <4>3. AboutSettings' /\ AboutPolicies'
        BY <2>1, <3>1, <4>1, <4>2 DEF Loadings, AboutSettings, AboutPolicies, Parsed
      <4> QED BY <3>1, <4>1, <4>2, <4>3 DEF Loadings
    <3> QED BY <3>2, <3>3, <3>4
  <2>6. CASE E!RereadPolicy
    <3>1. UNCHANGED steady /\ hook.at = "reread" /\ hook' = [hook EXCEPT !.at = "decide"]
      BY <2>6 DEF E!RereadPolicy, E!At, E!Then
    <3>2. CASE policyFile.st # "whole"
      <4>1. UNCHANGED proxy
        BY <2>6, <3>2 DEF E!RereadPolicy
      <4> QED BY <2>1, <3>1, <3>2, <4>1 DEF Loadings, AboutSettings, AboutPolicies, Parsed
    <3>3. CASE policyFile.st = "whole"
      <4>1. proxy' = [proxy EXCEPT !.read = hook.stat, !.policies = Parsed(policyFile.doc)]
        BY <2>6, <3>3 DEF E!RereadPolicy, Parsed
      <4>2. /\ DOMAIN proxy' = DOMAIN proxy /\ proxy'.read = hook.stat
            /\ proxy'.policies = Parsed(policyFile.doc)
            /\ proxy'.stamp = proxy.stamp /\ proxy'.secrets = proxy.secrets
        BY <4>1 DEF Loadings, AboutSettings, AboutPolicies
      <4>3. Parsed(policyFile.doc)' = Parsed(policyFile.doc)
        BY <2>1 DEF Parsed
      <4> QED BY <2>1, <3>1, <4>2, <4>3 DEF Loadings, AboutSettings, AboutPolicies
    <3> QED BY <3>2, <3>3
  <2>7. CASE E!Decide
    BY <2>1, <2>7 DEF Loadings, AboutSettings, AboutPolicies, Parsed, E!Decide, E!Idle
  <2>8. CASE E!Message
    BY <2>1, <2>8 DEF Loadings, AboutSettings, AboutPolicies, Parsed, E!Message, E!Idle
  <2>9. CASE \E v \in flight : E!Respond(v)
    BY <2>1, <2>9 DEF Loadings, AboutSettings, AboutPolicies, Parsed, E!Respond
  <2> QED BY <1>4, <2>2, <2>3, <2>4, <2>5, <2>6, <2>7, <2>8, <2>9 DEF HookStep
<1>5. CASE E!Tick \/ UNCHANGED E!vars
  <2>1. UNCHANGED <<settingsFile, policyFile, proxy, hook, steady>>
    BY <1>5 DEF E!Tick, E!files, E!vars
  <2> QED BY <2>1 DEF Loadings, AboutSettings, AboutPolicies, Parsed
<1> QED BY <1>1, <1>2, <1>3, <1>4, <1>5, EgressSteps

-----------------------------------------------------------------------------
LEMMA LoadedIsOfTheFile ==
  ASSUME NEW doc, HasSecrets(doc)
  PROVE  /\ DOMAIN E!Loaded(doc) \subseteq DOMAIN doc.secrets
         /\ \A n \in DOMAIN E!Loaded(doc) :
              /\ E!Usable(doc.secrets[n]) /\ E!Loaded(doc)[n] = E!Switch(doc.secrets[n])
              /\ E!Loaded(doc)[n].value = doc.secrets[n].value
<1> DEFINE usable == {n \in DOMAIN doc.secrets : E!Usable(doc.secrets[n])}
<1>1. E!Loaded(doc) = [n \in usable \ E!Overlapping(usable) |-> E!Switch(doc.secrets[n])]
  BY DEF E!Loaded
<1>2. \A e \in Entries : E!Switch(e).value = e.value
  BY DEF E!Switch, Entries
<1> QED BY <1>1, <1>2 DEF HasSecrets

(* A secret that a command leaves is loaded from what it writes.           *)
LEMMA LoadedStays ==
  ASSUME NEW doc, HasSecrets(doc), NEW next, HasSecrets(next), Follows(doc, next),
         written \notin ValuesOf(doc.secrets),
         NEW n \in DOMAIN next.secrets, n \in DOMAIN E!Loaded(doc),
         next.secrets[n].value = doc.secrets[n].value
  PROVE  n \in DOMAIN E!Loaded(next)
<1> DEFINE usable == {m \in DOMAIN doc.secrets : E!Usable(doc.secrets[m])}
           then == {m \in DOMAIN next.secrets : E!Usable(next.secrets[m])}
<1>1. DOMAIN E!Loaded(doc) = usable \ E!Overlapping(usable)
      /\ DOMAIN E!Loaded(next) = then \ E!Overlapping(then)
  BY DEF E!Loaded
<1>2. \A m \in DOMAIN next.secrets :
        \/ m \in DOMAIN doc.secrets /\ (m \in then => m \in usable) /\ (m \in usable => m \in then)
        \/ next.secrets[m].value = written /\ m \notin E!Overlapping(DOMAIN next.secrets)
  <2> TAKE m \in DOMAIN next.secrets
  <2>1. CASE m \in DOMAIN doc.secrets /\ SameButForItsSwitch(doc.secrets[m], next.secrets[m])
    <3>1. doc.secrets[m] \in Entries /\ next.secrets[m] =
            [doc.secrets[m] EXCEPT !.off = next.secrets[m].off, !.until = next.secrets[m].until]
      BY <2>1 DEF HasSecrets, SameButForItsSwitch
    <3>2. /\ next.secrets[m].hosts = doc.secrets[m].hosts
          /\ next.secrets[m].projects = doc.secrets[m].projects
          /\ next.secrets[m].headers = doc.secrets[m].headers
      BY <3>1 DEF Entries
    <3> QED BY <2>1, <3>2 DEF E!Usable
  <2> QED BY <2>1 DEF Follows
<1>3. n \in DOMAIN doc.secrets /\ n \in usable /\ n \notin E!Overlapping(usable)
      /\ next.secrets[n].value # written
  BY <1>1, LoadedIsOfTheFile DEF ValuesOf
<1>4. n \in then
  BY <1>2, <1>3
<1>5. ASSUME n \in E!Overlapping(then) PROVE FALSE
  <2>1. PICK m \in then \ {n} : n \in ForEgress.Within[m] \/ m \in ForEgress.Within[n]
    BY <1>5 DEF E!Overlapping
  <2>2. m \in DOMAIN next.secrets
    BY <2>1
  <2> HIDE DEF then, usable
  <2>3. m \in E!Overlapping(DOMAIN next.secrets)
    BY <2>1, <2>2 DEF E!Overlapping
  <2>4. m \in usable
    BY <1>2, <2>1, <2>2, <2>3
  <2>5. n \in E!Overlapping(usable)
    BY <1>3, <2>1, <2>4 DEF E!Overlapping
  <2> QED BY <1>3, <2>5
<1> QED BY <1>1, <1>4, <1>5

LEMMA TracedOnward ==
  ASSUME Traced, UNCHANGED <<settingsFile, writer, written>>, Sendable' \subseteq Sendable,
         flight' \intersect ValuesOf(settingsFile.doc.secrets) \subseteq ValuesOf(proxy.secrets)'
  PROVE  Traced'
<1>1. E!Loaded(settingsFile.doc)' = E!Loaded(settingsFile.doc)
  BY DEF E!Loaded, E!Overlapping
<1>2. ValuesOf(settingsFile.doc.secrets)' = ValuesOf(settingsFile.doc.secrets)
  BY DEF ValuesOf
<1> QED BY <1>1, <1>2 DEF Traced, Past, AtSettings

LEMMA TracedAfterCommands ==
  ASSUME EgressConstants, FilesKept, Traced, OnTheSettings \/ OnThePolicies PROVE Traced'
<1>1. /\ UNCHANGED <<flight, proxy>> /\ written < ForEgress.Writes /\ written' = written + 1
      /\ written \in Nat
  BY DEF OnTheSettings, OnThePolicies, Commanded, FilesKept
<1>2. Sendable' = Sendable /\ \A v \in Sendable : Past(v)' /\ v # written'
  BY <1>1 DEF Sendable, ValuesOf, Traced, Past, EgressConstants
<1>3. CASE UNCHANGED settingsFile
  <2>1. E!Loaded(settingsFile.doc)' = E!Loaded(settingsFile.doc)
        /\ ValuesOf(settingsFile.doc.secrets)' = ValuesOf(settingsFile.doc.secrets)
        /\ ValuesOf(proxy.secrets)' = ValuesOf(proxy.secrets)
    BY <1>1, <1>3 DEF E!Loaded, E!Overlapping, ValuesOf
  <2>2. AtSettings' => \A n \in DOMAIN writer'.doc.secrets :
          writer'.doc.secrets[n].value \in Sendable =>
            n \in DOMAIN settingsFile.doc.secrets /\
            settingsFile.doc.secrets[n].value = writer'.doc.secrets[n].value
    <3> SUFFICES ASSUME AtSettings', NEW n \in DOMAIN writer'.doc.secrets,
                        writer'.doc.secrets[n].value \in Sendable
                 PROVE  n \in DOMAIN settingsFile.doc.secrets /\
                        settingsFile.doc.secrets[n].value = writer'.doc.secrets[n].value
      OBVIOUS
    <3>1. OnTheSettings
      BY DEF OnThePolicies, Commanded, AtSettings
    <3>2. HasSecrets(settingsFile.doc) /\ HasSecrets(writer'.doc)
      BY <3>1 DEF OnTheSettings, FilesKept
    <3>3. \/ n \in DOMAIN settingsFile.doc.secrets
             /\ SameButForItsSwitch(settingsFile.doc.secrets[n], writer'.doc.secrets[n])
          \/ writer'.doc.secrets[n].value = written'
      BY <1>3, <3>1 DEF OnTheSettings, Follows
    <3>4. n \in DOMAIN settingsFile.doc.secrets /\ settingsFile.doc.secrets[n] \in Entries
          /\ SameButForItsSwitch(settingsFile.doc.secrets[n], writer'.doc.secrets[n])
      BY <1>2, <3>2, <3>3 DEF HasSecrets
    <3> QED BY <3>4 DEF SameButForItsSwitch, Entries
  <2> QED BY <1>1, <1>2, <1>3, <2>1, <2>2 DEF Traced
<1>4. CASE OnTheSettings /\ IsMade(settingsFile, E!Fresh)
  <2>1. settingsFile'.doc = E!Fresh /\ DOMAIN settingsFile'.doc.secrets = {}
        /\ ValuesOf(settingsFile.doc.secrets)' = {}
    BY <1>1, <1>4, NewValueIsNew DEF IsMade
  <2>2. \A n \in DOMAIN writer'.doc.secrets : writer'.doc.secrets[n].value = written'
    BY <1>4, <2>1 DEF OnTheSettings, Follows
  <2> QED BY <1>2, <2>1, <2>2 DEF Traced
<1> QED BY <1>3, <1>4 DEF OnTheSettings, OnThePolicies

LEMMA TracedAfterInstall ==
  ASSUME FilesKept, Traced, InstallStep PROVE Traced'
<1>1. PICK st \in E!States : Installs(st)
  BY InstallReplaces
<1>2. Sendable' = Sendable /\ UNCHANGED <<written, flight, proxy>>
      /\ ValuesOf(proxy.secrets)' = ValuesOf(proxy.secrets)
  BY <1>1 DEF Installs, Sendable, ValuesOf
<1>3. CASE st = "whole" /\ writer.file = "settings"
  <2> DEFINE doc == settingsFile.doc
             next == writer.doc
  <2>1. settingsFile'.doc = next /\ AtSettings /\ ~AtSettings'
    BY <1>1, <1>3 DEF Installs, Replaced, AtSettings, E!AtRest
  <2>2. HasSecrets(doc) /\ HasSecrets(next) /\ Follows(doc, next) /\ written \notin ValuesOf(doc.secrets)
    BY <2>1 DEF FilesKept
  <2>3. \A n \in DOMAIN next.secrets : next.secrets[n].value \in Sendable =>
          n \in DOMAIN doc.secrets /\ doc.secrets[n].value = next.secrets[n].value
    BY <2>1 DEF Traced
  <2>4. \A n \in DOMAIN next.secrets : next.secrets[n].value \in Sendable => n \in DOMAIN E!Loaded(next)
    BY <2>2, <2>3, LoadedStays DEF Traced
  <2>5. flight \intersect ValuesOf(next.secrets) \subseteq ValuesOf(proxy.secrets)
    BY <2>3 DEF Traced, ValuesOf, Sendable
  <2>6. ValuesOf(settingsFile.doc.secrets)' = ValuesOf(next.secrets)
        /\ E!Loaded(settingsFile.doc)' = E!Loaded(next)
    BY <2>1 DEF ValuesOf, E!Loaded, E!Overlapping
  <2> QED BY <1>2, <2>1, <2>4, <2>5, <2>6 DEF Traced, Past
<1>4. CASE ~(st = "whole" /\ writer.file = "settings")
  <2>1. settingsFile'.doc = settingsFile.doc /\ (AtSettings' => AtSettings /\ writer'.doc = writer.doc)
    BY <1>1, <1>4 DEF Installs, Replaced, AtSettings, E!AtRest
  <2>2. ValuesOf(settingsFile.doc.secrets)' = ValuesOf(settingsFile.doc.secrets)
        /\ E!Loaded(settingsFile.doc)' = E!Loaded(settingsFile.doc)
    BY <2>1 DEF ValuesOf, E!Loaded, E!Overlapping
  <2> QED BY <1>2, <2>1, <2>2 DEF Traced, Past
<1> QED BY <1>3, <1>4

LEMMA TracedAfterReading ==
  ASSUME FilesKept, Loadings, Traced, E!ReadSettings, settingsFile.st = "whole" PROVE Traced'
<1> DEFINE doc == settingsFile.doc
<1>1. UNCHANGED <<settingsFile, writer, written, flight>>
  BY DEF E!ReadSettings, E!At, E!files
<1>2. proxy'.secrets = E!Loaded(doc)
  BY DEF E!ReadSettings, Loadings
<1>3. HasSecrets(doc) /\ OneValueEach(doc)
  BY DEF FilesKept
<1>4. \A n \in DOMAIN E!Loaded(doc) : n \in DOMAIN doc.secrets /\ E!Loaded(doc)[n].value = doc.secrets[n].value
  BY <1>3, LoadedIsOfTheFile
<1>5. Sendable' = flight \union ValuesOf(E!Loaded(doc)) /\ ValuesOf(proxy.secrets)' = ValuesOf(E!Loaded(doc))
  BY <1>1, <1>2 DEF Sendable, ValuesOf
<1>6. \A v \in ValuesOf(E!Loaded(doc)) : \E n \in DOMAIN E!Loaded(doc) : v = doc.secrets[n].value
  BY <1>4 DEF ValuesOf
<1>7. \A v \in Sendable' : Past(v)
  BY <1>4, <1>5, <1>6 DEF Traced, Sendable, FilesKept
<1>8. \A n \in DOMAIN doc.secrets : doc.secrets[n].value \in Sendable' => n \in DOMAIN E!Loaded(doc)
  BY <1>3, <1>4, <1>5, <1>6 DEF Traced, Sendable, OneValueEach
<1>9. AtSettings => \A n \in DOMAIN writer.doc.secrets : writer.doc.secrets[n].value \in Sendable' =>
        n \in DOMAIN doc.secrets /\ doc.secrets[n].value = writer.doc.secrets[n].value
  <2> SUFFICES ASSUME AtSettings, NEW n \in DOMAIN writer.doc.secrets,
                      writer.doc.secrets[n].value \in Sendable'
               PROVE  n \in DOMAIN doc.secrets /\ doc.secrets[n].value = writer.doc.secrets[n].value
    OBVIOUS
  <2>1. CASE writer.doc.secrets[n].value \in flight
    BY <2>1 DEF Traced, Sendable
  <2>2. CASE writer.doc.secrets[n].value \in ValuesOf(E!Loaded(doc))
    <3>1. PICK m \in DOMAIN E!Loaded(doc) : writer.doc.secrets[n].value = doc.secrets[m].value
      BY <1>6, <2>2
    <3>2. writer.doc.secrets[n].value # written
      BY <1>4, <3>1 DEF FilesKept, ValuesOf
    <3> QED BY <1>3, <3>2, FollowedValues DEF FilesKept
  <2> QED BY <1>5, <2>1, <2>2
<1>10. flight \intersect ValuesOf(doc.secrets) \subseteq ValuesOf(E!Loaded(doc))
  <2>1. \A n \in DOMAIN doc.secrets : doc.secrets[n].value \in flight => n \in DOMAIN E!Loaded(doc)
    BY DEF Traced, Sendable
  <2> QED BY <1>4, <2>1 DEF ValuesOf
<1>11. E!Loaded(settingsFile.doc)' = E!Loaded(doc) /\ ValuesOf(settingsFile.doc.secrets)' = ValuesOf(doc.secrets)
  BY <1>1 DEF E!Loaded, E!Overlapping, ValuesOf
<1> QED BY <1>1, <1>5, <1>7, <1>8, <1>9, <1>10, <1>11 DEF Traced, Past, AtSettings

LEMMA TracedStays ==
  ASSUME EgressConstants, FilesKept, Loadings, Traced, [E!Next]_E!vars PROVE Traced'
<1>1. CASE OnTheSettings \/ OnThePolicies
  BY <1>1, TracedAfterCommands
<1>2. CASE InstallStep
  BY <1>2, TracedAfterInstall
<1>3. ASSUME UNCHANGED <<settingsFile, writer, written>>, UNCHANGED <<flight, proxy>> PROVE Traced'
  <2>1. Sendable' = Sendable /\ ValuesOf(proxy.secrets)' = ValuesOf(proxy.secrets)
    BY <1>3 DEF Sendable, ValuesOf
  <2> QED BY <1>3, <2>1, TracedOnward DEF Traced
<1>4. CASE HookStep
  <2>1. UNCHANGED <<settingsFile, writer, written>>
    BY <1>4, HookOnlyReads
  <2>2. CASE (\E kind \in {"request", "message"} : E!Arrive(kind)) \/ E!StatSettings \/ E!Message
    BY <1>3, <2>1, <2>2 DEF E!Arrive, E!StatSettings, E!Message, E!At
  <2>3. CASE E!ReadSettings
    BY <1>3, <2>1, <2>3, TracedAfterReading DEF E!ReadSettings, E!At
  <2>4. CASE E!StatPolicy \/ E!RereadPolicy
    <3>1. UNCHANGED flight /\ proxy'.secrets = proxy.secrets
      BY <2>4 DEF Loadings, E!StatPolicy, E!RereadPolicy, E!At
    <3>2. Sendable' = Sendable /\ ValuesOf(proxy.secrets)' = ValuesOf(proxy.secrets)
      BY <3>1 DEF Sendable, ValuesOf
    <3> QED BY <2>1, <3>1, <3>2, TracedOnward DEF Traced
  <2>5. CASE E!Decide
    <3>1. UNCHANGED proxy
          /\ \E names \in {E!Substituted(r) : r \in E!Requests} :
               flight' = flight \union {proxy.secrets[n].value : n \in names}
      BY <2>5 DEF E!Decide
    <3>2. PICK names \in SUBSET DOMAIN proxy.secrets :
            flight' = flight \union {proxy.secrets[n].value : n \in names}
      BY <3>1 DEF E!Substituted, E!Toward, E!SecretsInRequest
    <3>3. Sendable' \subseteq Sendable /\ ValuesOf(proxy.secrets)' = ValuesOf(proxy.secrets)
          /\ flight' \subseteq flight \union ValuesOf(proxy.secrets)
      BY <3>1, <3>2 DEF Sendable, ValuesOf
    <3> QED BY <2>1, <3>3, TracedOnward DEF Traced
  <2>6. CASE \E v \in flight : E!Respond(v)
    <3>1. flight' \subseteq flight /\ UNCHANGED proxy
      BY <2>6 DEF E!Respond
    <3>2. Sendable' \subseteq Sendable /\ ValuesOf(proxy.secrets)' = ValuesOf(proxy.secrets)
      BY <3>1 DEF Sendable, ValuesOf
    <3> QED BY <2>1, <3>1, <3>2, TracedOnward DEF Traced
  <2> QED BY <1>4, <2>2, <2>3, <2>4, <2>5, <2>6 DEF HookStep
<1>5. CASE E!Tick \/ UNCHANGED E!vars
  BY <1>3, <1>5 DEF E!Tick, E!files, E!vars
<1> QED BY <1>1, <1>2, <1>4, <1>5, EgressSteps

-----------------------------------------------------------------------------
LEMMA SentIsPermitted == ASSUME FilesKept, Loadings PROVE E!SentWherePermitted
<1> DEFINE doc == settingsFile.doc
<1>1. SUFFICES ASSUME hook.at = "decide", steady, settingsFile.st = "whole",
                      NEW r \in E!Requests, NEW n \in E!Substituted(r)
      PROVE  /\ n \in DOMAIN doc.secrets
             /\ LET e == doc.secrets[n]
                IN  proxy.secrets[n].value = e.value /\ E!Permits(e, r)
             /\ ~\E m \in DOMAIN doc.secrets \ {n} :
                   E!Usable(doc.secrets[m]) /\ m \in ForEgress.Within[r.text]
                     /\ n \in ForEgress.Within[m]
  BY DEF E!SentWherePermitted
<1>2. proxy.secrets = E!Loaded(doc)
  BY <1>1 DEF Loadings, AboutSettings
<1>3. E!Verdict(r) = "PASS" /\ n \in E!Toward(r)
  BY DEF E!Substituted
<1>4. n \in E!SecretsInRequest(r) /\ n \in DOMAIN proxy.secrets /\ n \in ForEgress.Within[r.text]
      /\ r.sni \in proxy.secrets[n].hosts /\ proxy.secrets[n].headers \in {"any", r.place}
  BY <1>3 DEF E!Toward, E!SecretsInRequest
<1>5. n \in DOMAIN doc.secrets /\ E!Usable(doc.secrets[n]) /\ doc.secrets[n] \in Entries
      /\ proxy.secrets[n] = E!Switch(doc.secrets[n])
  <2>1. HasSecrets(doc) /\ n \in DOMAIN E!Loaded(doc)
    BY <1>2, <1>4 DEF FilesKept
  <2>2. n \in DOMAIN doc.secrets /\ E!Usable(doc.secrets[n]) /\ E!Loaded(doc)[n] = E!Switch(doc.secrets[n])
    BY <2>1, LoadedIsOfTheFile
  <2> QED BY <1>2, <2>1, <2>2 DEF HasSecrets
<1> DEFINE e == doc.secrets[n]
           loaded == E!Switch(e)
<1>6. /\ loaded.value = e.value /\ loaded.hosts = e.hosts /\ loaded.projects = e.projects
      /\ loaded.headers = e.headers
      /\ loaded.off # "off" => e.off = "on" /\ loaded.until = e.until
  BY <1>5 DEF E!Switch, Entries
<1>7. ~r.internal
  BY <1>3 DEF E!Verdict
<1>8. r.claimed = r.sni /\ ~r.another
  BY <1>3, <1>4 DEF E!Verdict
<1>9. loaded.projects = {} \/ r.from \in loaded.projects
  BY <1>3, <1>5 DEF E!Verdict
<1>10. E!IsOn(loaded)
  BY <1>3, <1>5 DEF E!Verdict
<1>11. E!Permits(e, r)
  BY <1>4, <1>5, <1>6, <1>7, <1>8, <1>9, <1>10 DEF E!Permits, E!IsOn
<1>12. ASSUME NEW m \in DOMAIN doc.secrets \ {n}, E!Usable(doc.secrets[m]), n \in ForEgress.Within[m]
       PROVE  FALSE
  <2> DEFINE usable == {k \in DOMAIN doc.secrets : E!Usable(doc.secrets[k])}
  <2>1. n \in usable \ E!Overlapping(usable)
    BY <1>2, <1>4 DEF E!Loaded
  <2>2. m \in usable \ {n}
    BY <1>12
  <2> HIDE DEF usable
  <2> QED BY <1>12, <2>1, <2>2, <1>5 DEF E!Overlapping
<1> QED BY <1>5, <1>6, <1>11, <1>12

LEMMA RestrictedIsHeldBack == ASSUME FilesKept, Loadings PROVE E!HeldWhileSteady
<1>1. SUFFICES ASSUME hook.at = "decide", steady, policyFile.st = "whole", NEW r \in E!Requests,
                      E!RestrictionOf(r.from) = "deny", E!Passed(r)
      PROVE  E!ByName(r)
  BY DEF E!HeldWhileSteady
<1>2. proxy.policies = Parsed(policyFile.doc)
  BY <1>1 DEF Loadings, AboutPolicies
<1>3. r.from \in DOMAIN policyFile.doc
  BY <1>1 DEF E!RestrictionOf
<1> DEFINE e == policyFile.doc[r.from]
           mode == E!ModeOf(proxy.policies, r.from)
<1>4. r.from \in DOMAIN proxy.policies /\ proxy.policies[r.from] = E!ReadPolicy(e)
  BY <1>2, <1>3 DEF Parsed
<1>5. ASSUME e.action = "learn", e.then \in {"allow", "deny"} PROVE mode = "deny"
  <2>1. ~(clock < e.until) /\ e.then = "deny"
    BY <1>1, <1>3, <1>5 DEF E!RestrictionOf
  <2>2. E!ReadPolicy(e) = e
    BY <1>5 DEF E!ReadPolicy, E!Readable
  <2>3. clock >= e.until
    BY <1>3, <2>1 DEF FilesKept, Dated
  <2> QED BY <1>4, <1>5, <2>1, <2>2, <2>3 DEF E!ModeOf
<1>6. ASSUME ~(e.action = "learn" /\ e.then \in {"allow", "deny"}) PROVE mode = "deny"
  <2>1. e.action # "allow"
    BY <1>1, <1>3 DEF E!RestrictionOf
  <2>2. E!ReadPolicy(e).action = "deny"
    BY <1>6, <2>1 DEF E!ReadPolicy, E!Readable, E!Denied
  <2> QED BY <1>4, <2>2 DEF E!ModeOf
<1>7. mode = "deny"
  BY <1>5, <1>6
<1>8. E!NetworkAllowed(E!PolicyHost(r), r.from, mode # "allow")
  <2>1. ~r.internal
    BY <1>1 DEF E!Passed, E!Verdict
  <2>2. SUFFICES ASSUME ~E!NetworkAllowed(E!PolicyHost(r), r.from, mode # "allow") PROVE FALSE
    OBVIOUS
  <2>3. E!Verdict(r) = "DENY-POLICY"
    BY <1>7, <2>1, <2>2 DEF E!Verdict
  <2> QED BY <1>1, <2>3 DEF E!Passed
<1>9. PICK i \in DOMAIN proxy.network :
        /\ proxy.network[i].action = "allow" /\ E!InScope(proxy.network[i], r.from)
        /\ proxy.network[i].host \in {"*", E!PolicyHost(r)} /\ ~E!ByDefault(proxy.network[i])
  BY <1>7, <1>8 DEF E!NetworkAllowed, E!Consulted
<1> QED BY <1>9 DEF E!ByName, E!ByDefault, E!InScope

LEMMA FlightIsScrubbed == ASSUME Traced PROVE E!ScrubbedWhileStored
BY DEF Traced, ValuesOf, E!ScrubbedWhileStored, E!Scrubbed

-----------------------------------------------------------------------------
LEMMA EgressInvariant ==
  ASSUME EgressConstants PROVE E!Spec => [](FilesKept /\ Loadings /\ Traced)
<1>1. E!Init => FilesKept /\ Loadings /\ Traced
  BY KeptInitially
<1>2. FilesKept /\ Loadings /\ Traced /\ [E!Next]_E!vars => (FilesKept /\ Loadings /\ Traced)'
  BY FilesStayKept, LoadingsStay, TracedStays
<1> QED BY <1>1, <1>2, PTL DEF E!Spec

(* HeldWhileSteady: while no file changed under it, the proxy passes for a *)
(* project that the runner reads as denied only what a rule allows by the  *)
(* host's name or the project's.                                           *)
THEOREM EgressHoldsWhileSteady == ASSUME EgressConstants PROVE E!Spec => []E!HeldWhileSteady
<1>1. FilesKept /\ Loadings /\ Traced => E!HeldWhileSteady
  BY RestrictedIsHeldBack
<1> QED BY <1>1, EgressInvariant, PTL

(* ValuesAreKept: a value is sent only where the file permits it, and as   *)
(* long as it is stored it comes back as the name it was sent under.       *)
THEOREM EgressKeepsValues == ASSUME EgressConstants PROVE E!Spec => []E!ValuesAreKept
<1>1. FilesKept /\ Loadings /\ Traced => E!ValuesAreKept
  BY SentIsPermitted, FlightIsScrubbed DEF E!ValuesAreKept
<1> QED BY <1>1, EgressInvariant, PTL

(* What the clock, the files' entries and the ghosts range over.           *)
OfProjects(doc) == DOMAIN doc \subseteq ForEgress.Projects
Entered ==
  /\ clock \in 0..ForEgress.Hours
  /\ OfProjects(policyFile.doc) /\ OfProjects(proxy.policies) /\ held \subseteq ForEgress.Projects
  /\ writer.at # "idle" /\ writer.file = "policy" => OfProjects(writer.doc)
  /\ DOMAIN proxy.secrets \subseteq ForEgress.Names
LEMMA EnteredStep ==
  ASSUME EgressConstants, FilesKept, Loadings, Entered, [E!Next]_E!vars PROVE Entered'
<1> USE DEF Entered
<1>1. ASSUME NEW n \in ForEgress.Names,
             \/ \E p \in {{}, ForEgress.Projects}, h \in {"any", "authorization"} : E!SecretAdd(n, p, h)
             \/ E!SecretRm(n) \/ E!SecretOnOff(n, "off", FALSE)
             \/ \E ttl \in BOOLEAN : E!SecretOnOff(n, "on", ttl)
      PROVE  Entered'
  <2>1. UNCHANGED held
    <3>1. ASSUME NEW doc, E!OnSettings(doc) PROVE UNCHANGED held
      BY <3>1 DEF E!OnSettings
    <3>2. ASSUME NEW p, NEW h, E!SecretAdd(n, p, h) PROVE UNCHANGED held
      BY <3>2 DEF E!SecretAdd
    <3>3. ASSUME E!SecretRm(n) PROVE \E doc : E!OnSettings(doc)
      BY <3>3, Zenon DEF E!SecretRm
    <3>4. ASSUME NEW how, NEW ttl, E!SecretOnOff(n, how, ttl) PROVE \E doc : E!OnSettings(doc)
      BY <3>4, Zenon DEF E!SecretOnOff
    <3> HIDE DEF Entered
    <3> QED BY <1>1, <3>1, <3>2, <3>3, <3>4, Zenon
  <2>2. OnTheSettings
    BY <1>1, AddingASecret, CommandsOnSettings
  <2> QED BY <2>1, <2>2 DEF OnTheSettings, Commanded, OfProjects
<1>2. ASSUME NEW p \in ForEgress.Projects, NEW h \in ForEgress.Hosts, E!ProxyAllow(h, p) PROVE Entered'
  <2>1. UNCHANGED held
    BY <1>2 DEF E!ProxyAllow, E!OnSettings
  <2>2. OnTheSettings
    BY <1>2, CommandsOnSettings
  <2> QED BY <2>1, <2>2 DEF OnTheSettings, Commanded, OfProjects
<1>3. ASSUME NEW p \in ForEgress.Projects, NEW e, E!Enforce(p, e) PROVE Entered'
  <2> DEFINE old == E!PolicyDoc
             next == IF e.action = "allow" THEN [q \in DOMAIN old \ {p} |-> old[q]]
                     ELSE [q \in DOMAIN old \union {p} |-> IF q = p THEN e ELSE old[q]]
  <2>1. OfProjects(old) /\ OfProjects(E!NoEntries)
    BY DEF E!PolicyDoc, E!NoEntries, OfProjects
  <2> HIDE DEF old
  <2>2. OfProjects(next)
    BY <2>1 DEF OfProjects
  <2>3. E!OnPolicy(next)
    BY <1>3 DEF E!Enforce, old
  <2> HIDE DEF next
  <2>4. writer' = [at |-> "unlink", file |-> "policy", doc |-> next] /\ UNCHANGED <<clock, proxy>>
    BY <2>3 DEF E!OnPolicy, E!Command
  <2>5. OfProjects(policyFile'.doc)
    BY <2>1, <2>3 DEF E!OnPolicy, E!Made
  <2>6. held' \subseteq held
    BY <2>3 DEF E!OnPolicy
  <2> QED BY <2>2, <2>4, <2>5, <2>6 DEF OfProjects
<1>4. CASE E!Operate
  BY <1>1, <1>2, <1>3, <1>4 DEF E!Operate, E!Learn
<1>5. CASE InstallStep
  <2>1. PICK st \in E!States : Installs(st)
    BY <1>5, InstallReplaces
  <2>2. held' \subseteq held
    BY <1>5 DEF InstallStep, E!InstallUnlinks, E!InstallCreates, E!InstallCopies, E!Install
  <2>3. OfProjects(policyFile'.doc)
    BY <2>1 DEF Installs, Replaced
  <2> QED BY <2>1, <2>2, <2>3 DEF Installs, E!AtRest, OfProjects
<1>6. CASE HookStep
  <2>1. UNCHANGED <<settingsFile, policyFile, writer, written, clock>>
    BY <1>6, HookOnlyReads
  <2>2. held' \subseteq ForEgress.Projects
    BY <1>6 DEF HookStep, E!Arrive, E!StatSettings, E!ReadSettings, E!StatPolicy, E!RereadPolicy,
       E!Decide, E!Message, E!Respond, E!At, E!HeldBy, OfProjects
  <2>3. DOMAIN proxy'.secrets \subseteq ForEgress.Names /\ OfProjects(proxy'.policies)
    <3>1. CASE E!ReadSettings
      <4>1. DOMAIN E!Loaded(settingsFile.doc) \subseteq ForEgress.Names
        BY LoadedIsOfTheFile DEF FilesKept, HasSecrets
      <4> HIDE DEF E!Loaded
      <4> QED BY <3>1, <4>1 DEF E!ReadSettings, Loadings
    <3>2. CASE E!StatPolicy
      <4>1. OfProjects(E!NoEntries)
        BY DEF E!NoEntries, OfProjects
      <4>2. \/ UNCHANGED proxy
            \/ proxy' = [proxy EXCEPT !.policies = E!NoEntries, !.read = -1]
        BY <3>2 DEF E!StatPolicy
      <4> QED BY <4>1, <4>2 DEF Loadings
    <3>3. CASE E!RereadPolicy
      BY <3>3 DEF E!RereadPolicy, OfProjects, Loadings
    <3>4. CASE UNCHANGED proxy
      BY <3>4
    <3> QED BY <1>6, <3>1, <3>2, <3>3, <3>4 DEF HookStep, E!Arrive, E!StatSettings, E!Decide,
              E!Message, E!Respond
  <2> QED BY <2>1, <2>2, <2>3 DEF OfProjects
<1>7. CASE E!Tick
  BY <1>7 DEF EgressConstants, E!Tick, E!files, OfProjects
<1>8. CASE UNCHANGED E!vars
  BY <1>8 DEF E!vars, OfProjects
<1> QED BY <1>4, <1>5, <1>6, <1>7, <1>8 DEF E!Next, InstallStep, HookStep

(* What the proxy has of the two files is of names and projects there are, *)
(* and it has a version of each that was written (addon.py).               *)
THEOREM EgressTypeCorrect == ASSUME EgressConstants PROVE E!Spec => []E!TypeOK
<1>1. E!Init => Entered
  BY DEF EgressConstants, E!Init, E!AtRest, E!NoEntries, Entered, OfProjects
<1>2. FilesKept /\ Loadings /\ Entered /\ [E!Next]_E!vars => Entered'
  BY EnteredStep
<1>3. FilesKept /\ Loadings /\ Entered => E!TypeOK
  BY DEF EgressConstants, FilesKept, Loadings, Entered, OfProjects, E!TypeOK
<1>4. E!Spec => [](FilesKept /\ Loadings /\ Traced)
  BY EgressInvariant
<1> QED BY <1>1, <1>2, <1>3, <1>4, PTL DEF E!Spec

-----------------------------------------------------------------------------
(* Proposals.  A pin is the first release or the second, whose tree no     *)
(* consumer of the first makes by its changes.                             *)
FirstRelease == <<D!Tree(0)>>
SecondRelease == Append(FirstRelease, D!Tree(2))
ThreeParts == [own : Nat, ci : Nat, nested : Nat]
Copy(copy) ==
  /\ DOMAIN copy = {"of", "pin", "tree"}
  /\ copy.of \in {ForProposals.Repo, ForProposals.Fork}
  /\ copy.tree \in ThreeParts
  /\ \/ copy.pin = FirstRelease /\ copy.tree.own # 2
     \/ copy.pin = SecondRelease
Consumer(at) == DOMAIN at = ForProposals.Dirs /\ \A d \in ForProposals.Dirs : Copy(at[d])
ProposalConstants ==
  /\ ForProposals.Budget \in Nat
  /\ \A w \in ForProposals.Worlds : \A d \in ForProposals.Dirs :
       /\ w.of[d] \in {ForProposals.Repo, ForProposals.Fork}
       /\ w.tree[d] \in ThreeParts /\ w.tree[d].own # 2

BuiltOf(copy) == Append(copy.pin, D!Proposed(copy))
Consumers ==
  /\ Consumer(vendored)
  /\ dependency = [release |-> dependency.release, proposals |-> dependency.proposals]
  /\ dependency.release \in {FirstRelease, SecondRelease}
  /\ \A b \in dependency.proposals :
       /\ b = [branch |-> b.branch, commit |-> b.commit] /\ Consumer(b.branch)
       /\ \E d \in ForProposals.Dirs : b.commit = BuiltOf(b.branch[d])
(* Where a command is, and what it has built and found by then.            *)
Upstream == {"bundle", "said", "look", "fetch", "push"}
AfterItSaid == {"lock", "refresh", "look", "fetch", "push"}
OneCommand(c) ==
  /\ DOMAIN c = {"pc", "op", "dir", "at", "built", "bundle"}
  /\ c.pc # "idle" => Consumer(c.at)
  /\ c.pc \in Upstream => c.op = "upstream"
  /\ c.pc \in AfterItSaid => c.op \in {"deliver", "upstream"}
  /\ c.op = "upstream" => c.dir \in ForProposals.Dirs
  /\ c.op = "upstream" /\ c.pc \in AfterItSaid \union Upstream => c.built = BuiltOf(c.at[c.dir])
  /\ c.op = "upstream" /\ c.pc \in AfterItSaid => c.at[c.dir].of = ForProposals.Repo
  /\ c.pc = "push" => D!Last(c.built).ci = D!Last(c.at[c.dir].pin).ci
Commands == DOMAIN cmd = ForProposals.Cmds /\ \A p \in ForProposals.Cmds : OneCommand(cmd[p])

(* What is built has the pin before it, and then the folder's tree with    *)
(* what is nested as the pin has it.                                       *)
LEMMA PinsAreTrees ==
  /\ D!Tree(0) \in ThreeParts /\ D!Tree(2) \in ThreeParts
  /\ FirstRelease \in Seq(ThreeParts) /\ Len(FirstRelease) = 1 /\ FirstRelease[1] = D!Tree(0)
  /\ SecondRelease \in Seq(ThreeParts) /\ Len(SecondRelease) = 2 /\ SecondRelease[2] = D!Tree(2)
<1>1. D!Tree(0) \in ThreeParts /\ D!Tree(2) \in ThreeParts
  BY DEF D!Tree, ThreeParts
<1> HIDE DEF D!Tree
<1>2. FirstRelease \in Seq(ThreeParts) /\ Len(FirstRelease) = 1 /\ FirstRelease[1] = D!Tree(0)
  BY <1>1 DEF FirstRelease
<1> HIDE DEF FirstRelease
<1>3. SecondRelease \in Seq(ThreeParts) /\ Len(SecondRelease) = 2 /\ SecondRelease[2] = D!Tree(2)
  <2>1. SecondRelease = Append(FirstRelease, D!Tree(2))
    BY DEF SecondRelease
  <2> HIDE DEF SecondRelease
  <2>2. /\ Append(FirstRelease, D!Tree(2)) \in Seq(ThreeParts)
        /\ Len(Append(FirstRelease, D!Tree(2))) = Len(FirstRelease) + 1
        /\ Append(FirstRelease, D!Tree(2))[Len(FirstRelease) + 1] = D!Tree(2)
    BY <1>1, <1>2, AppendProperties, Zenon
  <2>3. Len(FirstRelease) + 1 = 2
    BY <1>2
  <2> QED BY <2>1, <2>2, <2>3, Zenon
<1> QED BY <1>1, <1>2, <1>3

LEMMA BuiltOnThePin ==
  ASSUME NEW copy, Copy(copy)
  PROVE  /\ copy.pin \in Seq(ThreeParts) /\ Len(copy.pin) \in {1, 2}
         /\ D!Proposed(copy) \in ThreeParts
         /\ D!Proposed(copy).own = copy.tree.own /\ D!Proposed(copy).ci = copy.tree.ci
         /\ BuiltOf(copy) \in Seq(ThreeParts) /\ Len(BuiltOf(copy)) = Len(copy.pin) + 1
         /\ \A i \in 1..Len(copy.pin) : BuiltOf(copy)[i] = copy.pin[i]
         /\ D!Last(BuiltOf(copy)) = D!Proposed(copy)
         /\ BuiltOf(copy)[Len(copy.pin) + 1] = D!Proposed(copy)
<1>3. copy.pin \in Seq(ThreeParts) /\ Len(copy.pin) \in {1, 2}
  BY PinsAreTrees DEF Copy
<1>4. D!Last(copy.pin) \in ThreeParts
  <2>1. Len(copy.pin) \in 1..Len(copy.pin)
    BY <1>3
  <2>2. copy.pin[Len(copy.pin)] \in ThreeParts
    BY <1>3, <2>1
  <2> QED BY <2>2 DEF D!Last
<1>5. copy.tree \in ThreeParts
  BY DEF Copy, ThreeParts
<1>6. /\ D!Proposed(copy) \in ThreeParts
      /\ D!Proposed(copy).own = copy.tree.own /\ D!Proposed(copy).ci = copy.tree.ci
  BY <1>4, <1>5 DEF D!Proposed, ThreeParts
<1> QED BY <1>3, <1>6 DEF BuiltOf, D!Last

(* So one of two that are built is before the other only as the same.      *)
LEMMA NoneIsBefore ==
  ASSUME NEW a, Copy(a), NEW b, Copy(b), D!IsPrefix(BuiltOf(a), BuiltOf(b))
  PROVE  BuiltOf(a) = BuiltOf(b)
<1> DEFINE s == BuiltOf(a)
           t == BuiltOf(b)
<1>1. s \in Seq(ThreeParts) /\ t \in Seq(ThreeParts)
  BY BuiltOnThePin
<1>2. Len(s) <= Len(t) /\ SubSeq(s, 1, Len(s)) = SubSeq(t, 1, Len(s))
  BY DEF D!IsPrefix
<1>3. \A i \in 1..Len(s) : s[i] = t[i]
  <2> HIDE DEF s, t
  <2> QED BY <1>1, <1>2
<1>4. CASE Len(s) = Len(t)
  <2> HIDE DEF s, t
  <2>1. SubSeq(s, 1, Len(s)) = s /\ SubSeq(t, 1, Len(t)) = t
    BY <1>1
  <2>2. s = t
    BY <1>2, <1>4, <2>1
  <2> QED BY <2>2 DEF s, t
<1>5. CASE Len(s) # Len(t)
  <2>1. Len(a.pin) = 1 /\ Len(b.pin) = 2 /\ Len(s) = 2
    <3>1. Len(a.pin) \in {1, 2} /\ Len(s) = Len(a.pin) + 1 /\ Len(b.pin) \in {1, 2} /\ Len(t) = Len(b.pin) + 1
      BY BuiltOnThePin
    <3>2. Len(s) <= Len(t)
      BY <1>2
    <3>3. \A i, j \in {1, 2} : i + 1 <= j + 1 /\ i + 1 # j + 1 => i = 1 /\ j = 2 /\ i + 1 = 2
      OBVIOUS
    <3>4. Len(a.pin) + 1 <= Len(b.pin) + 1
      BY <3>1, <3>2
    <3>5. Len(a.pin) + 1 # Len(b.pin) + 1
      BY <1>5, <3>1
    <3> QED BY <3>1, <3>3, <3>4, <3>5
  <2>2. s[2] = D!Proposed(a) /\ s[2] = t[2] /\ t[2] = b.pin[2]
    <3>1. s[2] = D!Proposed(a) /\ t[2] = b.pin[2]
      BY <2>1, BuiltOnThePin
    <3> QED BY <1>3, <2>1, <3>1
  <2>3. D!Proposed(a).own = a.tree.own /\ a.tree.own # 2
    BY <2>1, PinsAreTrees, BuiltOnThePin DEF Copy
  <2>4. b.pin[2].own = 2
    <3>1. D!Tree(2).own = 2
      BY DEF D!Tree
    <3> QED BY <2>1, <3>1, PinsAreTrees DEF Copy
  <2> QED BY <2>2, <2>3, <2>4
<1> QED BY <1>4, <1>5

LEMMA ProposalsInitially == ASSUME ProposalConstants, D!Init PROVE Consumers /\ Commands
<1>1. PICK w \in ForProposals.Worlds :
        vendored = [d \in ForProposals.Dirs |-> [of |-> w.of[d], pin |-> FirstRelease, tree |-> w.tree[d]]]
  BY DEF D!Init, FirstRelease
<1>2. Consumer(vendored)
  BY <1>1 DEF ProposalConstants, Consumer, Copy
<1>3. dependency = [release |-> FirstRelease, proposals |-> {}]
  BY DEF D!Init, FirstRelease
<1>4. Commands
  BY DEF D!Init, D!Idle, Commands, OneCommand, Upstream, AfterItSaid
<1> QED BY <1>2, <1>3, <1>4 DEF Consumers

LEMMA OneGoesOn ==
  ASSUME Commands, NEW p \in ForProposals.Cmds, NEW c, OneCommand(c), cmd' = [cmd EXCEPT ![p] = c]
  PROVE  Commands'
BY DEF Commands

LEMMA EndedIsOne == OneCommand(D!Idle)
BY DEF D!Idle, OneCommand, Upstream, AfterItSaid

(* Where a command goes on from, it has done what comes before.            *)
LEMMA GoesOnTo ==
  ASSUME NEW c, OneCommand(c), NEW pc,
         \/ pc \in {"end", "remove", "deliver"} /\ c.pc # "idle"
         \/ pc = "lock" /\ c.pc = "said" /\ c.at[c.dir].of = ForProposals.Repo
         \/ pc = "refresh" /\ c.pc = "lock"
         \/ pc = "look" /\ c.pc = "refresh" /\ c.op = "upstream"
         \/ pc = "fetch" /\ c.pc = "look"
         \/ pc = "push" /\ c.pc = "fetch" /\ D!Last(c.built).ci = D!Last(c.at[c.dir].pin).ci
  PROVE  OneCommand([c EXCEPT !.pc = pc])
BY DEF OneCommand, Upstream, AfterItSaid

LEMMA CommandsGoOn ==
  ASSUME Consumers, Commands, NEW p \in ForProposals.Cmds, D!Step(p) PROVE Commands'
<1> DEFINE c == cmd[p]
<1>1. OneCommand(c)
  BY DEF Commands
<1>2. ASSUME NEW pc, D!Goes(p, pc), OneCommand([c EXCEPT !.pc = pc]) PROVE Commands'
  BY <1>2, OneGoesOn DEF D!Goes
<1>3. ASSUME D!Ends(p) PROVE Commands'
  BY <1>3, OneGoesOn, EndedIsOne DEF D!Ends
<1>4. CASE D!Report(p) \/ D!NothingToBuild(p) \/ D!End(p)
  BY <1>3, <1>4 DEF D!Report, D!NothingToBuild, D!End
<1>5. CASE D!Build(p)
  <2> DEFINE next == [c EXCEPT !.pc = "bundle", !.built = BuiltOf(c.at[c.dir])]
  <2>1. cmd' = [cmd EXCEPT ![p] = next] /\ c.pc = "load" /\ c.op = "upstream"
    BY <1>5 DEF D!Build, D!At, BuiltOf
  <2>2. OneCommand(next)
    BY <1>1, <2>1 DEF OneCommand, Upstream, AfterItSaid
  <2> HIDE DEF next
  <2> QED BY <2>1, <2>2, OneGoesOn
<1>6. CASE D!Bundle(p)
  <2>1. c.pc = "bundle"
    BY <1>6 DEF D!Bundle, D!At
  <2>2. CASE git.outgoing = D!NoCommit
    BY <1>3, <1>6, <2>2 DEF D!Bundle, D!Ends
  <2>3. CASE git.outgoing # D!NoCommit
    <3> DEFINE next == [c EXCEPT !.pc = "said", !.bundle = git.outgoing]
    <3>1. cmd' = [cmd EXCEPT ![p] = next]
      BY <1>6, <2>3 DEF D!Bundle
    <3>2. OneCommand(next)
      BY <1>1, <2>1 DEF OneCommand, Upstream, AfterItSaid
    <3> HIDE DEF next
    <3> QED BY <3>1, <3>2, OneGoesOn
  <2> QED BY <2>2, <2>3
<1>7. CASE D!SaysBuilt(p)
  <2>1. c.pc = "said" /\ IF c.at[c.dir].of = ForProposals.Repo THEN D!Goes(p, "lock") ELSE D!Ends(p)
    BY <1>7 DEF D!SaysBuilt, D!At, D!IsNamed
  <2> QED BY <1>1, <1>2, <1>3, <2>1, GoesOnTo
<1>8. CASE D!Open(p)
  <2>1. c.pc = "lock" /\ (D!Goes(p, "refresh") \/ D!Ends(p))
    BY <1>8 DEF D!Open, D!At
  <2> QED BY <1>1, <1>2, <1>3, <2>1, GoesOnTo
<1>9. CASE D!Refresh(p)
  <2>1. c.pc = "refresh" /\ D!Goes(p, IF c.op = "deliver" THEN "remove" ELSE "look")
    BY <1>9 DEF D!Refresh, D!At
  <2>2. c.op \in {"deliver", "upstream"}
    BY <1>1, <2>1 DEF OneCommand, AfterItSaid
  <2> QED BY <1>1, <1>2, <2>1, <2>2, GoesOnTo
<1>10. CASE D!RemoveDelivered(p) \/ D!WriteDelivered(p) \/ D!Push(p)
  <2>1. c.pc # "idle" /\ \E pc \in {"deliver", "end"} : D!Goes(p, pc)
    BY <1>10 DEF D!RemoveDelivered, D!WriteDelivered, D!Push, D!At
  <2> QED BY <1>1, <1>2, <2>1, GoesOnTo
<1>11. CASE D!Look(p)
  <2>1. c.pc = "look" /\ (D!Goes(p, "fetch") \/ D!Goes(p, "end"))
    BY <1>11 DEF D!Look, D!At
  <2> QED BY <1>1, <1>2, <2>1, GoesOnTo
<1>12. CASE D!Fetch(p)
  <2>1. c.pc = "fetch"
        /\ \/ D!Goes(p, "push") /\ D!AsSaid(p) /\ D!LeavesCi(p)
           \/ D!Goes(p, "end")
    BY <1>12 DEF D!Fetch, D!At
  <2>2. D!AsSaid(p) /\ D!LeavesCi(p) => D!Last(c.built).ci = D!Last(c.at[c.dir].pin).ci
    BY DEF D!AsSaid, D!LeavesCi, D!Pin
  <2> QED BY <1>1, <1>2, <2>1, <2>2, GoesOnTo
<1> QED BY <1>4, <1>5, <1>6, <1>7, <1>8, <1>9, <1>10, <1>11, <1>12 DEF D!Step

(* What others do, and the person at the Mac.                              *)
Asks == \E p \in ForProposals.Cmds, op \in {"deliver", "report", "upstream"}, d \in ForProposals.Dirs :
          D!Ask(p, op, d)
Kills == \E p \in ForProposals.Cmds : D!Killed(p)
OthersStep == \E d \in ForProposals.Dirs :
                \/ D!Updates(d) \/ D!OthersPropose(d)
                \/ \E part \in {"own", "ci", "nested"} : D!Changes(d, part)
LEMMA ProposalSteps ==
  ASSUME D!Next
  PROVE  \/ \E p \in ForProposals.Cmds : D!Step(p)
         \/ Asks \/ Kills \/ OthersStep \/ D!Forgets \/ D!Releases
BY DEF D!Next, Asks, Kills, OthersStep, D!Parts

LEMMA OnlyPushProposes ==
  ASSUME NEW p \in ForProposals.Cmds, D!Step(p)
  PROVE  UNCHANGED vendored /\ (D!Push(p) \/ UNCHANGED dependency)
BY DEF D!Step, D!Report, D!NothingToBuild, D!Build, D!Bundle, D!SaysBuilt, D!Open, D!Refresh,
       D!RemoveDelivered, D!WriteDelivered, D!Look, D!Fetch, D!Push, D!End

LEMMA CommandsStay == ASSUME Consumers, Commands, [D!Next]_D!vars PROVE Commands'
<1>1. CASE \E p \in ForProposals.Cmds : D!Step(p)
  BY <1>1, CommandsGoOn
<1>2. CASE Asks
  <2>1. PICK p \in ForProposals.Cmds, op \in {"deliver", "report", "upstream"}, d \in ForProposals.Dirs :
          D!Ask(p, op, d)
    BY <1>2 DEF Asks
  <2> DEFINE next == [D!Idle EXCEPT !.op = op, !.at = vendored,
                        !.dir = IF op = "upstream" THEN d ELSE "none",
                        !.pc = IF op = "deliver" THEN "lock" ELSE "load"]
  <2>2. cmd' = [cmd EXCEPT ![p] = next]
    BY <2>1 DEF D!Ask
  <2>3. OneCommand(next)
    BY DEF OneCommand, Upstream, AfterItSaid, D!Idle, Consumers
  <2> HIDE DEF next
  <2> QED BY <2>2, <2>3, OneGoesOn
<1>3. CASE Kills
  BY <1>3, OneGoesOn, EndedIsOne DEF Kills, D!Killed, D!Ends
<1>4. CASE OthersStep \/ D!Forgets \/ D!Releases \/ UNCHANGED D!vars
  <2>1. UNCHANGED cmd
    BY <1>4 DEF OthersStep, D!Updates, D!OthersPropose, D!Changes, D!Forgets, D!Releases, D!vars
  <2> QED BY <2>1 DEF Commands
<1> QED BY <1>1, <1>2, <1>3, <1>4, ProposalSteps

(* What a push puts on the dependency, when it puts anything there.        *)
LEMMA PushProposesOneBuilt ==
  ASSUME Consumers, Commands, NEW p \in ForProposals.Cmds, D!Push(p), dependency' # dependency
  PROVE  /\ dependency'.release = dependency.release /\ dependency' = [release |-> dependency'.release, proposals |-> dependency'.proposals]
         /\ \E b \in dependency'.proposals :
              /\ b = [branch |-> b.branch, commit |-> b.commit] /\ Consumer(b.branch)
              /\ ~D!Taken(b.branch)
              /\ dependency'.proposals = dependency.proposals \union {b}
              /\ \E d \in ForProposals.Dirs :
                   /\ b.branch[d].of = ForProposals.Repo /\ b.commit = BuiltOf(b.branch[d])
                   /\ b.branch[d].tree.ci = D!Last(b.branch[d].pin).ci
<1> DEFINE c == cmd[p]
           new == [branch |-> c.at, commit |-> c.built]
           d == c.dir
           others == {b \in dependency.proposals : b.branch # c.at}
<1>1. OneCommand(c) /\ c.pc = "push"
  BY DEF Commands, D!Push, D!At
<1>2. /\ Consumer(c.at) /\ d \in ForProposals.Dirs /\ c.built = BuiltOf(c.at[d])
      /\ c.at[d].of = ForProposals.Repo
      /\ D!Last(c.built).ci = D!Last(c.at[d].pin).ci
  BY <1>1 DEF OneCommand, Upstream, AfterItSaid
<1>3. D!Accepts(c.built, c.at)
      /\ dependency' = [dependency EXCEPT !.proposals = others \union {new}]
  BY DEF D!Push
<1>4. /\ dependency' = [release |-> dependency'.release, proposals |-> dependency'.proposals]
      /\ dependency'.release = dependency.release /\ dependency'.proposals = others \union {new}
  BY <1>3 DEF Consumers
<1>5. \A b \in dependency.proposals : b.branch = c.at => b = new
  <2> SUFFICES ASSUME NEW b \in dependency.proposals, b.branch = c.at PROVE b.commit = c.built
    BY DEF Consumers
  <2>1. PICK e \in ForProposals.Dirs : b.commit = BuiltOf(c.at[e])
    BY DEF Consumers
  <2>2. D!IsPrefix(b.commit, c.built)
    BY <1>3 DEF D!Accepts
  <2>3. Copy(c.at[e]) /\ Copy(c.at[d])
    BY <1>2 DEF Consumer
  <2> QED BY <1>2, <2>1, <2>2, <2>3, NoneIsBefore
<1>6. ~D!Taken(c.at)
  <2>1. SUFFICES ASSUME D!Taken(c.at) PROVE FALSE
    OBVIOUS
  <2>2. new \in dependency.proposals
    BY <1>5, <2>1 DEF D!Taken
  <2>3. others \union {new} = dependency.proposals
    BY <1>5, <2>2
  <2>4. dependency'.release = dependency.release /\ dependency'.proposals = dependency.proposals
    BY <1>4, <2>3
  <2> QED BY <1>4, <2>4 DEF Consumers
<1>7. others = dependency.proposals
  BY <1>6 DEF D!Taken
<1>8. c.at[d].tree.ci = D!Last(c.at[d].pin).ci
  <2>1. Copy(c.at[d])
    BY <1>2 DEF Consumer
  <2>2. D!Last(BuiltOf(c.at[d])) = D!Proposed(c.at[d]) /\ D!Proposed(c.at[d]).ci = c.at[d].tree.ci
    BY <2>1, BuiltOnThePin
  <2> QED BY <1>2, <2>2
<1>9. new = [branch |-> new.branch, commit |-> new.commit] /\ new.branch = c.at /\ new.commit = c.built
  OBVIOUS
<1> HIDE DEF new
<1>10. new \in dependency'.proposals /\ dependency'.proposals = dependency.proposals \union {new}
  BY <1>4, <1>7
<1> QED BY <1>2, <1>4, <1>6, <1>8, <1>9, <1>10

LEMMA ConsumersStay == ASSUME Consumers, Commands, [D!Next]_D!vars PROVE Consumers'
<1>1. CASE \E p \in ForProposals.Cmds : D!Step(p)
  <2>1. PICK p \in ForProposals.Cmds : D!Step(p)
    BY <1>1
  <2>2. CASE UNCHANGED dependency
    BY <2>1, <2>2, OnlyPushProposes DEF Consumers
  <2>3. CASE dependency' # dependency
    BY <2>1, <2>3, OnlyPushProposes, PushProposesOneBuilt DEF Consumers
  <2> QED BY <2>2, <2>3
<1>2. CASE Asks \/ Kills \/ D!Forgets \/ UNCHANGED D!vars
  BY <1>2 DEF Consumers, Asks, Kills, D!Ask, D!Killed, D!Forgets, D!vars
<1>3. CASE D!Releases
  <2>1. dependency' = [dependency EXCEPT !.release = Append(dependency.release, D!Tree(2))]
        /\ Len(dependency.release) = 1 /\ UNCHANGED vendored
    BY <1>3 DEF D!Releases
  <2>2. dependency.release = FirstRelease
    BY <2>1, PinsAreTrees DEF Consumers
  <2>3. Append(FirstRelease, D!Tree(2)) = SecondRelease
    BY DEF SecondRelease
  <2> QED BY <2>1, <2>2, <2>3 DEF Consumers
<1>4. ASSUME NEW d \in ForProposals.Dirs, D!Updates(d) PROVE Consumers'
  <2>1. vendored' = [vendored EXCEPT ![d] = [@ EXCEPT !.pin = dependency.release,
                                                       !.tree = D!Last(dependency.release)]]
        /\ UNCHANGED dependency
    BY <1>4 DEF D!Updates
  <2>2. D!Last(dependency.release) \in ThreeParts
        /\ (dependency.release = FirstRelease => D!Last(dependency.release).own # 2)
    <3>1. D!Last(FirstRelease) = D!Tree(0) /\ D!Last(SecondRelease) = D!Tree(2)
      BY PinsAreTrees DEF D!Last
    <3>2. D!Tree(0).own = 0
      BY DEF D!Tree
    <3> QED BY <3>1, <3>2, PinsAreTrees DEF Consumers
  <2>3. Copy(vendored'[d])
    BY <2>1, <2>2 DEF Consumers, Consumer, Copy
  <2>4. DOMAIN vendored' = DOMAIN vendored /\ \A e \in DOMAIN vendored \ {d} : vendored'[e] = vendored[e]
    BY <2>1
  <2> QED BY <2>1, <2>3, <2>4 DEF Consumers, Consumer
<1>5. ASSUME NEW d \in ForProposals.Dirs, D!OthersPropose(d) PROVE Consumers'
  <2> DEFINE new == [branch |-> vendored, commit |-> BuiltOf(vendored[d])]
  <2>1. dependency' = [dependency EXCEPT !.proposals = @ \union {new}] /\ UNCHANGED vendored
    BY <1>5 DEF D!OthersPropose, BuiltOf
  <2>2. new.branch = vendored /\ new.commit = BuiltOf(vendored[d])
    OBVIOUS
  <2>3. new = [branch |-> new.branch, commit |-> new.commit]
    OBVIOUS
  <2> HIDE DEF new
  <2> QED BY <2>1, <2>2, <2>3 DEF Consumers
<1>6. ASSUME NEW d \in ForProposals.Dirs, NEW part \in {"own", "ci", "nested"}, D!Changes(d, part)
      PROVE  Consumers'
  <2> DEFINE tree == [vendored[d].tree EXCEPT ![part] = 1]
             copy == [vendored[d] EXCEPT !.tree = tree]
  <2>1. vendored' = [vendored EXCEPT ![d] = copy] /\ UNCHANGED dependency
    BY <1>6 DEF D!Changes
  <2>2. Copy(vendored[d])
    BY DEF Consumers, Consumer
  <2>3. tree \in ThreeParts /\ (vendored[d].tree.own # 2 => tree.own # 2)
    BY <2>2 DEF Copy, ThreeParts
  <2>4. Copy(vendored'[d])
    <3> HIDE DEF tree
    <3>1. /\ DOMAIN copy = {"of", "pin", "tree"} /\ copy.tree = tree
          /\ copy.of = vendored[d].of /\ copy.pin = vendored[d].pin
      BY <2>2 DEF Copy
    <3> HIDE DEF copy
    <3>2. vendored'[d] = copy
      BY <2>1 DEF Consumers, Consumer
    <3> QED BY <2>2, <2>3, <3>1, <3>2 DEF Copy
  <2> HIDE DEF copy
  <2>5. DOMAIN vendored' = DOMAIN vendored /\ \A e \in DOMAIN vendored \ {d} : vendored'[e] = vendored[e]
    BY <2>1
  <2> QED BY <2>1, <2>4, <2>5 DEF Consumers, Consumer
<1> QED BY <1>1, <1>2, <1>3, <1>4, <1>5, <1>6, ProposalSteps DEF OthersStep

(* ProposesWhatWasBuilt: whoever else builds or proposes meanwhile, what a *)
(* command puts on the dependency is a branch that was not there, and one  *)
(* commit on the pin of a folder that is the dependency's there.           *)
THEOREM ProposalsProposeWhatWasBuilt ==
  ASSUME ProposalConstants PROVE D!Spec => D!ProposesWhatWasBuilt
<1>1. D!Init => Consumers /\ Commands
  BY ProposalsInitially
<1>2. Consumers /\ Commands /\ [D!Next]_D!vars => (Consumers /\ Commands)'
  BY ConsumersStay, CommandsStay
<1>3. Consumers /\ Commands /\ [D!Next]_D!vars => D!ProposesOneBuilt
  <2>1. SUFFICES ASSUME Consumers, Commands, [D!Next]_D!vars, cmd' # cmd, dependency' # dependency
                 PROVE  D!ProposesOneBuilt
    BY DEF D!ProposesOneBuilt
  <2>2. ASSUME Asks \/ Kills \/ OthersStep \/ D!Forgets \/ D!Releases \/ UNCHANGED D!vars PROVE FALSE
    BY <2>1, <2>2 DEF Asks, Kills, OthersStep, D!Ask, D!Killed, D!Updates, D!OthersPropose,
       D!Changes, D!Forgets, D!Releases, D!vars
  <2>3. PICK p \in ForProposals.Cmds : D!Push(p)
    BY <2>1, <2>2, ProposalSteps, OnlyPushProposes
  <2> QED BY <2>1, <2>3, PushProposesOneBuilt DEF D!ProposesOneBuilt, BuiltOf, D!Proposed
<1>4. Consumers /\ Commands /\ [D!Next]_D!vars => [D!ProposesOneBuilt]_D!vars
  BY <1>3
<1> QED BY <1>1, <1>2, <1>4, PTL DEF D!Spec, D!ProposesWhatWasBuilt

(* The project's git dir, whose the cache is, and what is left of the      *)
(* bound.                                                                  *)
Bookkept == /\ DOMAIN git = {"objects", "fetched", "outgoing", "delivered"}
            /\ DOMAIN cacheOf = {"release", "has", "by"}
            /\ cacheOf.by \in ForProposals.Cmds \union {"nobody"}
            /\ leftNow \in 0..ForProposals.Budget
LEMMA BookkeptStep == ASSUME ProposalConstants, Bookkept, [D!Next]_D!vars PROVE Bookkept'
<1> USE DEF Bookkept
<1>1. leftNow' \in 0..ForProposals.Budget
  BY DEF ProposalConstants, D!Next, D!vars
<1>2. ASSUME NEW p \in ForProposals.Cmds, D!Step(p)
      PROVE  /\ DOMAIN git' = {"objects", "fetched", "outgoing", "delivered"}
             /\ DOMAIN cacheOf' = {"release", "has", "by"}
             /\ cacheOf'.by \in ForProposals.Cmds \union {"nobody"}
  <2>1. CASE D!Report(p) \/ D!NothingToBuild(p) \/ D!Build(p) \/ D!SaysBuilt(p)
             \/ D!RemoveDelivered(p) \/ D!WriteDelivered(p)
    BY <2>1 DEF D!Report, D!NothingToBuild, D!Build, D!SaysBuilt, D!RemoveDelivered,
       D!WriteDelivered, D!WithPins
  <2>2. CASE D!Bundle(p) \/ D!Open(p) \/ D!Look(p) \/ D!Push(p) \/ D!End(p)
    BY <2>2 DEF D!Bundle, D!Open, D!Look, D!Push, D!End
  <2>3. CASE D!Refresh(p) \/ D!Fetch(p)
    <3>1. UNCHANGED git /\ DOMAIN cacheOf' = DOMAIN cacheOf /\ cacheOf'.by = cacheOf.by
      BY <2>3, Zenon DEF D!Refresh, D!Fetch
    <3> QED BY <3>1
  <2> QED BY <1>2, <2>1, <2>2, <2>3 DEF D!Step
<1>3. ASSUME Asks \/ Kills \/ OthersStep \/ D!Forgets \/ D!Releases \/ UNCHANGED D!vars
      PROVE  /\ DOMAIN git' = {"objects", "fetched", "outgoing", "delivered"}
             /\ DOMAIN cacheOf' = {"release", "has", "by"}
             /\ cacheOf'.by \in ForProposals.Cmds \union {"nobody"}
  <2>1. CASE Asks \/ OthersStep \/ D!Releases \/ UNCHANGED D!vars
    <3>1. UNCHANGED <<git, cacheOf>>
      BY <2>1, Zenon DEF Asks, OthersStep, D!Ask, D!Updates, D!OthersPropose, D!Changes, D!Releases, D!vars
    <3> QED BY <3>1
  <2>2. CASE D!Forgets
    BY <2>2 DEF D!Forgets
  <2>3. CASE Kills
    BY <2>3 DEF Kills, D!Killed
  <2> QED BY <1>3, <2>1, <2>2, <2>3
<1> QED BY <1>1, <1>2, <1>3, ProposalSteps

(* A vendored copy is of the repository or of the fork, no proposal is     *)
(* empty, and the cache is as a command that ran left it (transfer.ts).    *)
THEOREM ProposalsTypeCorrect == ASSUME ProposalConstants PROVE D!Spec => []D!TypeOK
<1>1. D!Init => Consumers /\ Commands
  BY ProposalsInitially
<1>2. Consumers /\ Commands /\ [D!Next]_D!vars => (Consumers /\ Commands)'
  BY ConsumersStay, CommandsStay
<1>3. D!Init => Bookkept
  BY DEF ProposalConstants, D!Init, Bookkept
<1>4. Bookkept /\ [D!Next]_D!vars => Bookkept'
  BY BookkeptStep
<1>5. Consumers /\ Bookkept => D!TypeOK
  <2> SUFFICES ASSUME Consumers, Bookkept PROVE D!TypeOK
    OBVIOUS
  <2>1. \A d \in ForProposals.Dirs : vendored[d].of \in {ForProposals.Repo, ForProposals.Fork}
    BY DEF Consumers, Consumer, Copy
  <2>2. ASSUME NEW b \in dependency.proposals PROVE b.commit # D!NoCommit
    <3>1. PICK d \in ForProposals.Dirs : b.commit = BuiltOf(b.branch[d]) /\ Consumer(b.branch)
      BY DEF Consumers
    <3>2. Copy(b.branch[d])
      BY <3>1 DEF Consumer
    <3>3. Len(BuiltOf(b.branch[d])) # 0
      BY <3>2, BuiltOnThePin
    <3> QED BY <3>1, <3>3 DEF D!NoCommit
  <2> QED BY <2>1, <2>2 DEF Bookkept, D!TypeOK
<1> QED BY <1>1, <1>2, <1>3, <1>4, <1>5, PTL DEF D!Spec
====
