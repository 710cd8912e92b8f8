---------------------------------- MODULE Parts ----------------------------------
(***************************************************************************)
(* The parts of the system that meet only through files, beside each       *)
(* other: each starts from its own initial state, and the scene says which *)
(* of them moves, so the states of the parts add up and do not multiply.   *)
(* What is said of a part here is said of every behaviour of it.           *)
(***************************************************************************)
EXTENDS PiecesProofs

CONSTANTS
  Scenes,
  ForKeyring, ForStarts, ForTransfer, ForPolicy, ForCalls, ForReviews,
  Resting      (* of a part that does not move, where it is                *)
VARIABLE scene

(* Keys and repositories. *)
VARIABLES ring, toLoad, private, public, exported, agent, conn, open, job,
          setup, repo, minted, told, halved, stray
K == INSTANCE KeyringProofs WITH
       Aliases <- ForKeyring.Aliases, Clients <- ForKeyring.Clients,
       Newrepos <- ForKeyring.Newrepos, Keys <- ForKeyring.Keys,
       NoKey <- ForKeyring.NoKey, NoClient <- ForKeyring.NoClient,
       Concurrent <- ForKeyring.Concurrent

(* Starts. *)
VARIABLES file, copies, req, inflight, runner, dind, box, saved, print
S == INSTANCE StartsProofs WITH
       Specs <- ForStarts.Specs, Legacy <- ForStarts.Legacy, Shared <- ForStarts.Shared,
       Builds <- ForStarts.Builds, Tagged <- ForStarts.Tagged, Asks <- ForStarts.Asks,
       Refused <- ForStarts.Refused, Reqs <- ForStarts.Reqs,
       Concurrent <- ForStarts.Concurrent, Overtakes <- ForStarts.Overtakes,
       BrokerOps <- ForStarts.BrokerOps, DirectOps <- ForStarts.DirectOps

(* Transfers. *)
VARIABLES remote, cacheRefs, cacheHas, known, origin, head, projHas, lockFile,
          proc, left, stolen
T == INSTANCE TransferProofs WITH
       Commits <- ForTransfer.Commits, Parents <- ForTransfer.Parents, Anc <- ForTransfer.Anc,
       Branches <- ForTransfer.Branches, Branch <- ForTransfer.Branch,
       Absent <- ForTransfer.Absent, Procs <- ForTransfer.Procs, Budget <- ForTransfer.Budget

(* Specs. *)
VARIABLES spec, layout, target, base, masked, edits
Y == INSTANCE Policy WITH
       Drafts <- ForPolicy.Drafts, Tries <- ForPolicy.Tries, Bases <- ForPolicy.Bases

(* Command lines and reviews. *)
VARIABLES typed, everyName, tree, stage, asks, argvs, did, code, heard, cutOff, shaken
J == INSTANCE Calls WITH
       Lines <- ForCalls.Lines, Dashed <- ForCalls.Dashed, Labels <- ForCalls.Labels,
       MoveablePorts <- ForCalls.MoveablePorts, PortWords <- ForCalls.PortWords,
       Commits <- ForCalls.Commits, Bundle <- ForCalls.Bundle
VARIABLES branchAt, checkedOut, tracking, reviewer, sides, reviewShown, sent, strayed
R == INSTANCE Reviews WITH
       Commits <- ForReviews.Commits, Parents <- ForReviews.Parents, Anc <- ForReviews.Anc,
       Tree <- ForReviews.Tree, Size <- ForReviews.Size, Binary <- ForReviews.Binary,
       Modules <- ForReviews.Modules, BlobMax <- ForReviews.BlobMax,
       TotalMax <- ForReviews.TotalMax, FilesMax <- ForReviews.FilesMax,
       CommitsMax <- ForReviews.CommitsMax, Branches <- ForReviews.Branches,
       None <- ForReviews.None, Clients <- ForReviews.Clients, Panel <- ForReviews.Panel,
       Budget <- ForReviews.Budget, Worlds <- ForReviews.Worlds,
       refs <- branchAt, head <- checkedOut, origin <- tracking, client <- reviewer,
       dir <- sides, shown <- reviewShown, pushed <- sent, moves <- strayed

(* What the code and its tools guarantee of each part's constants.         *)
ASSUME KeyringAssumption == K!Constants
ASSUME StartsAssumption == S!Apart
ASSUME TransferAssumption == T!Constants
ASSUME PolicyAssumption == Y!Constants
ASSUME ReviewsAssumption == R!Constants
ASSUME WorktreesAssumption == WorktreesConstants
ASSUME NamesAssumption == NamesConstants
ASSUME PortsAssumption == PortsConstants
ASSUME ViewsAssumption == ViewsConstants
ASSUME PanelAssumption == PanelConstants
ASSUME IngressAssumption == IngressConstants
ASSUME EgressAssumption == EgressConstants
ASSUME ProposalsAssumption == ProposalConstants

keyring == <<ring, toLoad, private, public, exported, agent, conn, open, job,
             setup, repo, minted, told, halved, stray>>
starts == <<file, copies, req, inflight, runner, dind, box, saved, print>>
transfer == <<remote, cacheRefs, cacheHas, known, origin, head, projHas, lockFile,
              proc, left, stolen>>
worktrees == <<dir, pointer, admin, dirty, holder, sandbox, up, main,
               made, risked, atStart, since>>
ingress == <<disk, bridges, busy, poll, got, seen, subnets, prints,
             listeners, age, quiet>>
admission == <<client, atFirst, server, step, upstream, tracked, toServer, toClient,
               listener, late>>
names == <<dirs, specs, judged, mounting>>
ports == <<wanted, previous, published, own>>
views == <<lower, view, data, holds, ensure>>
policy == <<spec, layout, target, base, masked, edits>>
panel == <<atCommit, atGithub, atDefault, keptReview, doing, calls, reviewing,
           dialog>>
egress == <<settingsFile, policyFile, writer, written, clock, proxy, hook,
            flight, steady, held>>
proposals == <<vendored, git, dependency, cacheOf, cmd, leftNow>>
lines == <<typed, everyName, tree, stage, asks, argvs, did, code, heard,
           cutOff, shaken>>
reviews == <<branchAt, checkedOut, tracking, reviewer, sides, reviewShown,
             sent, strayed>>
vars == <<scene, keyring, starts, transfer, worktrees, ingress, admission, names, ports, views, policy, panel, egress, proposals, lines, reviews>>
Init == /\ scene \in Scenes
        /\ K!Init
        /\ S!Init
        /\ T!Init
        /\ scene # "starts" => file = Resting.file /\ box = [d \in S!Daemons |-> S!NoBox]
        /\ scene # "transfer" => cacheHas = Resting.cacheHas
        /\ W!Init
        /\ I!Init
        /\ A!Init
        /\ scene # "admission" => client.kind = "neither" /\ server.says = "else"
        /\ N!Init
        /\ O!Init
        /\ V!Init
        /\ Y!Init
        /\ scene # "policy" => spec = Y!Empty /\ layout = "flat" /\ target = "project" /\ base = Resting.base /\ masked
        /\ Z!Init
        /\ scene # "panel" => ~atDefault
        /\ E!Init
        /\ scene # "egress" => settingsFile = Resting.settings
        /\ D!Init
        /\ scene # "proposals" => vendored[Resting.dir].of = ForProposals.Fork
        /\ scene # "calls" => typed = Resting.line
        /\ J!Init
        /\ R!Init
        /\ scene # "reviews" => checkedOut.branch = Resting.branch

In(s) == scene = s /\ UNCHANGED scene
(* What a newrepo does with its key is nothing to the keyring: nobody else  *)
(* asks once it has begun.  And an edit that nothing reads before the next  *)
(* may as well come then: when a snapshot or a fingerprint is due.          *)
OneOrTheOther ==
  \/ \A alias \in ForKeyring.Aliases : repo'[alias] = K!Bare
  \/ \A c \in ForKeyring.Clients \ ForKeyring.Newrepos : conn'[c] = K!NoConn
EditsAreRead ==
  file' # file => runner.pc = "before" \/ \E r \in DOMAIN req : req[r].pc = "asked"
Next ==
  \/ In("keyring") /\ K!Next /\ OneOrTheOther /\ UNCHANGED <<starts, transfer, worktrees, ingress, admission, names, ports, views, policy, panel, egress, proposals, lines, reviews>>
  \/ In("starts") /\ S!Next /\ EditsAreRead /\ UNCHANGED <<keyring, transfer, worktrees, ingress, admission, names, ports, views, policy, panel, egress, proposals, lines, reviews>>
  \/ In("transfer") /\ T!Next /\ UNCHANGED <<keyring, starts, worktrees, ingress, admission, names, ports, views, policy, panel, egress, proposals, lines, reviews>>
  \/ In("worktrees") /\ W!Next /\ UNCHANGED <<keyring, starts, transfer, ingress, admission, names, ports, views, policy, panel, egress, proposals, lines, reviews>>
  \/ In("ingress") /\ I!Next /\ UNCHANGED <<keyring, starts, transfer, worktrees, admission, names, ports, views, policy, panel, egress, proposals, lines, reviews>>
  \/ In("admission") /\ A!Next /\ UNCHANGED <<keyring, starts, transfer, worktrees, ingress, names, ports, views, policy, panel, egress, proposals, lines, reviews>>
  \/ In("names") /\ N!Next /\ UNCHANGED <<keyring, starts, transfer, worktrees, ingress, admission, ports, views, policy, panel, egress, proposals, lines, reviews>>
  \/ In("ports") /\ O!Next /\ UNCHANGED <<keyring, starts, transfer, worktrees, ingress, admission, names, views, policy, panel, egress, proposals, lines, reviews>>
  \/ In("views") /\ V!Next /\ UNCHANGED <<keyring, starts, transfer, worktrees, ingress, admission, names, ports, policy, panel, egress, proposals, lines, reviews>>
  \/ In("policy") /\ Y!Next /\ UNCHANGED <<keyring, starts, transfer, worktrees, ingress, admission, names, ports, views, panel, egress, proposals, lines, reviews>>
  \/ In("panel") /\ Z!Next /\ UNCHANGED <<keyring, starts, transfer, worktrees, ingress, admission, names, ports, views, policy, egress, proposals, lines, reviews>>
  \/ In("egress") /\ E!Next /\ UNCHANGED <<keyring, starts, transfer, worktrees, ingress, admission, names, ports, views, policy, panel, proposals, lines, reviews>>
  \/ In("proposals") /\ D!Next /\ UNCHANGED <<keyring, starts, transfer, worktrees, ingress, admission, names, ports, views, policy, panel, egress, lines, reviews>>
  \/ In("calls") /\ J!Next /\ UNCHANGED <<keyring, starts, transfer, worktrees, ingress, admission, names, ports, views, policy, panel, egress, proposals, reviews>>
  \/ In("reviews") /\ R!Next /\ UNCHANGED <<keyring, starts, transfer, worktrees, ingress, admission, names, ports, views, policy, panel, egress, proposals, lines>>
Spec == Init /\ [][Next]_vars

(* What tells two states apart: of the scenes at rest, nothing has changed.*)
Moving ==
  <<scene, CASE scene = "keyring" -> keyring
            [] scene = "starts" -> starts
            [] scene = "transfer" -> transfer
            [] scene = "worktrees" -> worktrees
            [] scene = "ingress" -> ingress
            [] scene = "admission" -> admission
            [] scene = "names" -> names
            [] scene = "ports" -> ports
            [] scene = "views" -> views
            [] scene = "policy" -> policy
            [] scene = "panel" -> panel
            [] scene = "egress" -> egress
            [] scene = "proposals" -> proposals
            [] scene = "calls" -> lines
            [] scene = "reviews" -> reviews>>

TypeOK ==
  /\ scene = "keyring" => K!TypeOK
  /\ scene = "starts" => S!TypeOK
  /\ scene = "transfer" => T!TypeOK
  /\ scene = "worktrees" => W!TypeOK
  /\ scene = "ingress" => I!TypeOK
  /\ scene = "admission" => A!TypeOK
  /\ scene = "names" => N!TypeOK
  /\ scene = "views" => V!TypeOK
  /\ scene = "policy" => Y!TypeOK
  /\ scene = "panel" => Z!TypeOK
  /\ scene = "egress" => E!TypeOK
  /\ scene = "proposals" => D!TypeOK
  /\ scene = "calls" => J!TypeOK
  /\ scene = "reviews" => R!TypeOK

KeysAreKept == scene = "keyring" => K!KeysAreKept

RunsOnePassed == S!RunsOnePassed
RunsWhereSaved == scene = "starts" => S!RunsWhereSaved
NothingBeyondDeclared == scene = "starts" => S!NothingBeyondDeclared
InflightIsCounted == scene = "starts" => S!InflightIsCounted
RunsWhatWasJudged == scene = "starts" => S!RunsWhatWasJudged

OriginIsWhole == scene = "transfer" => T!OriginIsWhole
CommitsGoWhereSaid == T!CommitsGoWhereSaid
OneUnlessStolen == scene = "transfer" => T!OneUnlessStolen

PrunesNoneThatWasOpen == W!PrunesNoneThatWasOpen
WorkGoesOnlyIfSaid == W!WorkGoesOnlyIfSaid

QuietPollSettles == I!QuietPollSettles

NothingMisdirected == scene = "admission" => A!NothingMisdirected
CloseReachesAll == scene = "admission" => A!CloseReachesAll

TakenOnlyByALongerName == N!TakenOnlyByALongerName
NamesArePrivate == scene = "names" => N!NamesArePrivate

MoveOutlivesARestart == scene = "ports" => O!MoveOutlivesARestart

NothingOldShadows == scene = "views" => V!NothingOldShadows

DerivedStillPasses == scene = "policy" => Y!DerivedStillPasses
NothingReachesPast == scene = "policy" => Y!NothingReachesPast
DockerfileIsTheOneJudged == scene = "policy" => Y!DockerfileIsTheOneJudged
NeverADesolateBug == scene = "policy" => Y!NeverADesolateBug

PushedIsWhatWasAsked == Z!PushedIsWhatWasAsked

ValuesAreKept == scene = "egress" => E!ValuesAreKept
HeldWhileSteady == scene = "egress" => E!HeldWhileSteady

ProposesWhatWasBuilt == D!ProposesWhatWasBuilt

NothingLostOnTheWay == scene = "calls" => J!NothingLostOnTheWay

ReviewIsWhole == scene = "reviews" => R!ReviewIsWhole
ShowsNoOthers == scene = "reviews" => R!ShowsNoOthers
ReviewIsOfOneCommit == scene = "reviews" => R!ReviewIsOfOneCommit
SendsTheBranchReviewed == scene = "reviews" => R!SendsTheBranchReviewed
================================================================================
