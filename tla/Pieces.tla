--------------------------------- MODULE Pieces ---------------------------------
(***************************************************************************)
(* The smaller parts of the system, each with variables of its own.        *)
(***************************************************************************)
EXTENDS Integers, Sequences

CONSTANTS      (* each part's constants, a record by their names           *)
  ForWorktrees, ForIngress, ForNames, ForPorts, ForViews, ForPanel, ForEgress, ForProposals

(* Worktrees. *)
VARIABLES dir, pointer, admin, dirty, holder, sandbox, up, main, made, risked, atStart, since
W == INSTANCE Worktrees WITH
       Ours <- ForWorktrees.Ours, Others <- ForWorktrees.Others,
       Wanted <- ForWorktrees.Wanted, None <- ForWorktrees.None

(* The ingress, and one connection to one of its listeners. *)
VARIABLES disk, bridges, busy, poll, got, seen, subnets, prints, listeners, age, quiet
I == INSTANCE Ingress WITH
       Ports <- ForIngress.Ports, Dinds <- ForIngress.Dinds, Addresses <- ForIngress.Addresses,
       Owners <- ForIngress.Owners, Malformed <- ForIngress.Malformed,
       Changes <- ForIngress.Changes, Absent <- ForIngress.Absent
VARIABLES client, atFirst, server, step, upstream, tracked, toServer, toClient, listener, late
A == INSTANCE Admission

(* Names, and the host ports of a target. *)
VARIABLES dirs, specs, judged, mounting
N == INSTANCE Names WITH
       Places <- ForNames.Places, Encodable <- ForNames.Encodable, Volumes <- ForNames.Volumes,
       Namespace <- ForNames.Namespace, Matches <- ForNames.Matches, AtOnce <- ForNames.AtOnce
VARIABLES wanted, previous, published, own
O == INSTANCE PortWorlds WITH
       HostPorts <- ForPorts.HostPorts, Base <- ForPorts.Base, Labels <- ForPorts.Labels, Editor <- ForPorts.Editor,
       Rank <- ForPorts.Rank, NoPort <- ForPorts.NoPort

(* A shared directory. *)
VARIABLES lower, view, data, holds, ensure
V == INSTANCE Views WITH Versions <- ForViews.Versions

(* The editor's panel. *)
VARIABLES atCommit, atGithub, atDefault, keptReview, doing, calls, reviewing, dialog
Z == INSTANCE Panel WITH
       Commits <- ForPanel.Commits, Slots <- ForPanel.Slots,
       commit <- atCommit, tip <- atGithub, onDefault <- atDefault, kept <- keptReview

(* The egress. *)
VARIABLES settingsFile, policyFile, writer, written, clock, proxy, hook, flight, steady, held
E == INSTANCE Egress WITH
       Names <- ForEgress.Names, Within <- ForEgress.Within, Hosts <- ForEgress.Hosts,
       Projects <- ForEgress.Projects, NoOne <- ForEgress.NoOne, Writes <- ForEgress.Writes,
       Hours <- ForEgress.Hours, Worlds <- ForEgress.Worlds,
       settings <- settingsFile, policy <- policyFile

(* Proposals. *)
VARIABLES vendored, git, dependency, cacheOf, cmd, leftNow
D == INSTANCE Proposals WITH
       Cmds <- ForProposals.Cmds, Dirs <- ForProposals.Dirs, Repo <- ForProposals.Repo,
       Fork <- ForProposals.Fork, Budget <- ForProposals.Budget, Worlds <- ForProposals.Worlds,
       copies <- vendored, upstream <- dependency, cache <- cacheOf, left <- leftNow
=================================================================================
