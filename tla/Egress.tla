--------------------------------- MODULE Egress --------------------------------
(***************************************************************************)
(* The VM's egress proxy, addon.py: each request is judged by what its     *)
(* hook has just read of two files, settings.json and the projects'        *)
(* policies, which cli.sh rewrites at any of its steps: jq into a          *)
(* temporary file, and `install`, which unlinks the file, creates it and   *)
(* copies.  The hooks run one at a time.                                   *)
(***************************************************************************)
EXTENDS Integers, Sequences, FiniteSets

CONSTANTS
  Names,        (* placeholders                                            *)
  Within,       (* Within[n]: the placeholders that occur in the text n    *)
  Hosts, Projects, NoOne,
  Writes,       (* bound: commands of cli.sh                               *)
  Hours,        (* bound: the clock                                        *)
  Worlds        (* what the two files may hold at first, edited by hand    *)

VARIABLES
  settings, policy,  (* the files: there and whole or not, mtime, content  *)
  writer,       (* the command of cli.sh under way, and what it writes      *)
  written,      (* how many there have been                                *)
  clock,
  proxy,        (* what the addon has loaded, and of which mtimes          *)
  hook,         (* the hook that runs                                      *)
  flight,       (* the values substituted into requests not yet answered   *)
  steady,       (* ghost: no file has changed since this hook began        *)
  held          (* ghost: the projects held by every policy since then     *)

vars == <<settings, policy, writer, written, clock, proxy, hook, flight, steady, held>>
files == <<settings, policy>>

States == {"gone", "torn", "whole"}
NoEntries == [s \in {} |-> s]
Everything == [action |-> "allow", host |-> "*", projects |-> {}]
Garbled == {"garbled"}  (* a scope that cannot be read *)
Fresh == [secrets |-> NoEntries, network |-> <<Everything>>, open |-> TRUE]
Idle == [at |-> "idle", kind |-> "none", stat |-> -1]
AtRest == [at |-> "idle", file |-> "none", doc |-> NoEntries]

TypeOK ==
  /\ settings.st \in States /\ policy.st \in States
  /\ writer.at \in {"idle", "unlink", "create", "copy"}
  /\ written \in 0..Writes /\ clock \in 0..Hours
  /\ DOMAIN proxy.secrets \subseteq Names /\ DOMAIN proxy.policies \subseteq Projects
  /\ hook.at \in {"idle", "settings", "read", "policy", "reread", "decide", "scrub"}
  /\ steady \in BOOLEAN /\ held \subseteq Projects

-----------------------------------------------------------------------------
(* What a settings file comes to.  A secret whose allowlist pins nothing,  *)
(* or whose scope or headers cannot be read, is dropped, and so are two    *)
(* one of whose names contains the other; a switch that cannot be read is  *)
(* off.                                                                    *)
Pins(host) == host # "*"
Usable(e) == e.hosts # {} /\ (\A h \in e.hosts : Pins(h))
               /\ e.projects # Garbled /\ e.headers # "garbled"
Switch(e) == IF e.off = "garbled" THEN [e EXCEPT !.off = "off", !.until = 0] ELSE e
Overlapping(names) == {n \in names : \E m \in names \ {n} : n \in Within[m] \/ m \in Within[n]}
Loaded(doc) == LET usable == {n \in DOMAIN doc.secrets : Usable(doc.secrets[n])}
               IN  [n \in usable \ Overlapping(usable) |-> Switch(doc.secrets[n])]

IsOnUntilSwitched(e) == e.off # "off"
IsOn(e) == e.off # "off" /\ (e.until = 0 \/ clock < e.until)

(* And a policy file: an entry that cannot be read is a deny.  Any number  *)
(* is a learning's end; one that is no number is a `then` that is neither. *)
Readable(e) == e.action \in {"allow", "deny"}
                 \/ (e.action = "learn" /\ e.then \in {"allow", "deny"})
Denied == [action |-> "deny", until |-> 0, then |-> "none"]
ReadPolicy(e) == IF Readable(e) THEN e ELSE Denied
ModeOf(policies, project) ==
  IF project \notin DOMAIN policies THEN "allow"
  ELSE LET e == policies[project]
       IN  IF e.action = "learn" /\ clock >= e.until THEN e.then ELSE e.action

(* The runner's own reading of that file, before it starts a project on    *)
(* the shared daemon, where its requests are no project's.                 *)
RestrictionOf(project) ==
  IF policy.st = "torn" THEN "deny"
  ELSE IF policy.st = "gone" \/ project \notin DOMAIN policy.doc THEN "none"
  ELSE LET e == policy.doc[project]
       IN  CASE e.action = "allow" -> "none"
             [] e.action = "learn" /\ e.then \in {"allow", "deny"} ->
                  IF clock < e.until THEN "learn"
                  ELSE IF e.then = "deny" THEN "deny" ELSE "none"
             [] OTHER -> "deny"

-----------------------------------------------------------------------------
(* The network's rules: the first that applies.  A deny is for traffic of  *)
(* no project too, or for everyone when its scope cannot be read; of a     *)
(* project that is held, the allow of everything to everyone is skipped.   *)
InScope(rule, project) ==
  \/ rule.projects = {} \/ project \in rule.projects
  \/ rule.action = "deny" /\ (project = NoOne \/ rule.projects = Garbled)
ByDefault(rule) == rule.action = "allow" /\ rule.projects = {} /\ rule.host = "*"
ConsultedByAll(rule, host, project, restricted) ==
  rule.host \in {"*", host} /\ InScope(rule, project)
Consulted(rule, host, project, restricted) ==
  rule.host \in {"*", host} /\ ~(restricted /\ ByDefault(rule)) /\ InScope(rule, project)
NetworkAllowed(host, project, restricted) ==
  LET hits == {i \in DOMAIN proxy.network :
                 Consulted(proxy.network[i], host, project, restricted)}
  IN  IF hits = {} THEN ~restricted /\ proxy.open
      ELSE \E i \in hits : (\A j \in hits : i <= j) /\ proxy.network[i].action = "allow"

(* A request: its source, the server name its TLS proves (NoOne: none),    *)
(* the name its Host header claims, whether it carries another as well,    *)
(* whether its address is internal, the placeholder it carries and where.  *)
Requests == [from : Projects \union {NoOne}, sni : Hosts \union {NoOne}, claimed : Hosts,
             another : BOOLEAN, internal : BOOLEAN, text : Names,
             place : {"authorization", "elsewhere"}]
PolicyHost(r) == IF r.sni # NoOne THEN r.sni ELSE r.claimed

SecretsInRequest(r) ==
  {n \in DOMAIN proxy.secrets \cap Within[r.text] :
     proxy.secrets[n].headers \in {"any", r.place}}
Toward(r) == {n \in SecretsInRequest(r) : r.sni \in proxy.secrets[n].hosts}
Verdict(r) ==
  LET mode == ModeOf(proxy.policies, r.from)
      scope(n) == proxy.secrets[n].projects
  IN  IF r.internal THEN "DENY-INTERNAL"
      ELSE IF mode # "learn" /\ ~NetworkAllowed(PolicyHost(r), r.from, mode # "allow") THEN "DENY-POLICY"
      ELSE IF SecretsInRequest(r) # {} /\ (r.sni = NoOne \/ r.claimed # r.sni \/ r.another) THEN "LEAK"
      ELSE IF \E n \in Toward(r) : scope(n) # {} /\ r.from \notin scope(n) THEN "DENY-SCOPE"
      ELSE IF \E n \in Toward(r) : ~IsOn(proxy.secrets[n]) THEN "DENY-OFF"
      ELSE "PASS"
Substituted(r) == IF Verdict(r) = "PASS" THEN Toward(r) ELSE {}

-----------------------------------------------------------------------------
Init ==
  /\ \E world \in Worlds : settings = world.settings /\ policy = world.policy
  /\ writer = AtRest /\ written = 0 /\ clock = 0
  /\ proxy = [stamp |-> -1, secrets |-> NoEntries, network |-> <<>>, open |-> TRUE,
              read |-> -1, policies |-> NoEntries]
  /\ hook = Idle /\ flight = {} /\ steady = TRUE /\ held = {}

Tick == clock < Hours /\ clock' = clock + 1
          /\ UNCHANGED <<files, writer, written, proxy, hook, flight, steady, held>>

(* A command reads the file, or one it makes when there is none, and       *)
(* computes the next; of a torn one jq makes nothing.                      *)
Command(file, doc) ==
  /\ writer.at = "idle" /\ written < Writes /\ written' = written + 1
  /\ writer' = [at |-> "unlink", file |-> file, doc |-> doc]
  /\ UNCHANGED <<clock, proxy, hook, flight>>
Made(file, doc) == IF file.st # "gone" THEN file
                   ELSE [st |-> "whole", stamp |-> file.stamp + 1, doc |-> doc]
OnSettings(doc) ==
  /\ settings.st = "whole" /\ Command("settings", doc)
  /\ UNCHANGED <<files, steady, held>>
OnPolicy(doc) ==
  /\ policy.st # "torn" /\ Command("policy", doc)
  /\ policy' = Made(policy, NoEntries) /\ UNCHANGED settings
  /\ IF policy.st = "whole" THEN UNCHANGED <<steady, held>>
     ELSE steady' = (hook.at = "idle") /\ held' = {}

Keep(secrets, n, e) == [m \in DOMAIN secrets \union {n} |-> IF m = n THEN e ELSE secrets[m]]
SecretAdd(n, projects, headers) ==
  LET file == Made(settings, Fresh)
      new == [value |-> written + 1, hosts |-> {"h"}, projects |-> projects,
              headers |-> headers, off |-> "on", until |-> 0]
  IN  /\ file.st = "whole" /\ n \notin Overlapping(DOMAIN file.doc.secrets \union {n})
      /\ Command("settings", [file.doc EXCEPT !.secrets = Keep(file.doc.secrets, n, new)])
      /\ settings' = file /\ UNCHANGED <<policy, held>>
      /\ steady' = (steady /\ (settings.st = "whole" \/ hook.at = "idle"))
Secrets == settings.doc.secrets
SecretRm(n) ==
  OnSettings([settings.doc EXCEPT !.secrets = [m \in DOMAIN Secrets \ {n} |-> Secrets[m]]])
SecretOnOff(n, off, ttl) ==
  /\ n \in DOMAIN Secrets
  /\ OnSettings([settings.doc EXCEPT !.secrets =
       Keep(Secrets, n, [Secrets[n] EXCEPT !.off = off, !.until = IF ttl THEN clock + 1 ELSE 0])])
ProxyAllow(host, p) ==
  LET rule == [action |-> "allow", host |-> host, projects |-> {p}]
      rules == settings.doc.network
  IN  OnSettings(IF \E i \in DOMAIN rules : rules[i] = rule THEN settings.doc
                    ELSE [settings.doc EXCEPT !.network = Append(rules, rule)])
PolicyDoc == IF policy.st = "whole" THEN policy.doc ELSE NoEntries
Enforce(p, e) ==
  OnPolicy(IF e.action = "allow"
              THEN [q \in DOMAIN PolicyDoc \ {p} |-> PolicyDoc[q]]
              ELSE [q \in DOMAIN PolicyDoc \union {p} |-> IF q = p THEN e ELSE PolicyDoc[q]])
Learn(p, then) == Enforce(p, [action |-> "learn", until |-> clock + 1, then |-> then])

(* install: the file is unlinked, made anew, and only then is its content. *)
HeldBy(doc) == {p \in DOMAIN doc : ReadPolicy(doc[p]).action = "deny"}
Rewritten(file, of, st) ==
  IF writer.file # of THEN file
  ELSE [st |-> st, stamp |-> file.stamp + 1,
        doc |-> IF st = "whole" THEN writer.doc ELSE file.doc]
Install(from, to, st) ==
  /\ writer.at = from
  /\ settings' = Rewritten(settings, "settings", st)
  /\ policy' = Rewritten(policy, "policy", st)
  /\ writer' = IF to = "idle" THEN AtRest ELSE [writer EXCEPT !.at = to]
  /\ held' = IF st = "whole" /\ writer.file = "policy"
             THEN held \cap HeldBy(writer.doc) ELSE held
  /\ steady' = (hook.at = "idle")
  /\ UNCHANGED <<written, clock, proxy, hook, flight>>
InstallUnlinks == Install("unlink", "create", "gone")
InstallCreates == Install("create", "copy", "torn")
InstallCopies == Install("copy", "idle", "whole")

-----------------------------------------------------------------------------
(* A hook: a request, or a message of a WebSocket.                         *)
Arrive(kind) ==
  /\ hook.at = "idle" /\ hook' = [Idle EXCEPT !.at = "settings", !.kind = kind]
  /\ steady' = TRUE /\ held' = HeldBy(policy.doc)
  /\ UNCHANGED <<files, writer, written, clock, proxy, flight>>
At(from) == hook.at = from /\ UNCHANGED <<files, writer, written, clock, flight, steady, held>>
Then(to) == hook' = [hook EXCEPT !.at = to]
AfterSettings == IF hook.kind = "request" THEN "policy" ELSE "scrub"
StatSettings ==
  /\ At("settings") /\ UNCHANGED proxy
  /\ IF settings.st = "gone" \/ settings.stamp = proxy.stamp THEN Then(AfterSettings)
     ELSE hook' = [hook EXCEPT !.at = "read", !.stat = settings.stamp]
ReadSettings ==
  /\ At("read") /\ Then(AfterSettings)
  /\ IF settings.st # "whole" THEN UNCHANGED proxy
     ELSE proxy' = [proxy EXCEPT !.stamp = hook.stat, !.secrets = Loaded(settings.doc),
                                 !.network = settings.doc.network, !.open = settings.doc.open]
StatPolicy ==
  /\ At("policy")
  /\ CASE policy.st = "gone" -> Then("decide") /\ proxy' = [proxy EXCEPT !.policies = NoEntries, !.read = -1]
       [] policy.st # "gone" /\ policy.stamp = proxy.read -> Then("decide") /\ UNCHANGED proxy
       [] OTHER -> hook' = [hook EXCEPT !.at = "reread", !.stat = policy.stamp] /\ UNCHANGED proxy
RereadPolicy ==
  /\ At("reread") /\ Then("decide")
  /\ IF policy.st # "whole" THEN UNCHANGED proxy
     ELSE proxy' = [proxy EXCEPT !.read = hook.stat,
                     !.policies = [p \in DOMAIN policy.doc |-> ReadPolicy(policy.doc[p])]]
Decide ==
  /\ hook.at = "decide" /\ hook' = Idle /\ steady' = TRUE /\ held' = {}
  /\ \E names \in {Substituted(r) : r \in Requests} :
       flight' = flight \union {proxy.secrets[n].value : n \in names}
  /\ UNCHANGED <<files, writer, written, clock, proxy>>
(* A response or a message may hold a value: it is replaced by the name of *)
(* the secret loaded that has it.                                          *)
Scrubbed(v) == \E n \in DOMAIN proxy.secrets : proxy.secrets[n].value = v
Respond(v) ==
  /\ hook.at = "idle" /\ v \in flight /\ flight' = flight \ {v}
  /\ UNCHANGED <<files, writer, written, clock, proxy, hook, steady, held>>
Message == hook.at = "scrub" /\ hook' = Idle /\ steady' = TRUE /\ held' = {}
             /\ UNCHANGED <<files, writer, written, clock, proxy, flight>>

Operate ==
  \/ \E n \in Names :
       \/ \E p \in {{}, Projects}, h \in {"any", "authorization"} : SecretAdd(n, p, h)
       \/ SecretRm(n) \/ SecretOnOff(n, "off", FALSE)
       \/ \E ttl \in BOOLEAN : SecretOnOff(n, "on", ttl)
  \/ \E p \in Projects : \/ \E h \in Hosts : ProxyAllow(h, p)
                         \/ Enforce(p, Denied) \/ Enforce(p, [Denied EXCEPT !.action = "allow"])
                         \/ \E then \in {"allow", "deny"} : Learn(p, then)
Next ==
  \/ Operate \/ InstallUnlinks \/ InstallCreates \/ InstallCopies
  \/ \E kind \in {"request", "message"} : Arrive(kind)
  \/ StatSettings \/ ReadSettings \/ StatPolicy \/ RereadPolicy \/ Decide \/ Message \/ Tick
  \/ \E v \in flight : Respond(v)

Spec == Init /\ [][Next]_vars

-----------------------------------------------------------------------------
(* A value leaves only in place of the very name that was written, and     *)
(* only where settings.json lets that name go: toward a host it names,     *)
(* proven and alone claimed, from a project it is for, in a header it is   *)
(* for, while it is on.  Nothing is said while the file is rewritten.      *)
Permits(e, r) ==
  /\ Usable(e) /\ r.sni \in e.hosts /\ r.claimed = r.sni /\ ~r.another /\ ~r.internal
  /\ e.projects = {} \/ r.from \in e.projects
  /\ e.headers \in {"any", r.place}
  /\ e.off = "on" /\ (e.until = 0 \/ clock < e.until)
SentWherePermitted ==
  hook.at = "decide" /\ steady /\ settings.st = "whole" =>
    \A r \in Requests : \A n \in Substituted(r) :
      /\ n \in DOMAIN settings.doc.secrets
      /\ LET e == settings.doc.secrets[n]
         IN  proxy.secrets[n].value = e.value /\ Permits(e, r)
      /\ ~\E m \in DOMAIN settings.doc.secrets \ {n} :
            Usable(settings.doc.secrets[m]) /\ m \in Within[r.text] /\ n \in Within[m]

(* A value still stored that comes back in a response is replaced by its   *)
(* name.  (One rotated or removed meanwhile is not: addon.py:40.)          *)
ScrubbedWhileStored ==
  hook.at = "idle" => \A v \in flight :
    (\E n \in DOMAIN settings.doc.secrets : settings.doc.secrets[n].value = v) => Scrubbed(v)

(* What the proxy promises of a value: it goes nowhere else, and comes     *)
(* back as its name.                                                       *)
ValuesAreKept == SentWherePermitted /\ ScrubbedWhileStored

(* A project that the runner reads as denied gets from the proxy only what *)
(* a rule allows by the host's name or the project's.                      *)
ByName(r) == \E i \in DOMAIN proxy.network :
               /\ proxy.network[i].action = "allow"
               /\ \/ proxy.network[i].host = PolicyHost(r)
                  \/ proxy.network[i].host = "*" /\ r.from \in proxy.network[i].projects
Passed(r) == Verdict(r) \notin {"DENY-INTERNAL", "DENY-POLICY"}
HeldWhileSteady ==
  hook.at = "decide" /\ steady /\ policy.st = "whole" =>
    \A r \in Requests : RestrictionOf(r.from) = "deny" /\ Passed(r) => ByName(r)

(* Refuted, RestrictedIsHeld: so is one that every policy has held since   *)
(* the hook began, whatever else is written meanwhile.  The policies of a  *)
(* file that is not there are none, and install unlinks it (addon.py:583). *)
RestrictedIsHeld ==
  hook.at = "decide" => \A r \in Requests : r.from \in held /\ Passed(r) => ByName(r)

================================================================================
