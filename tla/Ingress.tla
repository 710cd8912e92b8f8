-------------------------------- MODULE Ingress --------------------------------
(***************************************************************************)
(* The VM's ingress, ingress.py: it polls two directories, one file at a   *)
(* time, and closes and opens its listeners by what it found, with awaits  *)
(* in between.  The supervisor and the runners rewrite the files at any of *)
(* its steps, and bridges come and go.                                     *)
(***************************************************************************)
EXTENDS Integers, FiniteSets

CONSTANTS
  Ports,        (* file names under ports/                                 *)
  Dinds,        (* file names under dinds/                                 *)
  Addresses,    (* what a file under dinds/ may say                        *)
  Owners,       (* the targets a file under ports/ may name                *)
  Malformed,    (* the content of a file it will not act on                *)
  Changes,      (* bound: changes of the files, the bridges and the Mac    *)
  Absent        (* no file, no listener                                    *)

VARIABLES
  disk,         (* per file, what it says and its (inode, mtime)           *)
  bridges,      (* the addresses inside some desolate bridge's subnet      *)
  busy,         (* host ports something else listens on                    *)
  poll,         (* the step reconcile is at                                *)
  got,          (* per file, the fingerprint and the content it has read   *)
  seen, subnets, prints,  (* of the last poll: dinds/, `ip addr`, ports/   *)
  listeners,    (* per port, its target, and the file there when it opened *)
  age,          (* how many changes there have been: a new file's inode    *)
  quiet         (* ghost: nothing has changed since this poll began        *)

vars == <<disk, bridges, busy, poll, got, seen, subnets, prints, listeners, age, quiet>>
world == <<disk, bridges, busy, age, quiet>>
memory == <<seen, subnets, prints>>

Files == Ports \union Dinds
NoFile == [print |-> 0, says |-> Absent]
Claims == Dinds \X Owners
NoTarget == <<Absent, Absent>>
Closed == [target |-> NoTarget, file |-> 0]

TypeOK ==
  /\ \A f \in Files : disk[f].print \in 0..Changes /\ got[f].print \in 0..Changes
  /\ bridges \subseteq Addresses /\ subnets \subseteq Addresses /\ busy \subseteq Ports
  /\ poll.at \in {"idle", "read", "subnets", "close", "open"} /\ poll.todo \subseteq Files
  /\ listeners \in [Ports -> [target : (Addresses \X Owners) \union {NoTarget},
                              file : 0..Changes]]
  /\ age \in 0..Changes /\ quiet \in BOOLEAN

Idle == [at |-> "idle", todo |-> {}, stat |-> Absent]
Init ==
  /\ disk = [f \in Files |-> NoFile] /\ bridges = {} /\ busy = {}
  /\ poll = Idle /\ got = [f \in Files |-> NoFile]
  /\ seen = [d \in Dinds |-> 0] /\ subnets = {} /\ prints = [p \in Ports |-> 0]
  /\ listeners = [p \in Ports |-> Closed]
  /\ age = 0 /\ quiet = TRUE

-----------------------------------------------------------------------------
(* The writers: a file is replaced by an atomic rename, or removed.        *)
Changed == age < Changes /\ age' = age + 1 /\ quiet' = FALSE
             /\ UNCHANGED <<poll, got, memory, listeners>>
WriteFile(f, says) ==
  /\ Changed
  /\ disk' = [disk EXCEPT ![f] = [print |-> age', says |-> says]]
  /\ UNCHANGED <<bridges, busy>>
RemoveFile(f) ==
  /\ disk[f] # NoFile /\ Changed
  /\ disk' = [disk EXCEPT ![f] = NoFile]
  /\ UNCHANGED <<bridges, busy>>
BridgeChanges(a) ==
  /\ Changed
  /\ bridges' = IF a \in bridges THEN bridges \ {a} ELSE bridges \union {a}
  /\ UNCHANGED <<disk, busy>>
PortBusyOrFree(p) ==
  /\ listeners[p] = Closed /\ Changed
  /\ busy' = IF p \in busy THEN busy \ {p} ELSE busy \union {p}
  /\ UNCHANGED <<disk, bridges>>

-----------------------------------------------------------------------------
(* reconcile reads ports/, then dinds/: of each file the fingerprint, then *)
(* the content, which may be a later file's, or gone.                      *)
Begin ==
  /\ poll.at = "idle"
  /\ poll' = [at |-> "read", todo |-> Files, stat |-> Absent]
  /\ got' = [f \in Files |-> NoFile]
  /\ quiet' = TRUE
  /\ UNCHANGED <<disk, bridges, busy, age, memory, listeners>>
Turn(f) == f \in poll.todo /\ (f \in Ports \/ poll.todo \subseteq Dinds)
StatFile(f) ==
  /\ poll.at = "read" /\ poll.stat = Absent /\ Turn(f)
  /\ poll' = IF disk[f] = NoFile THEN [poll EXCEPT !.todo = @ \ {f}]
                                 ELSE [poll EXCEPT !.stat = f]
  /\ got' = [got EXCEPT ![f] = [print |-> disk[f].print, says |-> Absent]]
  /\ UNCHANGED <<world, memory, listeners>>
ReadFile(f) ==
  /\ poll.at = "read" /\ poll.stat = f /\ f \in Files
  /\ poll' = [poll EXCEPT !.stat = Absent, !.todo = @ \ {f}]
  /\ got' = [got EXCEPT ![f] = IF disk[f] = NoFile THEN NoFile ELSE [@ EXCEPT !.says = disk[f].says]]
  /\ UNCHANGED <<world, memory, listeners>>

(* The bridges are looked up when dinds/ changed, or some time has passed; *)
(* when that fails so does this poll, and everything else stays.           *)
DindPrints == [d \in Dinds |-> got[d].print]
Subnets(fresh) ==
  /\ poll.at = "read" /\ poll.todo = {}
  /\ DindPrints # seen => fresh
  /\ seen' = DindPrints
  /\ subnets' = IF fresh THEN bridges ELSE subnets
  /\ poll' = [Idle EXCEPT !.at = "close"]
  /\ UNCHANGED <<world, got, prints, listeners>>
SubnetsFail ==
  /\ poll.at = "read" /\ poll.todo = {}
  /\ seen' = DindPrints
  /\ poll' = Idle
  /\ UNCHANGED <<world, got, subnets, prints, listeners>>

(* desired: a port's file names a dind that is listed, at an address one   *)
(* may dial.                                                               *)
Wanted(p, says, nets) ==
  IF says[p] \in Claims /\ says[says[p][1]] \in nets
  THEN <<says[says[p][1]], says[p][2]>> ELSE NoTarget
Read == [f \in Files |-> got[f].says]

(* The fault to seed: a rewrite that says the same is not noticed.         *)
RewrittenToAnother(p) == FALSE
Rewritten(p) == prints[p] # got[p].print
CloseListener(p) ==
  /\ poll.at = "close" /\ listeners[p] # Closed
  /\ Wanted(p, Read, subnets) # listeners[p].target \/ Rewritten(p)
  /\ listeners' = [listeners EXCEPT ![p] = Closed]
  /\ UNCHANGED <<world, poll, got, memory>>
AllClosed ==
  /\ poll.at = "close"
  /\ \A p \in Ports : listeners[p] = Closed \/ ( /\ Wanted(p, Read, subnets) = listeners[p].target
                                                 /\ ~Rewritten(p) )
  /\ poll' = [poll EXCEPT !.at = "open",
        !.todo = {p \in Ports : Wanted(p, Read, subnets) # NoTarget /\ listeners[p] = Closed}]
  /\ UNCHANGED <<world, got, memory, listeners>>
(* What cannot be listened on is tried again at the next poll. *)
OpenListener(p) ==
  /\ poll.at = "open" /\ p \in poll.todo
  /\ poll' = [poll EXCEPT !.todo = @ \ {p}]
  /\ listeners' = IF p \in busy THEN listeners
       ELSE [listeners EXCEPT ![p] = [target |-> Wanted(p, Read, subnets),
                                      file |-> disk[p].print]]
  /\ UNCHANGED <<world, got, memory>>
Finish ==
  /\ poll.at = "open" /\ poll.todo = {}
  /\ prints' = [p \in Ports |-> got[p].print]
  /\ poll' = Idle /\ got' = [f \in Files |-> NoFile]
  /\ UNCHANGED <<world, seen, subnets, listeners>>

Next ==
  \/ \E f \in Files : RemoveFile(f) \/ StatFile(f) \/ ReadFile(f)
  \/ \E p \in Ports : \/ \E c \in Claims \union {Malformed} : WriteFile(p, c)
                      \/ PortBusyOrFree(p) \/ CloseListener(p) \/ OpenListener(p)
  \/ \E d \in Dinds, a \in Addresses \union {Malformed} : WriteFile(d, a)
  \/ \E a \in Addresses : BridgeChanges(a)
  \/ \E fresh \in BOOLEAN : Subnets(fresh)
  \/ Begin \/ SubnetsFail \/ AllClosed \/ Finish

Spec == Init /\ [][Next]_vars

-----------------------------------------------------------------------------
(* After a poll during which nothing changed, and whatever changed during  *)
(* the polls before it, what listens is what the files now ask for, and    *)
(* every listener was opened after its file was last rewritten: a rewrite  *)
(* is what asks for a listener to be reopened, though it says the same.    *)
SettlesWhatIsAsked ==
  Finish /\ quiet =>
    \A p \in Ports :
      LET wanted == Wanted(p, [f \in Files |-> disk[f].says], subnets) IN
      /\ listeners[p].target = (IF p \in busy /\ listeners[p] = Closed THEN NoTarget ELSE wanted)
      /\ listeners[p] # Closed => listeners[p].file = disk[p].print
QuietPollSettles == [][SettlesWhatIsAsked]_vars
=============================================================================
