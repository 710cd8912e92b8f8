------------------------------- MODULE Capacity -------------------------------
(***************************************************************************)
(* vscode-image/capacity.ts: how many project daemons (dinds) may run at   *)
(* once, which give way when another one starts, and what memory ceiling   *)
(* one gets.  Pure: the supervisor (module Supervisor) acts on the         *)
(* answers.                                                                *)
(*                                                                         *)
(* An observation is a function from the names docker lists to records     *)
(*   [running, inUse, idle, memory]                                        *)
(* where idle is now - idleSince (read only when not in use) and memory is *)
(* what docker stats says the daemon holds, or Unmeasured.  Amounts of     *)
(* memory and of time are small integers: only sums and comparisons of     *)
(* them are made.                                                          *)
(***************************************************************************)
EXTENDS Integers, FiniteSets, FiniteSetsExt

CONSTANTS
  MaxDinds,      (* DESOLATE_MAX_DINDS                                     *)
  Floor,         (* DESOLATE_DIND_MEM_FLOOR                                *)
  Newcomer,      (* DESOLATE_DIND_MEM_EXPECTED                             *)
  Grace,         (* DESOLATE_DIND_GRACE, which may be zero                 *)
  IdlePeriod,    (* DESOLATE_DIND_IDLE                                     *)
  Unmeasured     (* docker stats gave no figure                            *)

ASSUME CapacityAssumption ==
  /\ MaxDinds \in Nat \ {0}
  /\ Floor \in Nat \ {0}
  /\ Newcomer \in Nat \ {0}
  /\ Grace \in Nat
  /\ IdlePeriod \in Nat \ {0}
  /\ Unmeasured \notin Nat

(* The fault to seed: the grace is forgotten.                              *)
NoGrace(daemon) == daemon.running /\ ~daemon.inUse

Stoppable(daemon) == daemon.running /\ ~daemon.inUse

(* reapable *)
Reapable(obs) ==
  {d \in DOMAIN obs : Stoppable(obs[d]) /\ obs[d].idle >= IdlePeriod}

(* admit: who may give way, and what that frees. *)
GivesWay(daemon) == Stoppable(daemon) /\ daemon.idle >= Grace
Evictable(obs) == {d \in DOMAIN obs : GivesWay(obs[d])}
Held(daemon) == IF daemon.memory = Unmeasured THEN Newcomer ELSE daemon.memory

UnderCeiling(obs, evict) ==
  Cardinality({d \in DOMAIN obs : obs[d].running} \ evict) + 1 <= MaxDinds
LeavesFloor(obs, available, evict) ==
  available + MapThenSumSet(LAMBDA d : Held(obs[d]), evict) - Newcomer >= Floor
MakesRoom(obs, available, evict) ==
  UnderCeiling(obs, evict) /\ LeavesFloor(obs, available, evict)

(* The loop evicts in leastRecentlyUsed order and stops as soon as both    *)
(* limits hold; daemons idle equally long are sorted as docker lists them, *)
(* which is any order.  No answer: not admitted.                           *)
LongestIdleFirst(obs, able, evict) ==
  \A e \in evict, spared \in able \ evict : obs[e].idle >= obs[spared].idle
StopsAsSoonAsItCan(obs, available, evict) ==
  evict = {} \/ \E last \in evict :
    /\ \A e \in evict : obs[e].idle >= obs[last].idle
    /\ ~MakesRoom(obs, available, evict \ {last})
Admissions(obs, available) ==
  {evict \in SUBSET Evictable(obs) :
     /\ MakesRoom(obs, available, evict)
     /\ LongestIdleFirst(obs, Evictable(obs), evict)
     /\ StopsAsSoonAsItCan(obs, available, evict)}
=============================================================================
