----------------------------- MODULE LocksProofs -----------------------------
(* What holds of Locks for every set of runners and of pids.               *)
EXTENDS Locks, TLAPS

(* Every variable of the lock keeps its type, pids are told apart, and a   *)
(* try has at most two rounds (locks.ts:66).                               *)
TypeInv ==
  /\ TypeOK
  /\ PidsAreTheirOwn
  /\ \A r \in Runners :
       pc[r] \in {"idle", "open", "read", "kill", "remove"} => attempt[r] \in {0, 1}

(* Types, pids and rounds hold initially, and every step keeps them.       *)
LEMMA TypeInvInductive ==
  /\ Init => TypeInv
  /\ TypeInv /\ [Next]_vars => TypeInv'
<1> USE LocksAssumption DEF TypeInv, TypeOK, PidsAreTheirOwn, Place, Trying, Holding, Leaving, Over, Running, CanCreate, IsAlive, Written, Attempts
<1>1. Init => TypeInv
  <2> SUFFICES ASSUME Init PROVE TypeInv
    OBVIOUS
  <2>1. pc \in [Runners -> Place] /\ stolen \in BOOLEAN /\ overlapped \subseteq Runners /\ alive \subseteq Pids
    BY DEF Init
  <2>2. attempt \in [Runners -> 0..2] /\ \A r \in Runners : attempt[r] \in {0, 1}
    BY DEF Init
  <2>3. /\ path \in Runners \union {Nobody}
        /\ pid \in [Runners -> Pids \union {Nobody}]
        /\ content \in [Runners -> Pids \union {Empty}]
        /\ seen \in [Runners -> Pids \union {Nobody}]
        /\ answer \in [Runners -> Pids \union {Nobody}]
    BY DEF Init
  <2>4. ASSUME NEW r \in Runners
        PROVE  pc[r] = "idle" /\ attempt[r] = 0 /\ content[r] = Empty /\ ~Running(r)
    BY DEF Init
  <2> QED
    BY <2>1, <2>2, <2>3, <2>4
<1>2. TypeInv /\ [Next]_vars => TypeInv'
  <2> SUFFICES ASSUME TypeInv, [Next]_vars PROVE TypeInv'
    OBVIOUS
  <2>1. CASE UNCHANGED vars
    BY <2>1 DEF vars
  <2>2. ASSUME NEW r \in Runners, Start(r) PROVE TypeInv'
    BY <2>2 DEF Start, Goto
  <2>3. ASSUME NEW r \in Runners, Open(r) PROVE TypeInv'
    BY <2>3 DEF Open, Goto
  <2>4. ASSUME NEW r \in Runners, Write(r) PROVE TypeInv'
    BY <2>4 DEF Write, Goto
  <2>5. ASSUME NEW r \in Runners, ReadHolder(r) PROVE TypeInv'
    BY <2>5 DEF ReadHolder, Goto, PidInFile
  <2>6. ASSUME NEW r \in Runners, AskAlive(r) PROVE TypeInv'
    BY <2>6 DEF AskAlive, Ends, Goto
  <2>7. ASSUME NEW r \in Runners, TakeOver(r) PROVE TypeInv'
    BY <2>7 DEF TakeOver, Goto
  <2>8. ASSUME NEW r \in Runners, LastRead(r) PROVE TypeInv'
    BY <2>8 DEF LastRead, Goto, PidInFile
  <2>9. ASSUME NEW r \in Runners, LastAskAlive(r) PROVE TypeInv'
    BY <2>9 DEF LastAskAlive, Ends, Goto
  <2>10. ASSUME NEW r \in Runners, Finish(r) PROVE TypeInv'
    BY <2>10 DEF Finish, Goto
  <2>11. ASSUME NEW r \in Runners, ReleaseRead(r) PROVE TypeInv'
    BY <2>11 DEF ReleaseRead, Ends, Goto
  <2>12. ASSUME NEW r \in Runners, ReleaseRemove(r) PROVE TypeInv'
    BY <2>12 DEF ReleaseRemove, Ends, Goto
  <2>13. ASSUME NEW r \in Runners, Kill(r) PROVE TypeInv'
    BY <2>13 DEF Kill, Ends, Goto
  <2>14. ASSUME NEW p \in Pids, PidRecycled(p) PROVE TypeInv'
    BY <2>14 DEF PidRecycled
  <2>15. ASSUME NEW p \in Pids, RecycledEnds(p) PROVE TypeInv'
    BY <2>15 DEF RecycledEnds
  <2> QED
    BY <2>1, <2>2, <2>3, <2>4, <2>5, <2>6, <2>7, <2>8, <2>9, <2>10, <2>11, <2>12,
       <2>13, <2>14, <2>15 DEF Next, HoldStep, ReleaseStep
<1> QED BY <1>1, <1>2

(* The lock's variables keep their types in every behaviour.               *)
THEOREM LocksTypeCorrect == Spec => []TypeOK
<1>1. TypeInv => TypeOK
  BY DEF TypeInv
<1> QED BY <1>1, TypeInvInductive, PTL DEF Spec

(* No step but a theft takes a live creator's file from the path.           *)
LEMMA FileStaysInductive == TypeInv /\ FileStaysWithItsCreator /\ [Next]_vars => FileStaysWithItsCreator'
<1> SUFFICES ASSUME TypeInv, FileStaysWithItsCreator, [Next]_vars PROVE FileStaysWithItsCreator'
  OBVIOUS
<1> USE LocksAssumption DEF TypeInv, TypeOK, PidsAreTheirOwn, FileStaysWithItsCreator, Place, Trying, Holding, Leaving, Over, Running,
           CanCreate, IsAlive, Written, Attempts
<1>1. CASE UNCHANGED vars
  BY <1>1 DEF vars
<1>2. ASSUME NEW p \in Runners, Start(p) PROVE FileStaysWithItsCreator'
  BY <1>2 DEF Start, Goto
<1>3. ASSUME NEW p \in Runners, Open(p) PROVE FileStaysWithItsCreator'
  BY <1>3 DEF Open, Goto
<1>4. ASSUME NEW p \in Runners, Write(p) PROVE FileStaysWithItsCreator'
  BY <1>4 DEF Write, Goto
<1>5. ASSUME NEW p \in Runners, ReadHolder(p) PROVE FileStaysWithItsCreator'
  BY <1>5 DEF ReadHolder, Goto, PidInFile
<1>6. ASSUME NEW p \in Runners, AskAlive(p) PROVE FileStaysWithItsCreator'
  BY <1>6 DEF AskAlive, Ends, Goto
<1>7. ASSUME NEW p \in Runners, TakeOver(p) PROVE FileStaysWithItsCreator'
  BY <1>7 DEF TakeOver, Goto
<1>8. ASSUME NEW p \in Runners, LastRead(p) PROVE FileStaysWithItsCreator'
  BY <1>8 DEF LastRead, Goto, PidInFile
<1>9. ASSUME NEW p \in Runners, LastAskAlive(p) PROVE FileStaysWithItsCreator'
  BY <1>9 DEF LastAskAlive, Ends, Goto
<1>10. ASSUME NEW p \in Runners, Finish(p) PROVE FileStaysWithItsCreator'
  BY <1>10 DEF Finish, Goto
<1>11. ASSUME NEW p \in Runners, ReleaseRead(p) PROVE FileStaysWithItsCreator'
  BY <1>11 DEF ReleaseRead, Ends, Goto, PidInFile
<1>12. ASSUME NEW p \in Runners, ReleaseRemove(p) PROVE FileStaysWithItsCreator'
  BY <1>12 DEF ReleaseRemove, Ends, Goto
<1>13. ASSUME NEW p \in Runners, Kill(p) PROVE FileStaysWithItsCreator'
  BY <1>13 DEF Kill, Ends, Goto
<1>14. ASSUME NEW p \in Pids, PidRecycled(p) PROVE FileStaysWithItsCreator'
  BY <1>14 DEF PidRecycled
<1>15. ASSUME NEW p \in Pids, RecycledEnds(p) PROVE FileStaysWithItsCreator'
  BY <1>15 DEF RecycledEnds
<1> QED
  BY <1>1, <1>2, <1>3, <1>4, <1>5, <1>6, <1>7, <1>8, <1>9, <1>10,
     <1>11, <1>12, <1>13, <1>14, <1>15
     DEF Next, HoldStep, ReleaseStep

(* Until a live runner's file is stolen, no two runners hold the target,   *)
(* and the file says who does: the O_EXCL create, the takeover of a dead   *)
(* holder's file and the release at exit preserve it (locks.ts:62-83), for *)
(* any number of runners killed at any point.                              *)
THEOREM LocksExclusive == Spec => []ExclusiveUnlessStolen
<1>1. Init => FileStaysWithItsCreator
  BY DEF Init, FileStaysWithItsCreator, Holding, Leaving
<1>2. TypeInv /\ FileStaysWithItsCreator => ExclusiveUnlessStolen
  <2> SUFFICES ASSUME TypeInv, FileStaysWithItsCreator, ~stolen
               PROVE  MutualExclusion /\ \A r \in Holders : PidInFile = pid[r]
    BY DEF ExclusiveUnlessStolen
  <2>1. ASSUME NEW r \in Holders
        PROVE  r \in Runners /\ path = r /\ PidInFile = pid[r]
    <3>1. r \in Runners /\ pc[r] = "hold"
      BY DEF Holders, Holding
    <3>2. path = r /\ content[r] = pid[r]
      BY <3>1 DEF FileStaysWithItsCreator, Holding
    <3>3. pid[r] \in Pids
      BY <3>1 DEF TypeInv, PidsAreTheirOwn
    <3> QED
      BY <3>1, <3>2, <3>3, LocksAssumption DEF PidInFile
  <2> QED
    BY <2>1 DEF MutualExclusion
<1> QED
  BY <1>1, <1>2, TypeInvInductive, FileStaysInductive, PTL DEF Spec

(* Every step leaves at the path a file of a runner that runs or was       *)
(* killed.                                                                 *)
LEMMA LeftInductive == TypeInv /\ LeftByTheKilled /\ [Next]_vars => LeftByTheKilled'
<1> SUFFICES ASSUME TypeInv, LeftByTheKilled, [Next]_vars PROVE LeftByTheKilled'
  OBVIOUS
<1> USE LocksAssumption DEF TypeInv, TypeOK, PidsAreTheirOwn, LeftByTheKilled, Place, Trying, Holding, Leaving, Over, Running,
           CanCreate, IsAlive, Written, Attempts
<1>1. CASE UNCHANGED vars
  BY <1>1 DEF vars
<1>2. ASSUME NEW q \in Runners, Start(q) PROVE LeftByTheKilled'
  BY <1>2 DEF Start, Goto
<1>3. ASSUME NEW q \in Runners, Open(q) PROVE LeftByTheKilled'
  BY <1>3 DEF Open, Goto
<1>4. ASSUME NEW q \in Runners, Write(q) PROVE LeftByTheKilled'
  BY <1>4 DEF Write, Goto
<1>5. ASSUME NEW q \in Runners, ReadHolder(q) PROVE LeftByTheKilled'
  BY <1>5 DEF ReadHolder, Goto, PidInFile
<1>6. ASSUME NEW q \in Runners, AskAlive(q) PROVE LeftByTheKilled'
  BY <1>6 DEF AskAlive, Ends, Goto
<1>7. ASSUME NEW q \in Runners, TakeOver(q) PROVE LeftByTheKilled'
  BY <1>7 DEF TakeOver, Goto
<1>8. ASSUME NEW q \in Runners, LastRead(q) PROVE LeftByTheKilled'
  BY <1>8 DEF LastRead, Goto, PidInFile
<1>9. ASSUME NEW q \in Runners, LastAskAlive(q) PROVE LeftByTheKilled'
  BY <1>9 DEF LastAskAlive, Ends, Goto
<1>10. ASSUME NEW q \in Runners, Finish(q) PROVE LeftByTheKilled'
  BY <1>10 DEF Finish, Goto
<1>11. ASSUME NEW q \in Runners, ReleaseRead(q) PROVE LeftByTheKilled'
  BY <1>11 DEF ReleaseRead, Ends, Goto, PidInFile
<1>12. ASSUME NEW q \in Runners, ReleaseRemove(q) PROVE LeftByTheKilled'
  BY <1>12 DEF ReleaseRemove, Ends, Goto
<1>13. ASSUME NEW q \in Runners, Kill(q) PROVE LeftByTheKilled'
  BY <1>13 DEF Kill, Ends, Goto
<1>14. ASSUME NEW p \in Pids, PidRecycled(p) PROVE LeftByTheKilled'
  BY <1>14 DEF PidRecycled
<1>15. ASSUME NEW p \in Pids, RecycledEnds(p) PROVE LeftByTheKilled'
  BY <1>15 DEF RecycledEnds
<1> QED
  BY <1>1, <1>2, <1>3, <1>4, <1>5, <1>6, <1>7, <1>8,
     <1>9, <1>10, <1>11, <1>12, <1>13, <1>14, <1>15
     DEF Next, HoldStep, ReleaseStep

(* A try that nobody disturbs keeps finding the way clear, or its own pid.  *)
LEMMA AloneInductive == TypeInv /\ LeftByTheKilled /\ AloneFindsTheWayClear /\ [Next]_vars => AloneFindsTheWayClear'
<1> SUFFICES ASSUME TypeInv, LeftByTheKilled, AloneFindsTheWayClear, [Next]_vars PROVE AloneFindsTheWayClear'
  OBVIOUS
<1> USE LocksAssumption DEF TypeInv, TypeOK, PidsAreTheirOwn, LeftByTheKilled, AloneFindsTheWayClear, NamedByTheDead,
           Place, Trying, Holding, Leaving, Over, Running,
           CanCreate, IsAlive, Written, Attempts
<1>1. CASE UNCHANGED vars
  BY <1>1 DEF vars
<1>2. ASSUME NEW q \in Runners, Start(q) PROVE AloneFindsTheWayClear'
  BY <1>2 DEF Start, Goto
<1>3. ASSUME NEW q \in Runners, Open(q) PROVE AloneFindsTheWayClear'
  BY <1>3 DEF Open, Goto
<1>4. ASSUME NEW q \in Runners, Write(q) PROVE AloneFindsTheWayClear'
  BY <1>4 DEF Write, Goto
<1>5. ASSUME NEW q \in Runners, ReadHolder(q) PROVE AloneFindsTheWayClear'
  BY <1>5 DEF ReadHolder, Goto, PidInFile
<1>6. ASSUME NEW q \in Runners, AskAlive(q) PROVE AloneFindsTheWayClear'
  BY <1>6 DEF AskAlive, Ends, Goto
<1>7. ASSUME NEW q \in Runners, TakeOver(q) PROVE AloneFindsTheWayClear'
  BY <1>7 DEF TakeOver, Goto
<1>8. ASSUME NEW q \in Runners, LastRead(q) PROVE AloneFindsTheWayClear'
  BY <1>8 DEF LastRead, Goto, PidInFile
<1>9. ASSUME NEW q \in Runners, LastAskAlive(q) PROVE AloneFindsTheWayClear'
  BY <1>9 DEF LastAskAlive, Ends, Goto
<1>10. ASSUME NEW q \in Runners, Finish(q) PROVE AloneFindsTheWayClear'
  BY <1>10 DEF Finish, Goto
<1>11. ASSUME NEW q \in Runners, ReleaseRead(q) PROVE AloneFindsTheWayClear'
  BY <1>11 DEF ReleaseRead, Ends, Goto, PidInFile
<1>12. ASSUME NEW q \in Runners, ReleaseRemove(q) PROVE AloneFindsTheWayClear'
  BY <1>12 DEF ReleaseRemove, Ends, Goto
<1>13. ASSUME NEW q \in Runners, Kill(q) PROVE AloneFindsTheWayClear'
  BY <1>13 DEF Kill, Ends, Goto
<1>14. ASSUME NEW p \in Pids, PidRecycled(p) PROVE AloneFindsTheWayClear'
  BY <1>14 DEF PidRecycled
<1>15. ASSUME NEW p \in Pids, RecycledEnds(p) PROVE AloneFindsTheWayClear'
  BY <1>15 DEF RecycledEnds
<1> QED
  BY <1>1, <1>2, <1>3, <1>4, <1>5, <1>6, <1>7, <1>8,
     <1>9, <1>10, <1>11, <1>12, <1>13, <1>14, <1>15
     DEF Next, HoldStep, ReleaseStep

(* A refused runner met another live process, or was told of itself, with  *)
(* the pid that a killed runner wrote: whatever else a killed runner left  *)
(* behind, at whatever system call, never refuses a runner that comes      *)
(* alone (locks.ts:16-17).                                                 *)
THEOREM LocksRefusal == Spec => []RefusedOnlyBySomeone
<1>1. Init => LeftByTheKilled /\ AloneFindsTheWayClear
  BY LocksAssumption DEF Init, LeftByTheKilled, AloneFindsTheWayClear, Trying, Holding, Leaving, Running
<1>2. AloneFindsTheWayClear => RefusedOnlyBySomeone
  BY DEF AloneFindsTheWayClear, RefusedOnlyBySomeone
<1> QED
  BY <1>1, <1>2, TypeInvInductive, LeftInductive, AloneInductive, PTL DEF Spec

=============================================================================
