-------------------------- MODULE DisplayLockProofs --------------------------
(***************************************************************************)
(* The display mutex of build-tools/display.sh, for any number of jobs:    *)
(* type correctness and, through LockInv, the three safety properties.     *)
(***************************************************************************)
EXTENDS DisplayLock, TLAPS

(* Every step of the script keeps the shape of the state.                  *)
THEOREM TypeCorrect == Spec => []TypeOK
<1>1. Init => TypeOK
  BY DEF Init, TypeOK
<1>2. TypeOK /\ [Next]_vars => TypeOK'
  <2> SUFFICES ASSUME TypeOK, [Next]_vars PROVE TypeOK'
    OBVIOUS
  <2> USE DEF TypeOK, Goto
  <2>1. ASSUME NEW p \in Proc, Step(p) PROVE TypeOK'
    <3>1. CASE Create(p) \/ CreateFails(p) \/ WritePid(p)
      BY <3>1 DEF Create, CreateFails, WritePid
    <3>2. CASE ReadOwner(p) \/ ReadNoFile(p)
      BY <3>2 DEF ReadOwner, ReadNoFile
    <3>3. CASE ProbeFails(p) \/ ProbeSucceeds(p) \/ RemoveStale(p)
      BY <3>3 DEF ProbeFails, ProbeSucceeds, RemoveStale, Alive
    <3>4. CASE EchoLine(p) \/ TestDisplayed(p)
      BY <3>4 DEF EchoLine, TestDisplayed
    <3>5. CASE ShowLog(p)
      BY <3>5 DEF ShowLog
    <3>6. CASE MarkDisplayed(p)
      BY <3>6 DEF MarkDisplayed
    <3>7. CASE UnlockOwner(p) \/ UnlockFails(p) \/ Release(p)
      BY <3>7 DEF UnlockOwner, UnlockFails, Release, Alive
    <3> QED BY <2>1, <3>1, <3>2, <3>3, <3>4, <3>5, <3>6, <3>7 DEF Step
  <2>2. ASSUME NEW p \in Proc, Crash(p) PROVE TypeOK'
    BY <2>2 DEF Crash
  <2>3. CASE UNCHANGED vars
    BY <2>3 DEF vars
  <2> QED BY <2>1, <2>2, <2>3 DEF Next
<1> QED BY <1>1, <1>2, PTL DEF Spec

(* The strengthening holds in every state: while no live holder was robbed *)
(* by line 11, each holder owns the linked file and the printed short log  *)
(* is accounted for.                                                       *)
THEOREM LockInvariant == Spec => []LockInv
<1>1. Init => LockInv
  BY DEF Init, LockInv, HolderOwns, Marked, FirstToShow, OneShortLog, Holding
<1>2. TypeOK /\ LockInv /\ [Next]_vars => LockInv'
  <2> SUFFICES ASSUME TypeOK, LockInv, [Next]_vars, ~stolen' PROVE LockInv'
    BY DEF LockInv
  <2> USE DEF TypeOK, Goto
  <2>1. ASSUME NEW p \in Proc, Step(p)
        PROVE  LockInv'
    <3>1. ~stolen
      BY <2>1 DEF Step, Create, CreateFails, WritePid, ReadOwner, ReadNoFile,
        ProbeFails, ProbeSucceeds, RemoveStale, EchoLine, TestDisplayed,
        ShowLog, MarkDisplayed, UnlockOwner, UnlockFails, Release
    <3> USE <3>1 DEF LockInv, HolderOwns, Marked, FirstToShow, OneShortLog,
                     Holding
    <3>2. CASE Create(p)
      BY <3>2, ProcAssumption DEF Create, Proc
    <3>3. CASE CreateFails(p) \/ WritePid(p)
      BY <3>3 DEF CreateFails, WritePid
    <3>4. CASE ReadOwner(p) \/ ReadNoFile(p)
      BY <3>4 DEF ReadOwner, ReadNoFile
    <3>5. CASE ProbeFails(p) \/ ProbeSucceeds(p)
      BY <3>5 DEF ProbeFails, ProbeSucceeds
    <3>6. CASE RemoveStale(p)
      BY <3>6 DEF RemoveStale, Alive
    <3>7. CASE EchoLine(p) \/ TestDisplayed(p)
      BY <3>7 DEF EchoLine, TestDisplayed
    <3>8. CASE ShowLog(p)
      BY <3>8 DEF ShowLog
    <3>9. CASE MarkDisplayed(p)
      BY <3>9 DEF MarkDisplayed
    <3>10. CASE UnlockOwner(p) \/ UnlockFails(p)
      BY <3>10 DEF UnlockOwner, UnlockFails
    <3>11. CASE Release(p)
      BY <3>11, ProcAssumption DEF Release, Alive, Proc
    <3> QED BY <2>1, <3>2, <3>3, <3>4, <3>5, <3>6, <3>7, <3>8, <3>9, <3>10,
               <3>11 DEF Step
  <2>2. ASSUME NEW p \in Proc, Crash(p) PROVE LockInv'
    BY <2>2 DEF Crash, LockInv, HolderOwns, Marked, FirstToShow, OneShortLog,
                Holding
  <2>3. CASE UNCHANGED vars
    BY <2>3 DEF vars, LockInv, HolderOwns, Marked, FirstToShow, OneShortLog,
                Holding
  <2> QED BY <2>1, <2>2, <2>3 DEF Next
<1> QED BY <1>1, <1>2, TypeCorrect, PTL DEF Spec

(* display.sh excludes, for any number of jobs and any crashes, as long as *)
(* line 11 removed no live holder's file.                                  *)
THEOREM LockExcludes == Spec => []MutualExclusion
<1>1. LockInv => MutualExclusion
  BY DEF LockInv, HolderOwns, MutualExclusion
<1> QED BY <1>1, LockInvariant, PTL

(* Under the same condition mutex_unlock never takes its error branch.     *)
THEOREM UnlockSucceeds == Spec => []UnlockFindsOwnFile
<1>1. LockInv => UnlockFindsOwnFile
  BY DEF LockInv, HolderOwns, UnlockFindsOwnFile
<1> QED BY <1>1, LockInvariant, PTL

(* Under the same condition one job only prints its whole short log.       *)
THEOREM ShortLogOnce == Spec => []OneShortLog
<1>1. LockInv => OneShortLog
  BY DEF LockInv, OneShortLog
<1> QED BY <1>1, LockInvariant, PTL
=============================================================================
