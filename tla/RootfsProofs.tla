----------------------------- MODULE RootfsProofs -----------------------------
(***************************************************************************)
(* What the modification times of Rootfs are good for, whatever the files  *)
(* of the package, as long as its rootfs-y does not change: what is copied *)
(* is current, and exactly what should be is stripped.                     *)
(***************************************************************************)
EXTENDS Rootfs, TLAPS

(* The actions of Next, one per case of a proof.                           *)
LEMMA NextCases ==
  ASSUME [Next]_vars
  PROVE  \/ \E r \in Runtimes : \E k \in BOOLEAN : Edit(r, k)
         \/ StartMake
         \/ \E f \in File : RemoveModule(f)
         \/ ModulesRemoved
         \/ RemoveMark
         \/ StampRmstrip
         \/ \E i \in Installation : Install(i)
         \/ \E f \in File : RemoveStale(f)
         \/ MoveLists
         \/ \E f \in File : RsyncFile(f)
         \/ StagingDone
         \/ CopyStart
         \/ \E f \in File : CopyFile(f)
         \/ StripStart
         \/ \E f \in File : StripFile(f)
         \/ Mark
         \/ StartClean
         \/ StartDrop
         \/ CleanStaging
         \/ CleanRootfs
         \/ CleanList
         \/ Exit
         \/ UNCHANGED vars
  BY Zenon DEF Next, Staging, Copy, Strip, Clean

(* Every recipe keeps directories directories, and lists of files lists.   *)
LEMMA TypeStep ==
  ASSUME TypeOK, [Next]_vars
  PROVE  TypeOK'
<1> USE RootfsAssumption DEF TypeOK, Goto, setting, dirs, times
<1>1. ASSUME NEW r \in Runtimes, NEW k \in BOOLEAN, Edit(r, k)
      PROVE  TypeOK'
  BY <1>1 DEF Edit
<1>2. CASE StartMake
  BY <1>2 DEF StartMake
<1>3. ASSUME NEW f \in File, RemoveModule(f) PROVE TypeOK'
  BY <1>3 DEF RemoveModule, Without, Installation
<1>4. CASE ModulesRemoved
  BY <1>4 DEF ModulesRemoved
<1>5. CASE RemoveMark
  BY <1>5 DEF RemoveMark
<1>6. CASE StampRmstrip
  BY <1>6 DEF StampRmstrip
<1>7. ASSUME NEW i \in Installation, Install(i) PROVE TypeOK'
  BY <1>7 DEF Install
<1>8. ASSUME NEW f \in File, RemoveStale(f) PROVE TypeOK'
  BY <1>8 DEF RemoveStale, Without, Installation
<1>9. CASE MoveLists
  BY <1>9 DEF MoveLists, Files
<1>10. ASSUME NEW f \in File, RsyncFile(f) PROVE TypeOK'
  BY <1>10 DEF RsyncFile, Installation
<1>11. CASE StagingDone
  BY <1>11 DEF StagingDone
<1>12. CASE CopyStart
  BY <1>12 DEF CopyStart
<1>13. ASSUME NEW f \in File, CopyFile(f) PROVE TypeOK'
  BY <1>13 DEF CopyFile, Installation
<1>14. CASE StripStart
  BY <1>14 DEF StripStart
<1>15. ASSUME NEW f \in File, StripFile(f) PROVE TypeOK'
  BY <1>15 DEF StripFile, Strippable
<1>16. CASE Mark
  BY <1>16 DEF Mark
<1>17. CASE StartClean
  BY <1>17 DEF StartClean
<1>18. CASE StartDrop
  BY <1>18 DEF StartDrop
<1>19. CASE CleanStaging
  BY <1>19 DEF CleanStaging, Without, Installation
<1>20. CASE CleanRootfs
  BY <1>20 DEF CleanRootfs, Without, Installation
<1>21. CASE CleanList
  BY <1>21 DEF CleanList
<1>22. CASE Exit
  BY <1>22 DEF Exit
<1>23. CASE UNCHANGED vars
  BY <1>23 DEF vars
<1> QED
  BY NextCases, <1>1, <1>2, <1>3, <1>4, <1>5, <1>6, <1>7, <1>8, <1>9,
     <1>10, <1>11, <1>12, <1>13, <1>14, <1>15, <1>16, <1>17, <1>18,
     <1>19, <1>20, <1>21, <1>22, <1>23

LEMMA TypeInit == ASSUME Init PROVE TypeOK
<1>1. Empty \in Installation
  BY DEF Empty, Installation
<1> QED BY <1>1 DEF Init, TypeOK

(* The state stays well formed through every step of every recipe.         *)
THEOREM TypeCorrect == Spec => []TypeOK
  BY TypeInit, TypeStep, PTL DEF Spec

(* .mkr.filelist has every file that the package has anywhere.             *)
LEMMA ListedStep ==
  ASSUME TypeOK, Listed, [Next]_vars
  PROVE  Listed'
<1> USE RootfsAssumption
    DEF TypeOK, Listed, Here, Files, Installation, Goto, setting, dirs, times
<1>1. ASSUME NEW r \in Runtimes, NEW k \in BOOLEAN, Edit(r, k)
      PROVE  Listed'
  BY <1>1 DEF Edit
<1>2. CASE StartMake
  BY <1>2 DEF StartMake
<1>3. ASSUME NEW f \in File, RemoveModule(f) PROVE Listed'
  BY <1>3 DEF RemoveModule, Without
<1>4. CASE ModulesRemoved
  BY <1>4 DEF ModulesRemoved
<1>5. CASE RemoveMark
  BY <1>5 DEF RemoveMark
<1>6. CASE StampRmstrip
  BY <1>6 DEF StampRmstrip
<1>7. ASSUME NEW i \in Installation, Install(i) PROVE Listed'
  BY <1>7 DEF Install
<1>8. ASSUME NEW f \in File, RemoveStale(f) PROVE Listed'
  BY <1>8 DEF RemoveStale, Without
<1>9. CASE MoveLists
  BY <1>9 DEF MoveLists
<1>10. ASSUME NEW f \in File, RsyncFile(f) PROVE Listed'
  BY <1>10 DEF RsyncFile
<1>11. CASE StagingDone
  BY <1>11 DEF StagingDone
<1>12. CASE CopyStart
  BY <1>12 DEF CopyStart
<1>13. ASSUME NEW f \in File, CopyFile(f) PROVE Listed'
  BY <1>13 DEF CopyFile
<1>14. CASE StripStart
  BY <1>14 DEF StripStart
<1>15. ASSUME NEW f \in File, StripFile(f) PROVE Listed'
  BY <1>15 DEF StripFile, IsNew
<1>16. CASE Mark
  BY <1>16 DEF Mark
<1>17. CASE StartClean
  BY <1>17 DEF StartClean
<1>18. CASE StartDrop
  BY <1>18 DEF StartDrop
<1>19. CASE CleanStaging
  BY <1>19 DEF CleanStaging, Without
<1>20. CASE CleanRootfs
  BY <1>20 DEF CleanRootfs, Without
<1>21. CASE CleanList
  BY <1>21 DEF CleanList
<1>22. CASE Exit
  BY <1>22 DEF Exit
<1>23. CASE UNCHANGED vars
  BY <1>23 DEF vars
<1> QED
  BY NextCases, <1>1, <1>2, <1>3, <1>4, <1>5, <1>6, <1>7, <1>8, <1>9,
     <1>10, <1>11, <1>12, <1>13, <1>14, <1>15, <1>16, <1>17, <1>18,
     <1>19, <1>20, <1>21, <1>22, <1>23

(* rootfs-y is the same in every configuration.                            *)
Fixed == \A r, s \in Runtimes : r = s

(* A file of rootfs is older than that of staging when it differs from it. *)
LEMMA SameStep ==
  ASSUME Fixed, TypeOK, Listed, SameUnlessLater, [Next]_vars
  PROVE  SameUnlessLater'
<1> USE RootfsAssumption
    DEF Fixed, TypeOK, Listed, Here, SameUnlessLater, Files, Installation, Goto,
        setting, dirs, times
<1>1. ASSUME NEW r \in Runtimes, NEW k \in BOOLEAN, Edit(r, k)
      PROVE  SameUnlessLater'
  BY <1>1 DEF Edit
<1>2. CASE StartMake
  BY <1>2 DEF StartMake
<1>3. ASSUME NEW f \in File, RemoveModule(f) PROVE SameUnlessLater'
  BY <1>3 DEF RemoveModule, Without
<1>4. CASE ModulesRemoved
  BY <1>4 DEF ModulesRemoved
<1>5. CASE RemoveMark
  BY <1>5 DEF RemoveMark
<1>6. CASE StampRmstrip
  BY <1>6 DEF StampRmstrip
<1>7. ASSUME NEW i \in Installation, Install(i) PROVE SameUnlessLater'
  BY <1>7 DEF Install
<1>8. ASSUME NEW f \in File, RemoveStale(f) PROVE SameUnlessLater'
  BY <1>8 DEF RemoveStale, Without
<1>9. CASE MoveLists
  BY <1>9 DEF MoveLists
<1>10. ASSUME NEW f \in File, RsyncFile(f) PROVE SameUnlessLater'
  BY <1>10 DEF RsyncFile
<1>11. CASE StagingDone
  BY <1>11 DEF StagingDone
<1>12. CASE CopyStart
  BY <1>12 DEF CopyStart
<1>13. ASSUME NEW f \in File, CopyFile(f) PROVE SameUnlessLater'
  BY <1>13 DEF CopyFile
<1>14. CASE StripStart
  BY <1>14 DEF StripStart
<1>15. ASSUME NEW f \in File, StripFile(f) PROVE SameUnlessLater'
  BY <1>15 DEF StripFile
<1>16. CASE Mark
  BY <1>16 DEF Mark
<1>17. CASE StartClean
  BY <1>17 DEF StartClean
<1>18. CASE StartDrop
  BY <1>18 DEF StartDrop
<1>19. CASE CleanStaging
  BY <1>19 DEF CleanStaging, Without
<1>20. CASE CleanRootfs
  BY <1>20 DEF CleanRootfs, Without
<1>21. CASE CleanList
  BY <1>21 DEF CleanList
<1>22. CASE Exit
  BY <1>22 DEF Exit
<1>23. CASE UNCHANGED vars
  BY <1>23 DEF vars
<1> QED
  BY NextCases, <1>1, <1>2, <1>3, <1>4, <1>5, <1>6, <1>7, <1>8, <1>9,
     <1>10, <1>11, <1>12, <1>13, <1>14, <1>15, <1>16, <1>17, <1>18,
     <1>19, <1>20, <1>21, <1>22, <1>23

(* A make that succeeds leaves in rootfs what staging has, of each file    *)
(* that rootfs-y names, if rootfs-y does not change.                       *)
THEOREM RootfsIsCurrent ==
  ASSUME Fixed
  PROVE  Spec => []RootfsCurrent
<1>1. Init => CurrentInv
  BY TypeInit DEF Init, CurrentInv, Listed, SameUnlessLater, Here, Files, Empty
<1>2. CurrentInv /\ [Next]_vars => CurrentInv'
  BY TypeStep, ListedStep, SameStep DEF CurrentInv
<1>3. CurrentInv => RootfsCurrent
  BY RootfsAssumption DEF CurrentInv, Listed, Here, SameUnlessLater,
     RootfsCurrent, TypeOK, Installation
<1> QED BY <1>1, <1>2, <1>3, PTL DEF Spec

(* No module that should not be stripped is, once .mkr.rmstrip is remade.  *)
LEMMA ModulesStep ==
  ASSUME TypeOK, Listed, ModulesInv, [Next]_vars
  PROVE  ModulesInv'
<1> USE RootfsAssumption
    DEF TypeOK, Listed, Here, ModulesInv, Pending, Files, Installation, Goto,
        setting, dirs, times
<1>1. ASSUME NEW r \in Runtimes, NEW k \in BOOLEAN, Edit(r, k)
      PROVE  ModulesInv'
  BY <1>1 DEF Edit
<1>2. CASE StartMake
  BY <1>2 DEF StartMake
<1>3. ASSUME NEW f \in File, RemoveModule(f) PROVE ModulesInv'
  BY <1>3 DEF RemoveModule, Without
<1>4. CASE ModulesRemoved
  BY <1>4 DEF ModulesRemoved
<1>5. CASE RemoveMark
  BY <1>5 DEF RemoveMark
<1>6. CASE StampRmstrip
  BY <1>6 DEF StampRmstrip
<1>7. ASSUME NEW i \in Installation, Install(i) PROVE ModulesInv'
  BY <1>7 DEF Install
<1>8. ASSUME NEW f \in File, RemoveStale(f) PROVE ModulesInv'
  BY <1>8 DEF RemoveStale, Without
<1>9. CASE MoveLists
  BY <1>9 DEF MoveLists
<1>10. ASSUME NEW f \in File, RsyncFile(f) PROVE ModulesInv'
  BY <1>10 DEF RsyncFile
<1>11. CASE StagingDone
  BY <1>11 DEF StagingDone
<1>12. CASE CopyStart
  BY <1>12 DEF CopyStart
<1>13. ASSUME NEW f \in File, CopyFile(f) PROVE ModulesInv'
  BY <1>13 DEF CopyFile
<1>14. CASE StripStart
  BY <1>14 DEF StripStart
<1>15. ASSUME NEW f \in File, StripFile(f) PROVE ModulesInv'
  BY <1>15 DEF StripFile, Strippable
<1>16. CASE Mark
  BY <1>16 DEF Mark
<1>17. CASE StartClean
  BY <1>17 DEF StartClean
<1>18. CASE StartDrop
  BY <1>18 DEF StartDrop
<1>19. CASE CleanStaging
  BY <1>19 DEF CleanStaging, Without
<1>20. CASE CleanRootfs
  BY <1>20 DEF CleanRootfs, Without
<1>21. CASE CleanList
  BY <1>21 DEF CleanList
<1>22. CASE Exit
  BY <1>22 DEF Exit
<1>23. CASE UNCHANGED vars
  BY <1>23 DEF vars
<1> QED
  BY NextCases, <1>1, <1>2, <1>3, <1>4, <1>5, <1>6, <1>7, <1>8, <1>9,
     <1>10, <1>11, <1>12, <1>13, <1>14, <1>15, <1>16, <1>17, <1>18,
     <1>19, <1>20, <1>21, <1>22, <1>23

(* The times tell what is still to be stripped.                            *)
LEMMA TimesStep ==
  ASSUME Fixed, TypeOK, Listed, SameUnlessLater, ModulesInv, TimesTell,
         [Next]_vars
  PROVE  TimesTell'
<1> USE RootfsAssumption
    DEF Fixed, TypeOK, Listed, Here, SameUnlessLater, ModulesInv, TimesTell,
        Pending, Settled, Strippable, Files, Installation, Goto,
        setting, dirs, times
<1>1. ASSUME NEW r \in Runtimes, NEW k \in BOOLEAN, Edit(r, k)
      PROVE  TimesTell'
  BY <1>1 DEF Edit
<1>2. CASE StartMake
  BY <1>2 DEF StartMake
<1>3. ASSUME NEW f \in File, RemoveModule(f) PROVE TimesTell'
  BY <1>3 DEF RemoveModule, Without
<1>4. CASE ModulesRemoved
  BY <1>4 DEF ModulesRemoved
<1>5. CASE RemoveMark
  BY <1>5 DEF RemoveMark
<1>6. CASE StampRmstrip
  BY <1>6 DEF StampRmstrip
<1>7. ASSUME NEW i \in Installation, Install(i) PROVE TimesTell'
  BY <1>7 DEF Install
<1>8. ASSUME NEW f \in File, RemoveStale(f) PROVE TimesTell'
  BY <1>8 DEF RemoveStale, Without
<1>9. CASE MoveLists
  BY <1>9 DEF MoveLists
<1>10. ASSUME NEW f \in File, RsyncFile(f) PROVE TimesTell'
  BY <1>10 DEF RsyncFile
<1>11. CASE StagingDone
  BY <1>11 DEF StagingDone
<1>12. CASE CopyStart
  BY <1>12 DEF CopyStart
<1>13. ASSUME NEW f \in File, CopyFile(f) PROVE TimesTell'
  BY <1>13 DEF CopyFile
<1>14. CASE StripStart
  BY <1>14 DEF StripStart
<1>15. ASSUME NEW f \in File, StripFile(f) PROVE TimesTell'
  BY <1>15 DEF StripFile, IsNew
<1>16. CASE Mark
  BY <1>16 DEF Mark
<1>17. CASE StartClean
  BY <1>17 DEF StartClean
<1>18. CASE StartDrop
  BY <1>18 DEF StartDrop
<1>19. CASE CleanStaging
  BY <1>19 DEF CleanStaging, Without
<1>20. CASE CleanRootfs
  BY <1>20 DEF CleanRootfs, Without
<1>21. CASE CleanList
  BY <1>21 DEF CleanList
<1>22. CASE Exit
  BY <1>22 DEF Exit
<1>23. CASE UNCHANGED vars
  BY <1>23 DEF vars
<1> QED
  BY NextCases, <1>1, <1>2, <1>3, <1>4, <1>5, <1>6, <1>7, <1>8, <1>9,
     <1>10, <1>11, <1>12, <1>13, <1>14, <1>15, <1>16, <1>17, <1>18,
     <1>19, <1>20, <1>21, <1>22, <1>23

(* A make that succeeds leaves stripped exactly what should be, of each    *)
(* file that rootfs-y names, if rootfs-y does not change.                  *)
THEOREM StrippedExactly ==
  ASSUME Fixed
  PROVE  Spec => []StrippedAsConfigured
<1>1. Init => StripInv
  BY TypeInit DEF Init, StripInv, CurrentInv, Listed, SameUnlessLater, Here,
     ModulesInv, TimesTell, Files, Empty
<1>2. StripInv /\ [Next]_vars => StripInv'
  BY TypeStep, ListedStep, SameStep, ModulesStep, TimesStep DEF StripInv, CurrentInv
<1>3. StripInv => StrippedAsConfigured
  BY DEF StripInv, TimesTell, Settled, StrippedAsConfigured
<1> QED BY <1>1, <1>2, <1>3, PTL DEF Spec
=============================================================================
