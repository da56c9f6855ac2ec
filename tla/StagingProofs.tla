----------------------------- MODULE StagingProofs -----------------------------
(***************************************************************************)
(* What the recipes of Staging guarantee for any packages, files and       *)
(* interleavings: that a file of staging or of rootfs is accounted for, and*)
(* nothing of a removed package stays, unless the file was removed while   *)
(* the rsync of a %/rootfs had it open; and, when no two packages install  *)
(* the same file, that a dependency whose copy to staging cannot fail is   *)
(* complete when it is used.                                               *)
(***************************************************************************)
EXTENDS Staging, TLAPS

(* The actions of Next, one per case of a proof.                           *)
LEMMA NextCases ==
  ASSUME [Next]_vars
  PROVE  \/ \E P \in SUBSET Pkg : StartClean(P)
         \/ \E P \in SUBSET Pkg : \E G \in SUBSET P : StartBuild(P, G)
         \/ DropStaging \/ DropRootfs \/ DropLists
         \/ BuildDone \/ BuildFails \/ Exit \/ CleanAll \/ Crash
         \/ \E p \in Pkg : CompileStart(p)
         \/ \E p \in Pkg : \E i \in Makes[p] : CompileDone(p, i)
         \/ \E p \in Pkg : CompileFails(p)
         \/ \E p \in Pkg : Install(p)
         \/ \E p \in Pkg : \E F \in SUBSET File : InstallFails(p, F)
         \/ \E p \in Pkg : \E f \in File : RemoveStale(p, f)
         \/ \E p \in Pkg : MoveLists(p)
         \/ \E p \in Pkg : \E f \in File : RsyncFile(p, f)
         \/ \E p \in Pkg : RsyncStops(p)
         \/ \E p \in Pkg : \E f \in File : UndoFile(p, f)
         \/ \E p \in Pkg : RemoveInst(p)
         \/ \E p \in Pkg : CopyStart(p)
         \/ \E p \in Pkg : \E f \in File : CopyFile(p, f) \/ CopySkips(p, f)
         \/ \E p \in Pkg : \E f \in File : RenameCopy(p, f)
         \/ \E p \in Pkg : CopyFails(p)
         \/ \E p \in Pkg : \E f \in File : CopyVanished(p, f)
         \/ \E p \in Pkg : CopyDone(p)
         \/ \E p \in Pkg : CleanStaging(p)
         \/ \E p \in Pkg : CleanRootfs(p)
         \/ \E p \in Pkg : CleanList(p)
         \/ UNCHANGED vars
  BY Zenon DEF Next, Start, Make, Recipe, Failure

(* Every recipe keeps lists of files lists, and directories directories.   *)
THEOREM TypeCorrect == Spec => []TypeOK
<1>1. Init => TypeOK
  <2> SUFFICES ASSUME Init PROVE TypeOK
    OBVIOUS
  <2>1. Nothing \in Installation
    BY DEF Installation, Nothing
  <2>2. /\ built \in [Pkg -> Installation] /\ inst \in [Pkg -> Installation]
        /\ staging \in Installation
    BY <2>1 DEF Init
  <2> QED BY <2>2 DEF Init, TypeOK
<1>2. TypeOK /\ [Next]_vars => TypeOK'
  <2> SUFFICES ASSUME TypeOK, [Next]_vars PROVE TypeOK'
    OBVIOUS
  <2> USE StagingAssumption DEF TypeOK, call, dirs
  <2>1. ASSUME NEW P \in SUBSET Pkg, StartClean(P) PROVE TypeOK'
    BY <2>1 DEF StartClean
  <2>2. ASSUME NEW P \in SUBSET Pkg, NEW G \in SUBSET P, StartBuild(P, G)
        PROVE  TypeOK'
    <3>1. Needed(P, G) \subseteq Pkg
      BY DEF Needed
    <3> QED BY <2>2, <3>1 DEF StartBuild
  <2>3. CASE DropStaging
    BY <2>3 DEF DropStaging, Trace, Installation
  <2>4. CASE DropRootfs
    BY <2>4 DEF DropRootfs, Trace
  <2>5. CASE DropLists
    BY <2>5 DEF DropLists
  <2>6. CASE BuildDone
    BY <2>6 DEF BuildDone
  <2>7. CASE BuildFails \/ Exit \/ Crash
    BY <2>7 DEF BuildFails, Exit, Crash, Stop
  <2>8. CASE CleanAll
    BY <2>8 DEF CleanAll, Stop, Trace, Installation, Nothing
  <2>9. ASSUME NEW p \in Pkg, CompileStart(p) \/ CompileFails(p) PROVE TypeOK'
    BY <2>9 DEF CompileStart, CompileFails
  <2>10. ASSUME NEW p \in Pkg, NEW i \in Makes[p], CompileDone(p, i)
         PROVE  TypeOK'
    BY <2>10 DEF CompileDone
  <2>11. ASSUME NEW p \in Pkg,
                Install(p) \/ \E F \in SUBSET File : InstallFails(p, F)
         PROVE  TypeOK'
    <3>1. \A E \in SUBSET File : Installed(p, E) \in Installation
      BY DEF Installed, Installation
    <3>2. Files(built[p]) \in SUBSET File
      BY DEF Files
    <3>3. CASE Install(p)
      BY <3>1, <3>2, <3>3 DEF Install
    <3>4. CASE \E F \in SUBSET File : InstallFails(p, F)
      BY <3>1, <3>4 DEF InstallFails
    <3> QED BY <2>11, <3>3, <3>4
  <2>12. ASSUME NEW p \in Pkg, NEW f \in File, RemoveStale(p, f) \/ UndoFile(p, f)
         PROVE  TypeOK'
    <3>1. CASE RemoveStale(p, f)
      BY <3>1 DEF RemoveStale, Remove, Trace, Installation
    <3>2. CASE UndoFile(p, f)
      BY <3>2 DEF UndoFile, Remove, Trace, Installation
    <3> QED BY <2>12, <3>1, <3>2
  <2>13. ASSUME NEW p \in Pkg, MoveLists(p) PROVE TypeOK'
    BY <2>13 DEF MoveLists, Files
  <2>14. ASSUME NEW p \in Pkg, NEW f \in File, RsyncFile(p, f) PROVE TypeOK'
    BY <2>14 DEF RsyncFile, Trace, Installation
  <2>15. ASSUME NEW p \in Pkg, RsyncStops(p) PROVE TypeOK'
    BY <2>15 DEF RsyncStops
  <2>16. ASSUME NEW p \in Pkg, RemoveInst(p) PROVE TypeOK'
    BY <2>16 DEF RemoveInst, Installation, Nothing
  <2>17. ASSUME NEW p \in Pkg, CopyStart(p) PROVE TypeOK'
    BY <2>17 DEF CopyStart, Files
  <2>18. ASSUME NEW p \in Pkg, NEW f \in File,
                CopyFile(p, f) \/ CopySkips(p, f) \/ RenameCopy(p, f)
         PROVE  TypeOK'
    BY <2>18 DEF CopyFile, CopySkips, RenameCopy, Trace
  <2>19. ASSUME NEW p \in Pkg, CopyFails(p) \/ \E f \in File : CopyVanished(p, f)
         PROVE  TypeOK'
    BY <2>19 DEF CopyFails, CopyVanished, CopyAborts
  <2>20. ASSUME NEW p \in Pkg, CopyDone(p) PROVE TypeOK'
    BY <2>20 DEF CopyDone
  <2>21. ASSUME NEW p \in Pkg, CleanStaging(p) PROVE TypeOK'
    BY <2>21 DEF CleanStaging, Trace, Installation
  <2>22. ASSUME NEW p \in Pkg, CleanRootfs(p) \/ CleanList(p) PROVE TypeOK'
    BY <2>22 DEF CleanRootfs, CleanList, Trace
  <2>23. CASE UNCHANGED vars
    BY <2>23 DEF vars
  <2> QED
    BY NextCases, <2>1, <2>2, <2>3, <2>4, <2>5, <2>6, <2>7, <2>8, <2>9, <2>10,
       <2>11, <2>12, <2>13, <2>14, <2>15, <2>16, <2>17, <2>18, <2>19, <2>20,
       <2>21, <2>22, <2>23
<1> QED BY <1>1, <1>2, PTL DEF Spec

(* The recipes that run are those of the make that was started.            *)
LEMMA ControlStep ==
  ASSUME TypeOK, Control, [Next]_vars
  PROVE  Control'
<1> USE StagingAssumption DEF TypeOK, Control, call
<1>1. CASE \E P \in SUBSET Pkg : StartClean(P)
  BY <1>1 DEF StartClean
<1>2. ASSUME NEW P \in SUBSET Pkg, NEW G \in SUBSET P, StartBuild(P, G)
      PROVE  Control'
  <2>1. Needed(P, G) \subseteq P
    BY DEF Needed
  <2> QED BY <1>2, <2>1 DEF StartBuild
<1>3. CASE DropStaging \/ DropRootfs \/ DropLists
  BY <1>3 DEF DropStaging, DropRootfs, DropLists
<1>4. CASE BuildDone
  <2>1. \A p \in needed : pc[p] \in {"staged", "rooted"}
    BY <1>4 DEF BuildDone
  <2> QED BY <1>4, <2>1 DEF BuildDone
<1>5. CASE BuildFails \/ Exit \/ CleanAll \/ Crash
  BY <1>5 DEF BuildFails, Exit, CleanAll, Crash, Stop
<1>6. ASSUME NEW p \in Pkg, CompileStart(p) PROVE Control'
  BY <1>6 DEF CompileStart
<1>7. ASSUME NEW p \in Pkg, CompileFails(p) \/ \E i \in Makes[p] : CompileDone(p, i)
      PROVE  Control'
  BY <1>7 DEF CompileFails, CompileDone
<1>8. ASSUME NEW p \in Pkg, Install(p) \/ \E F \in SUBSET File : InstallFails(p, F)
      PROVE  Control'
  BY <1>8 DEF Install, InstallFails
<1>9. ASSUME NEW p \in Pkg, NEW f \in File,
             RemoveStale(p, f) \/ RsyncFile(p, f) \/ UndoFile(p, f)
      PROVE  Control'
  BY <1>9 DEF RemoveStale, RsyncFile, UndoFile
<1>10. ASSUME NEW p \in Pkg, MoveLists(p) PROVE Control'
  BY <1>10 DEF MoveLists
<1>11. ASSUME NEW p \in Pkg, RsyncStops(p) \/ RemoveInst(p) PROVE Control'
  BY <1>11 DEF RsyncStops, RemoveInst
<1>12. ASSUME NEW p \in Pkg, CopyStart(p) PROVE Control'
  BY <1>12 DEF CopyStart
<1>13. ASSUME NEW p \in Pkg,
              \/ CopyFails(p) \/ CopyDone(p)
              \/ \E f \in File : CopyVanished(p, f)
       PROVE  Control'
  BY <1>13 DEF CopyFails, CopyVanished, CopyAborts, CopyDone
<1>16. ASSUME NEW p \in Pkg, NEW f \in File,
              CopyFile(p, f) \/ CopySkips(p, f) \/ RenameCopy(p, f)
       PROVE  Control'
  BY <1>16 DEF CopyFile, CopySkips, RenameCopy
<1>14. ASSUME NEW p \in Pkg, CleanStaging(p) \/ CleanRootfs(p) \/ CleanList(p)
       PROVE  Control'
  BY <1>14 DEF CleanStaging, CleanRootfs, CleanList
<1>15. CASE UNCHANGED vars
  BY <1>15 DEF vars
<1> QED BY NextCases, <1>1, <1>2, <1>3, <1>4, <1>5, <1>6, <1>7, <1>8, <1>9, <1>10,
           <1>11, <1>12, <1>13, <1>14, <1>15, <1>16

(* A step that keeps what each package keeps, and adds no file, does not   *)
(* lose track of a file.                                                   *)
LEMMA KeptStep ==
  ASSUME TypeOK, Control, Kept, [Next]_vars
  PROVE  Kept'
<1> USE StagingAssumption DEF TypeOK, Kept, Keeps, Present, call, dirs
<1>1. CASE \E P \in SUBSET Pkg : StartClean(P)
  BY <1>1 DEF StartClean, Control
<1>2. CASE \E P \in SUBSET Pkg : \E G \in SUBSET P : StartBuild(P, G)
  BY <1>2 DEF StartBuild, Control
<1>3. CASE DropStaging
  <2>1. ASSUME NEW f \in File, staging'[f] # None
        PROVE  \E p \in packages' : Keeps(p, f)'
    <3>1. staging[f] # None /\ f \notin OffFiles
      BY <1>3, <2>1 DEF DropStaging
    <3>2. PICK p \in Pkg : Keeps(p, f)
      BY <3>1
    <3>3. p \in packages
      BY <3>1, <3>2, Zenon DEF OffFiles, Off
    <3> QED BY <1>3, <3>2, <3>3 DEF DropStaging
  <2>2. \A f \in File : staging'[f] # None => staging[f] # None
    BY <1>3 DEF DropStaging
  <2>3. \A f \in File : Present(f)' => Present(f)
    BY <1>3, <2>2 DEF DropStaging, Trace
  <2> QED BY <1>3, <2>1, <2>2, <2>3 DEF DropStaging
<1>4. CASE DropRootfs
  <2>1. ASSUME NEW f \in File, Present(f)'
        PROVE  \E p \in packages' : Keeps(p, f)'
    <3>1. CASE staging[f] # None
      BY <1>4, <3>1 DEF DropRootfs
    <3>2. CASE staging[f] = None
      <4>1. f \in rootfs \ late /\ f \notin OffFiles
        BY <1>4, <2>1, <3>2 DEF DropRootfs, Trace
      <4>2. PICK p \in Pkg : Keeps(p, f)
        BY <4>1
      <4>3. p \in packages
        BY <4>1, <4>2, Zenon DEF OffFiles, Off
      <4> QED BY <1>4, <4>2, <4>3 DEF DropRootfs
    <3> QED BY <3>1, <3>2
  <2>2. \A f \in File : Present(f)' => Present(f)
    BY <1>4 DEF DropRootfs, Trace
  <2> QED BY <1>4, <2>1, <2>2 DEF DropRootfs
<1>5. CASE DropLists
  <2>1. \A p \in packages : list'[p] = list[p]
    BY <1>5 DEF DropLists, Off, Control
  <2> QED BY <1>5, <2>1 DEF DropLists, Control
<1>6. CASE BuildDone
  BY <1>6 DEF BuildDone
<1>7. CASE BuildFails \/ Exit \/ Crash
  BY <1>7 DEF BuildFails, Exit, Crash, Stop
<1>8. CASE CleanAll
  BY <1>8 DEF CleanAll, Stop, Trace, Nothing
<1>9. ASSUME NEW p \in Pkg,
             \/ CompileStart(p) \/ CompileFails(p)
             \/ \E i \in Makes[p] : CompileDone(p, i)
      PROVE  Kept'
  BY <1>9 DEF CompileStart, CompileFails, CompileDone
<1>10. ASSUME NEW p \in Pkg, Install(p) PROVE Kept'
  <2>1. \A q \in Pkg, f \in File : Keeps(q, f) => Keeps(q, f)'
    BY <1>10 DEF Install
  <2> QED BY <1>10, <2>1 DEF Install
<1>11. ASSUME NEW p \in Pkg, NEW F \in SUBSET File, InstallFails(p, F) PROVE Kept'
  <2>1. \A q \in Pkg, f \in File : Keeps(q, f) => Keeps(q, f)'
    BY <1>11 DEF InstallFails
  <2> QED BY <1>11, <2>1 DEF InstallFails
<1>12. ASSUME NEW p \in Pkg, NEW f \in File, RemoveStale(p, f) \/ UndoFile(p, f)
       PROVE  Kept'
  <2>1. \A q \in Pkg, g \in File \ {f} : Keeps(q, g) => Keeps(q, g)'
    BY <1>12 DEF RemoveStale, UndoFile
  <2>2. \A g \in File :
          /\ staging'[g] # None => staging[g] # None /\ g # f
          /\ g \in rootfs' \ late' => Present(g) /\ g # f
    <3>1. /\ staging' = [staging EXCEPT ![f] = None] /\ rootfs' = rootfs \ {f}
          /\ late' = {g \in late : g \in rootfs' /\ staging'[g] = None}
      BY <1>12, Zenon DEF RemoveStale, UndoFile, Remove, Trace
    <3>2. \A g \in File : staging'[g] = IF g = f THEN None ELSE staging[g]
      BY <3>1 DEF Installation
    <3> QED BY <3>1, <3>2
  <2>3. pc[p] \in {"stale", "undo"} /\ UNCHANGED <<pc, gone, packages, inst, list>>
        /\ \A q \in Pkg : q # p => todo'[q] = todo[q]
    BY <1>12 DEF RemoveStale, UndoFile
  <2>4. \A g \in File : Present(g)' => Present(g) /\ g # f
    BY <2>2
  <2>5. /\ \A g \in File : Present(g)' => \E q \in Pkg : Keeps(q, g)'
        /\ gone' = "rootfs" =>
             \A g \in File : staging'[g] # None => \E q \in packages' : Keeps(q, g)'
        /\ gone' \in {"lists", "done"} =>
             \A g \in File : Present(g)' => \E q \in packages' : Keeps(q, g)'
    BY <2>1, <2>2, <2>3, <2>4
  <2>6. ASSUME NEW q \in Pkg
        PROVE  /\ pc'[q] = "rsync" =>
                    list'[q] = Files(inst[q])' /\ todo'[q] \subseteq list'[q]
               /\ pc'[q] = "cleanroot" => \A g \in list'[q] : staging'[g] = None
               /\ pc'[q] = "cleanlist" => \A g \in list'[q] : ~Present(g)'
    <3>1. Files(inst[q])' = Files(inst[q])
      BY <2>3 DEF Files
    <3>2. list'[q] \subseteq File
      BY <2>3
    <3>3. pc'[q] = "rsync" => todo'[q] = todo[q]
      BY <2>3
    <3> QED BY <2>2, <2>3, <3>1, <3>2, <3>3
  <2> QED BY <2>5, <2>6, Zenon
<1>13. ASSUME NEW p \in Pkg, MoveLists(p) PROVE Kept'
  <2>1. \A q \in Pkg, f \in File : Keeps(q, f) => Keeps(q, f)'
    BY <1>13 DEF MoveLists
  <2> QED BY <1>13, <2>1 DEF MoveLists
<1>14. ASSUME NEW p \in Pkg, NEW f \in File, RsyncFile(p, f) PROVE Kept'
  <2>1. \A q \in Pkg, g \in File : Keeps(q, g) => Keeps(q, g)'
    BY <1>14 DEF RsyncFile
  <2>2. Keeps(p, f)' /\ p \in packages
    BY <1>14 DEF RsyncFile, Control
  <2>3. \A g \in File : g # f => staging'[g] = staging[g] /\ (Present(g)' => Present(g))
    BY <1>14 DEF RsyncFile, Trace
  <2>4. \A q \in Pkg : pc[q] \notin {"cleanroot", "cleanlist"}
    BY <1>14 DEF RsyncFile, Control
  <2>5. UNCHANGED <<pc, gone, packages, inst, list, rootfs>> /\ pc[p] = "rsync"
        /\ \A q \in Pkg : todo'[q] \subseteq todo[q]
    BY <1>14 DEF RsyncFile
  <2> QED BY <2>1, <2>2, <2>3, <2>4, <2>5
<1>15. ASSUME NEW p \in Pkg, RsyncStops(p) \/ RemoveInst(p) PROVE Kept'
  <2>1. \A q \in Pkg, f \in File : Keeps(q, f) => Keeps(q, f)'
    BY <1>15 DEF RsyncStops, RemoveInst
  <2> QED BY <1>15, <2>1 DEF RsyncStops, RemoveInst
<1>16. ASSUME NEW p \in Pkg,
              \/ CopyStart(p) \/ CopyFails(p) \/ CopyDone(p)
              \/ \E f \in File : CopyFile(p, f) \/ CopySkips(p, f) \/ CopyVanished(p, f)
       PROVE  Kept'
  <2> USE DEF CopyStart, CopyFails, CopyDone, CopyFile, CopySkips, CopyVanished,
              CopyAborts
  <2>1. \A q \in Pkg, f \in File : Keeps(q, f) => Keeps(q, f)'
    BY <1>16
  <2> QED BY <1>16, <2>1
<1>17. ASSUME NEW p \in Pkg, NEW f \in File, RenameCopy(p, f) PROVE Kept'
  <2>1. \A q \in Pkg, g \in File : Keeps(q, g) => Keeps(q, g)'
    BY <1>17 DEF RenameCopy
  <2>2. \A g \in File : Present(g)' => Present(g)
    BY <1>17 DEF RenameCopy, Trace
  <2> QED BY <1>17, <2>1, <2>2 DEF RenameCopy
<1>18. ASSUME NEW p \in Pkg, CleanStaging(p) PROVE Kept'
  <2>1. \A f \in File : /\ staging'[f] # None => staging[f] # None
                        /\ Present(f)' => Present(f)
    BY <1>18 DEF CleanStaging, Trace
  <2>2. gone = "idle"
    BY <1>18 DEF CleanStaging, Control
  <2> QED BY <1>18, <2>1, <2>2 DEF CleanStaging
<1>19. ASSUME NEW p \in Pkg, CleanRootfs(p) PROVE Kept'
  <2>1. \A f \in File : Present(f)' => Present(f) /\ (f \in list[p] => staging[f] # None)
    BY <1>19 DEF CleanRootfs, Trace
  <2>2. gone = "idle"
    BY <1>19 DEF CleanRootfs, Control
  <2> QED BY <1>19, <2>1, <2>2 DEF CleanRootfs
<1>20. ASSUME NEW p \in Pkg, CleanList(p) PROVE Kept'
  <2>1. \A f \in list[p] : ~Present(f)
    BY <1>20 DEF CleanList
  <2>2. \A q \in Pkg \ {p}, f \in File : Keeps(q, f) => Keeps(q, f)'
    BY <1>20 DEF CleanList
  <2>3. gone = "idle"
    BY <1>20 DEF CleanList, Control
  <2> QED BY <1>20, <2>1, <2>2, <2>3 DEF CleanList
<1>21. CASE UNCHANGED vars
  BY <1>21 DEF vars
<1> QED BY NextCases, <1>1, <1>2, <1>3, <1>4, <1>5, <1>6, <1>7, <1>8, <1>9, <1>10,
           <1>11, <1>12, <1>13, <1>14, <1>15, <1>16, <1>17, <1>18, <1>19, <1>20,
           <1>21

(* AccountInv holds in every state.                                        *)
THEOREM AccountInvariant == Spec => []AccountInv
<1>1. Init => Control /\ Kept
  BY DEF Init, Control, Kept, Present, Nothing
<1>2. TypeOK /\ Control /\ Kept /\ [Next]_vars => Control' /\ Kept'
  BY ControlStep, KeptStep
<1> QED BY <1>1, <1>2, TypeCorrect, PTL DEF Spec, AccountInv

(* No crash, failure or interleaving of the recipes puts a file in staging *)
(* that no .mkr.filelist knows of, nor one in rootfs, but for a file that  *)
(* was removed while the rsync of a %/rootfs had it open.                  *)
THEOREM FilesAccounted == Spec => []Accounted
<1>1. AccountInv => Accounted
  BY DEF AccountInv, Kept, Keeps, Accounted
<1> QED BY <1>1, AccountInvariant, PTL

(* A make that succeeds leaves no file of a package that is off, but for a *)
(* file that was removed while the rsync of a %/rootfs had it open.        *)
THEOREM RemovedAreGone == Spec => []NothingOfRemoved
<1>1. AccountInv => NothingOfRemoved
  BY DEF AccountInv, Control, Kept, Keeps, NothingOfRemoved
<1> QED BY <1>1, AccountInvariant, PTL

-----------------------------------------------------------------------------
(* From here on the copy to staging does not fail, and no two packages     *)
(* install the same file.                                                  *)

(* A recipe works on what its package installs now or has installed.       *)
LEMMA OwnStep ==
  ASSUME AccountInv, OwnFiles, [Next]_vars
  PROVE  OwnFiles'
<1> USE StagingAssumption DEF AccountInv, TypeOK, OwnFiles, call, dirs
<1>1. \A q \in Pkg : Files(Nothing) \subseteq Own(q)
  BY DEF Files, Nothing
<1>2. CASE \/ \E P \in SUBSET Pkg : StartClean(P)
           \/ \E P \in SUBSET Pkg : \E G \in SUBSET P : StartBuild(P, G)
           \/ DropStaging \/ DropRootfs \/ BuildDone \/ UNCHANGED vars
  BY <1>2 DEF StartClean, StartBuild, DropStaging, DropRootfs, BuildDone, vars
<1>3. CASE DropLists
  BY <1>3 DEF DropLists
<1>4. CASE BuildFails \/ Exit \/ Crash \/ CleanAll
  BY <1>4 DEF BuildFails, Exit, Crash, CleanAll, Stop
<1>5. ASSUME NEW p \in Pkg, CompileStart(p) \/ CompileFails(p) PROVE OwnFiles'
  BY <1>5 DEF CompileStart, CompileFails
<1>6. ASSUME NEW p \in Pkg, NEW i \in Makes[p], CompileDone(p, i) PROVE OwnFiles'
  <2>1. Files(i) \subseteq Own(p)
    BY Zenon DEF Own
  <2> QED BY <1>6, <2>1 DEF CompileDone
<1>7. ASSUME NEW p \in Pkg, NEW F, F \subseteq Files(built[p]),
             inst' = [inst EXCEPT ![p] = Installed(p, F)]
      PROVE  \A q \in Pkg : Files(inst'[q]) \subseteq Own(q)
  <2>1. Files(Installed(p, F)) \subseteq Files(built[p]) \cup Files(inst[p])
    BY DEF Files, Installed
  <2> QED BY <1>7, <2>1
<1>8. ASSUME NEW p \in Pkg, Install(p) PROVE OwnFiles'
  BY <1>7, <1>8 DEF Install
<1>9. ASSUME NEW p \in Pkg, NEW F \in SUBSET File, InstallFails(p, F)
      PROVE  OwnFiles'
  BY <1>7, <1>9 DEF InstallFails
<1>10. ASSUME NEW p \in Pkg, MoveLists(p) PROVE OwnFiles'
  BY <1>10 DEF MoveLists
<1>11. ASSUME NEW p \in Pkg, NEW f \in File,
              RemoveStale(p, f) \/ RsyncFile(p, f) \/ UndoFile(p, f)
       PROVE  OwnFiles'
  BY <1>11 DEF RemoveStale, RsyncFile, UndoFile
<1>12. ASSUME NEW p \in Pkg, RsyncStops(p) PROVE OwnFiles'
  BY <1>12 DEF RsyncStops
<1>13. ASSUME NEW p \in Pkg, RemoveInst(p) PROVE OwnFiles'
  BY <1>1, <1>13 DEF RemoveInst
<1>14. ASSUME NEW p \in Pkg,
              \/ CopyStart(p) \/ CopyFails(p) \/ CopyDone(p)
              \/ \E f \in File : CopyVanished(p, f)
       PROVE  OwnFiles'
  BY <1>14 DEF CopyStart, CopyFails, CopyDone, CopyVanished, CopyAborts
<1>16. ASSUME NEW p \in Pkg, NEW f \in File,
              CopyFile(p, f) \/ CopySkips(p, f) \/ RenameCopy(p, f)
       PROVE  OwnFiles'
  BY <1>16 DEF CopyFile, CopySkips, RenameCopy
<1>15. ASSUME NEW p \in Pkg, CleanStaging(p) \/ CleanRootfs(p) \/ CleanList(p)
       PROVE  OwnFiles'
  BY <1>15 DEF CleanStaging, CleanRootfs, CleanList
<1> QED BY NextCases, <1>2, <1>3, <1>4, <1>5, <1>6, <1>8, <1>9, <1>10, <1>11,
           <1>12, <1>13, <1>14, <1>15, <1>16

(* A package that is staged stays complete: the files that the recipes of  *)
(* the others remove are not its own.                                      *)
LEMMA CompleteStep ==
  ASSUME AccountInv, OwnFiles, CompleteInv, Disjoint, [Next]_vars
  PROVE  CompleteInv'
<1> USE StagingAssumption
    DEF AccountInv, TypeOK, CompleteInv, Complete, Staged, call, dirs
<1>1. CASE \/ \E P \in SUBSET Pkg : StartClean(P)
           \/ \E P \in SUBSET Pkg : \E G \in SUBSET P : StartBuild(P, G)
           \/ DropRootfs \/ DropLists \/ BuildDone \/ UNCHANGED vars
  BY <1>1 DEF StartClean, StartBuild, DropRootfs, DropLists, BuildDone, vars
<1>2. CASE BuildFails \/ Exit \/ Crash \/ CleanAll
  BY <1>2 DEF BuildFails, Exit, Crash, CleanAll, Stop
<1>3. CASE DropStaging
  <2>1. \A p \in packages : \A f \in Own(p) : f \in File => staging'[f] = staging[f]
    BY <1>3 DEF DropStaging, OffFiles, Off, OwnFiles, Disjoint
  <2>2. \A p \in Pkg : /\ Files(built[p]) \subseteq Own(p) \cap File
                       /\ Files(inst[p]) \subseteq Own(p) \cap File
    BY DEF OwnFiles, Files
  <2>3. \A p \in Pkg : pc[p] # "idle" => p \in packages
    BY DEF Control
  <2>4. UNCHANGED <<pc, todo, built, inst>>
    BY <1>3 DEF DropStaging
  <2> QED BY <2>1, <2>2, <2>3, <2>4
<1>4. ASSUME NEW p \in Pkg, CompileStart(p) PROVE CompleteInv'
  BY <1>4 DEF CompileStart
<1>5. ASSUME NEW p \in Pkg, CompileFails(p) PROVE CompleteInv'
  BY <1>5 DEF CompileFails
<1>6. ASSUME NEW p \in Pkg, NEW i \in Makes[p], CompileDone(p, i) PROVE CompleteInv'
  BY <1>6 DEF CompileDone
<1>7. ASSUME NEW p \in Pkg, Install(p) PROVE CompleteInv'
  <2>1. \A f \in Files(built[p]) : inst'[p][f] = built[p][f]
    BY <1>7 DEF Install, Installed, Files
  <2> QED BY <1>7, <2>1 DEF Install
<1>8. ASSUME NEW p \in Pkg, NEW F \in SUBSET File, InstallFails(p, F)
      PROVE  CompleteInv'
  BY <1>8 DEF InstallFails
<1>9. ASSUME NEW p \in Pkg, NEW f \in File,
             staging' = [staging EXCEPT ![f] = staging'[f]],
             f \in Own(p)
      PROVE  \A q \in Pkg : q # p =>
               /\ \A g \in Files(built[q]) : staging'[g] = staging[g]
               /\ \A g \in Files(inst[q]) : staging'[g] = staging[g]
  <2>1. \A q \in Pkg : q # p => f \notin Files(built[q]) /\ f \notin Files(inst[q])
    BY <1>9 DEF OwnFiles, Disjoint
  <2>2. \A g \in File : g # f => staging'[g] = staging[g]
    BY <1>9 DEF Installation
  <2>3. \A q \in Pkg : Files(built[q]) \subseteq File /\ Files(inst[q]) \subseteq File
    BY DEF Files
  <2> QED BY <2>1, <2>2, <2>3
<1>10. ASSUME NEW p \in Pkg, NEW f \in File, RemoveStale(p, f) PROVE CompleteInv'
  <2>1. staging' = [staging EXCEPT ![f] = staging'[f]]
    BY <1>10 DEF RemoveStale, Remove, Installation
  <2>2. f \in Own(p) /\ pc[p] = "stale"
    BY <1>10 DEF RemoveStale, OwnFiles
  <2>3. UNCHANGED <<pc, built, inst>> /\ \A q \in Pkg : q # p => todo'[q] = todo[q]
    BY <1>10 DEF RemoveStale
  <2>4. \A q \in Pkg : q # p =>
               /\ \A g \in Files(built[q]) : staging'[g] = staging[g]
               /\ \A g \in Files(inst[q]) : staging'[g] = staging[g]
    BY <1>9, <2>1, <2>2
  <2> QED BY <2>2, <2>3, <2>4
<1>11. ASSUME NEW p \in Pkg, MoveLists(p) PROVE CompleteInv'
  BY <1>11 DEF MoveLists
<1>12. ASSUME NEW p \in Pkg, NEW f \in File, RsyncFile(p, f) PROVE CompleteInv'
  <2>1. staging' = [staging EXCEPT ![f] = staging'[f]] /\ staging'[f] = inst[p][f]
    BY <1>12 DEF RsyncFile, Installation
  <2>2. f \in Own(p) /\ pc[p] = "rsync"
    BY <1>12 DEF RsyncFile, OwnFiles
  <2>3. /\ UNCHANGED <<pc, built, inst>>
        /\ \A q \in Pkg : q # p => todo'[q] = todo[q]
        /\ todo'[p] = todo[p] \ {f}
    BY <1>12 DEF RsyncFile
  <2>4. \A q \in Pkg : q # p =>
               /\ \A g \in Files(built[q]) : staging'[g] = staging[g]
               /\ \A g \in Files(inst[q]) : staging'[g] = staging[g]
    BY <1>9, <2>1, <2>2
  <2>5. \A g \in Files(inst[p]) : g \in todo'[p] \/ staging'[g] = inst[p][g]
    BY <2>1, <2>2, <2>3 DEF Files, Installation
  <2> QED BY <2>2, <2>3, <2>4, <2>5
<1>13. ASSUME NEW p \in Pkg, RsyncStops(p) PROVE CompleteInv'
  BY <1>13 DEF RsyncStops
<1>14. ASSUME NEW p \in Pkg, NEW f \in File, UndoFile(p, f) PROVE CompleteInv'
  <2>1. staging' = [staging EXCEPT ![f] = staging'[f]]
    BY <1>14 DEF UndoFile, Remove, Installation
  <2>2. f \in Own(p) /\ pc[p] = "undo" /\ p \in RsyncFails
    BY <1>14 DEF UndoFile, OwnFiles
  <2>3. UNCHANGED <<pc, built, inst>> /\ \A q \in Pkg : q # p => todo'[q] = todo[q]
    BY <1>14 DEF UndoFile
  <2>4. \A q \in Pkg : q # p =>
               /\ \A g \in Files(built[q]) : staging'[g] = staging[g]
               /\ \A g \in Files(inst[q]) : staging'[g] = staging[g]
    BY <1>9, <2>1, <2>2
  <2> QED BY <2>2, <2>3, <2>4
<1>15. ASSUME NEW p \in Pkg, RemoveInst(p) PROVE CompleteInv'
  <2>1. pc[p] = "rsync" \/ p \in RsyncFails
    BY <1>15 DEF RemoveInst, OwnFiles
  <2>2. \A f \in Files(built[p]) : pc[p] = "rsync" => f \in Files(inst[p])
    BY DEF Files
  <2>3. p \notin RsyncFails => Complete(p)
    BY <1>15, <2>1, <2>2 DEF RemoveInst
  <2> QED BY <1>15, <2>1, <2>3 DEF RemoveInst
<1>16. ASSUME NEW p \in Pkg,
              \/ CopyStart(p) \/ CopyFails(p) \/ CopyDone(p)
              \/ \E f \in File : CopyVanished(p, f) \/ CopyFile(p, f)
              \/ \E f \in File : CopySkips(p, f) \/ RenameCopy(p, f)
       PROVE  CompleteInv'
  <2>1. /\ pc[p] \in Staged
        /\ pc'[p] \in {"copy", "rooted", "failed"}
        /\ \A q \in Pkg : q # p => pc'[q] = pc[q] /\ todo'[q] = todo[q]
        /\ UNCHANGED <<built, inst, staging>>
    <3>1. CASE CopyStart(p)
      BY <3>1 DEF CopyStart
    <3>2. CASE CopyFails(p) \/ \E f \in File : CopyVanished(p, f)
      BY <3>2 DEF CopyFails, CopyVanished, CopyAborts
    <3>3. CASE CopyDone(p)
      BY <3>3 DEF CopyDone
    <3>4. CASE \E f \in File : CopyFile(p, f) \/ CopySkips(p, f)
      BY <3>4 DEF CopyFile, CopySkips
    <3>5. CASE \E f \in File : RenameCopy(p, f)
      BY <3>5 DEF RenameCopy
    <3> QED BY <1>16, <3>1, <3>2, <3>3, <3>4, <3>5
  <2> QED BY <2>1
<1>17. ASSUME NEW p \in Pkg, CleanStaging(p) \/ CleanRootfs(p) \/ CleanList(p)
       PROVE  CompleteInv'
  <2>1. \A q \in Pkg : pc'[q] \in {"idle", "cleanroot", "cleanlist", "cleaned"}
    BY <1>17 DEF CleanStaging, CleanRootfs, CleanList, Control
  <2> QED BY <2>1
<1> QED BY NextCases, <1>1, <1>2, <1>3, <1>4, <1>5, <1>6, <1>7, <1>8, <1>10,
           <1>11, <1>12, <1>13, <1>14, <1>15, <1>16, <1>17

(* CompleteInv holds in every state.                                       *)
THEOREM CompleteInvariant ==
  ASSUME Disjoint PROVE Spec => [](OwnFiles /\ CompleteInv)
<1>1. Init => OwnFiles /\ CompleteInv
  BY DEF Init, OwnFiles, CompleteInv, Files, Nothing, Staged
<1>2. AccountInv /\ OwnFiles /\ CompleteInv /\ [Next]_vars
      => OwnFiles' /\ CompleteInv'
  BY OwnStep, CompleteStep
<1> QED BY <1>1, <1>2, AccountInvariant, PTL DEF Spec

(* While a package is compiled, each package it build_depends on is        *)
(* complete in staging, however the recipes of all packages interleave.    *)
THEOREM CompiledAfterStaging ==
  ASSUME Disjoint, \A p \in Pkg : BuildDep[p] \cap RsyncFails = {}
  PROVE  Spec => []DependenciesStaged
<1>1. OwnFiles /\ CompleteInv => DependenciesStaged
  BY DEF CompleteInv, DependenciesStaged
<1> QED BY <1>1, CompleteInvariant, PTL

(* A make that succeeds leaves every package it made complete in staging.  *)
THEOREM SuccessIsComplete ==
  ASSUME Disjoint PROVE Spec => []DoneIsComplete
<1>1. AccountInv /\ OwnFiles /\ CompleteInv => DoneIsComplete
  BY DEF AccountInv, TypeOK, Control, CompleteInv, DoneIsComplete, Staged
<1> QED BY <1>1, AccountInvariant, CompleteInvariant, PTL
=============================================================================
