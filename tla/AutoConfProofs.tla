---------------------------- MODULE AutoConfProofs ----------------------------
(***************************************************************************)
(* What AutoConf guarantees for any symbols, Kconfig files and packages.   *)
(* Type correctness, the safety of conf_write and the erasing of trees hold*)
(* with interrupts of make too; that auto.conf marks the completion of     *)
(* conf -s, and that a make builds what is configured, needs that make is  *)
(* not interrupted while it remakes auto.conf.                             *)
(***************************************************************************)
EXTENDS AutoConf, TLAPS

(* The actions of Next, one per case of a proof.                           *)
LEMMA NextCases ==
  ASSUME [Next]_vars
  PROVE  \/ \E c \in Config : EditConfig(c)
         \/ \E k \in Kver, P \in SUBSET Pkg : EditKconfig(k, P)
         \/ NoSync \/ NotConfigured \/ ReadConfig
         \/ BackupConfig \/ ReplaceConfig \/ WriteDep
         \/ \E s \in Sym : TouchHeader(s)
         \/ WriteTmp \/ RenameAuto \/ Reexec \/ Interrupt
         \/ CheckVariables \/ MakeFails \/ MakeDone \/ Exit
         \/ \E p \in Pkg : UpToDate(p)
         \/ \E p \in Pkg : ConfigureStart(p)
         \/ \E p \in Pkg : ConfigureDone(p)
         \/ \E p \in Pkg : ConfigureFails(p)
         \/ \E p \in Pkg : CleanPackage(p)
         \/ CleanEnd \/ RemoveConfig \/ RemoveStamps \/ RemoveInclude
         \/ RemoveEnd
         \/ \E p \in Pkg : RemoveTree(p)
         \/ Crash
         \/ \E g \in {"all", "clean", "mrproper"} : StartMake(g)
         \/ UNCHANGED vars
  BY Zenon DEF Next, Edit, Sync, Build, Remove

(* What configure leaves in the tree of a package is a configured tree.    *)
LEMMA ConfiguredTree ==
  ASSUME NEW p \in Pkg, NEW f \in [Uses[p] -> Val]
  PROVE  f \in Configured
<1> DEFINE Trees(q) == [Uses[q] -> Val]
<1>1. f \in Trees(p)
  OBVIOUS
<1>2. Configured = UNION {Trees(q) : q \in Pkg}
  BY DEF Configured
<1> HIDE DEF Trees
<1> QED BY <1>1, <1>2, Zenon

(* Every step of make, conf and the user keeps the shape of the files and  *)
(* of what is in memory; make builds from an auto.conf that exists.        *)
THEOREM TypeInvariant == Spec => []TypeInv
<1>1. Init => TypeInv
  BY ConfAssumption DEF Init, TypeInv, TypeOK, Memory
<1>2. TypeInv /\ [Next]_vars => TypeInv'
  <2> SUFFICES ASSUME TypeInv, [Next]_vars PROVE TypeInv'
    OBVIOUS
  <2> USE ConfAssumption DEF TypeInv, TypeOK, Memory, files, trees, conf, jobs,
          Stop, Unread
  <2>1. ASSUME NEW c \in Config, EditConfig(c) PROVE TypeInv'
    <3>1. raced' \in BOOLEAN
      BY <2>1, Zenon DEF EditConfig
    <3>2. /\ config' = c /\ user' = c
          /\ newer' = newer \cup {"config"}
          /\ newerTmp' \subseteq newerTmp \cup {"config"}
          /\ UNCHANGED <<old, kconfig, cmd, auto, trees, pc, goal, loaded, todo,
                         tmp, jobs>>
      BY <2>1, Zenon DEF EditConfig
    <3> QED BY <3>1, <3>2
  <2>2. ASSUME NEW k \in Kver, NEW P \in SUBSET Pkg, EditKconfig(k, P)
        PROVE  TypeInv'
    <3>1. raced' \in BOOLEAN
      BY <2>2, Zenon DEF EditKconfig
    <3>2. stamp' \in [Pkg -> {"none", "old", "ok"}]
      BY <2>2 DEF EditKconfig
    <3>3. /\ kconfig' = k
          /\ newer' = newer \cup {"kconfig"}
          /\ newerTmp' \subseteq newerTmp \cup {"kconfig"}
          /\ UNCHANGED <<config, old, cmd, auto, tcstamp, tree, pc, goal,
                         loaded, todo, tmp, jobs, user>>
      BY <2>2, Zenon DEF EditKconfig
    <3> QED BY <3>1, <3>2, <3>3
  <2>3. CASE NoSync
    BY <2>3 DEF NoSync, NeedSync
  <2>4. CASE NotConfigured \/ Interrupt \/ Crash
    BY <2>4 DEF NotConfigured, Interrupt, Crash
  <2>5. CASE ReadConfig
    <3>1. config \in Config /\ kconfig \in Kver
      BY <2>5 DEF ReadConfig
    <3>2. Calc[kconfig][config] \in Config
      BY <3>1
    <3> QED BY <2>5, <3>2 DEF ReadConfig
  <2>6. CASE BackupConfig
    BY <2>6 DEF BackupConfig
  <2>7. CASE ReplaceConfig
    BY <2>7 DEF ReplaceConfig
  <2>8. CASE WriteDep
    BY <2>8 DEF WriteDep
  <2>9. ASSUME NEW s \in Sym, TouchHeader(s) PROVE TypeInv'
    BY <2>9 DEF TouchHeader
  <2>10. CASE WriteTmp
    BY <2>10 DEF WriteTmp
  <2>11. CASE RenameAuto
    BY <2>11 DEF RenameAuto
  <2>12. CASE Reexec
    BY <2>12 DEF Reexec
  <2>13. CASE CheckVariables
    <3>1. [s \in ToolSym |-> auto[s]] \in [ToolSym -> Val]
      BY <2>13 DEF CheckVariables, Config
    <3> QED BY <2>13, <3>1 DEF CheckVariables
  <2>14. CASE MakeFails \/ MakeDone \/ Exit
    <3>1. CASE MakeDone
      BY <3>1 DEF MakeDone
    <3>2. CASE MakeFails \/ Exit
      BY <3>2 DEF MakeFails, Exit
    <3> QED BY <2>14, <3>1, <3>2
  <2>15. ASSUME NEW p \in Pkg, UpToDate(p) \/ ConfigureFails(p)
         PROVE  TypeInv'
    <3>1. CASE UpToDate(p)
      BY <3>1 DEF UpToDate, Waiting
    <3>2. CASE ConfigureFails(p)
      BY <3>2 DEF ConfigureFails
    <3> QED BY <2>15, <3>1, <3>2
  <2>16. ASSUME NEW p \in Pkg, ConfigureStart(p) PROVE TypeInv'
    BY <2>16 DEF ConfigureStart, Waiting
  <2>17. ASSUME NEW p \in Pkg, ConfigureDone(p) PROVE TypeInv'
    <3>1. [s \in Uses[p] |-> auto[s]] \in [Uses[p] -> Val]
      BY <2>17 DEF ConfigureDone, Config
    <3>2. [s \in Uses[p] |-> auto[s]] \in Configured
      BY <3>1, ConfiguredTree
    <3> QED BY <2>17, <3>2 DEF ConfigureDone
  <2>18. ASSUME NEW p \in Pkg, CleanPackage(p) \/ RemoveTree(p)
         PROVE  TypeInv'
    <3>1. CASE CleanPackage(p)
      BY <3>1 DEF CleanPackage
    <3>2. CASE RemoveTree(p)
      <4>1. tree' = [tree EXCEPT ![p] = Partial] \/ tree' = [tree EXCEPT ![p] = None]
        BY <3>2 DEF RemoveTree
      <4>2. stamp' = stamp \/ stamp' = [stamp EXCEPT ![p] = "none"]
        BY <3>2 DEF RemoveTree
      <4>3. UNCHANGED <<files, tcstamp, pc, goal, conf, jobs, user, raced>>
        BY <3>2 DEF RemoveTree
      <4>4. tree' \in [Pkg -> Configured \cup {None, Partial}]
        BY <4>1
      <4>5. stamp' \in [Pkg -> {"none", "old", "ok"}]
        BY <4>2
      <4> QED BY <4>3, <4>4, <4>5
    <3> QED BY <2>18, <3>1, <3>2
  <2>19. CASE CleanEnd \/ RemoveConfig \/ RemoveStamps
    <3>1. CASE CleanEnd BY <3>1 DEF CleanEnd
    <3>2. CASE RemoveConfig BY <3>2 DEF RemoveConfig
    <3>3. CASE RemoveStamps BY <3>3 DEF RemoveStamps
    <3> QED BY <2>19, <3>1, <3>2, <3>3
  <2>20. CASE RemoveInclude \/ RemoveEnd
    <3>1. CASE RemoveInclude BY <3>1 DEF RemoveInclude
    <3>2. CASE RemoveEnd BY <3>2 DEF RemoveEnd
    <3> QED BY <2>20, <3>1, <3>2
  <2>21. ASSUME NEW g \in {"all", "clean", "mrproper"}, StartMake(g)
         PROVE  TypeInv'
    BY <2>21 DEF StartMake
  <2>22. CASE UNCHANGED vars
    BY <2>22 DEF vars
  <2> QED
    BY NextCases, <2>1, <2>2, <2>3, <2>4, <2>5, <2>6, <2>7, <2>8, <2>9, <2>10,
       <2>11, <2>12, <2>13, <2>14, <2>15, <2>16, <2>17, <2>18, <2>19, <2>20,
       <2>21, <2>22
<1> QED BY <1>1, <1>2, PTL DEF Spec

(* The files of make, conf and the packages have the shape the code        *)
(* expects of them.                                                        *)
THEOREM TypeCorrect == Spec => []TypeOK
<1>1. TypeInv => TypeOK
  BY DEF TypeInv
<1> QED BY <1>1, TypeInvariant, PTL

(* conf_write never loses the configuration that was saved last, whatever  *)
(* crashes and whoever edits .config meanwhile.                            *)
THEOREM SavedConfigKept == Spec => []ConfigKept
<1>1. Init => KeptInv
  BY DEF Init, KeptInv
<1>2. TypeInv /\ KeptInv /\ [Next]_vars => KeptInv'
  <2> SUFFICES ASSUME TypeInv, KeptInv, [Next]_vars PROVE KeptInv'
    OBVIOUS
  <2> USE ConfAssumption DEF TypeInv, TypeOK, Memory, KeptInv, files, conf, Stop
  <2>1. ASSUME NEW c \in Config, EditConfig(c) PROVE KeptInv'
    <3>1. config' = c /\ user' = c /\ pc' = pc
      BY <2>1 DEF EditConfig
    <3>2. pc = "replace" => raced'
      BY <2>1, Zenon DEF EditConfig, Unread
    <3> QED BY <3>1, <3>2
  <2>2. ASSUME NEW k \in Kver, NEW P \in SUBSET Pkg, EditKconfig(k, P)
        PROVE  KeptInv'
    <3>1. raced => raced'
      BY <2>2, Zenon DEF EditKconfig
    <3>2. UNCHANGED <<config, old, user, pc>>
      BY <2>2 DEF EditKconfig
    <3> QED BY <3>1, <3>2
  <2>3. CASE ReadConfig
    BY <2>3 DEF ReadConfig
  <2>4. CASE BackupConfig
    BY <2>4 DEF BackupConfig
  <2>5. CASE ReplaceConfig
    BY <2>5 DEF ReplaceConfig
  <2>6. CASE NotConfigured \/ Interrupt \/ Crash \/ MakeFails \/ Exit
             \/ CleanEnd \/ RemoveEnd
    BY <2>6 DEF NotConfigured, Interrupt, Crash, MakeFails, Exit, CleanEnd,
                RemoveEnd
  <2>7. CASE NoSync \/ WriteDep \/ WriteTmp \/ RenameAuto \/ Reexec
             \/ \E s \in Sym : TouchHeader(s)
    BY <2>7 DEF NoSync, WriteDep, WriteTmp, RenameAuto, Reexec, TouchHeader
  <2>8. CASE CheckVariables \/ MakeDone \/ RemoveConfig \/ RemoveStamps
             \/ RemoveInclude
    BY <2>8 DEF CheckVariables, MakeDone, RemoveConfig, RemoveStamps,
                RemoveInclude
  <2>9. ASSUME NEW p \in Pkg,
               \/ UpToDate(p) \/ ConfigureStart(p) \/ ConfigureDone(p)
               \/ ConfigureFails(p) \/ CleanPackage(p) \/ RemoveTree(p)
        PROVE  KeptInv'
    BY <2>9 DEF UpToDate, ConfigureStart, ConfigureDone, ConfigureFails,
                CleanPackage, RemoveTree
  <2>10. CASE \E g \in {"all", "clean", "mrproper"} : StartMake(g)
    BY <2>10 DEF StartMake
  <2>11. CASE UNCHANGED vars
    BY <2>11 DEF vars
  <2> QED
    BY NextCases, <2>1, <2>2, <2>3, <2>4, <2>5, <2>6, <2>7, <2>8, <2>9, <2>10,
       <2>11
<1>3. KeptInv => ConfigKept
  BY DEF KeptInv, ConfigKept
<1> QED BY <1>1, <1>2, <1>3, TypeInvariant, PTL DEF Spec

(* No package tree goes from one configuration to another in place: the    *)
(* recipes erase it first, also when jobs of other packages interleave.    *)
THEOREM TreesErasedFirst == Spec => TreeErasedFirst
<1> DEFINE Kept == \A p \in Pkg : tree[p]' # tree[p] =>
                     tree[p]' \in {None, Partial} \/ tree[p] = Partial
<1>1. Init => ErasedInv
  BY DEF Init, ErasedInv
<1>2. TypeInv /\ ErasedInv /\ [Next]_vars => ErasedInv' /\ Kept
  <2> SUFFICES ASSUME TypeInv, ErasedInv, [Next]_vars
               PROVE  ErasedInv' /\ Kept
    OBVIOUS
  <2> USE DEF TypeInv, TypeOK, Memory, ErasedInv, trees, jobs, Stop
  <2>1. ASSUME NEW p \in Pkg, ConfigureStart(p) PROVE ErasedInv' /\ Kept
    BY <2>1 DEF ConfigureStart, Waiting
  <2>2. ASSUME NEW p \in Pkg, ConfigureDone(p) PROVE ErasedInv' /\ Kept
    BY <2>2 DEF ConfigureDone
  <2>3. ASSUME NEW p \in Pkg, CleanPackage(p) PROVE ErasedInv' /\ Kept
    BY <2>3 DEF CleanPackage
  <2>4. ASSUME NEW p \in Pkg, RemoveTree(p) PROVE ErasedInv' /\ Kept
    <3>1. tree' = [tree EXCEPT ![p] = Partial] \/ tree' = [tree EXCEPT ![p] = None]
      BY <2>4 DEF RemoveTree
    <3>2. running = {} /\ running' = running
      BY <2>4 DEF RemoveTree
    <3> QED BY <3>1, <3>2
  <2>5. CASE /\ tree' = tree
             /\ running' \subseteq running
    BY <2>5
  <2>6. CASE \/ \E c \in Config : EditConfig(c)
             \/ \E k \in Kver, P \in SUBSET Pkg : EditKconfig(k, P)
             \/ NoSync \/ NotConfigured \/ ReadConfig
             \/ BackupConfig \/ ReplaceConfig \/ WriteDep
             \/ (\E s \in Sym : TouchHeader(s))
             \/ WriteTmp \/ RenameAuto \/ Reexec \/ Interrupt
    BY <2>5, <2>6 DEF EditConfig, EditKconfig, NoSync, NotConfigured, ReadConfig,
      BackupConfig, ReplaceConfig, WriteDep, TouchHeader, WriteTmp, RenameAuto,
      Reexec, Interrupt
  <2>7. CASE \/ CheckVariables \/ MakeFails \/ MakeDone \/ Exit
             \/ (\E p \in Pkg : UpToDate(p) \/ ConfigureFails(p))
             \/ CleanEnd \/ RemoveConfig \/ RemoveStamps \/ RemoveInclude
             \/ RemoveEnd \/ Crash
             \/ \E g \in {"all", "clean", "mrproper"} : StartMake(g)
    BY <2>5, <2>7 DEF CheckVariables, MakeFails, MakeDone, Exit, UpToDate,
      ConfigureFails, CleanEnd, RemoveConfig, RemoveStamps, RemoveInclude,
      RemoveEnd, Crash, StartMake
  <2>8. CASE UNCHANGED vars
    BY <2>5, <2>8 DEF vars
  <2> QED BY NextCases, <2>1, <2>2, <2>3, <2>4, <2>6, <2>7, <2>8
<1>3. Kept => [\A p \in Pkg : tree[p]' # tree[p] =>
                tree[p]' \in {None, Partial} \/ tree[p] = Partial]_vars
  BY DEF Kept
<1> QED BY <1>1, <1>2, <1>3, TypeInvariant, PTL DEF Spec, TreeErasedFirst
-----------------------------------------------------------------------------
(* From here on make is not interrupted while it remakes auto.conf.        *)

(* Conf's memory: only the reading, the two renames of conf_write and edits*)
(* change what is loaded or what it is compared with.                      *)
LEMMA LoadedStep ==
  ASSUME TypeInv, SyncInv, [Next]_vars
  PROVE  LoadedIsCurrent'
<1> USE ConfAssumption DEF TypeInv, TypeOK, Memory, LoadedIsCurrent, Current,
        files, conf, Stop
<1>0. LoadedIsCurrent
  BY DEF SyncInv
<1>1. CASE \/ \E c \in Config : EditConfig(c)
           \/ \E k \in Kver, P \in SUBSET Pkg : EditKconfig(k, P)
  <2>1. pc \notin Unread => raced'
    BY <1>1, Zenon DEF EditConfig, EditKconfig
  <2>2. pc' = pc
    BY <1>1 DEF EditConfig, EditKconfig
  <2> QED BY <2>1, <2>2 DEF Unread
<1>2. CASE ReadConfig
  <2>1. config \in Config /\ kconfig \in Kver
    BY <1>2 DEF ReadConfig
  <2> QED BY <1>2, <2>1 DEF ReadConfig
<1>3. CASE BackupConfig
  <2>1. ~raced => config \in Config /\ loaded = Calc[kconfig][config]
    BY <1>0, <1>3 DEF BackupConfig
  <2>2. ~raced => Calc[kconfig][loaded] = loaded
    BY <2>1
  <2> QED BY <1>3, <2>2 DEF BackupConfig
<1>4. CASE ReplaceConfig
  BY <1>0, <1>4 DEF ReplaceConfig
<1>5. CASE WriteDep \/ WriteTmp \/ RenameAuto \/ Reexec \/ NoSync
           \/ \E s \in Sym : TouchHeader(s)
  BY <1>0, <1>5 DEF WriteDep, WriteTmp, RenameAuto, Reexec, NoSync, TouchHeader
<1>6. CASE NotConfigured \/ Interrupt \/ Crash \/ MakeFails \/ Exit
           \/ CleanEnd \/ RemoveEnd
  BY <1>6 DEF NotConfigured, Interrupt, Crash, MakeFails, Exit, CleanEnd,
              RemoveEnd
<1>7. CASE CheckVariables \/ MakeDone \/ RemoveConfig \/ RemoveStamps
           \/ RemoveInclude
  BY <1>7 DEF CheckVariables, MakeDone, RemoveConfig, RemoveStamps, RemoveInclude
<1>8. ASSUME NEW p \in Pkg,
             \/ UpToDate(p) \/ ConfigureStart(p) \/ ConfigureDone(p)
             \/ ConfigureFails(p) \/ CleanPackage(p) \/ RemoveTree(p)
      PROVE  LoadedIsCurrent'
  BY <1>0, <1>8 DEF UpToDate, ConfigureStart, ConfigureDone, ConfigureFails,
                    CleanPackage, RemoveTree, Waiting
<1>9. CASE \E g \in {"all", "clean", "mrproper"} : StartMake(g)
  BY <1>9 DEF StartMake
<1>10. CASE UNCHANGED vars
  BY <1>0, <1>10 DEF vars
<1> QED BY NextCases, <1>1, <1>2, <1>3, <1>4, <1>5, <1>6, <1>7, <1>8, <1>9, <1>10

(* auto.conf: it is written last and removed with no stamp left, and any   *)
(* change of what it was made from makes something newer.                  *)
LEMMA AutoStep ==
  ASSUME TypeInv, SyncInv, ~Interrupts, [Next]_vars
  PROVE  AutoIsCurrent'
<1> USE ConfAssumption DEF TypeInv, TypeOK, Memory, AutoIsCurrent, Current,
        files, conf, Stop
<1>0. AutoIsCurrent /\ LoadedIsCurrent
  BY DEF SyncInv
<1>1. CASE \/ \E c \in Config : EditConfig(c)
           \/ \E k \in Kver, P \in SUBSET Pkg : EditKconfig(k, P)
  <2>1. pc \notin Unread => raced'
    BY <1>1, Zenon DEF EditConfig, EditKconfig
  <2>2. pc' = pc /\ cmd' = cmd /\ loaded' = loaded /\ newer' # {}
    BY <1>1 DEF EditConfig, EditKconfig
  <2>3. config' = config \/ config' # None
    BY <1>1 DEF EditConfig, EditKconfig
  <2> QED BY <1>0, <2>1, <2>2, <2>3 DEF Unread
<1>2. CASE NoSync
  BY <1>0, <1>2 DEF NoSync, NeedSync
<1>3. CASE ReadConfig
  BY <1>0, <1>3 DEF ReadConfig, NeedSync
<1>4. CASE BackupConfig \/ ReplaceConfig
  BY <1>0, <1>4 DEF BackupConfig, ReplaceConfig
<1>5. CASE WriteDep \/ WriteTmp \/ Reexec \/ \E s \in Sym : TouchHeader(s)
  BY <1>0, <1>5 DEF WriteDep, WriteTmp, Reexec, TouchHeader
<1>6. CASE RenameAuto
  BY <1>0, <1>6 DEF RenameAuto, LoadedIsCurrent
<1>7. CASE NotConfigured \/ Interrupt \/ Crash \/ MakeFails \/ Exit
           \/ CleanEnd \/ RemoveEnd
  BY <1>0, <1>7 DEF NotConfigured, Interrupt, Crash, MakeFails, Exit, CleanEnd,
                    RemoveEnd
<1>8. CASE CheckVariables \/ MakeDone
  BY <1>0, <1>8 DEF CheckVariables, MakeDone
<1>9. CASE RemoveConfig \/ RemoveStamps \/ RemoveInclude
  BY <1>0, <1>9 DEF RemoveConfig, RemoveStamps, RemoveInclude
<1>10. ASSUME NEW p \in Pkg,
              \/ UpToDate(p) \/ ConfigureStart(p) \/ ConfigureDone(p)
              \/ ConfigureFails(p) \/ CleanPackage(p) \/ RemoveTree(p)
       PROVE  AutoIsCurrent'
  BY <1>0, <1>10 DEF UpToDate, ConfigureStart, ConfigureDone, ConfigureFails,
                     CleanPackage, RemoveTree
<1>11. CASE \E g \in {"all", "clean", "mrproper"} : StartMake(g)
  BY <1>0, <1>11 DEF StartMake
<1>12. CASE UNCHANGED vars
  BY <1>0, <1>12 DEF vars
<1> QED BY NextCases, <1>1, <1>2, <1>3, <1>4, <1>5, <1>6, <1>7, <1>8, <1>9,
           <1>10, <1>11, <1>12

(* The stamps: a header is touched before the new value takes the place of *)
(* the old one, .mkr.toolchain goes before auto.conf does, and without     *)
(* .mkr.toolchain every stamp is old before anything is built.             *)
LEMMA StampStep ==
  ASSUME TypeInv, SyncInv, ~Interrupts, [Next]_vars
  PROVE  StampsVouch'
<1> USE ConfAssumption DEF TypeInv, TypeOK, Memory, StampsVouch, Settings,
        files, trees, conf, jobs, Stop
<1>0. StampsVouch /\ AutoIsCurrent
  BY DEF SyncInv
<1>1. ASSUME NEW c \in Config, EditConfig(c) PROVE StampsVouch'
  <2>1. UNCHANGED <<auto, trees, pc, loaded, todo, jobs>>
    BY <1>1 DEF EditConfig
  <2> QED BY <1>0, <2>1
<1>2. ASSUME NEW k \in Kver, NEW P \in SUBSET Pkg, EditKconfig(k, P)
      PROVE  StampsVouch'
  <2>1. UNCHANGED <<auto, tcstamp, tree, pc, loaded, todo, jobs>>
    BY <1>2 DEF EditKconfig
  <2>2. \A p \in Pkg : stamp'[p] = "ok" => stamp[p] = "ok"
    BY <1>2 DEF EditKconfig
  <2> QED BY <1>0, <2>1, <2>2
<1>3. CASE ReadConfig \/ BackupConfig \/ ReplaceConfig
  BY <1>0, <1>3 DEF ReadConfig, BackupConfig, ReplaceConfig
<1>4. CASE WriteDep
  BY <1>0, <1>4 DEF WriteDep, OldValue
<1>5. ASSUME NEW s \in Sym, TouchHeader(s) PROVE StampsVouch'
  <2>1. UNCHANGED <<auto, tcstamp, tree, pc, loaded, jobs>>
    BY <1>5 DEF TouchHeader
  <2>2. \A p \in Pkg : stamp'[p] = "ok" => stamp[p] = "ok" /\ s \notin Uses[p]
    BY <1>5 DEF TouchHeader
  <2>3. pc = "split" /\ todo' = todo \ {s}
    BY <1>5 DEF TouchHeader
  <2> QED BY <1>0, <2>1, <2>2, <2>3
<1>6. CASE WriteTmp \/ Reexec \/ NoSync
  BY <1>0, <1>6 DEF WriteTmp, Reexec, NoSync
<1>7. CASE RenameAuto
  <2>1. /\ auto' = loaded /\ todo = {} /\ pc' = "synced" /\ auto' # None
        /\ UNCHANGED <<tcstamp, stamp, tree, jobs>>
    BY <1>0, <1>7 DEF RenameAuto
  <2>2. ASSUME tcstamp # None, NEW p \in Pkg, stamp[p] = "ok"
        PROVE  tree[p] = [s \in Uses[p] |-> loaded[s]]
    <3>1. \A s \in Uses[p] : loaded[s] = auto[s]
      BY <1>0, <1>7, <2>1, <2>2 DEF RenameAuto
    <3> QED BY <1>0, <2>2, <3>1
  <2> QED BY <1>0, <2>1, <2>2
<1>8. CASE NotConfigured \/ Interrupt \/ Crash \/ MakeFails \/ Exit
           \/ CleanEnd \/ RemoveEnd
  BY <1>0, <1>8 DEF NotConfigured, Interrupt, Crash, MakeFails, Exit, CleanEnd,
                    RemoveEnd
<1>9. CASE CheckVariables
  <2>1. [s \in ToolSym |-> auto[s]] # None
    BY <1>9 DEF CheckVariables, Config
  <2>2. \A p \in Pkg : stamp'[p] = "ok" => tcstamp # None /\ stamp[p] = "ok"
    BY <1>9, <2>1 DEF CheckVariables
  <2>3. UNCHANGED <<auto, tree, loaded, todo, running>> /\ pc' = "build"
        /\ auto # None
    BY <1>9 DEF CheckVariables
  <2> QED BY <1>0, <2>2, <2>3
<1>10. CASE MakeDone \/ \E p \in Pkg : UpToDate(p) \/ ConfigureFails(p)
  BY <1>0, <1>10 DEF MakeDone, UpToDate, ConfigureFails
<1>11. ASSUME NEW p \in Pkg, ConfigureStart(p) PROVE StampsVouch'
  BY <1>0, <1>11 DEF ConfigureStart, Waiting
<1>12. ASSUME NEW p \in Pkg, ConfigureDone(p) PROVE StampsVouch'
  <2>1. \A q \in Pkg \ {p} : tree'[q] = tree[q]
                             /\ (stamp'[q] = "ok" => stamp[q] = "ok")
    BY <1>12 DEF ConfigureDone
  <2>2. tree'[p] = [s \in Uses[p] |-> auto[s]]
    BY <1>12 DEF ConfigureDone
  <2>3. /\ pc = "build" /\ running' = running \ {p}
        /\ UNCHANGED <<auto, tcstamp, pc, loaded, todo>>
    BY <1>12 DEF ConfigureDone
  <2>4. ASSUME tcstamp' # None, NEW q \in Pkg, stamp'[q] = "ok"
        PROVE  tree'[q] = [s \in Uses[q] |-> auto'[s]]
    <3>1. CASE q = p
      BY <2>2, <2>3, <3>1
    <3>2. CASE q # p
      <4>1. tree'[q] = tree[q] /\ stamp[q] = "ok"
        BY <2>1, <2>4, <3>2
      <4>2. tree[q] = [s \in Uses[q] |-> auto[s]]
        BY <1>0, <2>3, <2>4, <4>1
      <4> QED BY <2>3, <4>1, <4>2
    <3> QED BY <3>1, <3>2
  <2>5. \A q \in running' : stamp'[q] # "ok"
    BY <1>0, <2>1, <2>3
  <2>6. tcstamp' # None => auto' # None
    BY <1>0, <2>3
  <2> QED BY <2>3, <2>4, <2>5, <2>6
<1>13. ASSUME NEW p \in Pkg, CleanPackage(p) PROVE StampsVouch'
  <2>1. \A q \in Pkg : stamp'[q] = "ok" => stamp[q] = "ok" /\ tree'[q] = tree[q]
    BY <1>13 DEF CleanPackage
  <2>2. pc = "build" /\ UNCHANGED <<auto, tcstamp, pc, loaded, todo, running>>
    BY <1>13 DEF CleanPackage
  <2> QED BY <1>0, <2>1, <2>2
<1>14. CASE RemoveConfig \/ RemoveStamps
  BY <1>0, <1>14 DEF RemoveConfig, RemoveStamps
<1>15. CASE RemoveInclude
  BY <1>0, <1>15 DEF RemoveInclude
<1>16. ASSUME NEW p \in Pkg, RemoveTree(p) PROVE StampsVouch'
  <2>1. /\ pc = "mrtrees" /\ running = {}
        /\ UNCHANGED <<tcstamp, pc, running>>
    BY <1>16 DEF RemoveTree
  <2> QED BY <1>0, <2>1
<1>17. CASE \E g \in {"all", "clean", "mrproper"} : StartMake(g)
  BY <1>0, <1>17 DEF StartMake
<1>18. CASE UNCHANGED vars
  BY <1>0, <1>18 DEF vars
<1> QED BY NextCases, <1>1, <1>2, <1>3, <1>4, <1>5, <1>6, <1>7, <1>8, <1>9,
           <1>10, <1>11, <1>12, <1>13, <1>14, <1>15, <1>16, <1>17, <1>18

(* The build: the stamp of a package that is done only becomes old by an   *)
(* edit, because the packages it depends on were done before it.           *)
LEMMA DoneStep ==
  ASSUME TypeInv, SyncInv, [Next]_vars
  PROVE  DoneInOrder'
<1> USE ConfAssumption DEF TypeInv, TypeOK, Memory, DoneInOrder, files, trees,
        conf, jobs, Stop
<1>0. DoneInOrder
  BY DEF SyncInv
<1>1. CASE \/ \E c \in Config : EditConfig(c)
           \/ \E k \in Kver, P \in SUBSET Pkg : EditKconfig(k, P)
  <2>1. pc \notin Unread => raced'
    BY <1>1, Zenon DEF EditConfig, EditKconfig
  <2>2. UNCHANGED <<pc, goal, tcstamp, running, done>>
    BY <1>1 DEF EditConfig, EditKconfig
  <2> QED BY <1>0, <2>1, <2>2 DEF Unread
<1>2. CASE CheckVariables
  <2>1. [s \in ToolSym |-> auto[s]] # None
    BY <1>2 DEF CheckVariables, Config
  <2> QED BY <1>0, <1>2, <2>1 DEF CheckVariables
<1>3. ASSUME NEW p \in Pkg, UpToDate(p) PROVE DoneInOrder'
  BY <1>0, <1>3 DEF UpToDate, Waiting
<1>4. ASSUME NEW p \in Pkg, ConfigureStart(p) PROVE DoneInOrder'
  BY <1>0, <1>4 DEF ConfigureStart, Waiting
<1>5. ASSUME NEW p \in Pkg, ConfigureDone(p) PROVE DoneInOrder'
  <2>1. /\ running' = running \ {p} /\ done' = done \cup {p}
        /\ p \in running /\ pc = "build"
        /\ UNCHANGED <<tcstamp, pc, goal, raced>>
    BY <1>5 DEF ConfigureDone
  <2>2. \A q \in Pkg : q = p \/ (p \notin BuildDep[q] /\ stamp[q] = "ok")
                       => stamp'[q] = "ok"
    BY <1>5 DEF ConfigureDone
  <2>3. goal = "all" => \A q \in done : p \notin BuildDep[q]
    BY <1>0, <2>1
  <2> QED BY <1>0, <2>1, <2>2, <2>3
<1>6. ASSUME NEW p \in Pkg, ConfigureFails(p) PROVE DoneInOrder'
  BY <1>0, <1>6 DEF ConfigureFails
<1>7. ASSUME NEW p \in Pkg, CleanPackage(p) PROVE DoneInOrder'
  BY <1>0, <1>7 DEF CleanPackage
<1>8. CASE MakeDone
  BY <1>0, <1>8 DEF MakeDone
<1>9. CASE NoSync
  BY <1>0, <1>9 DEF NoSync
<1>10. CASE NotConfigured \/ Interrupt \/ Crash \/ MakeFails \/ Exit
            \/ CleanEnd \/ RemoveEnd
  BY <1>10 DEF NotConfigured, Interrupt, Crash, MakeFails, Exit, CleanEnd,
               RemoveEnd
<1>11. CASE \/ ReadConfig \/ BackupConfig \/ ReplaceConfig \/ WriteDep
            \/ WriteTmp \/ RenameAuto \/ Reexec
            \/ \E s \in Sym : TouchHeader(s)
  BY <1>11 DEF ReadConfig, BackupConfig, ReplaceConfig, WriteDep, WriteTmp,
               RenameAuto, Reexec, TouchHeader
<1>12. CASE RemoveConfig \/ RemoveStamps \/ RemoveInclude
            \/ \E p \in Pkg : RemoveTree(p)
  BY <1>12 DEF RemoveConfig, RemoveStamps, RemoveInclude, RemoveTree
<1>13. CASE \E g \in {"all", "clean", "mrproper"} : StartMake(g)
  BY <1>13 DEF StartMake
<1>14. CASE UNCHANGED vars
  BY <1>0, <1>14 DEF vars
<1> QED BY NextCases, <1>1, <1>2, <1>3, <1>4, <1>5, <1>6, <1>7, <1>8, <1>9,
           <1>10, <1>11, <1>12, <1>13, <1>14

(* SyncInv holds in every state.                                           *)
THEOREM SyncInvariant == ASSUME ~Interrupts PROVE Spec => []SyncInv
<1>1. Init => SyncInv
  BY DEF Init, SyncInv, LoadedIsCurrent, AutoIsCurrent, StampsVouch, DoneInOrder
<1>2. TypeInv /\ SyncInv /\ [Next]_vars => SyncInv'
  BY LoadedStep, AutoStep, StampStep, DoneStep DEF SyncInv
<1> QED BY <1>1, <1>2, TypeInvariant, PTL DEF Spec

(* Renaming auto.conf last "marks the successful completion of the previous*)
(* steps", whatever crashes: unless something is newer, auto.conf.cmd is of*)
(* the same values and each good stamp is of a tree configured with them.  *)
THEOREM AutoConfMarksCompletion ==
  ASSUME ~Interrupts PROVE Spec => []AutoMarksCompletion
<1>1. SyncInv => AutoMarksCompletion
  BY DEF SyncInv, AutoIsCurrent, StampsVouch, AutoMarksCompletion, NeedSync
<1> QED BY <1>1, SyncInvariant, PTL

(* A make that succeeds, and during which nothing was edited, has every    *)
(* package configured with the current values of the symbols it names.     *)
THEOREM BuildsWhatIsConfigured ==
  ASSUME ~Interrupts PROVE Spec => []BuiltIsCurrent
<1>1. TypeInv /\ SyncInv => BuiltIsCurrent
  <2> SUFFICES ASSUME TypeInv, SyncInv, pc = "built", ~raced, NEW p \in Pkg
               PROVE  tree[p] = Settings(Current, p)
    BY DEF BuiltIsCurrent
  <2>1. tcstamp # None /\ stamp[p] = "ok"
    BY DEF SyncInv, DoneInOrder
  <2>2. auto = Current
    BY <2>1 DEF SyncInv, AutoIsCurrent, StampsVouch
  <2> QED BY <2>1, <2>2 DEF SyncInv, StampsVouch
<1> QED BY <1>1, TypeInvariant, SyncInvariant, PTL
=============================================================================
