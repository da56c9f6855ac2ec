------------------------------- MODULE AutoConf -------------------------------
(***************************************************************************)
(* How a change of .config reaches the packages.                           *)
(*                                                                         *)
(* make remakes include/config/auto.conf when .config, a Kconfig file or   *)
(* auto.conf.cmd is newer (Makefile, rule include/config/%.conf) by        *)
(* running "conf -s" (conf.c, confdata.c, util.c): it writes auto.conf.cmd,*)
(* touches include/config/<symbol>.h for every symbol whose value differs  *)
(* from the old auto.conf, and renames the new auto.conf into place last.  *)
(* Each package's .mkr.configured depends on the headers of the symbols    *)
(* its Makefile names (makefile-deps.awk), on .mkr.toolchain and on the    *)
(* .mkr.configured of the packages it build_depends on; when one is newer  *)
(* the package tree is erased and configured again (Makefile.pkgbuild).    *)
(*                                                                         *)
(* Modification times are modelled by what make asks of them: "newer" is   *)
(* the set of prerequisites newer than auto.conf, and a stamp is "old"     *)
(* when some prerequisite of it is newer.                                  *)
(***************************************************************************)
CONSTANTS
  Sym,        \* the Kconfig symbols
  Val,        \* their values
  No,         \* the value that is not written in auto.conf
  Kver,       \* the versions of the Kconfig files
  Calc,       \* Calc[k][c]: the values symbol.c computes from a .config
  ToolSym,    \* the symbols recorded in .mkr.toolchain
  Pkg,        \* the packages
  Uses,       \* Uses[p]: the symbols named in the Makefile of p
  BuildDep,   \* BuildDep[p]: the packages p build_depends on
  None,       \* a file that does not exist
  Partial,    \* a package tree that is being erased or configured
  Interrupts  \* does make get fatal signals (it then deletes its target)

Config == [Sym -> Val]

ASSUME ConfAssumption ==
  /\ No \in Val
  /\ ToolSym \subseteq Sym
  /\ None \notin Config /\ None \notin [ToolSym -> Val]
  /\ Calc \in [Kver -> [Config -> Config]]
  /\ \A k \in Kver, c \in Config : Calc[k][Calc[k][c]] = Calc[k][c]
  /\ Uses \in [Pkg -> SUBSET Sym]
  /\ BuildDep \in [Pkg -> SUBSET Pkg]
  /\ Interrupts \in BOOLEAN

VARIABLES
  config,     \* .config
  old,        \* .config.old
  kconfig,    \* the version of the Kconfig files
  cmd,        \* the values auto.conf.cmd was written from
  auto,       \* auto.conf
  newer,      \* the prerequisites of auto.conf that are newer than it
  tcstamp,    \* .mkr.toolchain
  stamp,      \* each package's .mkr.configured: "none", "old" or "ok"
  tree,       \* the values each package tree was configured with
  pc,         \* where make and the programs it runs are
  goal,       \* the target make was called for
  loaded,     \* the symbol values in the memory of conf
  todo,       \* the symbols whose header conf has still to touch
  tmp,        \* .tmpconfig
  newerTmp,   \* the prerequisites that are newer than .tmpconfig
  running,    \* the packages being configured
  done,       \* the packages this make is done with
  failed,     \* did a package fail in this make
  user,       \* history: what the user saved or conf accepted last
  raced       \* history: an edit came after make or conf -s last looked

files == <<config, old, kconfig, cmd, auto, newer>>
trees == <<tcstamp, stamp, tree>>
conf == <<loaded, todo, tmp, newerTmp>>
jobs == <<running, done, failed>>
vars == <<files, trees, pc, goal, conf, jobs, user, raced>>

(* The values a package tree can have been configured with.                *)
Configured == UNION {[Uses[p] -> Val] : p \in Pkg}

TypeOK ==
  /\ config \in Config \cup {None} /\ old \in Config \cup {None}
  /\ cmd \in Config \cup {None} /\ auto \in Config \cup {None}
  /\ loaded \in Config \cup {None} /\ tmp \in Config \cup {None}
  /\ user \in Config \cup {None}
  /\ kconfig \in Kver
  /\ newer \subseteq {"config", "cmd", "kconfig"}
  /\ newerTmp \subseteq {"config", "cmd", "kconfig"}
  /\ tcstamp \in [ToolSym -> Val] \cup {None}
  /\ stamp \in [Pkg -> {"none", "old", "ok"}]
  /\ tree \in [Pkg -> Configured \cup {None, Partial}]
  /\ pc \in {"idle", "check", "update", "replace", "dep", "split", "rename",
              "synced", "vars", "build", "built", "clean", "mrproper",
             "mrstamps", "mrtrees"}
  /\ goal \in {"all", "clean", "mrproper"}
  /\ todo \subseteq Sym
  /\ running \subseteq Pkg /\ done \subseteq Pkg
  /\ failed \in BOOLEAN /\ raced \in BOOLEAN

Init ==
  /\ config \in Config /\ user = config
  /\ old = None /\ cmd = None /\ auto = None
  /\ kconfig \in Kver
  /\ newer = {} /\ newerTmp = {}
  /\ tcstamp = None
  /\ stamp = [p \in Pkg |-> "none"]
  /\ tree = [p \in Pkg |-> None]
  /\ pc = "idle" /\ goal = "all"
  /\ loaded = None /\ tmp = None /\ todo = {}
  /\ running = {} /\ done = {} /\ failed = FALSE
  /\ raced = FALSE

-----------------------------------------------------------------------------
(* The user *)

(* make has not yet compared the times of its files, or does not run.      *)
Unread == {"idle", "check"}

(* menuconfig, a *_defconfig target or an editor writes .config.           *)
EditConfig(c) ==
  /\ config' = c
  /\ user' = c
  /\ newer' = newer \cup {"config"}
  /\ newerTmp' = IF tmp = None THEN {} ELSE newerTmp \cup {"config"}
  /\ raced' = (raced \/ pc \notin Unread)
  /\ UNCHANGED <<old, kconfig, cmd, auto, trees, pc, goal, loaded,
                 todo, tmp, jobs>>

(* The source tree is updated; the packages of changed have a new Kconfig  *)
(* file, which is a dependency of their stamp.                             *)
EditKconfig(k, changed) ==
  /\ k # kconfig
  /\ kconfig' = k
  /\ newer' = newer \cup {"kconfig"}
  /\ newerTmp' = IF tmp = None THEN {} ELSE newerTmp \cup {"kconfig"}
  /\ stamp' = [p \in Pkg |-> IF p \in changed /\ stamp[p] = "ok" THEN "old"
                             ELSE stamp[p]]
  /\ raced' = (raced \/ pc \notin Unread)
  /\ UNCHANGED <<config, old, cmd, auto, tcstamp, tree, pc, goal,
                 loaded, todo, tmp, jobs, user>>

-----------------------------------------------------------------------------
(* make includes auto.conf and remakes it first *)

(* make exits: what it and conf had in memory is gone.                     *)
Stop ==
  /\ pc' = "idle" /\ goal' = "all"
  /\ loaded' = None /\ tmp' = None /\ todo' = {} /\ newerTmp' = {}
  /\ running' = {} /\ done' = {} /\ failed' = FALSE

StartMake(g) ==
  /\ pc = "idle"
  /\ pc' = "check"
  /\ goal' = g
  /\ UNCHANGED <<files, trees, conf, jobs, user, raced>>

(* Mutation: the dependencies listed in auto.conf.cmd are not included.    *)
NeedSyncConfigOnly ==
  auto = None \/ config = None \/ cmd = None \/ newer \cap {"config", "cmd"} # {}

(* A prerequisite that does not exist and has an empty recipe counts as    *)
(* remade.                                                                 *)
NeedSync == auto = None \/ config = None \/ cmd = None \/ newer # {}

NoSync ==
  /\ pc = "check" /\ ~NeedSync
  /\ pc' = CASE goal = "all" -> "vars"
             [] goal = "clean" -> "build"
             [] goal = "mrproper" -> "mrproper"
  /\ done' = {} /\ failed' = FALSE
  /\ UNCHANGED <<files, trees, goal, conf, running, user, raced>>

(* conf -s refuses to run without a .config.                               *)
NotConfigured ==
  /\ pc = "check" /\ NeedSync /\ config = None
  /\ Stop
  /\ UNCHANGED <<files, trees, user, raced>>

(* conf_read; .config is written again only when a value differs.          *)
ReadConfig ==
  /\ pc = "check" /\ NeedSync /\ config # None
  /\ loaded' = Calc[kconfig][config]
  /\ pc' = IF loaded' = config THEN "dep" ELSE "update"
  /\ raced' = FALSE
  /\ UNCHANGED <<files, trees, goal, todo, tmp, newerTmp, jobs, user>>

(* Mutation: .config is unlinked instead of renamed.                       *)
UnlinkConfig ==
  /\ pc = "update"
  /\ config' = None
  /\ pc' = "replace"
  /\ UNCHANGED <<old, kconfig, cmd, auto, newer, trees, goal, conf, jobs, user,
                 raced>>

(* conf_write: the two renames.                                            *)
BackupConfig ==
  /\ pc = "update"
  /\ old' = config
  /\ config' = None
  /\ pc' = "replace"
  /\ UNCHANGED <<kconfig, cmd, auto, newer, trees, goal, conf, jobs,
                 user, raced>>

ReplaceConfig ==
  /\ pc = "replace"
  /\ config' = loaded
  /\ newer' = newer \cup {"config"}
  /\ user' = IF user = old \/ raced THEN loaded ELSE user
  /\ pc' = "dep"
  /\ UNCHANGED <<old, kconfig, cmd, auto, trees, goal, conf, jobs,
                 raced>>

(* A symbol without an old value is taken to have been unset.              *)
OldValue(s) == IF auto = None THEN No ELSE auto[s]

(* file_write_dep renames auto.conf.cmd; conf_split_config then compares   *)
(* the values with those of the old auto.conf.                             *)
WriteDep ==
  /\ pc = "dep"
  /\ cmd' = loaded
  /\ newer' = newer \cup {"cmd"}
  /\ todo' = {s \in Sym : loaded[s] # OldValue(s)}
  /\ pc' = "split"
  /\ UNCHANGED <<config, old, kconfig, auto, trees, goal, loaded,
                 tmp, newerTmp, jobs, user, raced>>

(* conf_split_config, one symbol: every stamp that depends on the header   *)
(* becomes old.                                                            *)
TouchHeader(s) ==
  /\ pc = "split" /\ s \in todo
  /\ todo' = todo \ {s}
  /\ stamp' = [p \in Pkg |-> IF s \in Uses[p] /\ stamp[p] = "ok" THEN "old"
                             ELSE stamp[p]]
  /\ UNCHANGED <<files, tcstamp, tree, pc, goal, loaded, tmp, newerTmp, jobs,
                 user, raced>>

(* Mutation: the result of conf_split_config is not looked at.             *)
WriteTmpEarly ==
  /\ pc = "split"
  /\ tmp' = loaded
  /\ todo' = {}
  /\ newerTmp' = {}
  /\ pc' = "rename"
  /\ UNCHANGED <<files, trees, goal, loaded, jobs, user, raced>>

(* conf_write_autoconf: both temporary files are written and closed.       *)
WriteTmp ==
  /\ pc = "split" /\ todo = {}
  /\ tmp' = loaded
  /\ newerTmp' = {}
  /\ pc' = "rename"
  /\ UNCHANGED <<files, trees, goal, loaded, todo, jobs, user, raced>>

(* Mutation: auto.conf keeps the time of the configuration it replaces.    *)
RenameAutoOldTime ==
  /\ pc = "rename"
  /\ auto' = tmp
  /\ loaded' = None /\ tmp' = None /\ newerTmp' = {}
  /\ pc' = "synced"
  /\ UNCHANGED <<config, old, kconfig, cmd, newer, trees, goal, todo, jobs,
                 user, raced>>

(* "This must be the last step": the time of auto.conf is that of the      *)
(* writing of .tmpconfig.                                                  *)
RenameAuto ==
  /\ pc = "rename"
  /\ auto' = tmp
  /\ newer' = newerTmp
  /\ loaded' = None /\ tmp' = None /\ newerTmp' = {}
  /\ pc' = "synced"
  /\ UNCHANGED <<config, old, kconfig, cmd, trees, goal, todo, jobs,
                 user, raced>>

(* The recipe ends; make executes itself again and reads the new files.    *)
Reexec ==
  /\ pc = "synced"
  /\ pc' = "check"
  /\ UNCHANGED <<files, trees, goal, conf, jobs, user, raced>>

(* A fatal signal before the recipe ends: GNU make deletes the target that *)
(* the recipe has changed.                                                 *)
Interrupt ==
  /\ Interrupts
  /\ pc = "synced"
  /\ auto' = None
  /\ Stop
  /\ UNCHANGED <<config, old, kconfig, cmd, newer, trees, user, raced>>

-----------------------------------------------------------------------------
(* Mutation: .mkr.toolchain records every variable.                        *)
CheckAllVariables ==
  /\ pc = "vars"
  /\ tcstamp' = auto
  /\ stamp' = IF tcstamp = auto THEN stamp
              ELSE [p \in Pkg |-> IF stamp[p] = "ok" THEN "old" ELSE stamp[p]]
  /\ pc' = "build"
  /\ UNCHANGED <<files, tree, goal, conf, jobs, user, raced>>

(* check-computed-variables: .mkr.toolchain is replaced when it differs.   *)
CheckVariables ==
  LET toolchain == [s \in ToolSym |-> auto[s]]
  IN  /\ pc = "vars"
      /\ tcstamp' = toolchain
      /\ stamp' = IF tcstamp = toolchain THEN stamp
                  ELSE [p \in Pkg |-> IF stamp[p] = "ok" THEN "old"
                                      ELSE stamp[p]]
      /\ pc' = "build"
      /\ UNCHANGED <<files, tree, goal, conf, jobs, user, raced>>

(* The jobs of one make: the configure step of each package, in the order  *)
(* of the build dependencies when the goal is to compile.                  *)
Waiting(p) == pc = "build" /\ ~failed /\ p \notin running \cup done

UpToDate(p) ==
  /\ Waiting(p)
  /\ stamp[p] = "ok"
  /\ goal = "all" => BuildDep[p] \subseteq done
  /\ done' = done \cup {p}
  /\ UNCHANGED <<files, trees, pc, goal, conf, running, failed, user, raced>>

(* Mutation: the tree is configured again without being erased.            *)
ConfigureInPlace(p) ==
  /\ Waiting(p)
  /\ stamp[p] # "ok"
  /\ goal = "all" => BuildDep[p] \subseteq done
  /\ running' = running \cup {p}
  /\ UNCHANGED <<files, trees, pc, goal, conf, done, failed, user, raced>>

(* "rm -Rf *", then configure.                                             *)
ConfigureStart(p) ==
  /\ Waiting(p)
  /\ stamp[p] # "ok"
  /\ goal = "all" => BuildDep[p] \subseteq done
  /\ running' = running \cup {p}
  /\ tree' = [tree EXCEPT ![p] = Partial]
  /\ UNCHANGED <<files, tcstamp, stamp, pc, goal, conf, done, failed, user,
                 raced>>

(* ": > .mkr.configured"; the packages that depend on this stamp are old.  *)
ConfigureDone(p) ==
  /\ p \in running
  /\ running' = running \ {p}
  /\ done' = done \cup {p}
  /\ tree' = [tree EXCEPT ![p] = [s \in Uses[p] |-> auto[s]]]
  /\ stamp' = [q \in Pkg |->
                 IF q = p THEN "ok"
                 ELSE IF p \in BuildDep[q] /\ stamp[q] = "ok" THEN "old"
                 ELSE stamp[q]]
  /\ UNCHANGED <<files, tcstamp, pc, goal, conf, failed, user, raced>>

(* configure fails: no stamp, and make starts nothing more.                *)
ConfigureFails(p) ==
  /\ p \in running
  /\ running' = running \ {p}
  /\ failed' = TRUE
  /\ UNCHANGED <<files, trees, pc, goal, conf, done, user, raced>>

MakeFails ==
  /\ pc = "build" /\ failed /\ running = {}
  /\ Stop
  /\ UNCHANGED <<files, trees, user, raced>>

MakeDone ==
  /\ pc = "build" /\ ~failed /\ done = Pkg
  /\ pc' = IF goal = "all" THEN "built" ELSE "clean"
  /\ UNCHANGED <<files, trees, goal, conf, jobs, user, raced>>

Exit ==
  /\ pc = "built"
  /\ Stop
  /\ UNCHANGED <<files, trees, user, raced>>

-----------------------------------------------------------------------------
(* make clean: once a package is configured, default-autotools-clean       *)
(* removes its stamp; .mkr.toolchain goes last.                            *)
CleanPackage(p) ==
  /\ goal = "clean" /\ pc = "build"
  /\ p \in done /\ stamp[p] # "none"
  /\ stamp' = [stamp EXCEPT ![p] = "none"]
  /\ tree' = [tree EXCEPT ![p] = None]
  /\ UNCHANGED <<files, tcstamp, pc, goal, conf, jobs, user, raced>>

CleanEnd ==
  /\ pc = "clean"
  /\ tcstamp' = None
  /\ Stop
  /\ UNCHANGED <<files, stamp, tree, user, raced>>

(* make mrproper: "rm -Rf .config .mkr.* *" removes its arguments in       *)
(* order, and what is in the directories in any order.                     *)
RemoveConfig ==
  /\ pc = "mrproper"
  /\ config' = None /\ user' = None
  /\ pc' = "mrstamps"
  /\ UNCHANGED <<old, kconfig, cmd, auto, newer, trees, goal, conf,
                 jobs, raced>>

RemoveStamps ==
  /\ pc = "mrstamps"
  /\ tcstamp' = None
  /\ pc' = "mrtrees"
  /\ UNCHANGED <<files, stamp, tree, goal, conf, jobs, user, raced>>

RemoveInclude ==
  /\ pc = "mrtrees"
  /\ \/ auto' = None /\ UNCHANGED cmd
     \/ cmd' = None /\ UNCHANGED auto
  /\ UNCHANGED <<config, old, kconfig, newer, trees, pc, goal, conf, jobs, user,
                 raced>>

RemoveTree(p) ==
  /\ pc = "mrtrees"
  /\ \/ tree[p] # None /\ tree' = [tree EXCEPT ![p] = Partial]
        /\ UNCHANGED stamp
     \/ /\ tree' = [tree EXCEPT ![p] = None]
        /\ stamp' = [stamp EXCEPT ![p] = "none"]
  /\ UNCHANGED <<files, tcstamp, pc, goal, conf, jobs, user, raced>>

RemoveEnd ==
  /\ pc = "mrtrees"
  /\ auto = None /\ cmd = None
  /\ \A p \in Pkg : stamp[p] = "none" /\ tree[p] = None
  /\ Stop
  /\ UNCHANGED <<files, trees, user, raced>>

-----------------------------------------------------------------------------
(* Everything that runs is killed, or conf fails between two steps.        *)
Crash ==
  /\ pc # "idle"
  /\ Stop
  /\ UNCHANGED <<files, trees, user, raced>>

Edit ==
  \/ \E c \in Config : EditConfig(c)
  \/ \E k \in Kver, P \in SUBSET Pkg : EditKconfig(k, P)

Sync ==
  \/ NoSync \/ NotConfigured \/ ReadConfig \/ BackupConfig \/ ReplaceConfig
  \/ WriteDep \/ (\E s \in Sym : TouchHeader(s)) \/ WriteTmp
  \/ RenameAuto \/ Reexec

Build ==
  \/ CheckVariables \/ MakeFails \/ MakeDone \/ Exit
  \/ \E p \in Pkg : \/ UpToDate(p) \/ ConfigureStart(p) \/ ConfigureDone(p)
                     \/ ConfigureFails(p) \/ CleanPackage(p)

Remove ==
  \/ CleanEnd \/ RemoveConfig \/ RemoveStamps \/ RemoveInclude \/ RemoveEnd
  \/ \E p \in Pkg : RemoveTree(p)

Next ==
  \/ Edit \/ Sync \/ Build \/ Remove \/ Interrupt \/ Crash
  \/ \E g \in {"all", "clean", "mrproper"} : StartMake(g)

Spec == Init /\ [][Next]_vars

(* The programs make runs go on, and its jobs end.                         *)
FairSpec == Spec /\ WF_vars(Sync) /\ WF_vars(Build)

-----------------------------------------------------------------------------
(* The values a configuration stands for now.                              *)
Current == Calc[kconfig][config]

Settings(c, p) == [s \in Uses[p] |-> c[s]]

(* A make that succeeds leaves every package configured with the current   *)
(* values of the symbols its Makefile names, whatever crashed, was cleaned *)
(* or was edited before. An edit while make runs is for the next make, and *)
(* when it comes while conf -s runs, for the make after the next edit.     *)
BuiltIsCurrent ==
  pc = "built" /\ ~raced =>
    \A p \in Pkg : tree[p] = Settings(Current, p)

(* The renaming of auto.conf "marks the successful completion of the       *)
(* previous steps": with no newer prerequisite, auto.conf.cmd is of the    *)
(* same values, and every stamp that is not old belongs to a tree that was *)
(* configured with them.                                                   *)
AutoMarksCompletion ==
  auto # None /\ ~NeedSync =>
    /\ cmd = auto
    /\ \A p \in Pkg : stamp[p] = "ok" /\ tcstamp # None =>
         tree[p] = Settings(auto, p)

(* A crash of conf_write never loses the last configuration that was       *)
(* saved: at each point .config or .config.old holds it.                   *)
ConfigKept == user # None => user \in {config, old}

(* A value is only overwritten in a tree by erasing the tree.              *)
TreeErasedFirst ==
  [][\A p \in Pkg : tree[p]' # tree[p] => tree[p]' \in {None, Partial}
                                          \/ tree[p] = Partial]_vars

(* Remaking auto.conf does not make make run conf -s again and again, and  *)
(* the jobs end: once the user stops editing, every make ends.             *)
MakeEnds ==
  <>[][~Edit]_vars => (pc = "check" /\ goal = "all" ~> pc = "idle")
-----------------------------------------------------------------------------
(* What the proofs rest on: strengthenings of the type invariant and of the *)
(* properties above that every step preserves.                             *)

(* conf holds values from the reading of .config to the renaming, and make *)
(* has read an auto.conf when it starts to build.                          *)
Memory ==
  /\ pc \in {"update", "replace", "dep", "split", "rename"} => loaded \in Config
  /\ pc = "rename" => tmp = loaded
  /\ pc \in {"vars", "build", "built"} => auto \in Config
  /\ running # {} => pc = "build"
  /\ running \cap done = {}

TypeInv == TypeOK /\ Memory

(* Between the two renames of conf_write, .config.old holds the            *)
(* configuration, unless an edit has just written a new .config.           *)
KeptInv ==
  /\ user # None => user = config \/ (config = None /\ user = old)
  /\ pc = "update" => config # None
  /\ pc = "replace" => config = None \/ raced

(* A package is erased before it is configured.                            *)
ErasedInv == \A p \in running : tree[p] = Partial

(* What conf holds in memory is what .config stands for, unless an edit    *)
(* came in between.                                                        *)
LoadedIsCurrent ==
  ~raced =>
    /\ pc = "update" => config # None /\ loaded = Current
    /\ pc = "replace" => Calc[kconfig][loaded] = loaded
    /\ pc \in {"dep", "split", "rename"} => config # None /\ loaded = Current

(* auto.conf is up to date when nothing is newer, and so is auto.conf.cmd. *)
AutoIsCurrent ==
  /\ auto # None /\ newer = {} /\ config # None =>
       cmd = auto /\ (~raced => auto = Current)
  /\ pc \in {"split", "rename"} => cmd = loaded /\ newer # {}
  /\ pc = "dep" => newer # {} \/ auto = None
  /\ pc \in {"mrstamps", "mrtrees"} => config = None \/ newer # {}
  /\ pc \in {"vars", "build", "built"} =>
       config # None /\ (~raced => newer = {})

(* A stamp that is not old vouches for its tree; while conf -s runs, for   *)
(* the symbols whose header is not yet touched it does so only in auto.conf*)
(* of old.                                                                 *)
StampsVouch ==
  /\ tcstamp # None =>
       /\ auto # None
       /\ \A p \in Pkg : stamp[p] = "ok" =>
            /\ tree[p] = Settings(auto, p)
            /\ pc \in {"split", "rename"} =>
                 \A s \in Uses[p] : loaded[s] = auto[s] \/ s \in todo
  /\ pc = "rename" => todo = {}
  /\ pc = "mrtrees" => tcstamp = None
  /\ \A p \in running : stamp[p] # "ok"

(* In a build, a package is done after the packages it depends on, and its *)
(* stamp stays good.                                                       *)
DoneInOrder ==
  /\ pc = "vars" => done = {}
  /\ pc = "built" => goal = "all" /\ done = Pkg
  /\ goal = "all" /\ pc \in {"build", "built"} =>
       /\ tcstamp # None
       /\ \A p \in running \cup done : BuildDep[p] \subseteq done
       /\ ~raced => \A p \in done : stamp[p] = "ok"

SyncInv == LoadedIsCurrent /\ AutoIsCurrent /\ StampsVouch /\ DoneInOrder
=============================================================================
