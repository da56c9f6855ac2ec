-------------------------------- MODULE Staging --------------------------------
(***************************************************************************)
(* How the packages reach the staging and rootfs directories, which they   *)
(* share (Makefile, rules %/compile, %/staging, %/rootfs, %/clean, clean   *)
(* and clean-removed-packages; build-tools/Makefile.pkgbuild).             *)
(*                                                                         *)
(* The recipes of different packages run in parallel, ordered only by      *)
(* "A/compile: B/staging" for each B that A build_depends on.  A package is*)
(* compiled, installed in its own .mkr.inst, the files that it installed   *)
(* the last time and not now are removed, .mkr.filelist is replaced, and   *)
(* .mkr.inst is copied to staging; later what is needed at run time is     *)
(* copied to rootfs.                                                       *)
(*                                                                         *)
(* .mkr.dirlist and the directories are left out, and so are the fakeroot  *)
(* save files.  "todo" is what is left of the loop over a list of files    *)
(* that a recipe is in.                                                    *)
(*                                                                         *)
(* The rsync of %/rootfs opens a file of staging, copies it in a temporary *)
(* file of rootfs, and renames that: the file may be removed from staging  *)
(* and from rootfs meanwhile.  "late" records the files it brings to rootfs*)
(* after they left staging; no guard depends on it.                        *)
(***************************************************************************)
CONSTANTS
  Pkg,        \* the packages
  File,       \* the files they install
  Content,    \* what a file can contain
  None,       \* the content of a file that does not exist
  Makes,      \* Makes[p]: the installations that compiling p can lead to
  BuildDep,   \* BuildDep[p]: the packages p build_depends on
  Runtime,    \* Runtime[p]: the files that p's rootfs rule copies
  RsyncFails  \* the packages whose copy to staging can fail

Installation == [File -> Content \cup {None}]
Nothing == [f \in File |-> None]
Files(i) == {f \in File : i[f] # None}

(* What p can ever install.                                                *)
Own(p) == UNION {Files(i) : i \in Makes[p]}

(* The packages that are on include those they build_depend on.            *)
Closed(P) == \A p \in P : BuildDep[p] \subseteq P

(* What make remakes for the goals G: the least closed set they are in.    *)
Needed(P, G) == {p \in P : \A C \in SUBSET P : G \subseteq C /\ Closed(C) => p \in C}

ASSUME StagingAssumption ==
  /\ None \notin Content
  /\ Makes \in [Pkg -> SUBSET Installation]
  /\ BuildDep \in [Pkg -> SUBSET Pkg]
  /\ Runtime \in [Pkg -> SUBSET File]
  /\ RsyncFails \subseteq Pkg

VARIABLES
  make,       \* what make does: "idle", "build", "done" or "clean"
  packages,   \* the packages that are on in this make
  needed,     \* those it compiles and stages
  goals,      \* those it was called for, and installs in rootfs
  pc,         \* where the recipes of each package are
  todo,       \* the files left in the loop of p's recipe
  copying,    \* the files that p's rootfs rule has opened, and not renamed
  built,      \* what the compiled tree of p installs
  inst,       \* p's .mkr.inst
  list,       \* p's .mkr.filelist
  staging,    \* the staging directory
  rootfs,     \* the files of the rootfs directory
  late,       \* (history) those copied from staging after they left it
  failed,     \* did a recipe of this make fail
  gone        \* where the recipe of clean-removed-packages is

call == <<make, packages, needed, goals>>
dirs == <<staging, rootfs, late>>
vars == <<call, pc, todo, copying, built, inst, list, dirs, failed, gone>>

TypeOK ==
  /\ make \in {"idle", "build", "done", "clean"}
  /\ packages \subseteq Pkg /\ needed \subseteq Pkg /\ goals \subseteq Pkg
  /\ pc \in [Pkg -> {"idle", "compile", "compiled", "stale", "rsync", "undo",
                     "staged", "copy", "rooted", "failed",
                     "cleanroot", "cleanlist", "cleaned"}]
  /\ todo \in [Pkg -> SUBSET File]
  /\ copying \in [Pkg -> SUBSET File]
  /\ built \in [Pkg -> Installation]
  /\ inst \in [Pkg -> Installation]
  /\ list \in [Pkg -> SUBSET File]
  /\ staging \in Installation
  /\ rootfs \subseteq File
  /\ late \subseteq File
  /\ failed \in BOOLEAN
  /\ gone \in {"idle", "rootfs", "lists", "done"}

Init ==
  /\ make = "idle" /\ packages = {} /\ needed = {} /\ goals = {}
  /\ pc = [p \in Pkg |-> "idle"]
  /\ todo = [p \in Pkg |-> {}]
  /\ copying = [p \in Pkg |-> {}]
  /\ built = [p \in Pkg |-> Nothing]
  /\ inst = [p \in Pkg |-> Nothing]
  /\ list = [p \in Pkg |-> {}]
  /\ staging = Nothing
  /\ rootfs = {}
  /\ late = {}
  /\ failed = FALSE
  /\ gone = "idle"

(* What is still late of L after a step that changes staging or rootfs: a  *)
(* file is no more late when it is removed from rootfs, or staged again.   *)
Trace(L) == late' = {f \in L : f \in rootfs' /\ staging'[f] = None}

Remove(f) ==
  /\ staging' = [staging EXCEPT ![f] = None]
  /\ rootfs' = rootfs \ {f}
  /\ Trace(late)

-----------------------------------------------------------------------------
(* One make *)

(* The user enables the packages of P and calls "make", or makes some of   *)
(* the packages only.                                                      *)
StartBuild(P, G) ==
  /\ make = "idle"
  /\ Closed(P)
  /\ G \subseteq P /\ (G = {} => P = {})
  /\ make' = "build"
  /\ packages' = P /\ goals' = G /\ needed' = Needed(P, G)
  /\ UNCHANGED <<pc, todo, copying, built, inst, list, dirs, failed, gone>>

(* make exits; its jobs are gone.                                          *)
Stop ==
  /\ make' = "idle" /\ packages' = {} /\ needed' = {} /\ goals' = {}
  /\ pc' = [p \in Pkg |-> "idle"]
  /\ todo' = [p \in Pkg |-> {}]
  /\ copying' = [p \in Pkg |-> {}]
  /\ failed' = FALSE
  /\ gone' = "idle"

Staged == {"staged", "copy", "rooted"}

(* After a failure the jobs that run end, and no new one is started.       *)
Idle(p) == pc[p] \in {"idle", "compiled", "staged", "rooted", "failed"}

BuildDone ==
  /\ make = "build" /\ ~failed
  /\ \A p \in needed : pc[p] = IF p \in goals THEN "rooted" ELSE "staged"
  /\ gone = "done"
  /\ make' = "done"
  /\ UNCHANGED <<packages, needed, goals, pc, todo, copying, built, inst, list, dirs,
                 failed, gone>>

BuildFails ==
  /\ make = "build" /\ failed
  /\ \A p \in Pkg : Idle(p)
  /\ gone \in {"idle", "done"}
  /\ Stop
  /\ UNCHANGED <<built, inst, list, dirs>>

Exit ==
  /\ make = "done"
  /\ Stop
  /\ UNCHANGED <<built, inst, list, dirs>>

(* Everything is killed.                                                   *)
Crash ==
  /\ make # "idle"
  /\ Stop
  /\ UNCHANGED <<built, inst, list, dirs>>

-----------------------------------------------------------------------------
(* %/compile *)

(* Mutation: A/compile waits for B/compile.                                *)
CompileAfterCompile(p) ==
  /\ make = "build" /\ ~failed
  /\ p \in needed /\ pc[p] = "idle"
  /\ \A q \in BuildDep[p] : pc[q] \notin {"idle", "compile"}
  /\ pc' = [pc EXCEPT ![p] = "compile"]
  /\ UNCHANGED <<call, todo, copying, built, inst, list, dirs, failed, gone>>

(* Mutation: A/compile waits for B/rootfs.                                 *)
CompileAfterRootfs(p) ==
  /\ make = "build" /\ ~failed
  /\ p \in needed /\ pc[p] = "idle"
  /\ \A q \in BuildDep[p] : pc[q] = "rooted"
  /\ pc' = [pc EXCEPT ![p] = "compile"]
  /\ UNCHANGED <<call, todo, copying, built, inst, list, dirs, failed, gone>>

CompileStart(p) ==
  /\ make = "build" /\ ~failed
  /\ p \in needed /\ pc[p] = "idle"
  /\ \A q \in BuildDep[p] : pc[q] \in Staged
  /\ pc' = [pc EXCEPT ![p] = "compile"]
  /\ UNCHANGED <<call, todo, copying, built, inst, list, dirs, failed, gone>>

CompileDone(p, i) ==
  /\ pc[p] = "compile"
  /\ built' = [built EXCEPT ![p] = i]
  /\ pc' = [pc EXCEPT ![p] = "compiled"]
  /\ UNCHANGED <<call, todo, copying, inst, list, dirs, failed, gone>>

CompileFails(p) ==
  /\ pc[p] = "compile"
  /\ failed' = TRUE
  /\ pc' = [pc EXCEPT ![p] = "failed"]
  /\ UNCHANGED <<call, todo, copying, built, inst, list, dirs, gone>>

-----------------------------------------------------------------------------
(* %/staging *)

(* What .mkr.inst holds when the files F of p are installed over what a    *)
(* recipe that was stopped may have left there.                            *)
Installed(p, F) ==
  [f \in File |-> IF f \in F THEN built[p][f] ELSE inst[p][f]]

(* .mkr.newfilelist is made, and compared with the list of the last time.  *)
Install(p) ==
  /\ make = "build" /\ ~failed
  /\ pc[p] = "compiled"
  /\ inst' = [inst EXCEPT ![p] = Installed(p, Files(built[p]))]
  /\ todo' = [todo EXCEPT ![p] = list[p] \ Files(inst'[p])]
  /\ pc' = [pc EXCEPT ![p] = "stale"]
  /\ UNCHANGED <<call, copying, built, list, dirs, failed, gone>>

(* The installation stops part way; the recipe exits with .mkr.inst there. *)
InstallFails(p, F) ==
  /\ make = "build" /\ ~failed
  /\ pc[p] = "compiled"
  /\ F \subseteq Files(built[p])
  /\ inst' = [inst EXCEPT ![p] = Installed(p, F)]
  /\ failed' = TRUE
  /\ pc' = [pc EXCEPT ![p] = "failed"]
  /\ UNCHANGED <<call, todo, copying, built, list, dirs, gone>>

(* "comm -2 -3 ... | xargs -n 1 rm -f staging/{} rootfs/{}"                *)
RemoveStale(p, f) ==
  /\ pc[p] = "stale" /\ f \in todo[p]
  /\ Remove(f)
  /\ todo' = [todo EXCEPT ![p] = @ \ {f}]
  /\ UNCHANGED <<call, pc, copying, built, inst, list, failed, gone>>

MoveLists(p) ==
  /\ pc[p] = "stale" /\ todo[p] = {}
  /\ list' = [list EXCEPT ![p] = Files(inst[p])]
  /\ todo' = [todo EXCEPT ![p] = Files(inst[p])]
  /\ pc' = [pc EXCEPT ![p] = "rsync"]
  /\ UNCHANGED <<call, copying, built, inst, dirs, failed, gone>>

(* Mutation: files that are already there are not compared (no -c).        *)
RsyncIgnoreExisting(p, f) ==
  /\ pc[p] = "rsync" /\ f \in todo[p]
  /\ staging' = [staging EXCEPT ![f] = IF @ = None THEN inst[p][f] ELSE @]
  /\ todo' = [todo EXCEPT ![p] = @ \ {f}]
  /\ UNCHANGED <<call, pc, copying, built, inst, list, rootfs, failed, gone>>
  /\ Trace(late)

RsyncFile(p, f) ==
  /\ pc[p] = "rsync" /\ f \in todo[p]
  /\ staging' = [staging EXCEPT ![f] = inst[p][f]]
  /\ todo' = [todo EXCEPT ![p] = @ \ {f}]
  /\ UNCHANGED <<call, pc, copying, built, inst, list, rootfs, failed, gone>>
  /\ Trace(late)

(* "rsync failed, please try again"                                        *)
RsyncStops(p) ==
  /\ p \in RsyncFails /\ pc[p] = "rsync"
  /\ todo' = [todo EXCEPT ![p] = list[p]]
  /\ pc' = [pc EXCEPT ![p] = "undo"]
  /\ UNCHANGED <<call, copying, built, inst, list, dirs, failed, gone>>

UndoFile(p, f) ==
  /\ pc[p] = "undo" /\ f \in todo[p]
  /\ Remove(f)
  /\ todo' = [todo EXCEPT ![p] = @ \ {f}]
  /\ UNCHANGED <<call, pc, copying, built, inst, list, failed, gone>>

(* Mutation: .mkr.inst is removed, but taken to be an empty directory.     *)
ForgetInst(p) ==
  /\ pc[p] \in {"rsync", "undo"} /\ todo[p] = {}
  /\ inst' = [inst EXCEPT ![p] = None]
  /\ pc' = [pc EXCEPT ![p] = "staged"]
  /\ UNCHANGED <<call, todo, copying, built, list, dirs, failed, gone>>

(* "rm -Rf $$mkr_pkginst" ends the recipe, and its status is the recipe's. *)
RemoveInst(p) ==
  /\ pc[p] \in {"rsync", "undo"} /\ todo[p] = {}
  /\ inst' = [inst EXCEPT ![p] = Nothing]
  /\ pc' = [pc EXCEPT ![p] = "staged"]
  /\ UNCHANGED <<call, todo, copying, built, list, dirs, failed, gone>>

-----------------------------------------------------------------------------
(* %/rootfs *)

(* The shell lists what there is to copy.                                  *)
CopyStart(p) ==
  /\ make = "build" /\ ~failed
  /\ p \in goals /\ pc[p] = "staged"
  /\ todo' = [todo EXCEPT ![p] = Runtime[p] \cap Files(staging)]
  /\ pc' = [pc EXCEPT ![p] = "copy"]
  /\ UNCHANGED <<call, copying, built, inst, list, dirs, failed, gone>>

(* rsync opens the file of staging, and makes a temporary file of rootfs.  *)
CopyFile(p, f) ==
  /\ pc[p] = "copy" /\ f \in todo[p]
  /\ staging[f] # None
  /\ todo' = [todo EXCEPT ![p] = @ \ {f}]
  /\ copying' = [copying EXCEPT ![p] = @ \cup {f}]
  /\ UNCHANGED <<call, pc, built, inst, list, dirs, failed, gone>>

(* -u, or the times and the sizes are the same: there is nothing to copy.  *)
CopySkips(p, f) ==
  /\ pc[p] = "copy" /\ f \in todo[p]
  /\ f \in rootfs
  /\ todo' = [todo EXCEPT ![p] = @ \ {f}]
  /\ UNCHANGED <<call, pc, copying, built, inst, list, dirs, failed, gone>>

(* rsync renames the temporary file.                                       *)
RenameCopy(p, f) ==
  /\ pc[p] = "copy" /\ f \in copying[p]
  /\ copying' = [copying EXCEPT ![p] = @ \ {f}]
  /\ rootfs' = rootfs \cup {f}
  /\ UNCHANGED <<call, pc, todo, built, inst, list, staging, failed, gone>>
  /\ Trace(late \cup {f})

(* A file that has vanished makes rsync fail, and anything else may.  The  *)
(* recipe then removes files relative to the build directory of the        *)
(* package, where there is no staging directory: nothing is removed here.  *)
CopyAborts(p) ==
  /\ failed' = TRUE
  /\ todo' = [todo EXCEPT ![p] = {}]
  /\ copying' = [copying EXCEPT ![p] = {}]
  /\ pc' = [pc EXCEPT ![p] = "failed"]
  /\ UNCHANGED <<call, built, inst, list, dirs, gone>>

CopyFails(p) == pc[p] = "copy" /\ CopyAborts(p)

CopyVanished(p, f) ==
  /\ pc[p] = "copy" /\ f \in todo[p]
  /\ staging[f] = None
  /\ CopyAborts(p)

CopyDone(p) ==
  /\ pc[p] = "copy" /\ todo[p] = {} /\ copying[p] = {}
  /\ pc' = [pc EXCEPT ![p] = "rooted"]
  /\ UNCHANGED <<call, todo, copying, built, inst, list, dirs, failed, gone>>

-----------------------------------------------------------------------------
(* clean-removed-packages *)

Off == Pkg \ packages

OffFiles == UNION {list[p] : p \in Off}

DropStaging ==
  /\ make = "build" /\ ~failed /\ gone = "idle"
  /\ staging' = [f \in File |-> IF f \in OffFiles THEN None ELSE staging[f]]
  /\ gone' = "rootfs"
  /\ UNCHANGED <<call, pc, todo, copying, built, inst, list, rootfs, failed>>
  /\ Trace(late)

(* Mutation: only staging is cleaned of the packages that are off.         *)
DropNothing ==
  /\ gone = "rootfs"
  /\ gone' = "lists"
  /\ UNCHANGED <<call, pc, todo, copying, built, inst, list, dirs, failed>>

DropRootfs ==
  /\ gone = "rootfs"
  /\ rootfs' = rootfs \ OffFiles
  /\ gone' = "lists"
  /\ UNCHANGED <<call, pc, todo, copying, built, inst, list, staging, failed>>
  /\ Trace(late)

DropLists ==
  /\ gone = "lists"
  /\ list' = [p \in Pkg |-> IF p \in Off THEN {} ELSE list[p]]
  /\ gone' = "done"
  /\ UNCHANGED <<call, pc, todo, copying, built, inst, dirs, failed>>

-----------------------------------------------------------------------------
(* make clean: %/clean for the packages that are on, then everything *)

StartClean(P) ==
  /\ make = "idle"
  /\ Closed(P)
  /\ make' = "clean"
  /\ packages' = P
  /\ UNCHANGED <<needed, goals, pc, todo, copying, built, inst, list, dirs,
                 failed, gone>>

CleanStaging(p) ==
  /\ make = "clean" /\ p \in packages /\ pc[p] = "idle"
  /\ staging' = [f \in File |-> IF f \in list[p] THEN None ELSE staging[f]]
  /\ pc' = [pc EXCEPT ![p] = "cleanroot"]
  /\ UNCHANGED <<call, todo, copying, built, inst, list, rootfs, failed, gone>>
  /\ Trace(late)

CleanRootfs(p) ==
  /\ pc[p] = "cleanroot"
  /\ rootfs' = rootfs \ list[p]
  /\ pc' = [pc EXCEPT ![p] = "cleanlist"]
  /\ UNCHANGED <<call, todo, copying, built, inst, list, staging, failed, gone>>
  /\ Trace(late)

(* Mutation: .mkr.filelist goes before the files of rootfs.                *)
CleanListEarly(p) ==
  /\ pc[p] = "cleanroot"
  /\ list' = [list EXCEPT ![p] = {}]
  /\ pc' = [pc EXCEPT ![p] = "cleaned"]
  /\ UNCHANGED <<call, todo, copying, built, inst, dirs, failed, gone>>

CleanList(p) ==
  /\ pc[p] = "cleanlist"
  /\ list' = [list EXCEPT ![p] = {}]
  /\ pc' = [pc EXCEPT ![p] = "cleaned"]
  /\ UNCHANGED <<call, todo, copying, built, inst, dirs, failed, gone>>

(* "rm -Rf staging/* rootfs/*": the lists of packages that are off stay.   *)
CleanAll ==
  /\ make = "clean" /\ \A p \in packages : pc[p] = "cleaned"
  /\ staging' = Nothing
  /\ rootfs' = {}
  /\ Stop
  /\ UNCHANGED <<built, inst, list>>
  /\ Trace(late)

-----------------------------------------------------------------------------
Start ==
  \/ \E P \in SUBSET Pkg : StartClean(P) \/ \E G \in SUBSET P : StartBuild(P, G)

Recipe(p) ==
  \/ CompileStart(p) \/ (\E i \in Makes[p] : CompileDone(p, i)) \/ Install(p)
  \/ MoveLists(p) \/ RemoveInst(p) \/ CopyStart(p) \/ CopyDone(p)
  \/ CleanStaging(p) \/ CleanRootfs(p) \/ CleanList(p)
  \/ \E f \in File : \/ RemoveStale(p, f) \/ RsyncFile(p, f) \/ UndoFile(p, f)
                      \/ CopyFile(p, f) \/ CopySkips(p, f)
                      \/ RenameCopy(p, f) \/ CopyVanished(p, f)

Failure(p) ==
  \/ CompileFails(p) \/ RsyncStops(p) \/ CopyFails(p)
  \/ \E F \in SUBSET File : InstallFails(p, F)

Make ==
  \/ DropStaging \/ DropRootfs \/ DropLists
  \/ BuildDone \/ BuildFails \/ Exit \/ CleanAll

Next ==
  \/ Start \/ Make \/ Crash
  \/ \E p \in Pkg : Recipe(p) \/ Failure(p)

Spec == Init /\ [][Next]_vars

(* make starts the jobs that are ready, and each of them goes on.          *)
FairSpec == Spec /\ WF_vars(Make) /\ \A p \in Pkg : WF_vars(Recipe(p))

-----------------------------------------------------------------------------
(* f is in a directory, and not only because its copy came late.           *)
Present(f) == staging[f] # None \/ f \in rootfs \ late

(* Whatever is killed or fails, a file of staging or of rootfs is in the   *)
(* .mkr.filelist of some package, so that the rule that cleans the package,*)
(* removes it or restages it knows of the file.  The only way around it is *)
(* that of "late": the file was removed from staging, by whichever rule,   *)
(* while the rsync of a %/rootfs had it open.                              *)
Accounted == \A f \in File : Present(f) => \E p \in Pkg : f \in list[p]

(* The installation of p is complete in staging.                           *)
Complete(p) == \A f \in Files(built[p]) : staging[f] = built[p][f]

(* "If a package A build_depends on package B, package A's compilation will*)
(* not be started before the completion of the staging step of package B": *)
(* while A is compiled, what B installs in this make is in staging.        *)
DependenciesStaged ==
  \A p \in Pkg : pc[p] = "compile" => \A q \in BuildDep[p] : Complete(q)

(* When make succeeds, every package it made, and whose copy cannot fail,  *)
(* is complete, whoever else was removing, copying or undoing copies, and  *)
(* whatever happened before.                                               *)
DoneIsComplete ==
  make = "done" => \A p \in needed \ RsyncFails : Complete(p)

(* When make succeeds, each file that staging and rootfs have belongs to a *)
(* package that is on, although the recipes of these were copying while    *)
(* clean-removed-packages removed the files of the others: it missed none  *)
(* but those that rsync had open then, which are late.                     *)
NothingOfRemoved ==
  make = "done" =>
    \A f \in File : Present(f) => \E p \in packages : f \in list[p]

(* Every make ends, however its jobs are scheduled and whichever fail.     *)
MakeEnds == make = "build" ~> make = "idle"
-----------------------------------------------------------------------------
(* What the proofs rest on: the properties above, strengthened so that     *)
(* every step preserves them.                                              *)

(* Which recipes run in which make, and on which packages.                 *)
Control ==
  /\ needed \subseteq packages
  /\ gone \in {"rootfs", "lists"} => make = "build"
  /\ make = "done" => gone = "done" /\ \A p \in needed : pc[p] \in {"staged", "rooted"}
  /\ \A p \in Pkg :
       /\ pc[p] # "idle" => p \in packages /\ make # "idle"
       /\ pc[p] \in {"cleanroot", "cleanlist", "cleaned"} <=>
            make = "clean" /\ pc[p] # "idle"
  /\ make \in {"idle", "clean"} => gone = "idle" /\ needed = {}

(* f is in the list of p, and p's recipe is not about to drop it from there.*)
Keeps(p, f) ==
  /\ f \in list[p]
  /\ pc[p] = "stale" => f \in Files(inst[p]) \/ f \in todo[p]

(* Each file is kept by a package: by one that is on, as soon as those of  *)
(* the others are dropped.                                                 *)
Kept ==
  /\ \A f \in File : Present(f) => \E p \in Pkg : Keeps(p, f)
  /\ gone = "rootfs" =>
       \A f \in File : staging[f] # None => \E p \in packages : Keeps(p, f)
  /\ gone \in {"lists", "done"} =>
       \A f \in File : Present(f) => \E p \in packages : Keeps(p, f)
  /\ \A p \in Pkg :
       /\ pc[p] = "rsync" => list[p] = Files(inst[p]) /\ todo[p] \subseteq list[p]
       /\ pc[p] = "cleanroot" => \A f \in list[p] : staging[f] = None
       /\ pc[p] = "cleanlist" => \A f \in list[p] : ~Present(f)

AccountInv == TypeOK /\ Control /\ Kept

(* No two packages install the same file.                                  *)
Disjoint == \A p, q \in Pkg : p # q => Own(p) \cap Own(q) = {}

(* What a recipe works on is p's own.                                      *)
OwnFiles ==
  \A p \in Pkg :
    /\ Files(built[p]) \subseteq Own(p) /\ Files(inst[p]) \subseteq Own(p)
    /\ list[p] \subseteq Own(p)
    /\ pc[p] \in {"stale", "rsync", "undo"} => todo[p] \subseteq Own(p)
    /\ pc[p] = "undo" => p \in RsyncFails

(* Unless its copy can fail, p is complete once it is staged, and stays so *)
(* while it is depended on.                                                *)
CompleteInv ==
  \A p \in Pkg :
    /\ pc[p] \in {"stale", "rsync"} =>
         \A f \in Files(built[p]) : inst[p][f] = built[p][f]
    /\ pc[p] = "rsync" =>
         \A f \in Files(inst[p]) : f \in todo[p] \/ staging[f] = inst[p][f]
    /\ pc[p] \in Staged /\ p \notin RsyncFails => Complete(p)
    /\ pc[p] = "compile" =>
         \A q \in BuildDep[p] \ RsyncFails :
           pc[q] \in Staged \cup {"failed"} /\ Complete(q)
=============================================================================
