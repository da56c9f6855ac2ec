-------------------------------- MODULE Rootfs --------------------------------
(***************************************************************************)
(* How the files of one package reach rootfs, and are stripped there       *)
(* (Makefile, rules %/staging, %/rootfs, %/strip and %/clean;              *)
(* build-tools/Makefile.pkgbuild).                                         *)
(*                                                                         *)
(* Nothing but modification times says what is left to do.  The copy to    *)
(* staging compares contents ("rsync -c") and gives a file that differs    *)
(* the current time; the copy to rootfs ("rsync -tu") keeps the times and  *)
(* skips what is newer in rootfs; a file is stripped, which gives it the   *)
(* current time, when it is newer than the .mkr.stripped that the last     *)
(* stripping left.  .mkr.rmstrip, remade when SKIP_ROOTFS_MODULES_STRIP    *)
(* changes, removes the kernel modules from rootfs and .mkr.stripped.      *)
(*                                                                         *)
(* The times are modelled by the comparisons that are made: "later",       *)
(* "newStaging" and "newRootfs" are sets of files.  "todo" is what is left *)
(* of the list of files that a recipe loops over.                          *)
(***************************************************************************)
CONSTANTS
  File,       \* the files the package can install
  Module,     \* those that are kernel modules
  Elf,        \* those that strip can strip, and is not kept from by name
  Content,    \* what a file can contain
  None,       \* the content of a file that does not exist
  Runtimes    \* the values rootfs-y can have

Installation == [File -> Content \cup {None}]
Files(i) == {f \in File : i[f] # None}

ASSUME RootfsAssumption ==
  /\ Module \subseteq File /\ Elf \subseteq File
  /\ None \notin Content
  /\ Runtimes \subseteq SUBSET File

VARIABLES
  runtime,    \* the files that rootfs-y matches
  keep,       \* SKIP_ROOTFS_MODULES_STRIP
  header,     \* does include/config/skip/rootfs/modules/strip.h exist
  rmstrip,    \* is .mkr.rmstrip there, and no older than the header
  pc,         \* where the recipes of the package are
  todo,       \* the files left in the loop of the recipe
  inst,       \* what is installed in .mkr.inst
  list,       \* .mkr.filelist
  staging,    \* the staging directory
  rootfs,     \* the rootfs directory
  stripped,   \* the files of rootfs that have been stripped
  later,      \* the files that are newer in staging than in rootfs
  mark,       \* does .mkr.stripped exist
  newStaging, \* the files of staging that are newer than .mkr.stripped
  newRootfs   \* the files of rootfs that are newer than .mkr.stripped

setting == <<runtime, keep, header>>
dirs == <<staging, rootfs, stripped>>
times == <<later, mark, newStaging, newRootfs>>
vars == <<setting, rmstrip, pc, todo, inst, list, dirs, times>>

TypeOK ==
  /\ runtime \in Runtimes
  /\ keep \in BOOLEAN /\ header \in BOOLEAN /\ rmstrip \in BOOLEAN
  /\ pc \in {"idle", "modules", "unmark", "stamp", "install", "stale", "rsync",
             "staged", "copy", "strip", "done",
             "cleanstaging", "cleanrootfs", "cleanlist"}
  /\ todo \subseteq File /\ list \subseteq File
  /\ inst \in Installation /\ staging \in Installation
  /\ rootfs \in Installation
  /\ stripped \subseteq Elf
  /\ later \subseteq File /\ mark \in BOOLEAN
  /\ newStaging \subseteq File /\ newRootfs \subseteq File

Empty == [f \in File |-> None]

Init ==
  /\ runtime \in Runtimes
  /\ keep \in BOOLEAN /\ header = keep /\ rmstrip = FALSE
  /\ pc = "idle" /\ todo = {}
  /\ inst = Empty /\ list = {}
  /\ staging = Empty /\ rootfs = Empty /\ stripped = {}
  /\ later = {} /\ mark = FALSE /\ newStaging = {} /\ newRootfs = {}

Goto(from, to) == pc = from /\ pc' = to

(* Mutation: what is removed is taken out of the directory's domain.       *)
WithoutNames(d, F) == [f \in File \ F |-> d[f]]

(* What remains of the directory d when the files of F are removed.        *)
Without(d, F) == [f \in File |-> IF f \in F THEN None ELSE d[f]]

-----------------------------------------------------------------------------
(* The configuration is edited between two makes; conf -s creates or       *)
(* touches the header of a symbol that changes (module AutoConf).          *)
Edit(r, k) ==
  /\ pc = "idle"
  /\ runtime' = r
  /\ keep' = k
  /\ header' = (header \/ k # keep)
  /\ rmstrip' = (rmstrip /\ k = keep)
  /\ UNCHANGED <<pc, todo, inst, list, dirs, times>>

-----------------------------------------------------------------------------
(* %/staging: first .mkr.rmstrip *)

(* A header that does not exist has an empty rule, and counts as remade.   *)
StartMake ==
  /\ pc = "idle"
  /\ IF header /\ rmstrip
     THEN pc' = "install" /\ UNCHANGED todo
     ELSE pc' = "modules" /\ todo' = list \cap Module
  /\ UNCHANGED <<setting, rmstrip, inst, list, dirs, times>>

RemoveModule(f) ==
  /\ pc = "modules" /\ f \in todo
  /\ rootfs' = Without(rootfs, {f})
  /\ stripped' = stripped \ {f}
  /\ todo' = todo \ {f}
  /\ UNCHANGED <<setting, rmstrip, pc, inst, list, staging, times>>

ModulesRemoved ==
  /\ Goto("modules", "unmark") /\ todo = {}
  /\ UNCHANGED <<setting, rmstrip, todo, inst, list, dirs, times>>

(* Mutation: .mkr.stripped is not removed.                                 *)
KeepMark ==
  /\ Goto("unmark", "stamp")
  /\ UNCHANGED <<setting, rmstrip, todo, inst, list, dirs, times>>

RemoveMark ==
  /\ Goto("unmark", "stamp")
  /\ mark' = FALSE
  /\ UNCHANGED <<setting, rmstrip, todo, inst, list, dirs, later, newStaging,
                 newRootfs>>

StampRmstrip ==
  /\ Goto("stamp", "install")
  /\ rmstrip' = TRUE
  /\ UNCHANGED <<setting, todo, inst, list, dirs, times>>

(* The package is compiled and installed; see module Staging.              *)
Install(i) ==
  /\ Goto("install", "stale")
  /\ inst' = i
  /\ todo' = list \ Files(i)
  /\ UNCHANGED <<setting, rmstrip, list, dirs, times>>

RemoveStale(f) ==
  /\ pc = "stale" /\ f \in todo
  /\ staging' = Without(staging, {f})
  /\ rootfs' = Without(rootfs, {f})
  /\ stripped' = stripped \ {f}
  /\ todo' = todo \ {f}
  /\ UNCHANGED <<setting, rmstrip, pc, inst, list, times>>

MoveLists ==
  /\ Goto("stale", "rsync") /\ todo = {}
  /\ list' = Files(inst)
  /\ todo' = Files(inst)
  /\ UNCHANGED <<setting, rmstrip, inst, dirs, times>>

(* Mutation: the time of an installed file, which "make install" may have  *)
(* kept, is copied too (rsync -t).                                         *)
RsyncTime(f) ==
  /\ pc = "rsync" /\ f \in todo
  /\ staging' = [staging EXCEPT ![f] = inst[f]]
  /\ todo' = todo \ {f}
  /\ UNCHANGED <<setting, rmstrip, pc, inst, list, rootfs, stripped, times>>

(* rsync -rlpgoDc: a file whose contents are the same is left alone.       *)
RsyncFile(f) ==
  /\ pc = "rsync" /\ f \in todo
  /\ todo' = todo \ {f}
  /\ IF staging[f] = inst[f] THEN UNCHANGED <<staging, later, newStaging>>
     ELSE /\ staging' = [staging EXCEPT ![f] = inst[f]]
          /\ later' = later \cup {f}
          /\ newStaging' = newStaging \cup {f}
  /\ UNCHANGED <<setting, rmstrip, pc, inst, list, rootfs, stripped, mark,
                 newRootfs>>

StagingDone ==
  /\ Goto("rsync", "staged") /\ todo = {}
  /\ UNCHANGED <<setting, rmstrip, todo, inst, list, dirs, times>>

-----------------------------------------------------------------------------
(* %/rootfs *)

CopyStart ==
  /\ Goto("staged", "copy")
  /\ todo' = runtime \cap Files(staging)
  /\ UNCHANGED <<setting, rmstrip, inst, list, dirs, times>>

(* rsync -lptgodDRu                                                        *)
CopyFile(f) ==
  /\ pc = "copy" /\ f \in todo
  /\ todo' = todo \ {f}
  /\ IF rootfs[f] # None /\ f \notin later
     THEN UNCHANGED <<rootfs, stripped, later, newRootfs>>
     ELSE /\ rootfs' = [rootfs EXCEPT ![f] = staging[f]]
          /\ stripped' = stripped \ {f}
          /\ later' = later \ {f}
          /\ newRootfs' = IF f \in newStaging THEN newRootfs \cup {f}
                          ELSE newRootfs \ {f}
  /\ UNCHANGED <<setting, rmstrip, pc, inst, list, staging, mark, newStaging>>

-----------------------------------------------------------------------------
(* %/strip *)

StripStart ==
  /\ Goto("copy", "strip") /\ todo = {}
  /\ todo' = list
  /\ UNCHANGED <<setting, rmstrip, inst, list, dirs, times>>

(* Is f there, and not "not new!"?                                         *)
IsNew(f) == rootfs[f] # None /\ (mark => f \in newRootfs)

(* Does strip change f? Of a module it does not when strip-mod is ":".     *)
Strippable(f) == f \in Elf /\ ~(f \in Module /\ keep)

StripFile(f) ==
  /\ pc = "strip" /\ f \in todo
  /\ todo' = todo \ {f}
  /\ IF IsNew(f) /\ Strippable(f)
     THEN /\ stripped' = stripped \cup {f}
          /\ later' = later \ {f}
          /\ newRootfs' = newRootfs \cup {f}
     ELSE UNCHANGED <<stripped, later, newRootfs>>
  /\ UNCHANGED <<setting, rmstrip, pc, inst, list, staging, rootfs, mark,
                 newStaging>>

(* ": > .mkr.stripped" is newer than everything.                           *)
Mark ==
  /\ Goto("strip", "done") /\ todo = {}
  /\ mark' = TRUE
  /\ newStaging' = {} /\ newRootfs' = {}
  /\ UNCHANGED <<setting, rmstrip, todo, inst, list, dirs, later>>

-----------------------------------------------------------------------------
(* %/clean removes .mkr.rmstrip; clean-removed-packages does not.          *)
(* .mkr.stripped stays.                                                    *)
StartClean ==
  /\ Goto("idle", "cleanstaging")
  /\ rmstrip' = FALSE
  /\ UNCHANGED <<setting, todo, inst, list, dirs, times>>

StartDrop ==
  /\ Goto("idle", "cleanstaging")
  /\ UNCHANGED <<setting, rmstrip, todo, inst, list, dirs, times>>

CleanStaging ==
  /\ Goto("cleanstaging", "cleanrootfs")
  /\ staging' = Without(staging, list)
  /\ UNCHANGED <<setting, rmstrip, todo, inst, list, rootfs, stripped, times>>

CleanRootfs ==
  /\ Goto("cleanrootfs", "cleanlist")
  /\ rootfs' = Without(rootfs, list)
  /\ stripped' = stripped \ list
  /\ UNCHANGED <<setting, rmstrip, todo, inst, list, staging, times>>

CleanList ==
  /\ Goto("cleanlist", "idle")
  /\ list' = {}
  /\ UNCHANGED <<setting, rmstrip, todo, inst, dirs, times>>

(* make exits, after the last step of its goal or because it is killed or  *)
(* a step fails.                                                           *)
Exit ==
  /\ pc # "idle" /\ pc' = "idle"
  /\ todo' = {}
  /\ UNCHANGED <<setting, rmstrip, inst, list, dirs, times>>

-----------------------------------------------------------------------------
Staging ==
  \/ StartMake \/ ModulesRemoved \/ RemoveMark \/ StampRmstrip
  \/ (\E i \in Installation : Install(i)) \/ MoveLists \/ StagingDone
  \/ \E f \in File : RemoveModule(f) \/ RemoveStale(f) \/ RsyncFile(f)

Copy == CopyStart \/ \E f \in File : CopyFile(f)

Strip == StripStart \/ Mark \/ \E f \in File : StripFile(f)

Clean == StartClean \/ StartDrop \/ CleanStaging \/ CleanRootfs \/ CleanList

Next ==
  \/ Staging \/ Copy \/ Strip \/ Clean \/ Exit
  \/ \E r \in Runtimes, k \in BOOLEAN : Edit(r, k)

Spec == Init /\ [][Next]_vars

-----------------------------------------------------------------------------
(* A make that succeeds leaves in rootfs, of each file that rootfs-y names,*)
(* what staging has, whatever the times of the older copies are.           *)
RootfsCurrent == pc = "done" => \A f \in runtime : rootfs[f] = staging[f]

(* Of what a make that succeeds leaves in rootfs, exactly what should be is*)
(* stripped: "the list of file ... which need be copied to the rootfs      *)
(* directory and stripped", except the kernel modules when                 *)
(* SKIP_ROOTFS_MODULES_STRIP "avoids stripping kernel modules".            *)
StrippedAsConfigured ==
  pc = "done" =>
    \A f \in runtime : rootfs[f] # None => (f \in stripped <=> Strippable(f))

-----------------------------------------------------------------------------
(* What the proofs rest on: strengthenings that every step preserves.      *)

Here(f) == staging[f] # None \/ rootfs[f] # None

(* .mkr.filelist has the files of staging and rootfs, so that they are     *)
(* removed when they are not installed any more.                           *)
Listed ==
  /\ stripped \subseteq Files(rootfs)
  /\ \A f \in File : Here(f) => f \in list
  /\ pc = "stale" => \A f \in File : Here(f) => f \in todo \cup Files(inst)
  /\ pc = "cleanrootfs" => \A f \in list : staging[f] = None
  /\ pc = "cleanlist" => \A f \in list : ~Here(f)
  /\ pc = "rsync" =>
       /\ list = Files(inst) /\ todo \subseteq list
       /\ \A f \in list : f \in todo \/ staging[f] # None
  /\ pc \in {"staged", "copy", "strip", "done"} =>
       \A f \in list : staging[f] # None

(* A file of rootfs is as staging has it, unless staging has a later one.  *)
SameUnlessLater ==
  /\ \A f \in runtime :
       staging[f] # None /\ rootfs[f] # None /\ f \notin later =>
         rootfs[f] = staging[f]
  /\ pc = "copy" =>
       /\ todo \subseteq runtime \cap Files(staging)
       /\ \A f \in runtime : staging[f] # None =>
            f \in todo \/ (rootfs[f] # None /\ f \notin later)
  /\ pc \in {"strip", "done"} =>
       \A f \in runtime : staging[f] # None =>
         rootfs[f] # None /\ f \notin later

CurrentInv == TypeOK /\ Listed /\ SameUnlessLater

(* .mkr.rmstrip will be remade before anything else is.                    *)
Pending ==
  /\ ~(header /\ rmstrip)
  /\ pc \in {"idle", "modules", "unmark", "stamp",
             "cleanstaging", "cleanrootfs", "cleanlist"}

(* The stripping that .mkr.rmstrip is about to undo.                       *)
ModulesInv ==
  /\ pc \in {"modules", "unmark", "stamp"} => ~(header /\ rmstrip)
  /\ pc = "modules" => /\ Files(rootfs) \cap Module \subseteq todo
                      /\ todo \subseteq Module
  /\ pc \in {"unmark", "stamp"} => Files(rootfs) \cap Module = {}
  /\ pc = "stamp" => ~mark
  /\ ~Pending /\ keep => stripped \cap Module = {}

Settled(f) == f \in stripped <=> Strippable(f)

(* What is still to be stripped, in rootfs or once it is copied there, is  *)
(* newer than .mkr.stripped.                                               *)
TimesTell ==
  /\ mark =>
       \A f \in runtime : Strippable(f) /\ (Pending => f \notin Module) =>
         /\ rootfs[f] # None /\ f \notin stripped => f \in newRootfs
         /\ staging[f] # None /\ (rootfs[f] = None \/ f \in later) =>
              f \in newStaging
  /\ pc = "strip" =>
       \A f \in runtime : rootfs[f] # None => f \in todo \/ Settled(f)
  /\ pc = "done" => \A f \in runtime : rootfs[f] # None => Settled(f)

StripInv == CurrentInv /\ ModulesInv /\ TimesTell
=============================================================================
