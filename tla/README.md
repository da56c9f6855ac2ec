# A verification model of the mkrootfs build

mkrootfs builds a root filesystem for an embedded target: a Kconfig
configuration chooses packages, a parallel GNU make configures and compiles
them, installs them in a shared *staging* directory, and copies what is needed
at run time to *rootfs*, stripped, under fakeroot. The build itself is
makefiles and shell, and its correctness is a matter of what order things
happen in, what a file's time says, and what is left behind when something is
killed. The two large programs it brings along, the Kconfig tools (with
changes of its own) and fakeroot, keep state in memory: cached values of
symbols in the one, a data base behind message queues in the other. All of
these are modelled here.

The modules are in TLA+, checked by TLC on small instances; where the prover
can follow, the important invariants are also proved with TLAPS, for every
value of the constants. Paths below are relative to the repository (`src/` in
`PROJECT.json`); `Makefile` is the top one, `Makefile.pkgbuild` is
`build-tools/Makefile.pkgbuild`, C files without a directory are in
`build-tools/kconfig` or `build-tools/fakeroot-1.14.4`.

## Contents

1. The parts of the system
2. The modules
3. What the runs check, and their bounds
4. Fairness
5. What is proved, and what is not
6. What disagrees with the documentation, and what else was noticed
7. What is left out of the models
8. Not modelled

## 1. The parts of the system

| part | source | state | operations | what makes it correct |
|---|---|---|---|---|
| display mutex | `build-tools/display.sh`; `Makefile` 516-561 | `.mkr.displaylock` (empty, or a pid), `.mkr.displayed` | lock, unlock, locked-echo; the report of a failed job | one job prints at a time; one short log per make is shown; a killed holder stops nobody |
| configuration synchronisation | `Makefile` 289-315, 465-503; `conf.c`, `confdata.c`, `util.c`; `makefile-deps.awk`; `Makefile.pkgbuild` 59-73, 188-217, 308-320 | `.config`, `.config.old`, `auto.conf`, `auto.conf.cmd`, one header per symbol, `.mkr.toolchain`, per package `.mkr.configured` and the tree | edit, `conf -s`, restart of make, configure, clean, mrproper | a package is never used with a tree configured for other values; the user's configuration is never lost |
| staging area | `Makefile` 317-331, 575-627, 686-706, 926-951; `util.c` 61-142 | `staging/`, `rootfs/`, per package `.mkr.inst`, `.mkr.filelist`, `.mkr.dirlist` | compile, staging, rootfs, clean, clean-removed-packages, from as many jobs as there are packages | dependencies are complete when used; no file escapes the lists; nothing of a removed package stays |
| rootfs and strip | `Makefile.pkgbuild` 171-183, 240-306; `Makefile` 652-664 | the times of the files of `staging/`, `rootfs/` and of `.mkr.stripped`, `.mkr.rmstrip` | rmstrip, copy, strip, clean | rootfs has the current files; exactly what should be is stripped |
| Kconfig expressions | `expr.c`; `menu.c` 150-390 | expression trees; the tree of entries | build, rewrite, eliminate, compare, print; `menu_finalize` | rewriting keeps what a dependency says; an entry is hidden with the one it is placed under |
| Kconfig symbols and files | `symbol.c`, `confdata.c`; `util.c` 61-232 | per symbol: value, what the user set, visibility, flags; `.config` | calculate, set, toggle, choose, read, write, set all, print the build dependencies | a value shown is the one it would be calculated to; a saved file reads back as what it was saved from |
| configurators | `conf.c`, `mconf.c`, `gconf.c`, `qconf.cc` | the session: what is open, the count of changes, conf's round | change, load, save, quit, ask | a change takes effect; everything new is asked; conf ends; nothing is thrown away without a question |
| fakeroot | `fakeroot-1.14.4/` (`faked.c`, `communicate.c`, `libfakeroot.c`, `scripts/fakeroot.in`) | the data base of inodes, two message queues, a semaphore, serial numbers, ids, the save file | wrapped calls, requests and answers, kill, exec, save, load | a program sees what root would see; answers go to who asked; what is saved is complete |
| the rest | | | | not modelled, see 8 |

How they interact. The configurators write `.config`. make includes
`auto.conf` and remakes it by running `conf -s`, which touches the headers of
the symbols that changed; make then executes itself again. The package rules
read `auto.conf`, compare the times of their stamps with those of the headers,
and configure again what is older (module AutoConf). `conf -s` also writes the
edges `A/compile: B/staging` in `auto.conf.cmd`; along these the recipes of the
packages run in parallel in the shared directories (Staging). For each package,
times tell what has to be copied and stripped (Rootfs). All of these print
through the display mutex (DisplayLock). Installation and copies run under
fakeroot, one daemon per recipe, which loads and saves a file of the package
(Fakeroot). The values in AutoConf (`Calc`) are those that KconfigSym
calculates, and KconfigExpr is what became of the dependencies before.

The hard behaviours: jobs of make interleaved on shared directories and on the
lock file; kills at any point, after which everything is deduced from the files
that are left; recipes that go on after a step has failed; modification times,
which stand for knowledge about contents that an older make had; values that
are cached until something makes them invalid; calls whose effect another
process learns of later, through a queue. `PROJECT.json` lists each such hazard
at its line, with the property that covers it or the reason why none does.

## 2. The modules

An MC module gives an instance for TLC, a Proofs module the theorems. The names
of variables and actions follow the code; `PROJECT.json`, "map", gives the
lines of each definition. The definitions that `PROJECT.json` lists under
"mutants" as "as" are not part of any specification: each stands beside the
definition it changes the way a bug would, and TLC finds a property violated
with it.

**DisplayLock** (MCDisplayLock, DisplayLockProofs). One process per job, either
a `locked-echo` or a failed recipe that sources the script, tests
`.mkr.displayed`, shows its log and unlocks. `set -C; echo $$ > file` is two
steps, an exclusive creation and a write, as the shell does it; the reading of
the owner, `kill -0` and `rm` are steps too. A job may die anywhere, and with
it its pid. `stolen` is history: a waiter removed the file of a holder that
lives. `MutualExclusion`, `UnlockFindsOwnFile` and `OneShortLog` are claimed
while that has not happened (section 6 says when it does).

**AutoConf** (MCAutoConf, AutoConfProofs). The files of the configuration and
the stamps of the packages. Absolute times are not modelled; what make asks of
them is: `newer` is the set of prerequisites newer than `auto.conf`, a stamp is
`none`, `old` or `ok`. `conf -s` is a sequence of steps between any two of which
it may be killed: the two renames of `conf_write`, the rename of
`auto.conf.cmd`, the touching of each header, the writing of `.tmpconfig` (whose
time `auto.conf` then has), and the rename. The values that symbol.c computes
are a constant function `Calc`, one per version of the Kconfig files, and
idempotent (conf repeats until nothing changes, `conf.c` 591-594). The user may
edit `.config` or update the Kconfig files at any time; an edit in the middle
of a make is for the next one, which is what the history variable `raced` says.
clean and mrproper are modelled to the order in which they remove things.

**Staging** (MCStaging, StagingProofs). One control state per package. Compile,
install, removal of what is not installed any more, replacement of the list,
rsync, and the copy to rootfs are separate steps, file by file where the recipe
loops over files, with the failures that the recipes have. `make` compiles the
least closed set of packages its goals need and installs the goals in rootfs.
clean-removed-packages runs at any time meanwhile. `RsyncFails` is the set of
packages whose copy to staging can fail. The rsync of `%/rootfs` opens a file in
one step and renames its copy in a later one; whoever removes the file in
between, from staging and rootfs, and perhaps its list, does not see the copy.
`late` is history: the files of rootfs whose copy was renamed when they had left
staging. `Accounted` and `NothingOfRemoved` are claimed of all other files, that
is, they say that this race is the only way around the lists (section 6).

**Rootfs** (MCRootfs, RootfsProofs). One package, with the comparisons of times
that `rsync -u` and `strip` make: `later` (newer in staging than in rootfs),
`newStaging`, `newRootfs` (newer than `.mkr.stripped`). `rsync -c` without `-t`
gives what it copies the current time, `rsync -t` keeps it, strip gives the
current time. `.mkr.rmstrip` is remade when its header is newer or does not
exist. Configurations change `rootfs-y` and `SKIP_ROOTFS_MODULES_STRIP`.

**Faked**, **Fakeroot**, **RootFiles** (MCFakeroot, FakerootProofs,
FakerootRootProofs). Faked is `faked.c` as functions: the data base is a
sequence of entries, and each request of the library is an operator from a data
base to a data base; finding an entry by inode and type, and a device that
answers for an empty regular file, are as in `data_find`. Fakeroot is the
session around it. A wrapped call is one step that looks at the real file and
does the real operation as far as the user may; the sending of its message is
another; a stat goes through the semaphore, its serial number and the queue,
and back, dropping answers that are not its own. Processes are killed between
any two of these steps (the kernel undoes their semaphore) and execute programs
(which count from 0 again). The script runs the command, then `ls` to know that the queue
has been handled, makes the daemon save, and the next session loads the file
line by line. `settled` is history: the data base as it will be when all
requests that were sent have been handled; `promised[p]`: what it said, when p
asked, of the file p asked for; `untold`: the inode numbers of whose removal the
daemon is told too late or never, because the process that removed the file was
killed before it sent the message, or because a new file got the number before
(section 6). Numbers are used again at once. `Jammed` is the state in which the
daemon and everyone else wait for room in the queues. RootFiles is the abstract specification, in
terms of files with attributes and calls of a real root. `Promise == INSTANCE
RootFiles WITH attr <- ..., seen <- promised` maps a file to what a stat of it
would be answered, and `ActsAsRoot == Promise!Spec`: Fakeroot implements
RootFiles. RootFiles promises nothing of an inode that is `lost`, for which
Fakeroot gives `untold`; an inode is only lost while no file uses it, and every
other one keeps its promise. `Faults` switches on what else breaks it: "signal"
(section 6), "rename" (of a file onto itself, which the library takes for
a removal) and "mknod" (of a name that has a file, section 6). In RootFiles an
attribute only becomes one that a call may ask for, so that a file that falls
back to what it was on creation is a violation. `NoneAssumption` says that the
value for "no call" is no call; `Separate`, that no two processes use a name or
a file that exists together.

**FakeIds** (FakeIdsProofs; checked with MCFakeroot). The ids that the library
keeps in static variables and in the environment, and reads when they are first
asked for (`libfakeroot.c` 234-323 and the functions after it): get and set calls, fork and exec.
`cred` is history, the ids a process of a real root would have.

**KconfigTree**, **KconfigRewrite**, **KconfigExpr** (MCKconfigExpr,
KconfigRewriteProofs). KconfigTree has the constructors of expressions; pointers
that the C code writes through are paths in a tree. KconfigRewrite has what
`expr.c` makes of one node, given what it has made of the operands below:
evaluation, `expr_eliminate_yn`, `expr_transform`, `expr_trans_bool`,
`expr_trans_compare`, `expr_depends_symbol`, and the joining of two operands.
KconfigExpr is the recursion over these, with the elimination of duplicates and
of common operands, comparison, extraction and printing, and what `menu_finalize`
makes of them: the visibility of a prompt, and whether an entry is moved below
the one before it. An entry is read when it is started; after that the state is
its expressions on their way through `menu_finalize`, and a round of the
elimination loop is a step. The values are compared with those of the
expression before, over all values of the symbols. `DefiniteKept` claims that a
value of y or n is kept; that an m may become y or n is what
`expr_eliminate_dups2` does to a comparison with m. The theorems of
KconfigRewriteProofs are about any function on a set of trees that satisfies the
equations of the recursion (`Simplifies`, `Transforms`, ...); MCKconfigExpr
asserts (`RecursionAssumption`) that the recursive operators of KconfigExpr,
taken as functions on the expressions of up to two operands and all that becomes
of these, are such functions.

**KconfigSym**, **KconfigEdit** (MCKconfigEdit). KconfigSym has `symbol.c` and
`confdata.c`: values that are calculated when asked for and kept until
`sym_clear_all_valid`, with visibility, defaults, selection, ranges and
choices; setting; reading and writing a file line by line; `conf -y, -n, -m,
-r`; the dependencies printed to `auto.conf.cmd`. KconfigEdit has the sessions:
gconf, qconf and mconf (change, load, save, quit with or without the question)
and conf with its questions, entry by entry and round by round, and what each
of the user's answers does. The order of the hash table is a constant; its last
bucket has the choices, the later one of the Kconfig files first (`InHash`).
`alone` is history: the symbols that were declared invalid without what is
calculated from them (section 6); `ValuesCurrent`, `SavedIsRead` and
`EditTakesEffect` are claimed of the symbols that do not depend on one of these
(`UpToDate`). Every operator takes the whole record of the state
of the symbols and returns it, since the C functions calculate as a side effect
of looking.

## 3. What the runs check, and their bounds

| run | instance | shows |
|---|---|---|
| display_safety | one echo, two reports, kills | mutual exclusion, the holder finds its file, one short log, every job leaves |
| autoconf_sync | one package naming symbols a and b (a in `.mkr.toolchain`), two Kconfig versions | after any edits, kills, clean, mrproper: what is built is current, `auto.conf` marks completion, trees are erased before they are configured again |
| autoconf_ends | two packages, one depending on the other, one symbol, two Kconfig versions, interrupts | the saved configuration is kept; every make ends |
| autoconf_interrupt (violated) | as autoconf_sync, with interrupts | see 6 |
| staging_shared | p and q, q depends on p and may fail to copy; p installs f with one of two contents, or nothing; q installs g or nothing; p's rootfs pattern also matches g | dependencies complete when used, success is complete, every file accounted for, nothing of removed packages, every make ends |
| staging_rsync (violated) | the same, p may fail to copy | see 6 |
| rootfs_strip | a program, a module, two contents, a fixed rootfs-y | rootfs is current and stripped as configured |
| fakeroot_root | two processes with names of their own, three names, two inodes, one owner and one mode to ask for | stats in order, the refinement of RootFiles, nothing lost at the end of a session, every call returns; ids as root's |
| fakeroot_signal (violated) | the same, with signal handlers | see 6 |
| kconfig_expr | every expression of up to four operands over a boolean, a tristate, and comparisons | values kept by reduction and visible prompts, hidden submenus, printing reads back, rounds end |
| kconfig_edit | a part of `toolchain/Kconfig` with a choice inside a choice, a number with a range, a selected package; a complete file, an old one, one with two members of a choice, a number out of range and a symbol that has gone, no file | values current, files read back, edits take effect, everything is asked, dependencies agree, choices with new members are new, rounds settle |
| kconfig_quit (violated) | the same | see 6 |

Why these bounds show the interesting cases: a lock needs a holder, a waiter
that takes it for dead and a third that creates it again; two symbols give
headers of which one is touched and the other not yet, and two Kconfig versions
a change of values under an unchanged `.config`; two packages, one depending on
the other, are the smallest case of an edge, and two contents the smallest of a
stale file. The models of the build have no counters: nothing is cut off by a
bound, and each passing run explores all of its states.

In Fakeroot: `Cap` = 1 message in a queue, so that the queues are full all the
time, and with `MaxKills` = 2 the answer to one killed process and the request
of another jam them (TLC finds a state of `Jammed` after 10 steps); with `Cap` = 2 there are
205,169 states, none of them jammed, and the theorems are for any `Cap`; `MaxCalls` = 3 calls, enough to
make a file, change it and remove it or ask for it, or for three calls of two
processes in any interleaving (ActsAsRoot was also checked for one process with
two names, one session and 5 calls, without a run of its own); `MaxSessions` = 2, so that what
is saved is loaded and used; `MaxIdCalls` = 3. The processes use different names
(`Separate`, which MCFakeroot asserts of its instance): two programs that work on one file without knowing of each other are
not promised anything by fakeroot either (`communicate.c` 107-113). The library
and the ids share no state, so that a behaviour is of one of them (`part`).

In KconfigExpr four operands are enough for each of the two-operand rules to
meet the result of another, under both connectives; in KconfigEdit `MaxSessions`
= 1 session with `MaxEdits` = 2 changes, after which it may still load, save and
quit; numbers go from 0 to 3 with a range of 1 to 2, so that there is one
outside of it on both sides. The number stands before the choice it depends on,
so that conf must ask in two rounds. Two orders of the hash table are given,
since `conf_read` walks it; they differ in the symbols with names, whose order
is that of a hash function, and agree in the choices, whose order the code fixes.

Deadlock is not checked where the system may rightly stop: a user need not call
make again. It is checked in Fakeroot, KconfigExpr and KconfigEdit, whose ends
are explicit. No two runs ask the same question: autoconf_sync claims what
interrupts break, so it has none; autoconf_ends has them.

## 4. Fairness

`FairSpec` in DisplayLock: each living process goes on (weak fairness of its
step); no fairness for a kill. In AutoConf: weak fairness of what `conf -s` and
make do next, none for edits, kills, interrupts, mrproper; `MakeEnds` is claimed
for behaviours in which the user stops editing, since an edit between any two
restarts makes make restart once more, rightly. In Staging: weak fairness of
each package's recipes and of make itself. A recipe is a process that the
system schedules, and GNU make starts a job that is ready when a slot is free;
compilers and installers are assumed to end, as is each call of rsync. In
Fakeroot: weak fairness of each step of a call that has begun, of the daemon
and of the end of the script (the kernel runs all of them, and `semop` and
`msgsnd` wake those who wait); none for the beginning of a call, a kill, an exec
or another session. Failures and kills are never forced.

KconfigExpr and KconfigEdit are sequential and have no fairness: that their
loops end is stated of each round, by `EveryRoundShrinks` and `RoundsSettle`.

## 5. What is proved, and what is not

For every value of the constants that satisfies the module's assumption:

* DisplayLock: `TypeCorrect`, `LockExcludes` (MutualExclusion),
  `UnlockSucceeds` (UnlockFindsOwnFile), `ShortLogOnce` (OneShortLog). The
  inductive invariant says that the holder is the creator of the file that
  exists, unless a live holder's file was removed.
* AutoConf: `TypeCorrect`; `SavedConfigKept` (ConfigKept), from KeptInv: between
  the two renames `.config.old` is what the user saved; `TreesErasedFirst`
  (TreeErasedFirst), from ErasedInv: a package being configured has been erased;
  and, assuming that make is not interrupted, `AutoConfMarksCompletion` and
  `BuildsWhatIsConfigured`, both from SyncInv. Its four parts are needed
  together: what conf has in memory is what `.config` stands for
  (LoadedIsCurrent); when nothing is newer so is `auto.conf` (AutoIsCurrent); a
  stamp that is not old vouches for its tree, up to the headers still to be
  touched (StampsVouch); packages are done after those they depend on
  (DoneInOrder). BuiltIsCurrent alone is not inductive: it says nothing of a
  state in which a make has been killed.
* Staging: `TypeCorrect`; `FilesAccounted` (Accounted) and `RemovedAreGone`
  (NothingOfRemoved), from AccountInv: a file that is in staging, or in rootfs
  and not `late`, is *kept*: it is in a list whose owner is not about to drop it. `CompiledAfterStaging`
  (DependenciesStaged) and `SuccessIsComplete` (DoneIsComplete), from OwnFiles
  and CompleteInv, assuming that no two packages install the same file
  (`Disjoint`), and for the former that packages which others depend on can be
  copied. Both assumptions are needed: staging_rsync shows it of the second, and
  without the first one package removes as stale what another has installed.
* Rootfs: `TypeCorrect`, and, when `rootfs-y` does not change (`Fixed`),
  `RootfsIsCurrent` and `StrippedExactly`, from the invariants that every file
  is listed, that a copy which is not older equals what it is a copy of
  (SameUnlessLater), and that whatever is still to be stripped is newer than
  `.mkr.stripped`, in rootfs or once it is copied there (TimesTell). Kernel
  modules are exempt while `.mkr.rmstrip` is to be remade (ModulesInv). The
  assumption is needed, see 6.
* Fakeroot: `TypeCorrect`, with any faults: messages, data base and answers stay
  well formed, and the "leave it alone" that a chown may ask for is never stored
  or answered. Without signal handlers, `NoMessageLost` (NothingLost), from
  Drained: the stat of the script's `ls` is the last message of a session, so
  that its answer comes when the queue is empty. `StatsInOrder` (InOrder), with
  the same assumption, for any processes, files, faults of the other kinds,
  length of the queues and number of sessions. Its invariant, OrderInv, adds to
  Drained: there are data bases s[0], ..., s[n] that the n requests of the queue
  lead through, from the present one to `settled` (Lead); the request of a
  process that waits stands where the data base before it gives the promised
  answer; and a process has one request or one answer under way (Outstanding),
  so that after taking it none is left to be mistaken for the next one. It does
  not need the semaphore, nor that serial numbers differ: the process number
  alone tells the answers apart as long as a process waits for one at a time.
  The assumption is needed, fakeroot_signal shows it.
  `ImplementsRootFiles` (ActsAsRoot): the session implements RootFiles, assuming
  that there are no faults, no option -u (`~UnknownIsReal`, which shows the real
  owner of a file nobody changed), and that processes work on files of their own
  (`Separate`). It covers kills between any two steps and numbers that are used
  again at once. Its invariant, RootInv, is about the inodes that are not in
  `untold` (Sure), and about `settled`, the data base as the messages on their
  way will leave it: it has one entry for such an inode (OneEach); an entry
  answers for the file that has its inode on disk, or the message about the
  removal of that file is still to be sent (Known); a file is only named by
  names of one process (OwnFiles); the message of a process still says of its
  file what is so on disk, and an unlink whether the last name has gone
  (Pending); and what was saved, added to what the next session has read of it,
  is `settled` again (Restores). That the entries of the numbers in `untold` do
  not disturb the others is a lemma of each request: it changes the entries of
  the inode it is about and no others (Elsewhere). That `settled` is what is
  saved needs Drained, and that an answer is the promised one OrderInv. Each step
  is then one of root's calls on one file, a stat, the forgetting of one, the
  loss of a number that no file uses (by a kill, or as a new file gets it), or
  nothing. Pending is why OwnFiles is needed: a call looks at the file in one
  step and sends in the next, and another process in between could make it
  untrue. RootInv holds on all of the 130,263 states of the instance of
  fakeroot_root without the ids, and on 322,727 with one process, 5 calls and a
  kill.
* FakeIds: `IdsAreRoots` (IdsAsRoot), from the invariant that a static variable
  that was read is up to date, and that the environment never has a file system
  id of its own, on which exec relies.

* Kconfig expressions, of any size, over any booleans and tristates
  (`SymbolAssumption`: a symbol has one type, and none has the name of a
  constant) with any values:
  `SimplifiedIsWorthTheSame`: `expr_eliminate_yn` keeps what an expression is
  worth, m included. `TransformedIsWorthTheSame`: so does `expr_transform`, which
  leaves negations of symbols only and no comparison of a boolean with a
  constant; its lemma NegatedWorth says that negating what was transformed, by
  De Morgan, gives what stays as it is when it is transformed again.
  `TransBoolHidesTheSame`: of such an expression `expr_trans_bool` keeps when it
  is n. `DependentIsHidden`: what `expr_depends_symbol` finds to depend on a
  symbol is n as long as the symbol is. `ComparedWithNo`: `expr_trans_compare`
  writes "is not n" correctly as long as nothing is m; this is why submenus are
  only claimed for values other than m. `JoinedByOr`, `JoinedByAnd`: two
  operands that are joined to one are worth the same as one. A recursion over
  trees cannot be followed by the prover, so these are stated for a set of trees
  with the trees below them and a size (`Trees`), and for every function on it
  that satisfies the recursion's equations; TreeInduction, which their proofs
  cite, takes a set of trees in place of a predicate and rests on the
  well-foundedness of the sizes.

The inductive invariants were model-checked before they were proved.

Only model-checked: the liveness properties EveryJobLeaves, MakeEnds and
CallsReturn (the prover does not do liveness under fairness), and the properties
of KconfigExpr and KconfigEdit as they stand. In KconfigExpr the theorems above
are the single rewritings; that their composition with the elimination of
duplicates keeps values, that comparison by cancelling and printing are right,
and that rounds end, is checked for up to four operands: these go through a tree
by pairs of paths, in RECURSIVE operators, which hide a module from the prover.
KconfigSym calculates symbols through each other in the same way, with the whole
state as what is passed on. Not proved, since it is false: anything
with interrupts of make, and order with signal handlers; the
refinement of RootFiles with any of the faults, of which "mknod" is in section 6.

## 6. What disagrees with the documentation, and what else was noticed

Each of these is a run that TLC ends with a counterexample.

* **autoconf_interrupt**: the comment "this marks the successful completion of
  the previous steps" (`confdata.c` 733-734) is about the rename of
  `auto.conf`. When make gets a signal after the rename it deletes the target;
  the next `conf -s` has no old values and touches no header of a symbol that
  was switched off.
* **staging_rsync**: `Makefile` 614-627 reports a failed rsync and goes on as if
  it had succeeded; the README (182-185) promises that dependents wait for the
  completion of staging.
* **fakeroot_signal**: `doc/faked.1` 35 says that a wrapped stat asks the daemon
  and then reports what it says. A signal with a handler interrupts `msgrcv`;
  the loop of `communicate.c` 553-556 only looks at the numbers in the buffer,
  which are those of the request that is still in it, and ends. The stat reports
  the real owner. (The same signal ends a `msgsnd` that waits for room, and its
  message is lost, `communicate.c` 507-511; this is not in the model.)
* **kconfig_quit**: `qconf.cc` 1658 says "ask for saving configuration before
  quitting". `conf_read` resets the count of changes (`confdata.c` 314) before
  it finds that the file cannot be opened, and leaves the symbols as they were:
  after a failed load the changes are thrown away without a question.

Noticed while modelling, and excluded by an assumption or a guard that the
modules name:

* The display lock is empty between its creation and the write of the pid. A
  waiter that reads it then runs `kill -0 ""`, which fails, and removes the lock
  of a live holder (`display.sh` 9-11): the history variable `stolen`.
* `.mkr.inst` is not emptied before an installation, nor removed by `rm -Rf *`
  or by clean, so that what a failed installation left is staged later
  (`Makefile` 591). In `base` the `ln -s` of `one-map` even fails on it for
  ever.
* The rsync of one package's `%/rootfs` may have opened a file that
  clean-removed-packages, or the staging recipe of the package that installed
  it, removes before rsync renames its copy (`Makefile.pkgbuild` 246, 264;
  `Makefile` 602-604, 617-621, 692-697). make succeeds, and rootfs has a file of
  a package that is off, which no list names and only `make clean` removes: the
  history variable `late` of Staging. TLC reaches it in staging_shared: with the
  invariant that `late` is empty when make is done it finds a trace of 25
  states.
* A process that is killed after it removed a file and before it told the daemon
  leaves the entry, and a new file that gets the number of the inode has the
  attributes of the old one (`libfakeroot.c` 1128-1133, 1219-1223); so it is when
  a new file gets the number before the message is sent, whose own message may
  then come first. `untold` has these numbers; without the exception TLC
  finds a device, the rename of a file over it, and a file that another process
  creates before the daemon is told.
* The answers to killed processes stay in the queue from the daemon until
  somebody waits for another answer. When they fill it, and requests fill the
  other queue, the daemon waits in its `msgsnd` (`faked.c` 772) and every wrapped
  call in its own (`communicate.c` 507), for ever: `Jammed`. `CallsReturn` says
  that calls return as long as this has not come, and that it takes more killed
  processes than a queue has room for.
* The times do not tell enough when `rootfs-y` changes: a file that enters it
  after it was staged is never stripped; one that leaves it stays in rootfs, may
  be stripped there again, and then hides newer contents when it enters again
  (`Fixed` in Rootfs).
* The copy to rootfs runs with the state of `.mkr.fakeroot.staging` and saves
  its own there (`Makefile` 361-363, 657); the filter that makes
  `.mkr.fakeroot.rootfs` reads `.mkr.fakeroot` (672), which does not have the
  inodes of rootfs. A device or an owner that an installation sets would not
  reach the images.
* `mknod` of a name that exists truncates the file, where the real call fails
  with EEXIST (`libfakeroot.c` 976), and turns it into a device. When the data
  base already has an entry for the file, `process_mknod` looks for one with the
  new type, finds none and adds a second entry; a removal then erases only the
  first (`faked.c` 792 prints its own "cannot happen" message), and an empty
  file that gets the same inode number is shown as the device. With "mknod" in
  `Faults` and `MaxCalls` = 4, TLC finds chown, mknod, unlink and a new file as a
  violation of ActsAsRoot; without it, a device is only asked for where there is
  no file.
* A visible number in `.config` that is out of range is refused after its
  dependents were calculated, and it alone is declared invalid (`confdata.c`
  370-373): they keep values that depend on the number refused, are shown so, and
  saved so, since `conf_write` only calculates again what does not count as
  changed (445). In the instance, a file with ARM_ARCH=3 leaves the choice FLOAT
  with VFP3, which is for ARM_ARCH=2, while ARM_ARCH is back to 1.
* `conf -r` picks a member of each choice in the order of the hash table, where
  an inner choice is before the outer one. To know whether the inner one is shown
  it calculates a member of the outer one; when it then picks another member of
  that, it declares the choice invalid "to get value calculated" (`confdata.c`
  854-855) and not its members. `.config` then has no member of the choice at y,
  or two.
  In both cases every symbol that depends on none of these is right, which is
  what `ValuesCurrent` and `SavedIsRead` say with `UpToDate`. Without that
  condition TLC finds the one after a load and the other in the first step.
* `gconf.c` 1163 shows "(NEW)" for symbols that have a value, and its toggle sets
  an integer row to a NULL value; conf at the end of its input asks an empty
  integer for ever; the comment at `expr.c` 490 says that `a!=m && a!=n` is
  `a=m`, the code makes it `a=y`. Instances or guards leave these out.

## 7. What is left out of the models

* In Staging and Rootfs: directories and `.mkr.dirlist`, symbolic links,
  permissions, the fakeroot save files, and the toolchain package that every
  other one waits for. The removal by one `xargs rm` of a whole list is one
  step, except where its interruption matters (removal of stale files and the
  undoing of a copy). A temporary file that a killed rsync leaves in staging or
  rootfs (no list names it, and only `make clean` removes it). The copy to
  staging is one step for each file: its source, `.mkr.inst`, is the recipe's
  own, and what appears in staging is the rename.
* In Staging a package tree is what it would install; that compiling is
  incremental, and when it configures again, is AutoConf's subject. In AutoConf
  a package is its configured tree; `.mkr.configured` and
  `.mkr.autotools.default.configured` are one stamp.
* Reuse of process numbers; clocks that go back or are too coarse to tell a copy
  from the stripping that follows it. Two makes at once in the same output
  directory.
* In Fakeroot: the device number beside the inode, the group beside the owner
  (handled alike), file types other than regular, directory and device, the
  TCP variant and the data base by path (not compiled), wrappers for ACLs,
  `getattrlist` and fts, `fakeroot_disable`. `rename` looks at the new name and
  renames in one step: in between, only another process that uses the name could
  change anything (`Separate`). Signals to the daemon other than the script's
  SIGTERM, whose handler ends it: after one with another handler (SIGUSR2) it
  handles its last request again (`faked.c` 826-832). The request for whose
  answer the daemon waits for room counts as one in the queue. Links to a file
  that another process is removing (`Separate`).
* Failures to write: of `auto.conf.cmd`, which `conf_write_autoconf` ignores
  (`confdata.c` 658, AutoConf), and of `.config` (`confdata.c` 430, 522; what
  mconf, qconf and conf say then, KconfigEdit); a full disk is not looked for
  by the code at all. Every property about these files is about writes that
  succeed.
* In KconfigSym: tristates and `MODULES`, strings (handled like numbers), optional
  choices, ranges given by symbols, several prompts of one symbol, search, the
  check for cyclic dependencies: the Kconfig files of this repository have none
  of the first five, and the others change nothing. "is not set" lines of choice
  members that another file left.
* In KconfigEdit: widgets, help, and which of the menus mconf has open (it draws
  that one only); `ask_new` of conf, which no option sets.

## 8. Not modelled

* Save files of the packages (`Makefile` 359-363, 587-682, `fakeroot-filter.c`):
  which recipe loads and filters which file. What a session saves and the next
  one loads is in Fakeroot; see also section 6.
* Configuration check (`Makefile` 405-459): one recipe per package before all
  others; its stamps are taken and dropped like those of AutoConf.
* NFS root export (`Makefile` 714-775) and the other outputs (777-869): one
  recipe each, when everything else has ended; what could go wrong in them is in
  rsyncd, in free ports, in cpio.
* The Kconfig parser: text in, tree out; KconfigTree starts from the tree.
* kbuild's generic rules and fixdep, inherited from Linux, which build the host
  programs; log filters; output directory handling; boards; package makefiles,
  which are constants (what is installed, what depends on what) of Staging and
  Rootfs; the tests package, which runs on the target.

What could follow: the save files of the packages, composed with Staging; edges of `auto.conf.cmd` that change between makes, which Staging and AutoConf
take as constants.
