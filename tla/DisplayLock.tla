----------------------------- MODULE DisplayLock -----------------------------
(***************************************************************************)
(* The display mutex of the parallel build: build-tools/display.sh, and    *)
(* the two ways the top Makefile uses it.  Every job of "make -jN" prints  *)
(* through "display.sh locked-echo", and a job that has a log to report    *)
(* sources display.sh around the test and the creation of .mkr.displayed,  *)
(* so that one job only prints its whole short log.                        *)
(*                                                                         *)
(* The lock file is identified by the process that created it: a process   *)
(* creates at most one.  "set -C; echo $$ > file" is an exclusive open     *)
(* followed by a write, so the file is empty in between.                   *)
(***************************************************************************)
CONSTANTS Echo,     \* processes running "display.sh locked-echo"
          Report,   \* recipe shells that report a failure or warnings
          NoFile,   \* .mkr.displaylock does not exist
          Empty,    \* what "cat" prints of a lock file not yet written
          Crashes   \* TRUE when a job may be killed in the middle

ASSUME ProcAssumption ==
  /\ Echo \cap Report = {}
  /\ NoFile \notin Echo \cup Report
  /\ Empty \notin Echo \cup Report
  /\ Crashes \in BOOLEAN

Proc == Echo \cup Report

VARIABLES
  pc,         \* where each process is in the script
  lock,       \* the creator of the lock file that is linked now, or NoFile
  written,    \* has the process written its pid in the file it created
  owner,      \* the $owner a process read in its last turn of the loop
  displayed,  \* does .mkr.displayed exist
  full,       \* did the process find that .mkr.displayed did not exist
  shown,      \* processes that printed their whole short log
  stolen      \* history: the lock file of a live holder was removed

vars == <<pc, lock, written, owner, displayed, full, shown, stolen>>

(* From the exclusive creation to the rm of mutex_unlock.                  *)
Holding(p) == pc[p] \in {"write", "body", "show", "mark", "unlock",
                   "release"}

(* "kill -0": the process still exists.                                    *)
Alive(p) == pc[p] \notin {"done", "failed", "dead"}

TypeOK ==
  /\ pc \in [Proc -> {"create", "cat", "probe", "remove", "write", "body",
                      "show", "mark", "unlock", "release",
                      "done", "failed", "dead"}]
  /\ lock \in Proc \cup {NoFile}
  /\ written \in [Proc -> BOOLEAN]
  /\ owner \in [Proc -> Proc \cup {Empty}]
  /\ displayed \in BOOLEAN
  /\ full \in [Proc -> BOOLEAN]
  /\ shown \subseteq Proc
  /\ stolen \in BOOLEAN

Init ==
  /\ pc = [p \in Proc |-> "create"]
  /\ lock = NoFile
  /\ written = [p \in Proc |-> FALSE]
  /\ owner = [p \in Proc |-> Empty]
  /\ displayed = FALSE
  /\ full = [p \in Proc |-> FALSE]
  /\ shown = {}
  /\ stolen = FALSE

Goto(p, from, to) == pc[p] = from /\ pc' = [pc EXCEPT ![p] = to]

-----------------------------------------------------------------------------
(* mutex_lock *)

(* Mutation: without "set -C" the redirection opens an existing file.      *)
CreateClobbering(p) ==
  /\ Goto(p, "create", "write")
  /\ lock' = p
  /\ UNCHANGED <<written, owner, displayed, full, shown, stolen>>

(* The noclobber redirection opens the file: it succeeds only when there   *)
(* is none.                                                                *)
Create(p) ==
  /\ lock = NoFile
  /\ Goto(p, "create", "write")
  /\ lock' = p
  /\ UNCHANGED <<written, owner, displayed, full, shown, stolen>>

CreateFails(p) ==
  /\ lock # NoFile
  /\ Goto(p, "create", "cat")
  /\ UNCHANGED <<lock, written, owner, displayed, full, shown, stolen>>

(* Mutation: the lock file is only touched, the pid is not written.        *)
WriteNothing(p) ==
  /\ Goto(p, "write", "body")
  /\ UNCHANGED <<lock, written, owner, displayed, full, shown, stolen>>

(* The echo of the same redirection: the pid goes to the file that was     *)
(* opened, linked or not.                                                  *)
WritePid(p) ==
  /\ Goto(p, "write", "body")
  /\ written' = [written EXCEPT ![p] = TRUE]
  /\ UNCHANGED <<lock, owner, displayed, full, shown, stolen>>

(* owner=`cat "$mutex"`                                                    *)
ReadOwner(p) ==
  /\ lock # NoFile
  /\ Goto(p, "cat", "probe")
  /\ owner' = [owner EXCEPT ![p] = IF written[lock] THEN lock ELSE Empty]
  /\ UNCHANGED <<lock, written, displayed, full, shown, stolen>>

(* Mutation: the status of cat is not looked at.                           *)
ReadNoFileUnchecked(p) ==
  /\ lock = NoFile
  /\ Goto(p, "cat", "probe")
  /\ owner' = [owner EXCEPT ![p] = lock]
  /\ UNCHANGED <<lock, written, displayed, full, shown, stolen>>

(* cat fails: sleep and try again.                                         *)
ReadNoFile(p) ==
  /\ lock = NoFile
  /\ Goto(p, "cat", "create")
  /\ UNCHANGED <<lock, written, owner, displayed, full, shown, stolen>>

(* kill -0 "$owner" fails for an empty argument as for a dead process.     *)
ProbeFails(p) ==
  /\ owner[p] \notin {q \in Proc : Alive(q)}
  /\ Goto(p, "probe", "remove")
  /\ UNCHANGED <<lock, written, owner, displayed, full, shown, stolen>>

ProbeSucceeds(p) ==
  /\ owner[p] \in {q \in Proc : Alive(q)}
  /\ Goto(p, "probe", "create")
  /\ UNCHANGED <<lock, written, owner, displayed, full, shown, stolen>>

(* Mutation: a stale lock is waited for, never removed.                    *)
RemoveNothing(p) ==
  /\ Goto(p, "remove", "create")
  /\ UNCHANGED <<lock, written, owner, displayed, full, shown, stolen>>

(* rm -f "$mutex" removes whatever file has the name now.                  *)
RemoveStale(p) ==
  /\ Goto(p, "remove", "create")
  /\ lock' = NoFile
  /\ stolen' = (stolen \/ (lock # NoFile /\ Alive(lock)))
  /\ UNCHANGED <<written, owner, displayed, full, shown>>

-----------------------------------------------------------------------------
(* What a holder does before it unlocks *)

EchoLine(p) ==
  /\ p \in Echo
  /\ Goto(p, "body", "unlock")
  /\ UNCHANGED <<lock, written, owner, displayed, full, shown, stolen>>

(* [ ! -e .mkr.displayed ] *)
TestDisplayed(p) ==
  /\ p \in Report
  /\ Goto(p, "body", "show")
  /\ full' = [full EXCEPT ![p] = ~displayed]
  /\ UNCHANGED <<lock, written, owner, displayed, shown, stolen>>

(* cat the short log, or print the one-line hint.                          *)
ShowLog(p) ==
  /\ Goto(p, "show", "mark")
  /\ shown' = IF full[p] THEN shown \cup {p} ELSE shown
  /\ UNCHANGED <<lock, written, owner, displayed, full, stolen>>

(* Mutation: .mkr.displayed is not created.                                *)
MarkNothing(p) ==
  /\ Goto(p, "mark", "unlock")
  /\ UNCHANGED <<lock, written, owner, displayed, full, shown, stolen>>

(* : > .mkr.displayed *)
MarkDisplayed(p) ==
  /\ Goto(p, "mark", "unlock")
  /\ displayed' = TRUE
  /\ UNCHANGED <<lock, written, owner, full, shown, stolen>>

-----------------------------------------------------------------------------
(* mutex_unlock *)

UnlockOwner(p) ==
  /\ lock = p /\ written[p]
  /\ Goto(p, "unlock", "release")
  /\ UNCHANGED <<lock, written, owner, displayed, full, shown, stolen>>

(* "mutex does not exist" or "we do not own mutex": a non-zero return,     *)
(* which under set -e ends the shell and fails the recipe.                 *)
UnlockFails(p) ==
  /\ ~(lock = p /\ written[p])
  /\ Goto(p, "unlock", "failed")
  /\ UNCHANGED <<lock, written, owner, displayed, full, shown, stolen>>

Release(p) ==
  /\ Goto(p, "release", "done")
  /\ lock' = NoFile
  /\ stolen' = (stolen \/ (lock \notin {NoFile, p} /\ Alive(lock)))
  /\ UNCHANGED <<written, owner, displayed, full, shown>>

(* A job killed at any point: an interrupt, the OOM killer.                *)
Crash(p) ==
  /\ Crashes
  /\ Alive(p)
  /\ pc' = [pc EXCEPT ![p] = "dead"]
  /\ UNCHANGED <<lock, written, owner, displayed, full, shown, stolen>>

-----------------------------------------------------------------------------
Step(p) ==
  \/ Create(p) \/ CreateFails(p) \/ WritePid(p)
  \/ ReadOwner(p) \/ ReadNoFile(p)
  \/ ProbeFails(p) \/ ProbeSucceeds(p) \/ RemoveStale(p)
  \/ EchoLine(p) \/ TestDisplayed(p) \/ ShowLog(p) \/ MarkDisplayed(p)
  \/ UnlockOwner(p) \/ UnlockFails(p) \/ Release(p)

Next == \E p \in Proc : Step(p) \/ Crash(p)

Spec == Init /\ [][Next]_vars

(* The kernel schedules every live process; nothing is assumed of crashes. *)
FairSpec == Spec /\ \A p \in Proc : WF_vars(Step(p))

-----------------------------------------------------------------------------
(* The mutex of display.sh excludes as long as no live holder had its file *)
(* removed by the recovery of line 11: that removal is the only hole.      *)
MutualExclusion ==
  ~stolen => \A p, q \in Proc : Holding(p) /\ Holding(q) => p = q

(* mutex_unlock finds the file it created, so that no recipe that worked   *)
(* is reported as failed, unless a live holder had its file removed.       *)
UnlockFindsOwnFile == ~stolen => \A p \in Proc : pc[p] # "failed"

(* One build prints one whole short log: the test of .mkr.displayed and    *)
(* its creation are in one critical section (Makefile, mkr-run-and-log).   *)
(* A reporter killed between the two leaves the next one to print.         *)
OneShortLog ==
  ~stolen => \A p, q \in shown : pc[p] # "dead" /\ pc[q] # "dead" => p = q

(* The inductive strengthening of the three: while nothing was stolen a    *)
(* holder's file is the one that is linked and its pid is in it, and a     *)
(* short log that was printed has been marked, or is being marked by the   *)
(* holder.                                                                 *)
HolderOwns(p) ==
  /\ Holding(p) => lock = p
  /\ pc[p] \in {"body", "show", "mark", "unlock", "release"} => written[p]
  /\ pc[p] # "failed"

Marked(p) ==
  p \in shown =>
    \/ pc[p] = "dead" \/ pc[p] = "mark"
    \/ displayed /\ pc[p] \in {"unlock", "release", "done"}

FirstToShow(p) ==
  pc[p] = "show" /\ full[p] => \A q \in shown : pc[q] = "dead"

LockInv ==
  ~stolen => /\ \A p \in Proc : HolderOwns(p) /\ Marked(p) /\ FirstToShow(p)
             /\ OneShortLog

(* A lock file left behind by a killed job does not stop the build: every  *)
(* job that is not killed leaves the script in the end, whatever was       *)
(* removed under its feet.                                                 *)
EveryJobLeaves == <>[](\A p \in Proc : ~Alive(p))
=============================================================================
