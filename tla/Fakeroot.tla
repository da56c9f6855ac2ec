-------------------------------- MODULE Fakeroot --------------------------------
(***************************************************************************)
(* A fakeroot session: processes with the preloaded library                *)
(* (libfakeroot.c), the two message queues and the semaphore between them  *)
(* and the daemon (communicate.c), and the script that starts the daemon,  *)
(* runs the command, makes the daemon save its data base and ends          *)
(* (scripts/fakeroot.in).                                                  *)
(*                                                                         *)
(* A wrapped call looks at the real file, does the real operation as far   *)
(* as the user may, and sends a message; only stat waits for an answer.    *)
(* A process may be interrupted between any two of these.  chown, lchown,  *)
(* fchown and fchownat differ in how the file is named, and are one call;  *)
(* so are the chmod, stat and removal families.                            *)
(***************************************************************************)
EXTENDS Faked, FiniteSets

CONSTANTS
  Client,           \* processes that run under fakeroot
  Shell,            \* the ls that the script runs when the command has ended
  Name, Names,      \* file names, and those each process uses
  Ino, NoIno,       \* inodes; no file
  Dir0,             \* the files that exist when the first session starts
  Uid, Mode,        \* the owners and permissions that calls ask for
  None,
  Cap,              \* messages that fit in a queue
  Faults,           \* what may happen besides: see Mknod, Rename, Receive
  MaxCalls, MaxKills, MaxSessions   \* bounds of the model

ASSUME FakerootAssumption ==
  /\ IsFiniteSet(Name) /\ Names \in [Client -> SUBSET Name]
  /\ Shell \notin Client
  /\ NoIno \notin Ino /\ Dir0 \in [Name -> Ino \cup {NoIno}]
  /\ None \notin Client \cup {Shell}
  /\ Cap \in Nat \ {0}
  /\ MaxCalls \in Nat /\ MaxKills \in Nat /\ MaxSessions \in Nat

VARIABLES
  dir,       \* the inode of every name, or NoIno
  content,   \* every inode: "free", "empty", "full" or "dir"
  table,     \* the daemon's data base
  req, ans,  \* the queues to and from the daemon
  sem,       \* the process that holds the semaphore, or None
  serial,    \* static int serial, of every process
  pc, call,  \* where in a call a process is, and the message it will send
  got,       \* what its last stat returned
  phase,     \* the script: "run", "sync", "down" or "load"
  file,      \* the save file, or what is left of it to load
  settled,   \* the data base as it will be when all requests are handled
  promised,  \* what each stat will report, as of the sending of its request
  untold,    \* the inodes of whose removal the daemon is told too late, or never
  calls, kills, sessions

vars == <<dir, content, table, req, ans, sem, serial, pc, call, got, phase,
          file, settled, promised, untold, calls, kills, sessions>>
files == <<dir, content, untold>>
daemon == <<table, ans>>
session == <<phase, file, kills, sessions>>
history == <<settled, promised>>

Proc == Client \cup {Shell}
Perm == Mode \cup {"rw"}

Links(i) == Cardinality({n \in Name : dir[n] = i})

(* What the real stat says (cpyfakemstat copies it into the message).  The *)
(* library's chmod always leaves the user the right to write.              *)
RealStat(i) ==
  [ino |-> i, type |-> IF content[i] = "dir" THEN "dir" ELSE "reg",
   empty |-> content[i] = "empty", perm |-> "rw", uid |-> User,
   nlink |-> Links(i) + IF content[i] = "dir" THEN 1 ELSE 0]

(* The root directory, whose entries the script's ls looks at.             *)
Slash == [ino |-> NoIno, type |-> "dir", empty |-> FALSE, perm |-> "rw",
          uid |-> User, nlink |-> 2]

(* What a process keeps in a call: the path, and the message's contents.   *)
Message(path, id, st) == [path |-> path, id |-> id, st |-> st]

Init ==
  /\ dir = Dir0
  /\ content = [i \in Ino |-> IF \E n \in Name : dir[n] = i THEN "full" ELSE "free"]
  /\ table = <<>> /\ req = <<>> /\ ans = <<>>
  /\ sem = None
  /\ serial = [p \in Proc |-> 0]
  /\ pc = [p \in Proc |-> "idle"]
  /\ call = [p \in Proc |-> None]
  /\ got = [p \in Proc |-> None]
  /\ phase = "run" /\ file = <<>>
  /\ settled = <<>> /\ promised = [p \in Proc |-> None]
  /\ untold = {}
  /\ calls = 0 /\ kills = 0 /\ sessions = 1

--------------------------------------------------------------------------------
(* The calls of a process. *)

Begins(c) == phase = "run" /\ pc[c] = "idle" /\ calls < MaxCalls
             /\ calls' = calls + 1

(* At its point of the call, the process has the message to send.          *)
Goes(c, point, message) ==
  /\ pc' = [pc EXCEPT ![c] = point]
  /\ call' = [call EXCEPT ![c] = message]

(* The kernel gives the number of a removed file to a new one at once.  A  *)
(* process may have removed the old file and not yet have told the daemon: *)
(* what the data base says of the number is then of no file or of another, *)
(* and untold, which no step depends on, remembers the number for good.    *)
Quiet(i) == \A c \in Client : call[c] # None => call[c].st.ino # i
Takes(i) == /\ content[i] = "free"
            /\ untold' = IF Quiet(i) THEN untold ELSE untold \cup {i}

Unchanged == UNCHANGED <<daemon, session, history, req, sem, serial, got>>

(* The library does not see open(): a new file, written or not.            *)
Create(c, n) ==
  /\ Begins(c) /\ dir[n] = NoIno
  /\ \E i \in Ino, size \in {"empty", "full"} :
       /\ Takes(i)
       /\ dir' = [dir EXCEPT ![n] = i]
       /\ content' = [content EXCEPT ![i] = size]
  /\ Unchanged /\ UNCHANGED <<pc, call>>

Link(c, m, n) ==
  /\ Begins(c) /\ dir[n] = NoIno /\ dir[m] # NoIno
  /\ content[dir[m]] # "dir"
  /\ dir' = [dir EXCEPT ![n] = dir[m]]
  /\ Unchanged /\ UNCHANGED <<content, untold, pc, call>>

Chown(c, n) ==
  /\ Begins(c) /\ dir[n] # NoIno
  /\ \E u \in Uid \cup {Same} :
       Goes(c, "tell", Message(n, "chown", [RealStat(dir[n]) EXCEPT !.uid = u]))
  /\ Unchanged /\ UNCHANGED files

Chmod(c, n) ==
  /\ Begins(c) /\ dir[n] # NoIno
  /\ \E p \in Mode :
       Goes(c, "tell", Message(n, "chmod", [RealStat(dir[n]) EXCEPT !.perm = p]))
  /\ Unchanged /\ UNCHANGED files

(* mknod opens the file with O_CREAT and O_TRUNC, so that a file that      *)
(* exists is emptied, and tells the daemon that it is a device.  Commands  *)
(* that take care do not ask for a device where there is a file.           *)
Mknod(c, n) ==
  /\ Begins(c)
  /\ dir[n] = NoIno \/ "mknod" \in Faults
  /\ \E i \in Ino, p \in Mode :
       /\ IF dir[n] = NoIno THEN Takes(i)
          ELSE dir[n] = i /\ content[i] # "dir" /\ UNCHANGED untold
       /\ dir' = [dir EXCEPT ![n] = i]
       /\ content' = [content EXCEPT ![i] = "empty"]
       /\ Goes(c, "tell", Message(n, "mknod",
               [RealStat(i)' EXCEPT !.type = "dev", !.perm = p]))
  /\ Unchanged

Mkdir(c, n) ==
  /\ Begins(c) /\ dir[n] = NoIno
  /\ \E i \in Ino, p \in Mode :
       /\ Takes(i)
       /\ dir' = [dir EXCEPT ![n] = i]
       /\ content' = [content EXCEPT ![i] = "dir"]
       /\ Goes(c, "tell", Message(n, "chmod", [RealStat(i)' EXCEPT !.perm = p]))
  /\ Unchanged

(* unlink, unlinkat, rmdir and remove look at the file first.              *)
Unlink(c, n) ==
  /\ Begins(c) /\ dir[n] # NoIno
  /\ Goes(c, "remove", Message(n, "unlink", RealStat(dir[n])))
  /\ Unchanged /\ UNCHANGED files

Without(n, d) ==
  /\ dir' = d
  /\ content' = [content EXCEPT ![dir[n]] =
                   IF \E m \in Name : d[m] = dir[n] THEN @ ELSE "free"]
  /\ UNCHANGED untold

RemoveFile(c) ==
  /\ pc[c] = "remove"
  /\ IF dir[call[c].path] = NoIno
     THEN Goes(c, "idle", None) /\ UNCHANGED files
     ELSE Without(call[c].path, [dir EXCEPT ![call[c].path] = NoIno])
          /\ pc' = [pc EXCEPT ![c] = "tell"]
          /\ UNCHANGED call
  /\ Unchanged /\ UNCHANGED calls

(* rename looks at the new name, and tells of its removal; the real rename *)
(* does nothing when both names are of one inode.  Commands that take care *)
(* do not rename a file to itself.                                         *)
Rename(c, m, n) ==
  /\ Begins(c) /\ dir[m] # NoIno
  /\ m # n \/ "rename" \in Faults
  /\ IF dir[n] = NoIno
     THEN /\ dir' = [dir EXCEPT ![n] = dir[m], ![m] = NoIno]
          /\ UNCHANGED <<content, untold, pc, call>>
     ELSE /\ content[dir[m]] = "dir" <=> content[dir[n]] = "dir"
          /\ Goes(c, "tell", Message(n, "unlink", RealStat(dir[n])))
          /\ IF dir[m] = dir[n] THEN UNCHANGED files
             ELSE Without(n, [dir EXCEPT ![n] = dir[m], ![m] = NoIno])
  /\ Unchanged

Stat(c, n) ==
  /\ Begins(c) /\ dir[n] # NoIno
  /\ Goes(c, "lock", Message(n, "stat", RealStat(dir[n])))
  /\ Unchanged /\ UNCHANGED files

--------------------------------------------------------------------------------
(* Messages. *)

Report(i, st) == <<i, [type |-> st.type, perm |-> st.perm, uid |-> st.uid]>>

Sent(p, pid, n) ==
  [id |-> call[p].id, st |-> call[p].st, pid |-> pid, serial |-> n]

(* send_fakem: msgsnd waits while the queue is full.                       *)
Tell(c) ==
  /\ pc[c] = "tell" /\ Len(req) < Cap
  /\ req' = Append(req, Sent(c, None, 0))
  /\ settled' = Process(settled, call[c].id, call[c].st)
  /\ Goes(c, "idle", None)
  /\ UNCHANGED <<promised, files, daemon, session, sem, serial, got, calls>>

(* send_get_fakem up to the answer: semaphore_up, then the serial number   *)
(* and the request, which waits for room as Tell does.                     *)
Lock(p) ==
  /\ pc[p] = "lock" /\ sem = None
  /\ sem' = p
  /\ pc' = [pc EXCEPT ![p] = "ask"]
  /\ UNCHANGED <<files, daemon, session, history, req, serial, call, got, calls>>

Ask(p) ==
  /\ pc[p] = "ask" /\ Len(req) < Cap
  /\ serial' = [serial EXCEPT ![p] = @ + 1]
  /\ req' = Append(req, Sent(p, p, serial'[p]))
  /\ pc' = [pc EXCEPT ![p] = "wait"]
  /\ promised' = [promised EXCEPT ![p] =
                    Report(call[p].st.ino, Answer(settled, call[p].st))]
  /\ UNCHANGED <<settled, files, daemon, session, sem, call, got, calls>>

(* The call returns what is in the buffer, and the semaphore goes down.    *)
Returns(p, st) ==
  /\ got' = [got EXCEPT ![p] = Report(call[p].st.ino, st)]
  /\ Goes(p, "idle", None)
  /\ sem' = None

(* The loop around msgrcv drops the answers to other processes and other   *)
(* requests.  A signal with a handler interrupts msgrcv: the buffer still  *)
(* holds the request, with the process's own numbers, and the loop ends.   *)
(* Mutant: numbers only, which two processes may share.                    *)
MineBySerial(p, m) == m.serial = serial[p]

Mine(p, m) == m.pid = p /\ m.serial = serial[p]

(* Mutant: an answer to another process is put back for it.                *)
ReceivePutBack(p) ==
  /\ pc[p] = "wait" /\ ans # <<>>
  /\ IF Mine(p, Head(ans)) THEN Returns(p, Head(ans).st) /\ ans' = Tail(ans)
     ELSE ans' = Append(Tail(ans), Head(ans)) /\ UNCHANGED <<got, pc, call, sem>>
  /\ UNCHANGED <<files, table, req, session, history, serial, calls>>

Receive(p) ==
  /\ pc[p] = "wait"
  /\ \E interrupted \in {FALSE, "signal" \in Faults} :
       IF interrupted THEN Returns(p, call[p].st) /\ UNCHANGED ans
       ELSE /\ ans # <<>>
            /\ ans' = Tail(ans)
            /\ IF Mine(p, Head(ans)) THEN Returns(p, Head(ans).st)
               ELSE UNCHANGED <<got, pc, call, sem>>
  /\ UNCHANGED <<files, table, req, session, history, serial, calls>>

(* The kernel undoes the semaphore operations of a process that dies.      *)
SemUndo(c) == IF sem = c THEN None ELSE sem

(* The process has removed the last name of the inode, and not told so.    *)
Keeps(c, i) == /\ pc[c] = "tell" /\ call[c].id = "unlink"
               /\ call[c].st.ino = i /\ content[i] = "free"

(* SIGKILL between any two steps of a call.                                *)
Kill(c) ==
  /\ pc[c] \in {"remove", "tell", "lock", "ask", "wait"}
  /\ kills < MaxKills /\ kills' = kills + 1
  /\ Goes(c, "dead", None)
  /\ sem' = SemUndo(c)
  /\ got' = [got EXCEPT ![c] = None]
  /\ promised' = [promised EXCEPT ![c] = None]
  /\ untold' = untold \cup {i \in Ino : Keeps(c, i)}
  /\ UNCHANGED <<dir, content, daemon, settled, req, serial, phase, file, sessions, calls>>

(* exec: the process keeps its number, and the new image counts from 0.    *)
Exec(c) ==
  /\ pc[c] = "idle" /\ serial[c] > 0 /\ phase = "run"
  /\ serial' = [serial EXCEPT ![c] = 0]
  /\ UNCHANGED <<files, daemon, req, session, history, sem, pc, call, got, calls>>

(* get_msg and process_msg; the answer waits for room in its queue, and    *)
(* the request meanwhile counts as one in the other queue.                 *)
Serve ==
  /\ phase # "down" /\ req # <<>>
  /\ LET m == Head(req)
     IN  /\ req' = Tail(req)
         /\ table' = Process(table, m.id, m.st)
         /\ IF m.id = "stat"
            THEN /\ Len(ans) < Cap
                 /\ ans' = Append(ans, [m EXCEPT !.st = Answer(table, m.st)])
            ELSE UNCHANGED ans
  /\ UNCHANGED <<files, session, history, sem, serial, pc, call, got, calls>>

--------------------------------------------------------------------------------
(* The script. *)

(* Mutant: the daemon is stopped without the ls.                           *)
StopAtOnce ==
  /\ phase = "run" /\ \A c \in Client : pc[c] \in {"idle", "dead"}
  /\ phase' = "sync"
  /\ UNCHANGED <<files, daemon, history, req, sem, serial, pc, call, got,
                 file, calls, kills, sessions>>

(* The command has ended; the trap runs ls, whose stat is the last request *)
(* in the queue.                                                           *)
SyncStart ==
  /\ phase = "run" /\ \A c \in Client : pc[c] \in {"idle", "dead"}
  /\ phase' = "sync"
  /\ Goes(Shell, "lock", Message(None, "stat", Slash))
  /\ UNCHANGED <<files, daemon, history, req, sem, serial, got, file, calls, kills, sessions>>

(* SIGTERM, again and again until the daemon has gone: it removes the      *)
(* queues and the semaphore, and saves.                                    *)
Cleanup ==
  /\ phase = "sync" /\ pc[Shell] = "idle"
  /\ phase' = "down"
  /\ req' = <<>> /\ ans' = <<>> /\ sem' = None
  /\ file' = SaveDatabase(table)
  /\ table' = <<>> /\ settled' = table
  /\ promised' = [p \in Proc |-> None]
  /\ got' = [p \in Proc |-> None]
  /\ UNCHANGED <<files, serial, pc, call, calls, kills, sessions>>

(* The next session loads the file, line by line, before the daemon goes   *)
(* to the background and the command starts.                               *)
Restart ==
  /\ phase = "down" /\ sessions < MaxSessions
  /\ sessions' = sessions + 1
  /\ phase' = "load"
  /\ serial' = [p \in Proc |-> 0]
  /\ pc' = [p \in Proc |-> "idle"]
  /\ UNCHANGED <<files, daemon, history, req, sem, call, got, file, calls, kills>>

Load ==
  /\ phase = "load"
  /\ IF file = <<>>
     THEN phase' = "run" /\ settled' = table /\ UNCHANGED <<table, file>>
     ELSE /\ \E empty \in BOOLEAN : table' = LoadLine(table, Head(file), empty)
          /\ file' = Tail(file)
          /\ UNCHANGED <<phase, settled>>
  /\ UNCHANGED <<files, ans, req, sem, serial, pc, call, got, promised, calls, kills, sessions>>

(* Both queues are full, of requests and answers of killed processes in    *)
(* front, and nobody takes an answer: the daemon waits in its own msgsnd.  *)
Jammed == /\ Len(ans) = Cap /\ Len(req) = Cap /\ Head(req).id = "stat"
          /\ \A p \in Proc : pc[p] # "wait"

(* Nothing happens after the last session, and after a jam.                *)
Done == /\ (phase = "down" /\ sessions = MaxSessions) \/ Jammed
        /\ UNCHANGED vars

Call(c) ==
  \/ \E n \in Names[c] : \/ Create(c, n) \/ Chown(c, n) \/ Chmod(c, n)
                         \/ Mknod(c, n) \/ Mkdir(c, n) \/ Unlink(c, n)
                         \/ Stat(c, n)
  \/ \E m, n \in Names[c] : Link(c, m, n) \/ Rename(c, m, n)

Continue(p) == Tell(p) \/ Lock(p) \/ Ask(p) \/ Receive(p) \/ RemoveFile(p)

Script == SyncStart \/ Cleanup \/ Restart \/ Load

Next == \/ \E c \in Client : Call(c) \/ Kill(c) \/ Exec(c)
        \/ \E p \in Proc : Continue(p)
        \/ Serve \/ Script \/ Done

(* The kernel runs every process, the daemon and the script; nothing makes *)
(* a process begin a call, die or execute another program.                 *)
Fairness == /\ \A p \in Proc : WF_vars(Tell(p)) /\ WF_vars(Lock(p)) /\ WF_vars(Ask(p))
                               /\ WF_vars(Receive(p)) /\ WF_vars(RemoveFile(p))
            /\ WF_vars(Serve) /\ WF_vars(Cleanup)

Spec == Init /\ [][Next]_vars
FairSpec == Spec /\ Fairness

--------------------------------------------------------------------------------
(* Properties. *)

StatusOf(uids) ==
  [ino : Ino \cup {NoIno}, type : {"reg", "dir", "dev"}, empty : BOOLEAN,
   perm : Perm, uid : uids, nlink : Nat]
Status == StatusOf(Uid \cup {Root, User, Same})
Entry == StatusOf(Uid \cup {Root})
Saved == [ino : Ino \cup {NoIno}, type : {"reg", "dir", "dev"},
          perm : Perm, uid : Uid \cup {Root}, nlink : Nat]
Requests == {"chown", "chmod", "mknod", "unlink", "stat"}
Messages == [id : Requests, st : Status, pid : Proc \cup {None}, serial : Nat]
Reports == {None} \cup
  (Ino \cup {NoIno}) \X [type : {"reg", "dir", "dev"}, perm : Perm, uid : Uid \cup {Root, User}]

TypeOK ==
  /\ dir \in [Name -> Ino \cup {NoIno}]
  /\ content \in [Ino -> {"free", "empty", "full", "dir"}]
  /\ table \in Seq(Entry)
  /\ req \in Seq(Messages) /\ ans \in Seq(Messages)
  /\ sem \in Proc \cup {None}
  /\ serial \in [Proc -> Nat]
  /\ pc \in [Proc -> {"idle", "remove", "tell", "lock", "ask", "wait", "dead"}]
  /\ call \in [Proc -> [path : Name \cup {None}, id : Requests, st : Status] \cup {None}]
  /\ got \in [Proc -> Reports] /\ promised \in [Proc -> Reports]
  /\ settled \in Seq(Entry) /\ untold \subseteq Ino
  /\ phase \in {"run", "sync", "down", "load"} /\ file \in Seq(Saved)
  /\ calls \in Nat /\ kills \in Nat /\ sessions \in Nat

(* None is no call and no attributes of a file.                            *)
ASSUME NoneAssumption ==
  /\ None \notin [path : Name, id : Requests, st : Status]
  /\ None \notin [type : {"reg", "dir", "dev"}, perm : Perm, uid : Uid \cup {Root}]

(* Processes work on files of their own, by names of their own.            *)
Separate ==
  /\ \A c, d \in Client : c # d => Names[c] \cap Names[d] = {}
  /\ \A c \in Client : \A m \in Names[c], n \in Name \ Names[c] :
       Dir0[m] # NoIno => Dir0[n] # Dir0[m]

View(i) ==
  IF content[i] = "free" THEN None
  ELSE Report(i, Answer(settled, RealStat(i)))[2]

Promise == INSTANCE RootFiles WITH
  Free <- None, Perm <- Mode, Made <- "rw",
  attr <- [i \in Ino |-> IF i \in untold THEN None ELSE View(i)],
  seen <- [c \in Client |-> promised[c]], lost <- untold

(* fakeroot.1: the wrapped calls have the effect that they would have had  *)
(* if the user had really been root, at the moment they return, for all    *)
(* processes, and in the next session too: attributes change only as a     *)
(* call of root's asks, a new inode never has those of the one that had    *)
(* its number before, and a stat reports those of the file it was asked.   *)
(* It fails for the numbers in untold, and for no others.                  *)
ActsAsRoot == Promise!Spec

(* communicate.c, send_get_fakem: the queue is handled in the order of its *)
(* sending, and a stat returns what the data base was for its file when it *)
(* asked, and not the answer to another process or to an earlier request,  *)
(* whoever was killed while waiting and whatever was executed.             *)
InOrder ==
  /\ phase \in {"run", "sync"} /\ req = <<>> => table = settled
  /\ \A p \in Proc : got[p] # None /\ pc[p] # "wait" => got[p] = promised[p]

(* The daemon only stops, and drops its queue, when it has handled every   *)
(* message of the command: what it saves is complete.                      *)
NothingLost == [][phase' = "down" /\ phase # "down" => req = <<>>]_vars

(* Every wrapped call returns, and the script that has begun to stop the   *)
(* daemon ends, unless the queues jam; and they jam only when more         *)
(* processes were killed than there is room for answers (faked.c 772): one *)
(* killed process takes nothing with it, however full the queues are.      *)
CallsReturn ==
  /\ \A p \in Proc : pc[p] \in {"tell", "remove", "lock", "ask", "wait"} ~>
          pc[p] \in {"idle", "dead"} \/ Jammed
  /\ phase = "sync" ~> phase = "down" \/ Jammed
  /\ [](Jammed => kills > Cap)
================================================================================
