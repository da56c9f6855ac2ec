------------------------------- MODULE RootFiles -------------------------------
(***************************************************************************)
(* What fakeroot promises (doc/fakeroot.1): "functions (chmod(2), stat(2)  *)
(* etc.) [that] simulate the effect the real library functions would have  *)
(* had, had the user really been root".  Every inode has the attributes    *)
(* that root's calls gave it, a new one those of a file that root makes,   *)
(* and a stat reports the attributes the inode had at one moment of the    *)
(* call.  Nothing is promised of an inode that is lost: one whose removal  *)
(* went by untold.  An inode is lost only while no file uses it.           *)
(***************************************************************************)
CONSTANTS Ino, Client,
          Uid, Perm,    \* the owners and permissions that calls ask for
          Root, Made,   \* the owner and permissions of what root makes
          Free          \* no attributes: the inode is not in use, or nothing seen

VARIABLES attr,   \* the attributes of every inode
          seen,   \* the inode of the last stat of a process, and the answer
          lost    \* the inodes that no promise is kept for

Attr == [type : {"reg", "dir", "dev"}, perm : Perm \cup {Made}, uid : Uid \cup {Root}]

Init == /\ attr \in [Ino -> {Free} \cup Attr]
        /\ seen = [c \in Client |-> Free]
        /\ lost = {}

(* How the attributes of an inode may change, from x to y: a call of       *)
(* root's, the first of which makes the file and the last removes it;      *)
(* mknod makes a file and turns it into a device in two steps.             *)
Create(x, y) == /\ x = Free
                /\ y \in [type : {"reg", "dir"}, perm : {Made}, uid : {Root}]
Chown(x, y) == x # Free /\ y \in {[x EXCEPT !.uid = u] : u \in Uid}
Chmod(x, y) == x # Free /\ y \in {[x EXCEPT !.perm = p] : p \in Perm}
Mknod(x, y) == /\ x # Free /\ x.type # "dir"
               /\ y \in {[x EXCEPT !.type = "dev", !.perm = p] : p \in Perm}
Remove(x, y) == y = Free

Call(x, y) == \/ Create(x, y) \/ Chown(x, y) \/ Chmod(x, y)
              \/ Mknod(x, y) \/ Remove(x, y)

(* A call changes one inode.                                               *)
Change == \E i \in Ino \ lost : /\ attr'[i] # attr[i]
                               /\ Call(attr[i], attr'[i])
                               /\ attr' = [attr EXCEPT ![i] = attr'[i]]

Stat(c) == \E i \in Ino, a \in Attr : /\ i \in lost \/ attr[i] = a
                                     /\ seen' = [seen EXCEPT ![c] = <<i, a>>]

(* A process ends, or all processes do.                                    *)
Forget == \/ \E c \in Client : seen' = [seen EXCEPT ![c] = Free]
          \/ seen' = [c \in Client |-> Free]

(* The removal of an inode is not told, perhaps because a process ends.    *)
Lose == /\ \E i \in Ino \ lost : attr[i] = Free /\ lost' = lost \cup {i}
        /\ Forget \/ UNCHANGED seen

Next == \/ Change /\ UNCHANGED <<seen, lost>>
        \/ Forget /\ UNCHANGED <<attr, lost>>
        \/ (\E c \in Client : Stat(c)) /\ UNCHANGED <<attr, lost>>
        \/ Lose /\ UNCHANGED attr

Spec == Init /\ [][Next]_<<attr, seen, lost>>
================================================================================
