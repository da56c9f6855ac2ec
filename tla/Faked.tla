--------------------------------- MODULE Faked ---------------------------------
(***************************************************************************)
(* The data base of fakeroot's daemon (fakeroot-1.14.4/faked.c): the list  *)
(* of the inodes whose attributes were faked, and what each request of the *)
(* preloaded library does to it.                                           *)
(*                                                                         *)
(* A struct fakestat is a record: the inode (with its device), the type,   *)
(* the permissions, the owner (uid and gid are handled alike: one of them  *)
(* is kept), whether the size is 0, and the number of links.  The chains   *)
(* of the hash table are one sequence: entries of one inode are always in  *)
(* one chain, and a chain keeps the order of insertion.                    *)
(***************************************************************************)
EXTENDS Integers, Sequences

CONSTANTS
  Root,             \* uid 0
  User,             \* the uid of the user who runs fakeroot
  Same,             \* uid (uint32_t)-1 of a chown: leave it alone
  UnknownIsReal     \* option -u of fakeroot

(* Device nodes are regular files of size 0 on disk, so that an entry of a *)
(* device answers for such a file.  Everything else keeps its type.        *)
FakestatEqual(hashed, key) ==
  /\ hashed.ino = key.ino
  /\ \/ hashed.type = key.type
     \/ hashed.type = "dev" /\ key.type = "reg" /\ key.empty

(* data_find: the position of the first entry that answers, or 0.          *)
DataFind(table, key) ==
  LET found == {i \in DOMAIN table : FakestatEqual(table[i], key)}
  IN  IF found = {} THEN 0 ELSE CHOOSE i \in found : \A j \in found : i <= j

(* data_insert, and insert_or_overwrite, which does the same in two calls. *)
DataInsert(table, st) ==
  LET i == DataFind(table, st)
  IN  IF i = 0 THEN Append(table, st) ELSE [table EXCEPT ![i] = st]

DataErase(table, i) ==
  SubSeq(table, 1, i - 1) \o SubSeq(table, i + 1, Len(table))

Owned(st) == [st EXCEPT !.uid = Root]

(* Mutant: an unknown file keeps the "leave it alone" of the request.      *)
ProcessChownVerbatim(table, st) ==
  LET i == DataFind(table, st)
  IN  IF i = 0 THEN DataInsert(table, st)
      ELSE IF st.uid = Same THEN table ELSE [table EXCEPT ![i].uid = st.uid]

ProcessChown(table, st) ==
  LET i == DataFind(table, st)
  IN  IF i # 0
      THEN IF st.uid = Same THEN table ELSE [table EXCEPT ![i].uid = st.uid]
      ELSE DataInsert(table, IF st.uid = Same THEN Owned(st) ELSE st)

(* The condition under which the code would take the new type is false for *)
(* every entry that data_find returns (!st->mode is 0).                    *)
ProcessChmod(table, st) ==
  LET i == DataFind(table, st)
  IN  IF i = 0
      THEN DataInsert(table, Owned(st))
      ELSE LET changed == [table[i] EXCEPT !.perm = st.perm,
                                          !.type = IF st.type = "reg" THEN @ ELSE st.type]
           IN  DataInsert([table EXCEPT ![i] = changed], changed)

ProcessMknod(table, st) ==
  LET i == DataFind(table, st)
  IN  IF i = 0
      THEN DataInsert(table, Owned(st))
      ELSE LET changed == [table[i] EXCEPT !.perm = st.perm, !.type = st.type]
           IN  DataInsert([table EXCEPT ![i] = changed], changed)

(* Mutant: the entry goes with any link.                                   *)
ProcessUnlinkAny(table, st) ==
  LET i == DataFind(table, st)
  IN  IF i # 0 THEN DataErase(table, i) ELSE table

(* The last link of the inode has gone; a directory has one of its own.    *)
ProcessUnlink(table, st) ==
  LET i == DataFind(table, st)
  IN  IF i # 0 /\ (st.nlink = 1 \/ (st.type = "dir" /\ st.nlink = 2))
      THEN DataErase(table, i)
      ELSE table

(* What process_stat answers: never the number of links.                   *)
Answer(table, st) ==
  LET i == DataFind(table, st)
  IN  IF i # 0
      THEN [st EXCEPT !.type = table[i].type, !.perm = table[i].perm,
                      !.uid = table[i].uid, !.empty = table[i].empty]
      ELSE IF UnknownIsReal THEN st ELSE Owned(st)

(* process_msg: the table after a request.                                 *)
Process(table, id, st) ==
  CASE id = "chown" -> ProcessChown(table, st)
    [] id = "chmod" -> ProcessChmod(table, st)
    [] id = "mknod" -> ProcessMknod(table, st)
    [] id = "stat" -> table
    [] id = "unlink" -> ProcessUnlink(table, st)

(* save_database writes every entry, without its size; load_database       *)
(* reads the lines in their order.                                         *)
Line(st) == [ino |-> st.ino, type |-> st.type, perm |-> st.perm, uid |-> st.uid,
             nlink |-> st.nlink]
SaveDatabase(table) == [i \in DOMAIN table |-> Line(table[i])]

(* The size of the entry is what is on the stack of load_database.         *)
Loaded(line, empty) ==
  [ino |-> line.ino, type |-> line.type, perm |-> line.perm, uid |-> line.uid,
   nlink |-> line.nlink, empty |-> empty]
LoadLine(table, line, empty) == DataInsert(table, Loaded(line, empty))
================================================================================
