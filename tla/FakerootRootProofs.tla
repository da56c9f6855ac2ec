---------------------------- MODULE FakerootRootProofs ----------------------------
(* For any processes, files, length of the queues and number of sessions:  *)
(* the library, the daemon and the script implement RootFiles, what root's *)
(* calls do to the attributes of the files.                                *)
(*                                                                         *)
(* All that follows is of the inodes of whose removal the daemon is told   *)
(* in time.  The data base as it will be has one entry at most for such an *)
(* inode.  It answers for the file as it is on the disk, unless a process  *)
(* has removed the file and is about to tell the daemon.  A process that   *)
(* is about to tell something of a file has a name of it, and no other     *)
(* process does.  What the data base says of other inodes changes nothing  *)
(* about these.                                                            *)
EXTENDS FakerootProofs

(* The inodes of whose removal the daemon is told in time.                 *)
Sure == Ino \ untold

(* The entries of a data base, and whether an inode has one at most.       *)
Rows(t) == {t[k] : k \in 1..Len(t)}
KeyedAt(t, i) == \A j, k \in 1..Len(t) : t[j].ino = i /\ t[k].ino = i => j = k
NoRow(t, i) == \A r \in Rows(t) : r.ino # i

OneEach == \A i \in Sure : KeyedAt(settled, i)

(* The unlink of a last link, of which process_unlink erases the entry.    *)
LastLink(st) == st.nlink = 1 \/ (st.type = "dir" /\ st.nlink = 2)

(* The entry goes when the message that c is to send has been handled.     *)
Drops(r, c) ==
  /\ pc[c] = "tell" /\ call[c].id = "unlink"
  /\ call[c].st.ino = r.ino /\ FakestatEqual(r, call[c].st)

(* An entry answers for a file that exists as it is, or is to be erased.   *)
Known ==
  \A r \in Rows(settled) : r.ino \in Sure =>
    IF content[r.ino] = "free" THEN \E c \in Client : Drops(r, c)
    ELSE FakestatEqual(r, RealStat(r.ino))

(* Every name is of a file, and no file has names of two processes.        *)
OwnFiles ==
  /\ \A n \in Name : dir[n] # NoIno => content[dir[n]] # "free"
  /\ \A c \in Client : \A m \in Names[c], n \in Name \ Names[c] :
       dir[m] # NoIno => dir[n] # dir[m]

Has(c, i) == \E n \in Names[c] : dir[n] = i

(* The message that c is to send says what the file is; an unlink, whether *)
(* its last name has gone.                                                 *)
Pending(c) ==
  LET m == call[c]
      i == m.st.ino
  IN  /\ pc[c] \in {"remove", "tell", "lock", "ask"} =>
           m # None /\ m.path \in Names[c] /\ i \in Ino
      /\ pc[c] \in {"remove", "lock", "ask"} => dir[m.path] = i /\ m.st = RealStat(i)
      /\ pc[c] = "remove" => m.id = "unlink"
      /\ pc[c] = "tell" => m.id # "stat"
      /\ pc[c] = "tell" /\ m.id = "chown" =>
           Has(c, i) /\ \E u \in Uid \cup {Same} : m.st = [RealStat(i) EXCEPT !.uid = u]
      /\ pc[c] = "tell" /\ m.id = "chmod" =>
           Has(c, i) /\ \E p \in Mode : m.st = [RealStat(i) EXCEPT !.perm = p]
      /\ pc[c] = "tell" /\ m.id = "mknod" =>
           /\ Has(c, i) /\ content[i] = "empty" /\ (i \in Sure => NoRow(settled, i))
           /\ \E p \in Mode : m.st = [RealStat(i) EXCEPT !.type = "dev", !.perm = p]
      /\ pc[c] = "tell" /\ m.id = "unlink" /\ i \in Sure =>
           IF content[i] = "free" THEN LastLink(m.st) ELSE Has(c, i) /\ ~LastLink(m.st)

(* What has been read of the save file, and the rest of it, are the lines  *)
(* of the data base that was saved: for an inode one at most, which is     *)
(* either still to be read or has been.                                    *)
Lines(t) == {Line(t[k]) : k \in 1..Len(t)}

Restores ==
  phase \in {"down", "load"} => \A i \in Sure :
    /\ KeyedAt(table, i) /\ KeyedAt(file, i)
    /\ NoRow(table, i) \/ NoRow(file, i)
    /\ \A l : l.ino = i => (l \in Lines(settled) <=> l \in Lines(table) \cup Rows(file))

RootInv == /\ OneEach /\ Known /\ OwnFiles /\ Restores
           /\ \A c \in Client : Pending(c)

--------------------------------------------------------------------------------
(* The data base: what a request does to the entries. *)

(* What a stat tells of an entry.                                          *)
Attributes(r) == [type |-> r.type, perm |-> r.perm, uid |-> r.uid]

(* u is t with e for the entries of its inode.                             *)
Sets(t, u, e) ==
  /\ KeyedAt(u, e.ino) /\ \A i : KeyedAt(t, i) => KeyedAt(u, i)
  /\ \A r : r \in Rows(u) <=> r = e \/ (r \in Rows(t) /\ r.ino # e.ino)

(* u has the entries that t has, but for those of the inode i.             *)
Elsewhere(t, u, i) ==
  /\ \A j : j # i /\ KeyedAt(t, j) => KeyedAt(u, j)
  /\ \A r : r.ino # i => (r \in Rows(u) <=> r \in Rows(t))

LEMMA FindRow ==
  ASSUME NEW t \in Seq(Entry), NEW key
  PROVE  \/ DataFind(t, key) = 0 /\ \A r \in Rows(t) : ~FakestatEqual(r, key)
         \/ /\ DataFind(t, key) \in 1..Len(t) /\ DataFind(t, key) # 0
            /\ FakestatEqual(t[DataFind(t, key)], key)
            /\ t[DataFind(t, key)] \in Rows(t)
            /\ t[DataFind(t, key)].ino = key.ino
BY FindMatches DEF Rows, FakestatEqual

LEMMA RowsTyped == ASSUME NEW t \in Seq(Entry) PROVE Rows(t) \subseteq Entry
BY ElementOfSeq DEF Rows

LEMMA KeyedRows ==
  ASSUME NEW t \in Seq(Entry), NEW r \in Rows(t), NEW s \in Rows(t), r.ino = s.ino,
         KeyedAt(t, r.ino)
  PROVE  r = s
BY DEF KeyedAt, Rows

LEMMA AppendRow ==
  ASSUME NEW t \in Seq(Entry), NEW e \in Entry
  PROVE  /\ NoRow(t, e.ino) => Sets(t, Append(t, e), e)
         /\ Elsewhere(t, Append(t, e), e.ino)
<1> DEFINE u == Append(t, e)
<1>1. /\ Len(u) = Len(t) + 1 /\ Len(t) \in Nat /\ u[Len(t) + 1] = e
      /\ \A k \in 1..Len(t) : u[k] = t[k]
  BY AppendProperties, LenProperties
<1>2. \A k \in 1..Len(u) : k \in 1..Len(t) \/ k = Len(t) + 1 BY <1>1
<1>3. \A k \in 1..Len(t) : k \in 1..Len(u) BY <1>1
<1>4. Len(t) + 1 \in 1..Len(u) BY <1>1
<1> HIDE DEF u
<1>5. \A r : r \in Rows(u) <=> r = e \/ r \in Rows(t)
  BY <1>1, <1>2, <1>3, <1>4 DEF Rows
<1>6. ASSUME NEW j, j # e.ino, KeyedAt(t, j) PROVE KeyedAt(u, j)
  BY <1>1, <1>2, <1>6 DEF KeyedAt
<1>7. ASSUME NoRow(t, e.ino) PROVE KeyedAt(u, e.ino)
  <2>1. \A k \in 1..Len(t) : t[k].ino # e.ino BY <1>7 DEF NoRow, Rows
  <2> QED BY <1>1, <1>2, <2>1 DEF KeyedAt
<1>8. Elsewhere(t, u, e.ino) BY <1>5, <1>6 DEF Elsewhere
<1>9. ASSUME NoRow(t, e.ino) PROVE Sets(t, u, e)
  BY <1>5, <1>6, <1>7, <1>9 DEF Sets, NoRow
<1> QED BY <1>8, <1>9 DEF u

LEMMA ReplaceRow ==
  ASSUME NEW t \in Seq(Entry), NEW i \in 1..Len(t), NEW e \in Entry, e.ino = t[i].ino
  PROVE  /\ KeyedAt(t, e.ino) => Sets(t, [t EXCEPT ![i] = e], e)
         /\ Elsewhere(t, [t EXCEPT ![i] = e], e.ino)
         /\ [t EXCEPT ![i] = e] \in Seq(Entry)
<1> DEFINE u == [t EXCEPT ![i] = e]
<1>1. /\ u \in Seq(Entry) /\ Len(u) = Len(t) /\ u[i] = e
      /\ \A k \in 1..Len(t) : k # i => u[k] = t[k]
  BY ExceptSeq, LenProperties
<1>2. \A k \in 1..Len(t) : u[k].ino = t[k].ino BY <1>1
<1> HIDE DEF u
<1>3. \A j : KeyedAt(t, j) => KeyedAt(u, j) BY <1>1, <1>2 DEF KeyedAt
<1>4. \A r : r.ino # e.ino => (r \in Rows(u) <=> r \in Rows(t)) BY <1>1, <1>2 DEF Rows
<1>5. ASSUME KeyedAt(t, e.ino) PROVE \A r \in Rows(u) : r.ino = e.ino => r = e
  BY <1>1, <1>2, <1>5 DEF KeyedAt, Rows
<1>6. e \in Rows(u) BY <1>1 DEF Rows
<1>7. KeyedAt(t, e.ino) => Sets(t, u, e) BY <1>3, <1>4, <1>5, <1>6 DEF Sets
<1>8. Elsewhere(t, u, e.ino) BY <1>3, <1>4 DEF Elsewhere
<1> QED BY <1>1, <1>7, <1>8 DEF u

LEMMA InsertRow ==
  ASSUME NEW t \in Seq(Entry), NEW e \in Entry
  PROVE  /\ KeyedAt(t, e.ino) /\ (\A r \in Rows(t) : r.ino = e.ino => FakestatEqual(r, e)) =>
              Sets(t, DataInsert(t, e), e)
         /\ Elsewhere(t, DataInsert(t, e), e.ino)
<1>1. CASE DataFind(t, e) = 0
  <2>1. (\A r \in Rows(t) : r.ino = e.ino => FakestatEqual(r, e)) => NoRow(t, e.ino)
    BY <1>1, FindRow DEF NoRow
  <2> QED BY <1>1, <2>1, AppendRow DEF DataInsert
<1>2. CASE DataFind(t, e) # 0
  <2>1. DataFind(t, e) \in 1..Len(t) /\ t[DataFind(t, e)].ino = e.ino BY <1>2, FindRow
  <2> QED BY <1>2, <2>1, ReplaceRow DEF DataInsert
<1> QED BY <1>1, <1>2

LEMMA EraseRow ==
  ASSUME NEW t \in Seq(Entry), NEW i \in 1..Len(t)
  PROVE  /\ \A j : KeyedAt(t, j) => KeyedAt(DataErase(t, i), j)
         /\ \A r : r.ino # t[i].ino => (r \in Rows(DataErase(t, i)) <=> r \in Rows(t))
         /\ KeyedAt(t, t[i].ino) => NoRow(DataErase(t, i), t[i].ino)
<1> DEFINE u == DataErase(t, i)
<1>1. Len(t) \in Nat /\ i \in Nat \ {0} BY LenProperties
<1>2. /\ SubSeq(t, 1, i - 1) \in Seq(Entry) /\ Len(SubSeq(t, 1, i - 1)) = i - 1
      /\ \A k \in 1..(i - 1) : SubSeq(t, 1, i - 1)[k] = t[k]
  <2>1. \A j \in 1..(i - 1) : t[j] \in Entry BY <1>1, ElementOfSeq
  <2> QED BY <1>1, <2>1, SubSeqProperties
<1>3. /\ SubSeq(t, i + 1, Len(t)) \in Seq(Entry) /\ Len(SubSeq(t, i + 1, Len(t))) = Len(t) - i
      /\ \A k \in 1..(Len(t) - i) : SubSeq(t, i + 1, Len(t))[k] = t[i + k]
  <2>1. \A j \in (i + 1)..Len(t) : t[j] \in Entry BY <1>1, ElementOfSeq
  <2>2. CASE i = Len(t) BY <1>1, <2>1, <2>2, SubSeqProperties
  <2>3. CASE i < Len(t) BY <1>1, <2>1, <2>3, SubSeqProperties
  <2> QED BY <1>1, <2>2, <2>3
<1>4. /\ Len(u) = Len(t) - 1
      /\ \A k \in 1..(i - 1) : u[k] = t[k]
      /\ \A k \in i..(Len(t) - 1) : u[k] = t[k + 1]
  <2> DEFINE x == SubSeq(t, 1, i - 1)
             y == SubSeq(t, i + 1, Len(t))
  <2>1. u = x \o y BY DEF DataErase
  <2> HIDE DEF x, y, u
  <2>2. Len(x) = i - 1 /\ Len(y) = Len(t) - i /\ x \in Seq(Entry) /\ y \in Seq(Entry)
    BY <1>2, <1>3 DEF x, y
  <2>3. /\ Len(u) = Len(x) + Len(y)
        /\ \A k \in 1..(Len(x) + Len(y)) : u[k] = IF k <= Len(x) THEN x[k] ELSE y[k - Len(x)]
    BY <2>1, <2>2, ConcatProperties
  <2>4. ASSUME NEW k \in i..(Len(t) - 1) PROVE u[k] = t[k + 1]
    <3>1. k \in 1..(Len(x) + Len(y)) /\ ~(k <= Len(x)) BY <1>1, <2>2
    <3>2. k - Len(x) \in 1..(Len(t) - i) /\ i + (k - Len(x)) = k + 1 BY <1>1, <2>2
    <3> QED BY <1>3, <2>3, <3>1, <3>2 DEF y
  <2>5. \A k \in 1..(i - 1) : u[k] = t[k]
    BY <1>1, <1>2, <2>2, <2>3 DEF x
  <2> QED BY <1>1, <2>2, <2>3, <2>4, <2>5
<1> HIDE DEF u
<1> DEFINE at(k) == IF k < i THEN k ELSE k + 1
<1>5. \A k \in 1..Len(u) : at(k) \in 1..Len(t) /\ at(k) # i /\ u[k] = t[at(k)]
  BY <1>1, <1>4
<1>6. \A j, k \in 1..Len(u) : at(j) = at(k) => j = k BY <1>1, <1>4
<1>7. \A j \in 1..Len(t) : j # i => \E k \in 1..Len(u) : at(k) = j
  <2> SUFFICES ASSUME NEW j \in 1..Len(t), j # i PROVE \E k \in 1..Len(u) : at(k) = j
    OBVIOUS
  <2>1. CASE j < i
    <3>1. j \in 1..Len(u) /\ at(j) = j BY <1>1, <1>4, <2>1
    <3> QED BY <3>1
  <2>2. CASE j > i
    <3>1. j - 1 \in 1..Len(u) /\ at(j - 1) = j BY <1>1, <1>4, <2>2
    <3> QED BY <3>1
  <2> QED BY <1>1, <2>1, <2>2
<1> HIDE DEF at
<1>8. \A j : KeyedAt(t, j) => KeyedAt(u, j) BY <1>5, <1>6 DEF KeyedAt
<1>9. ASSUME NEW r, r.ino # t[i].ino PROVE r \in Rows(u) <=> r \in Rows(t)
  <2>1. r \in Rows(u) => r \in Rows(t) BY <1>5 DEF Rows
  <2>2. ASSUME r \in Rows(t) PROVE r \in Rows(u)
    <3>1. PICK j \in 1..Len(t) : r = t[j] /\ j # i BY <1>9, <2>2 DEF Rows
    <3> QED BY <1>5, <1>7, <3>1 DEF Rows
  <2> QED BY <2>1, <2>2
<1>10. KeyedAt(t, t[i].ino) => NoRow(u, t[i].ino) BY <1>5 DEF KeyedAt, NoRow, Rows
<1> QED BY <1>8, <1>9, <1>10 DEF u

(* The position of the entry that answers, when there is one.              *)
LEMMA FoundRow ==
  ASSUME NEW t \in Seq(Entry), NEW key, KeyedAt(t, key.ino)
  PROVE  /\ NoRow(t, key.ino) => DataFind(t, key) = 0
         /\ \A r \in Rows(t) : FakestatEqual(r, key) =>
              DataFind(t, key) \in 1..Len(t) /\ DataFind(t, key) # 0 /\ t[DataFind(t, key)] = r
<1>1. ASSUME NoRow(t, key.ino) PROVE DataFind(t, key) = 0 BY <1>1, FindRow DEF NoRow
<1>2. ASSUME NEW r \in Rows(t), FakestatEqual(r, key)
      PROVE DataFind(t, key) \in 1..Len(t) /\ DataFind(t, key) # 0 /\ t[DataFind(t, key)] = r
  <2>1. r.ino = key.ino BY <1>2 DEF FakestatEqual
  <2> QED BY <1>2, <2>1, FindRow, KeyedRows
<1> QED BY <1>1, <1>2

LEMMA ChownRow ==
  ASSUME NEW t \in Seq(Entry), NEW st \in Status, KeyedAt(t, st.ino), st.uid \in Uid \cup {Same}
  PROVE  /\ NoRow(t, st.ino) =>
              Sets(t, Process(t, "chown", st), IF st.uid = Same THEN Owned(st) ELSE st)
         /\ \A r \in Rows(t) : FakestatEqual(r, st) =>
              IF st.uid = Same THEN Process(t, "chown", st) = t
              ELSE Sets(t, Process(t, "chown", st), [r EXCEPT !.uid = st.uid])
<1>0. Process(t, "chown", st) = ProcessChown(t, st) BY DEF Process
<1>1. ASSUME NoRow(t, st.ino)
      PROVE  Sets(t, Process(t, "chown", st), IF st.uid = Same THEN Owned(st) ELSE st)
  <2> DEFINE e == IF st.uid = Same THEN Owned(st) ELSE st
  <2>1. e \in Entry /\ e.ino = st.ino BY DEF Owned, Status, StatusOf, Entry
  <2>2. DataFind(t, st) = 0 BY <1>1, FoundRow
  <2>3. ProcessChown(t, st) = DataInsert(t, e) BY <2>2 DEF ProcessChown
  <2> HIDE DEF e
  <2>4. Sets(t, DataInsert(t, e), e) BY <1>1, <2>1, InsertRow DEF NoRow
  <2> QED BY <1>0, <2>3, <2>4 DEF e
<1>2. ASSUME NEW r \in Rows(t), FakestatEqual(r, st)
      PROVE  IF st.uid = Same THEN Process(t, "chown", st) = t
             ELSE Sets(t, Process(t, "chown", st), [r EXCEPT !.uid = st.uid])
  <2> DEFINE i == DataFind(t, st)
             e == [r EXCEPT !.uid = st.uid]
  <2>1. i \in 1..Len(t) /\ i # 0 /\ t[i] = r BY <1>2, FoundRow
  <2>2. CASE st.uid = Same BY <1>0, <2>1, <2>2 DEF ProcessChown
  <2>3. CASE st.uid # Same
    <3>1. ProcessChown(t, st) = [t EXCEPT ![i].uid = st.uid]
      BY <2>1, <2>3 DEF ProcessChown
    <3>2. r \in Entry BY RowsTyped
    <3>3. e \in Entry /\ e.ino = r.ino /\ r.ino = st.ino
      BY <1>2, <2>3, <3>2 DEF Entry, StatusOf, FakestatEqual
    <3> HIDE DEF i
    <3>4. [t EXCEPT ![i].uid = st.uid] = [t EXCEPT ![i] = e] BY <2>1, LenProperties
    <3> HIDE DEF e
    <3>5. Sets(t, [t EXCEPT ![i] = e], e) BY <2>1, <3>3, ReplaceRow
    <3> QED BY <1>0, <2>3, <3>1, <3>4, <3>5 DEF i, e
  <2> QED BY <2>2, <2>3
<1> QED BY <1>1, <1>2

LEMMA ChmodRow ==
  ASSUME NEW t \in Seq(Entry), NEW st \in Status, KeyedAt(t, st.ino), st.type \in {"reg", "dir"}
  PROVE  /\ NoRow(t, st.ino) => Sets(t, Process(t, "chmod", st), Owned(st))
         /\ \A r \in Rows(t) : FakestatEqual(r, st) =>
              Sets(t, Process(t, "chmod", st), [r EXCEPT !.perm = st.perm])
<1>0. Process(t, "chmod", st) = ProcessChmod(t, st) BY DEF Process
<1>1. ASSUME NoRow(t, st.ino) PROVE Sets(t, Process(t, "chmod", st), Owned(st))
  <2>1. Owned(st) \in Entry /\ Owned(st).ino = st.ino
    BY DEF Owned, Status, StatusOf, Entry
  <2>2. ProcessChmod(t, st) = DataInsert(t, Owned(st)) BY <1>1, FoundRow DEF ProcessChmod
  <2> QED BY <1>0, <1>1, <2>1, <2>2, InsertRow DEF NoRow
<1>2. ASSUME NEW r \in Rows(t), FakestatEqual(r, st)
      PROVE  Sets(t, Process(t, "chmod", st), [r EXCEPT !.perm = st.perm])
  <2> DEFINE i == DataFind(t, st)
             e == [r EXCEPT !.perm = st.perm]
             u == [t EXCEPT ![i] = e]
  <2>1. i \in 1..Len(t) /\ i # 0 /\ t[i] = r BY <1>2, FoundRow
  <2>2. r \in Entry BY RowsTyped
  <2>3. [t[i] EXCEPT !.perm = st.perm, !.type = IF st.type = "reg" THEN @ ELSE st.type] = e
    BY <1>2, <2>1, <2>2 DEF FakestatEqual, Entry, StatusOf
  <2>4. ProcessChmod(t, st) = DataInsert(u, e) BY <2>1, <2>3 DEF ProcessChmod
  <2>5. e \in Entry /\ e.ino = r.ino /\ r.ino = st.ino
    BY <1>2, <2>2 DEF Entry, StatusOf, Status, FakestatEqual
  <2>6. FakestatEqual(e, e) BY DEF FakestatEqual
  <2> HIDE DEF e, i
  <2>7. Sets(t, u, e) /\ u \in Seq(Entry) BY <2>1, <2>5, ReplaceRow
  <2> HIDE DEF u
  <2>8. Sets(u, DataInsert(u, e), e) BY <2>5, <2>6, <2>7, InsertRow DEF Sets
  <2>9. Sets(t, DataInsert(u, e), e) BY <2>7, <2>8 DEF Sets
  <2> QED BY <1>0, <2>4, <2>9 DEF e
<1> QED BY <1>1, <1>2

LEMMA MknodRow ==
  ASSUME NEW t \in Seq(Entry), NEW st \in Status, KeyedAt(t, st.ino), NoRow(t, st.ino)
  PROVE  Sets(t, Process(t, "mknod", st), Owned(st))
<1>1. Owned(st) \in Entry /\ Owned(st).ino = st.ino
  BY DEF Owned, Status, StatusOf, Entry
<1>2. Process(t, "mknod", st) = DataInsert(t, Owned(st)) BY FoundRow DEF Process, ProcessMknod
<1> QED BY <1>1, <1>2, InsertRow DEF NoRow

LEMMA UnlinkRow ==
  ASSUME NEW t \in Seq(Entry), NEW st \in Status, KeyedAt(t, st.ino)
  PROVE  /\ \A j : KeyedAt(t, j) => KeyedAt(Process(t, "unlink", st), j)
         /\ \A r : r \in Rows(Process(t, "unlink", st)) <=>
              r \in Rows(t) /\ ~(LastLink(st) /\ FakestatEqual(r, st))
<1> DEFINE i == DataFind(t, st)
<1>0. Process(t, "unlink", st) = IF i # 0 /\ LastLink(st) THEN DataErase(t, i) ELSE t
  BY DEF Process, ProcessUnlink, LastLink
<1>1. CASE i # 0 /\ LastLink(st)
  <2>1. /\ i \in 1..Len(t) /\ t[i] \in Rows(t) /\ FakestatEqual(t[i], st)
        /\ t[i].ino = st.ino
    BY <1>1, FindRow
  <2>2. \A r \in Rows(t) : r.ino = st.ino <=> FakestatEqual(r, st)
    BY <2>1, KeyedRows DEF FakestatEqual
  <2> HIDE DEF i
  <2>3. /\ \A j : KeyedAt(t, j) => KeyedAt(DataErase(t, i), j)
        /\ \A r : r.ino # st.ino => (r \in Rows(DataErase(t, i)) <=> r \in Rows(t))
        /\ NoRow(DataErase(t, i), st.ino)
    BY <2>1, EraseRow
  <2>4. \A r : FakestatEqual(r, st) => r.ino = st.ino BY DEF FakestatEqual
  <2> QED BY <1>0, <1>1, <2>2, <2>3, <2>4 DEF NoRow
<1>2. CASE ~(i # 0 /\ LastLink(st))
  <2>1. ~LastLink(st) \/ \A r \in Rows(t) : ~FakestatEqual(r, st) BY <1>2, FindRow
  <2> QED BY <1>0, <1>2, <2>1
<1> QED BY <1>1, <1>2

(* A request changes no entry of another inode than its own.               *)
LEMMA ProcessElsewhere ==
  ASSUME NEW t \in Seq(Entry), NEW id \in Requests, NEW st \in Status,
         id = "chown" => st.uid \in Uid \cup {Same}
  PROVE  Elsewhere(t, Process(t, id, st), st.ino)
<1> DEFINE i == DataFind(t, st)
<1>0. Elsewhere(t, t, st.ino) BY DEF Elsewhere
<1>1. /\ Owned(st) \in Entry /\ Owned(st).ino = st.ino
      /\ id = "chown" /\ st.uid # Same => st \in Entry
  BY DEF Owned, Status, StatusOf, Entry
<1>2. \/ i = 0
      \/ i \in 1..Len(t) /\ i # 0 /\ t[i] \in Entry /\ t[i].ino = st.ino
  BY FindRow, RowsTyped
<1>3. \A e \in Entry : e.ino = st.ino => Elsewhere(t, DataInsert(t, e), st.ino) BY InsertRow
<1>4. ASSUME NEW e \in Entry, e.ino = st.ino, i \in 1..Len(t), t[i].ino = st.ino
      PROVE  /\ Elsewhere(t, [t EXCEPT ![i] = e], st.ino)
             /\ Elsewhere(t, DataInsert([t EXCEPT ![i] = e], e), st.ino)
  <2> DEFINE u == [t EXCEPT ![i] = e]
  <2>1. u \in Seq(Entry) /\ Elsewhere(t, u, st.ino) BY <1>4, ReplaceRow
  <2> HIDE DEF u
  <2>2. Elsewhere(u, DataInsert(u, e), st.ino) BY <1>4, <2>1, InsertRow
  <2>3. Elsewhere(t, DataInsert(u, e), st.ino) BY <2>1, <2>2 DEF Elsewhere
  <2> QED BY <2>1, <2>3 DEF u
<1> HIDE DEF i
<1>5. CASE id = "chown"
  <2>1. Process(t, id, st) = ProcessChown(t, st) BY <1>5 DEF Process
  <2>2. CASE i = 0
    <3>1. CASE st.uid = Same BY <1>1, <1>3, <2>1, <2>2, <3>1 DEF ProcessChown, i
    <3>2. CASE st.uid # Same BY <1>1, <1>3, <1>5, <2>1, <2>2, <3>2 DEF ProcessChown, i
    <3> QED BY <3>1, <3>2
  <2>3. CASE i # 0 /\ st.uid = Same BY <1>0, <2>1, <2>3 DEF ProcessChown, i
  <2>4. CASE i # 0 /\ st.uid # Same
    <3> DEFINE e == [t[i] EXCEPT !.uid = st.uid]
    <3>1. e \in Entry /\ e.ino = st.ino BY <1>2, <1>5, <2>4 DEF Entry, StatusOf
    <3>2. [t EXCEPT ![i].uid = st.uid] = [t EXCEPT ![i] = e] BY <1>2, <2>4, LenProperties
    <3>3. Process(t, id, st) = [t EXCEPT ![i].uid = st.uid] BY <2>1, <2>4 DEF ProcessChown, i
    <3> HIDE DEF e
    <3> QED BY <1>2, <1>4, <2>4, <3>1, <3>2, <3>3
  <2> QED BY <2>2, <2>3, <2>4
<1>6. CASE id = "chmod"
  <2>1. CASE i = 0 BY <1>1, <1>3, <1>6, <2>1 DEF Process, ProcessChmod, i
  <2>2. CASE i # 0
    <3> DEFINE e == [t[i] EXCEPT !.perm = st.perm,
                               !.type = IF st.type = "reg" THEN @ ELSE st.type]
    <3>1. e \in Entry /\ e.ino = st.ino BY <1>2, <2>2 DEF Entry, Status, StatusOf
    <3>2. Process(t, id, st) = DataInsert([t EXCEPT ![i] = e], e)
      BY <1>6, <2>2 DEF Process, ProcessChmod, i
    <3> HIDE DEF e
    <3> QED BY <1>2, <1>4, <2>2, <3>1, <3>2
  <2> QED BY <2>1, <2>2
<1>7. CASE id = "mknod"
  <2>1. CASE i = 0 BY <1>1, <1>3, <1>7, <2>1 DEF Process, ProcessMknod, i
  <2>2. CASE i # 0
    <3> DEFINE e == [t[i] EXCEPT !.perm = st.perm, !.type = st.type]
    <3>1. e \in Entry /\ e.ino = st.ino BY <1>2, <2>2 DEF Entry, Status, StatusOf
    <3>2. Process(t, id, st) = DataInsert([t EXCEPT ![i] = e], e)
      BY <1>7, <2>2 DEF Process, ProcessMknod, i
    <3> HIDE DEF e
    <3> QED BY <1>2, <1>4, <2>2, <3>1, <3>2
  <2> QED BY <2>1, <2>2
<1>8. CASE id = "stat" BY <1>0, <1>8 DEF Process
<1>9. CASE id = "unlink"
  <2>1. Process(t, id, st) = IF i # 0 /\ LastLink(st) THEN DataErase(t, i) ELSE t
    BY <1>9 DEF Process, ProcessUnlink, LastLink, i
  <2>2. i # 0 => Elsewhere(t, DataErase(t, i), st.ino) BY <1>2, EraseRow DEF Elsewhere
  <2> QED BY <1>0, <2>1, <2>2
<1> QED BY <1>5, <1>6, <1>7, <1>8, <1>9 DEF Requests

(* What a stat of a file is answered.                                      *)
LEMMA AnswerIs ==
  ASSUME NEW t \in Seq(Entry), ~UnknownIsReal, NEW i, NEW st \in Status,
         KeyedAt(t, st.ino)
  PROVE  /\ NoRow(t, st.ino) => Report(i, Answer(t, st))[2] =
              [type |-> st.type, perm |-> st.perm, uid |-> Root]
         /\ \A r \in Rows(t) : FakestatEqual(r, st) => Report(i, Answer(t, st))[2] = Attributes(r)
<1>1. ASSUME NoRow(t, st.ino)
      PROVE  Report(i, Answer(t, st))[2] = [type |-> st.type, perm |-> st.perm, uid |-> Root]
  <2>1. Answer(t, st) = Owned(st) BY <1>1, FoundRow DEF Answer
  <2>2. /\ Owned(st).type = st.type /\ Owned(st).perm = st.perm /\ Owned(st).uid = Root
    BY DEF Owned, Status, StatusOf
  <2> QED BY <2>1, <2>2 DEF Report
<1>2. ASSUME NEW r \in Rows(t), FakestatEqual(r, st)
      PROVE  Report(i, Answer(t, st))[2] = Attributes(r)
  <2>1. Answer(t, st) = [st EXCEPT !.type = r.type, !.perm = r.perm,
                                  !.uid = r.uid, !.empty = r.empty]
    BY <1>2, FoundRow DEF Answer
  <2>2. Answer(t, st).type = r.type /\ Answer(t, st).perm = r.perm /\ Answer(t, st).uid = r.uid
    BY <2>1 DEF Status, StatusOf
  <2> QED BY <2>2 DEF Report, Attributes
<1> QED BY <1>1, <1>2

--------------------------------------------------------------------------------
(* The files. *)

(* The number of links that a removal finds says whether it is the last.   *)
LEMMA LastName ==
  ASSUME NEW i, NEW n \in Name, dir[n] = i
  PROVE  LastLink(RealStat(i)) <=> \A m \in Name : dir[m] = i => m = n
<1> DEFINE S == {m \in Name : dir[m] = i}
<1>1. IsFiniteSet(S) BY FakerootAssumption, FS_Subset
<1>2. Links(i) = Cardinality(S) /\ Links(i) \in Nat BY <1>1, FS_CardinalityType DEF Links
<1>3. n \in S /\ Links(i) # 0
  <2>1. n \in S OBVIOUS
  <2> QED BY <1>1, <1>2, <2>1, FS_EmptySet
<1>4. Links(i) = 1 <=> \E x : S = {x} BY <1>1, <1>2, FS_Singleton
<1>5. (\E x : S = {x}) <=> \A m \in S : m = n BY <1>3
<1>6. LastLink(RealStat(i)) <=> Links(i) = 1 BY <1>2, <1>3 DEF LastLink, RealStat
<1> QED BY <1>4, <1>5, <1>6

(* A number that is taken is of no file; the data base and the messages    *)
(* say nothing of it, unless its removal has not been told.                *)
LEMMA TakesIsNew ==
  ASSUME TypeInv, RootInv, NEW i \in Ino, Takes(i)
  PROVE  /\ content[i] = "free" /\ \A n \in Name : dir[n] # i
         /\ untold \subseteq untold' /\ \A j \in Ino : j # i => (j \in Sure' <=> j \in Sure)
         /\ i \in Sure' => /\ i \in Sure /\ NoRow(settled, i)
                           /\ \A c \in Client : call[c] # None => call[c].st.ino # i
<1>1. content[i] = "free" /\ untold' = IF Quiet(i) THEN untold ELSE untold \cup {i}
  BY DEF Takes
<1>2. \A n \in Name : dir[n] # i
  BY <1>1, FakerootAssumption DEF RootInv, OwnFiles
<1>3. ASSUME i \in Sure'
      PROVE  /\ i \in Sure /\ NoRow(settled, i)
             /\ \A c \in Client : call[c] # None => call[c].st.ino # i
  <2>1. Quiet(i) /\ i \in Sure BY <1>1, <1>3 DEF Sure
  <2>2. \A c \in Client : call[c] # None => call[c].st.ino # i BY <2>1 DEF Quiet
  <2>3. ASSUME NEW r \in Rows(settled), r.ino = i PROVE FALSE
    <3>1. PICK c \in Client : Drops(r, c) BY <1>1, <2>1, <2>3 DEF RootInv, Known
    <3>2. call[c] # None BY <3>1 DEF Drops, RootInv, Pending
    <3> QED BY <2>2, <2>3, <3>1, <3>2 DEF Drops
  <2> QED BY <2>1, <2>2, <2>3 DEF NoRow
<1>4. untold \subseteq untold' /\ \A j \in Ino : j # i => (j \in Sure' <=> j \in Sure)
  BY <1>1 DEF Sure
<1> QED BY <1>1, <1>2, <1>3, <1>4

(* What a process is to send stays true while its file stays as it is, or  *)
(* stays gone.                                                             *)
LEMMA PendingKept ==
  ASSUME NEW c \in Client, Pending(c), call'[c] = call[c],
         pc'[c] = pc[c] \/ (pc[c] = "lock" /\ pc'[c] = "ask"),
         untold \subseteq untold',
         \A n \in Names[c] : n = call[c].path => dir'[n] = dir[n],
         NEW i, i = call[c].st.ino,
         i \in Ino /\ Has(c, i) =>
           RealStat(i)' = RealStat(i) /\ content'[i] = content[i] /\ Has(c, i)',
         i \in Ino /\ call[c] # None /\ content[i] = "free" =>
           content'[i] = "free" \/ i \in untold',
         i \in Sure' /\ Has(c, i) /\ NoRow(settled, i) => NoRow(settled', i)
  PROVE  Pending(c)'
<1>i. call'[c].st.ino = i OBVIOUS
<1>s. i \in Sure' => i \in Sure BY DEF Sure
<1>1. CASE pc[c] \in {"remove", "lock", "ask"}
  <2>1. /\ call[c].path \in Names[c] /\ i \in Ino /\ dir[call[c].path] = i
        /\ call[c].st = RealStat(i) /\ call[c] # None
        /\ pc[c] = "remove" => call[c].id = "unlink"
    BY <1>1 DEF Pending
  <2>2. RealStat(i)' = RealStat(i) BY <2>1 DEF Has
  <2>3. /\ call'[c] # None /\ call'[c].path \in Names[c] /\ dir'[call'[c].path] = i
        /\ call'[c].st = RealStat(i)' /\ pc'[c] # "tell"
        /\ pc'[c] = "remove" => call'[c].id = "unlink"
    BY <1>1, <2>1, <2>2
  <2> QED BY <1>i, <2>1, <2>3 DEF Pending
<1>2. CASE pc[c] = "tell"
  <2>1. /\ call[c] # None /\ call[c].path \in Names[c] /\ i \in Ino
        /\ call[c].id # "stat"
    BY <1>2 DEF Pending
  <2>2. CASE call[c].id \in {"chown", "chmod"}
    <3>1. Has(c, i) BY <1>2, <2>2 DEF Pending
    <3>2. RealStat(i)' = RealStat(i) /\ Has(c, i)' BY <2>1, <3>1
    <3>3. CASE call[c].id = "chown"
      <4>1. PICK u \in Uid \cup {Same} : call[c].st = [RealStat(i) EXCEPT !.uid = u]
        BY <1>2, <3>3 DEF Pending
      <4>2. call'[c].st = [RealStat(i)' EXCEPT !.uid = u] BY <3>2, <4>1
      <4> QED BY <1>i, <1>2, <2>1, <3>2, <3>3, <4>2 DEF Pending
    <3>4. CASE call[c].id = "chmod"
      <4>1. PICK p \in Mode : call[c].st = [RealStat(i) EXCEPT !.perm = p]
        BY <1>2, <3>4 DEF Pending
      <4>2. call'[c].st = [RealStat(i)' EXCEPT !.perm = p] BY <3>2, <4>1
      <4> QED BY <1>i, <1>2, <2>1, <3>2, <3>4, <4>2 DEF Pending
    <3> QED BY <2>2, <3>3, <3>4
  <2>3. CASE call[c].id = "mknod"
    <3>1. Has(c, i) /\ content[i] = "empty" /\ (i \in Sure => NoRow(settled, i))
      BY <1>2, <2>3 DEF Pending
    <3>2. PICK p \in Mode : call[c].st = [RealStat(i) EXCEPT !.type = "dev", !.perm = p]
      BY <1>2, <2>3 DEF Pending
    <3>3. RealStat(i)' = RealStat(i) /\ content'[i] = "empty" /\ Has(c, i)'
          /\ (i \in Sure' => NoRow(settled', i))
      BY <1>s, <2>1, <3>1
    <3>4. call'[c].st = [RealStat(i)' EXCEPT !.type = "dev", !.perm = p] BY <3>2, <3>3
    <3>5. i \in Sure' => NoRow(settled, i)' BY <3>3 DEF NoRow
    <3> QED BY <1>i, <1>2, <2>1, <2>3, <3>3, <3>4, <3>5 DEF Pending
  <2>4. CASE call[c].id = "unlink"
    <3>1. i \in Sure => IF content[i] = "free" THEN LastLink(call[c].st)
                        ELSE Has(c, i) /\ ~LastLink(call[c].st)
      BY <1>2, <2>4 DEF Pending
    <3>2. i \in Sure' => IF content'[i] = "free" THEN LastLink(call'[c].st)
                         ELSE Has(c, i)' /\ ~LastLink(call'[c].st)
      BY <1>s, <2>1, <3>1 DEF Sure
    <3> QED BY <1>i, <1>2, <2>1, <2>4, <3>2 DEF Pending
  <2>5. CASE call[c].id \notin {"chown", "chmod", "mknod", "unlink"}
    BY <1>i, <1>2, <2>1, <2>5 DEF Pending
  <2> QED BY <2>2, <2>3, <2>4, <2>5
<1>3. CASE pc[c] \notin {"remove", "lock", "ask", "tell"} BY <1>3 DEF Pending
<1> QED BY <1>1, <1>2, <1>3

(* A step of c that touches no file of another process: it takes the       *)
(* inodes F into use, moves the others from name to name of its own, and   *)
(* frees one only when it is to tell so.                                   *)
LEMMA OwnStep ==
  ASSUME Separate, TypeInv, RootInv, NEW c \in Client,
         NEW F \in SUBSET Ino, \A i \in F : Takes(i), untold \subseteq untold',
         \A n \in Name \ Names[c] : dir'[n] = dir[n],
         \A n \in Names[c] : dir'[n] # NoIno => dir'[n] \in F \/ Has(c, dir'[n]),
         \A i \in Ino : \/ content'[i] = content[i]
                        \/ i \in F
                        \/ /\ Has(c, i) /\ content'[i] = "free"
                           /\ pc'[c] = "tell" /\ call'[c].id = "unlink"
                           /\ call'[c].st = RealStat(i),
         \A n \in Names[c] : dir'[n] # NoIno => content'[dir'[n]] # "free",
         settled' = settled,
         \A d \in Client : d # c => pc'[d] = pc[d] /\ call'[d] = call[d],
         pc[c] # "tell"
  PROVE  /\ OwnFiles' /\ Known'
         /\ \A d \in Client : d # c => Pending(d)'
<1> USE FakerootAssumption
<1>t. /\ dir \in [Name -> Ino \cup {NoIno}] /\ NoIno \notin Ino
      /\ \A d \in Client : Names[d] \subseteq Name
  BY DEF TypeInv, TypeOK
<1>f. \A i \in F : /\ content[i] = "free" /\ \A n \in Name : dir[n] # i
                   /\ i \in Sure' =>
                        /\ NoRow(settled, i)
                        /\ \A d \in Client : call[d] # None => call[d].st.ino # i
  BY TakesIsNew
<1>o. /\ \A n \in Name : dir[n] # NoIno => content[dir[n]] # "free"
      /\ \A d \in Client : \A m \in Names[d], n \in Name \ Names[d] :
           dir[m] # NoIno => dir[n] # dir[m]
  BY DEF RootInv, OwnFiles
<1>h. \A i \in Ino : Has(c, i) =>
        content[i] # "free" /\ \A n \in Name \ Names[c] : dir[n] # i
  BY <1>t, <1>o DEF Has
<1>n. \A d \in Client : d # c => Names[d] \subseteq Name \ Names[c]
  BY <1>t DEF Separate
(* What another process has stays as it is.                                *)
<1>k. ASSUME NEW i \in Ino, NEW d \in Client, d # c, Has(d, i)
      PROVE  RealStat(i)' = RealStat(i) /\ content'[i] = content[i] /\ Has(d, i)'
  <2>1. PICK n \in Names[d] : dir[n] = i BY <1>k DEF Has
  <2>2. n \in Name \ Names[c] BY <1>k, <1>n
  <2>3. ~Has(c, i) /\ i \notin F BY <1>h, <1>f, <1>t, <2>1, <2>2
  <2>4. content'[i] = content[i] BY <2>3
  <2>5. \A m \in Name : dir'[m] = i <=> dir[m] = i
    <3> SUFFICES ASSUME NEW m \in Names[c] PROVE dir'[m] # i /\ dir[m] # i BY <1>t
    <3>1. dir[m] # i BY <2>3 DEF Has
    <3>2. dir'[m] # i BY <1>t, <2>3
    <3> QED BY <3>1, <3>2
  <2>6. Links(i)' = Links(i) BY <2>5 DEF Links
  <2>7. Has(d, i)' BY <1>k, <1>t, <2>1, <2>2, <2>5 DEF Has
  <2> QED BY <2>4, <2>6, <2>7 DEF RealStat
<1>1. OwnFiles'
  <2>1. ASSUME NEW n \in Name, dir'[n] # NoIno PROVE content'[dir'[n]] # "free"
    <3>1. CASE n \in Name \ Names[c]
      <4>1. dir'[n] = dir[n] /\ dir[n] \in Ino BY <1>t, <2>1, <3>1
      <4>2. content[dir[n]] # "free" /\ ~Has(c, dir[n]) /\ dir[n] \notin F
        BY <1>o, <1>h, <1>f, <2>1, <3>1, <4>1
      <4> QED BY <4>1, <4>2
    <3> QED BY <2>1, <3>1
  <2>2. ASSUME NEW d \in Client, NEW m \in Names[d], NEW n \in Name \ Names[d],
               dir'[m] # NoIno
        PROVE  dir'[n] # dir'[m]
    <3>1. CASE d = c
      <4>1. dir'[n] = dir[n] BY <2>2, <3>1
      <4>2. dir'[m] \in F \/ Has(c, dir'[m]) BY <2>2, <3>1
      <4>3. dir'[m] \in F => dir[n] # dir'[m] BY <1>f, <2>2
      <4>4. Has(c, dir'[m]) => dir[n] # dir'[m]
        BY <1>o, <2>2, <3>1 DEF Has
      <4> QED BY <4>1, <4>2, <4>3, <4>4
    <3>2. CASE d # c
      <4>1. m \in Name \ Names[c] /\ dir'[m] = dir[m] /\ dir[m] \in Ino
        BY <1>n, <1>t, <2>2, <3>2
      <4>2. ~Has(c, dir[m]) /\ dir[m] \notin F BY <1>h, <1>f, <4>1
      <4>3. CASE n \in Names[c] BY <2>2, <4>1, <4>2, <4>3
      <4>4. CASE n \notin Names[c] BY <1>o, <2>2, <4>1, <4>4
      <4> QED BY <4>3, <4>4
    <3> QED BY <3>1, <3>2
  <2> QED BY <2>1, <2>2 DEF OwnFiles
<1>2. Known'
  <2> SUFFICES ASSUME NEW r \in Rows(settled), r.ino \in Sure'
               PROVE  IF content'[r.ino] = "free" THEN \E d \in Client : Drops(r, d)'
                      ELSE FakestatEqual(r, RealStat(r.ino)')
    BY DEF Known
  <2> DEFINE i == r.ino
  <2>1. /\ i \in Ino
        /\ IF content[i] = "free" THEN \E d \in Client : Drops(r, d)
           ELSE FakestatEqual(r, RealStat(i))
    BY DEF RootInv, Known, Sure
  <2>2. i \notin F BY <1>f DEF NoRow
  <2>3. CASE content[i] = "free"
    <3>1. PICK d \in Client : Drops(r, d) BY <2>1, <2>3
    <3>2. d # c BY <3>1 DEF Drops
    <3>3. Drops(r, d)' BY <3>1, <3>2 DEF Drops
    <3>4. content'[i] = "free" BY <1>h, <2>1, <2>2, <2>3
    <3> QED BY <2>1, <3>3, <3>4
  <2>4. CASE content[i] # "free" /\ content'[i] = content[i]
    BY <2>1, <2>4 DEF FakestatEqual, RealStat
  <2>5. CASE content[i] # "free" /\ content'[i] # content[i]
    <3>1. FakestatEqual(r, RealStat(i)) BY <2>1, <2>5
    <3>2. /\ content'[i] = "free" /\ pc'[c] = "tell" /\ call'[c].id = "unlink"
          /\ call'[c].st = RealStat(i)
      BY <2>1, <2>2, <2>5
    <3>3. Drops(r, c)' BY <3>1, <3>2 DEF Drops, FakestatEqual
    <3> QED BY <2>1, <3>2, <3>3
  <2> QED BY <2>3, <2>4, <2>5
<1>3. ASSUME NEW d \in Client, d # c PROVE Pending(d)'
  <2>1. PICK i : i = call[d].st.ino OBVIOUS
  <2>2. pc'[d] = pc[d] /\ call'[d] = call[d] /\ Pending(d) BY <1>3 DEF RootInv
  <2>3. \A n \in Names[d] : dir'[n] = dir[n] BY <1>3, <1>n
  <2>4. i \in Ino /\ Has(d, i) =>
          RealStat(i)' = RealStat(i) /\ content'[i] = content[i] /\ Has(d, i)'
    BY <1>3, <1>k
  <2>5. i \in Ino /\ call[d] # None /\ content[i] = "free" =>
          content'[i] = "free" \/ i \in untold'
    BY <1>f, <1>h, <2>1 DEF Sure
  <2>6. i \in Sure' /\ Has(d, i) /\ NoRow(settled, i) => NoRow(settled', i) OBVIOUS
  <2> QED BY <2>1, <2>2, <2>3, <2>4, <2>5, <2>6, PendingKept
<1> QED BY <1>1, <1>2, <1>3

--------------------------------------------------------------------------------
(* The calls. *)

(* A process sets out to send a message of a file.                         *)
LEMMA Going ==
  ASSUME TypeInv, TypeInv', NEW c \in Client, NEW n \in Names[c],
         NEW point \in {"tell", "remove", "lock"}, NEW id, NEW st,
         Goes(c, point, Message(n, id, st))
  PROVE  /\ pc'[c] = point /\ call'[c] # None
         /\ call'[c].path = n /\ call'[c].id = id /\ call'[c].st = st
         /\ \A d \in Client : d # c => pc'[d] = pc[d] /\ call'[d] = call[d]
<1>1. /\ pc \in [Proc -> {"idle", "remove", "tell", "lock", "ask", "wait", "dead"}]
      /\ call \in [Proc -> [path : Name \cup {None}, id : Requests, st : Status] \cup {None}]
      /\ c \in Proc /\ Client \subseteq Proc /\ n \in Name
  BY FakerootAssumption DEF TypeInv, TypeOK, Proc
<1>2. /\ pc'[c] = point /\ call'[c] = Message(n, id, st)
      /\ \A d \in Client : d # c => pc'[d] = pc[d] /\ call'[d] = call[d]
  BY <1>1 DEF Goes
<1>3. call'[c].path = n /\ call'[c].id = id /\ call'[c].st = st BY <1>2 DEF Message
<1>4. call'[c] # None
  <2>1. call'[c] \in [path : Name \cup {None}, id : Requests, st : Status]
    BY <1>1, <1>2 DEF TypeInv, Ready
  <2>2. call'[c] \in [path : Name, id : Requests, st : Status] BY <1>1, <1>3, <2>1
  <2> QED BY <2>2, NoneAssumption
<1> QED BY <1>2, <1>3, <1>4

(* The calls that leave the files as they are.                             *)
LEMMA AskingRoot ==
  ASSUME Faults = {}, Separate, TypeInv, TypeInv', RootInv,
         NEW c \in Client, NEW n \in Names[c],
         Chown(c, n) \/ Chmod(c, n) \/ Unlink(c, n) \/ Stat(c, n)
  PROVE  OwnFiles' /\ Known' /\ \A d \in Client : Pending(d)'
<1> DEFINE i == dir[n]
<1>t. /\ i \in Ino /\ pc[c] = "idle" /\ UNCHANGED <<dir, content, settled, untold>>
  <2>1. n \in Name /\ dir[n] # NoIno /\ dir[n] \in Ino \cup {NoIno}
    BY FakerootAssumption DEF TypeInv, TypeOK, Chown, Chmod, Unlink, Stat
  <2> QED BY <2>1 DEF Chown, Chmod, Unlink, Stat, Begins, Unchanged, files, history
<1>1. RealStat(i)' = RealStat(i) /\ Has(c, i)' BY <1>t DEF RealStat, Links, Has
<1>r. RealStat(i).ino = i /\ \A x : /\ [RealStat(i) EXCEPT !.uid = x].ino = i
                                    /\ [RealStat(i) EXCEPT !.perm = x].ino = i
  BY DEF RealStat
<1>2. /\ Pending(c)'
      /\ \A d \in Client : d # c => pc'[d] = pc[d] /\ call'[d] = call[d]
  <2>1. CASE Chown(c, n)
    <3>1. PICK u \in Uid \cup {Same} :
             Goes(c, "tell", Message(n, "chown", [RealStat(i) EXCEPT !.uid = u]))
      BY <2>1 DEF Chown
    <3>2. /\ pc'[c] = "tell" /\ call'[c] # None /\ call'[c].path = n /\ call'[c].id = "chown"
          /\ call'[c].st = [RealStat(i) EXCEPT !.uid = u]
          /\ \A d \in Client : d # c => pc'[d] = pc[d] /\ call'[d] = call[d]
      BY <3>1, Going
    <3> QED BY <1>t, <1>1, <1>r, <3>2 DEF Pending
  <2>2. CASE Chmod(c, n)
    <3>1. PICK p \in Mode :
             Goes(c, "tell", Message(n, "chmod", [RealStat(i) EXCEPT !.perm = p]))
      BY <2>2 DEF Chmod
    <3>2. /\ pc'[c] = "tell" /\ call'[c] # None /\ call'[c].path = n /\ call'[c].id = "chmod"
          /\ call'[c].st = [RealStat(i) EXCEPT !.perm = p]
          /\ \A d \in Client : d # c => pc'[d] = pc[d] /\ call'[d] = call[d]
      BY <3>1, Going
    <3> QED BY <1>t, <1>1, <1>r, <3>2 DEF Pending
  <2>3. CASE Unlink(c, n) \/ Stat(c, n)
    <3>1. \/ Goes(c, "remove", Message(n, "unlink", RealStat(i)))
          \/ Goes(c, "lock", Message(n, "stat", RealStat(i)))
      BY <2>3 DEF Unlink, Stat
    <3>2. /\ \/ pc'[c] = "remove" /\ call'[c].id = "unlink"
             \/ pc'[c] = "lock" /\ call'[c].id = "stat"
          /\ call'[c] # None /\ call'[c].path = n /\ call'[c].st = RealStat(i)
          /\ \A d \in Client : d # c => pc'[d] = pc[d] /\ call'[d] = call[d]
      BY <3>1, Going
    <3> QED BY <1>t, <1>1, <1>r, <3>2 DEF Pending
  <2> QED BY <2>1, <2>2, <2>3
<1>3. \A m \in Names[c] : dir'[m] # NoIno => Has(c, dir'[m]) /\ content'[dir'[m]] # "free"
  BY <1>t, FakerootAssumption DEF Has, RootInv, OwnFiles
<1>4. {} \in SUBSET Ino /\ \A j \in {} : Takes(j) OBVIOUS
<1> HIDE DEF i
<1>5. OwnFiles' /\ Known' /\ \A d \in Client : d # c => Pending(d)'
  BY <1>t, <1>2, <1>3, <1>4, OwnStep
<1> QED BY <1>2, <1>5

(* A new file.                                                             *)
LEMMA MakingRoot ==
  ASSUME Faults = {}, Separate, TypeInv, TypeInv', RootInv,
         NEW c \in Client, NEW n \in Names[c],
         Create(c, n) \/ Mknod(c, n) \/ Mkdir(c, n)
  PROVE  OwnFiles' /\ Known' /\ \A d \in Client : Pending(d)'
<1>1. PICK i \in Ino, made \in {"empty", "full", "dir"} :
        /\ Takes(i) /\ dir[n] = NoIno
        /\ dir' = [dir EXCEPT ![n] = i] /\ content' = [content EXCEPT ![i] = made]
        /\ \/ UNCHANGED <<pc, call>>
           \/ /\ made = "empty"
              /\ \E p \in Mode : Goes(c, "tell", Message(n, "mknod",
                   [RealStat(i)' EXCEPT !.type = "dev", !.perm = p]))
           \/ \E p \in Mode : Goes(c, "tell", Message(n, "chmod",
                   [RealStat(i)' EXCEPT !.perm = p]))
  <2>1. CASE Create(c, n) BY <2>1 DEF Create
  <2>2. CASE Mknod(c, n) BY <2>2 DEF Mknod
  <2>3. CASE Mkdir(c, n) BY <2>3 DEF Mkdir
  <2> QED BY <2>1, <2>2, <2>3
<1>t. /\ dir \in [Name -> Ino \cup {NoIno}] /\ n \in Name /\ NoIno \notin Ino
      /\ content \in [Ino -> {"free", "empty", "full", "dir"}]
      /\ pc[c] = "idle" /\ UNCHANGED settled
  BY FakerootAssumption
  DEF TypeInv, TypeOK, Create, Mknod, Mkdir, Begins, Unchanged, history
<1>2. /\ dir'[n] = i /\ \A m \in Name : m # n => dir'[m] = dir[m]
      /\ content'[i] = made /\ \A j \in Ino : j # i => content'[j] = content[j]
  BY <1>1, <1>t
<1>3. Has(c, i)' BY <1>2 DEF Has
<1>4. untold \subseteq untold' /\ (i \in Sure' => NoRow(settled, i)')
  BY <1>1, <1>t, TakesIsNew DEF NoRow
<1>r. RealStat(i)'.ino = i /\ \A x : /\ [RealStat(i)' EXCEPT !.type = "dev", !.perm = x].ino = i
                                     /\ [RealStat(i)' EXCEPT !.perm = x].ino = i
  BY DEF RealStat
<1>5. /\ Pending(c)'
      /\ \A d \in Client : d # c => pc'[d] = pc[d] /\ call'[d] = call[d]
  <2>1. CASE UNCHANGED <<pc, call>> BY <1>t, <2>1 DEF Pending
  <2>2. ASSUME made = "empty", NEW p \in Mode,
               Goes(c, "tell", Message(n, "mknod", [RealStat(i)' EXCEPT !.type = "dev", !.perm = p]))
        PROVE  /\ Pending(c)'
               /\ \A d \in Client : d # c => pc'[d] = pc[d] /\ call'[d] = call[d]
    <3>2. /\ pc'[c] = "tell" /\ call'[c] # None /\ call'[c].path = n /\ call'[c].id = "mknod"
          /\ call'[c].st = [RealStat(i)' EXCEPT !.type = "dev", !.perm = p]
          /\ \A d \in Client : d # c => pc'[d] = pc[d] /\ call'[d] = call[d]
      BY <2>2, Going
    <3>3. call'[c].st.ino = i BY <1>r, <3>2
    <3>4. content'[i] = "empty" /\ (i \in Sure' => NoRow(settled, i)')
      BY <1>t, <1>2, <1>4, <2>2 DEF NoRow
    <3> QED BY <1>3, <3>2, <3>3, <3>4 DEF Pending
  <2>3. ASSUME NEW p \in Mode,
               Goes(c, "tell", Message(n, "chmod", [RealStat(i)' EXCEPT !.perm = p]))
        PROVE  /\ Pending(c)'
               /\ \A d \in Client : d # c => pc'[d] = pc[d] /\ call'[d] = call[d]
    <3>2. /\ pc'[c] = "tell" /\ call'[c] # None /\ call'[c].path = n /\ call'[c].id = "chmod"
          /\ call'[c].st = [RealStat(i)' EXCEPT !.perm = p]
          /\ \A d \in Client : d # c => pc'[d] = pc[d] /\ call'[d] = call[d]
      BY <2>3, Going
    <3> QED BY <1>3, <1>r, <3>2 DEF Pending
  <2> QED BY <1>1, <2>1, <2>2, <2>3
<1>6. \A m \in Names[c] : dir'[m] # NoIno => dir'[m] \in {i} \/ Has(c, dir'[m])
  BY <1>2, FakerootAssumption DEF Has
<1>7. \A m \in Names[c] : dir'[m] # NoIno => content'[dir'[m]] # "free"
  <2> SUFFICES ASSUME NEW m \in Names[c], dir'[m] # NoIno, m # n
               PROVE content'[dir'[m]] # "free"
    BY <1>2
  <2>1. dir'[m] = dir[m] /\ dir[m] \in Ino /\ content[dir[m]] # "free"
    BY <1>t, <1>2, FakerootAssumption DEF RootInv, OwnFiles
  <2> QED BY <1>2, <2>1
<1>8. \A m \in Name \ Names[c] : dir'[m] = dir[m] BY <1>2
<1>9. OwnFiles' /\ Known' /\ \A d \in Client : d # c => Pending(d)'
  <2>1. {i} \in SUBSET Ino /\ \A j \in {i} : Takes(j) BY <1>1
  <2> QED BY <1>t, <1>2, <1>4, <1>5, <1>6, <1>7, <1>8, <2>1, OwnStep
<1> QED BY <1>5, <1>9

(* A name of a file goes, by a removal or a rename to it, and the process  *)
(* is to tell so.                                                          *)
LEMMA RemovingRoot ==
  ASSUME Faults = {}, Separate, TypeInv, RootInv,
         NEW c \in Client, NEW n \in Names[c], NEW i \in Ino, dir[n] = i,
         NEW d \in [Name -> Ino \cup {NoIno}], Without(n, d),
         \A m \in Name : d[m] = i <=> dir[m] = i /\ m # n,
         \A m \in Name \ Names[c] : d[m] = dir[m],
         \A m \in Names[c] : d[m] # NoIno => Has(c, d[m]),
         pc[c] # "tell", pc'[c] = "tell", settled' = settled,
         call'[c] # None, call'[c].path = n, call'[c].id = "unlink", call'[c].st = RealStat(i),
         \A e \in Client : e # c => pc'[e] = pc[e] /\ call'[e] = call[e]
  PROVE  /\ OwnFiles' /\ Known' /\ \A e \in Client : Pending(e)'
         /\ untold' = untold
         /\ \A j \in Ino : content'[j] # content[j] => j = i /\ content'[j] = "free"
<1>t. /\ n \in Name /\ Names[c] \subseteq Name /\ NoIno \notin Ino
      /\ content \in [Ino -> {"free", "empty", "full", "dir"}]
  BY FakerootAssumption DEF TypeInv, TypeOK
<1>1. /\ dir' = d
      /\ content'[i] = IF \E m \in Name : d[m] = i THEN content[i] ELSE "free"
      /\ \A j \in Ino : j # i => content'[j] = content[j]
  BY <1>t DEF Without
<1>2. Has(c, i) BY DEF Has
<1>3. \A j \in Ino : Has(c, j) => content[j] # "free"
  BY <1>t DEF Has, RootInv, OwnFiles
<1>4. \A m \in Names[c] : dir'[m] # NoIno => content'[dir'[m]] # "free"
  <2> SUFFICES ASSUME NEW m \in Names[c], d[m] # NoIno PROVE content'[d[m]] # "free"
    BY <1>1
  <2>1. d[m] \in Ino /\ content[d[m]] # "free" BY <1>t, <1>3
  <2>2. d[m] = i => content'[i] = content[i] BY <1>t, <1>1
  <2> QED BY <1>1, <2>1, <2>2
<1>5. OwnFiles' /\ Known' /\ \A e \in Client : e # c => Pending(e)'
  <2>1. {} \in SUBSET Ino /\ (\A j \in {} : Takes(j)) /\ untold \subseteq untold'
    BY DEF Without
  <2>2. \A m \in Name \ Names[c] : dir'[m] = dir[m] BY <1>1
  <2>3. \A m \in Names[c] : dir'[m] # NoIno => Has(c, dir'[m]) BY <1>1
  <2>4. \A j \in Ino : \/ content'[j] = content[j]
                       \/ Has(c, j) /\ content'[j] = "free"
                          /\ pc'[c] = "tell" /\ call'[c].id = "unlink" /\ call'[c].st = RealStat(j)
    BY <1>1, <1>2
  <2> QED BY <1>4, <2>1, <2>2, <2>3, <2>4, OwnStep
<1>6. Pending(c)'
  <2>1. call'[c].st.ino = i BY DEF RealStat
  <2>2. LastLink(RealStat(i)) <=> ~\E m \in Name : d[m] = i
    BY <1>t, LastName
  <2>3. IF content'[i] = "free" THEN LastLink(call'[c].st)
        ELSE Has(c, i)' /\ ~LastLink(call'[c].st)
    <3>1. CASE \E m \in Name : d[m] = i
      <4>1. content'[i] # "free" BY <1>1, <1>2, <1>3, <3>1
      <4>2. PICK m \in Name : d[m] = i BY <3>1
      <4>3. dir[m] = i /\ dir[n] # NoIno BY <1>t, <4>2
      <4>5. m \in Names[c] BY <4>3 DEF RootInv, OwnFiles
      <4>4. Has(c, i)' BY <1>1, <4>2, <4>5 DEF Has
      <4> QED BY <2>2, <3>1, <4>1, <4>4
    <3>2. CASE ~\E m \in Name : d[m] = i BY <1>1, <2>2, <3>2
    <3> QED BY <3>1, <3>2
  <2> QED BY <2>1, <2>3 DEF Pending
<1> QED BY <1>1, <1>5, <1>6 DEF Without

(* A name moves, or a file gets one more.                                  *)
LEMMA MovingRoot ==
  ASSUME Faults = {}, Separate, TypeInv, TypeInv', RootInv,
         NEW c \in Client, NEW m \in Names[c], NEW n \in Names[c],
         Link(c, m, n) \/ Rename(c, m, n)
  PROVE  /\ OwnFiles' /\ Known' /\ \A e \in Client : Pending(e)'
         /\ untold' = untold
         /\ \E i \in Ino : \A j \in Ino :
              content'[j] # content[j] => j = i /\ content'[j] = "free"
<1>t. /\ dir \in [Name -> Ino \cup {NoIno}] /\ NoIno \notin Ino
      /\ m \in Name /\ n \in Name /\ dir[m] # NoIno /\ dir[m] \in Ino
      /\ pc[c] = "idle" /\ UNCHANGED settled
  <2>1. m \in Name /\ n \in Name /\ dir[m] # NoIno /\ NoIno \notin Ino
        /\ dir \in [Name -> Ino \cup {NoIno}]
    BY FakerootAssumption DEF TypeInv, TypeOK, Link, Rename
  <2> QED BY <2>1 DEF Link, Rename, Begins, Unchanged, history
<1>0. {} \in SUBSET Ino /\ \A j \in {} : Takes(j) OBVIOUS
<1>h. Has(c, dir[m]) /\ \A k \in Names[c] : dir[k] # NoIno => Has(c, dir[k]) BY DEF Has
<1>c. \A k \in Name : dir[k] # NoIno => content[dir[k]] # "free" BY DEF RootInv, OwnFiles
<1>1. CASE dir[n] = NoIno
  <2>1. /\ UNCHANGED <<content, untold, pc, call>>
        /\ dir' \in {[dir EXCEPT ![n] = dir[m]], [dir EXCEPT ![n] = dir[m], ![m] = NoIno]}
    BY <1>1 DEF Link, Rename
  <2>2. /\ \A k \in Name : dir'[k] \in {dir[k], dir[m], NoIno}
        /\ \A k \in Name \ Names[c] : dir'[k] = dir[k]
    BY <1>t, <2>1
  <2>3. \A k \in Names[c] : dir'[k] # NoIno => Has(c, dir'[k]) /\ content'[dir'[k]] # "free"
    BY <1>h, <1>c, <1>t, <2>1, <2>2, FakerootAssumption
  <2>4. OwnFiles' /\ Known' /\ \A e \in Client : e # c => Pending(e)'
    BY <1>t, <1>0, <2>1, <2>2, <2>3, OwnStep
  <2>5. Pending(c)' BY <1>t, <2>1 DEF Pending
  <2> QED BY <1>t, <2>1, <2>4, <2>5
<1>2. CASE dir[n] # NoIno
  <2> DEFINE d == [dir EXCEPT ![n] = dir[m], ![m] = NoIno]
  <2>0. PICK i \in Ino : i = dir[n] BY <1>t, <1>2
  <2>1. /\ Goes(c, "tell", Message(n, "unlink", RealStat(i)))
        /\ IF dir[m] = dir[n] THEN UNCHANGED files ELSE Without(n, d)
        /\ m # n
    BY <1>2, <2>0 DEF Link, Rename
  <2>2. d \in [Name -> Ino \cup {NoIno}] BY <1>t
  <2>3. /\ pc'[c] = "tell" /\ call'[c] # None /\ call'[c].path = n
        /\ call'[c].id = "unlink" /\ call'[c].st = RealStat(i)
        /\ \A e \in Client : e # c => pc'[e] = pc[e] /\ call'[e] = call[e]
    BY <2>1, Going
  <2>4. CASE dir[m] = dir[n]
    <3>1. UNCHANGED <<dir, content, untold>> BY <2>1, <2>4 DEF files
    <3>2. \A k \in Names[c] : dir'[k] # NoIno => Has(c, dir'[k]) /\ content'[dir'[k]] # "free"
      BY <1>h, <1>c, <3>1, FakerootAssumption
    <3>3. OwnFiles' /\ Known' /\ \A e \in Client : e # c => Pending(e)'
      BY <1>t, <1>0, <2>3, <3>1, <3>2, OwnStep
    <3>4. ~LastLink(RealStat(i)) BY <1>t, <2>0, <2>1, <2>4, LastName
    <3>5. content'[i] # "free" /\ Has(c, i)' /\ call'[c].st.ino = i
      BY <1>2, <1>t, <1>c, <2>0, <2>3, <3>1 DEF Has, RealStat
    <3>6. Pending(c)' BY <2>3, <3>4, <3>5 DEF Pending
    <3> QED BY <3>1, <3>3, <3>6
  <2>5. CASE dir[m] # dir[n]
    <3>1. Without(n, d) BY <2>1, <2>5
    <3>2. /\ \A k \in Name : d[k] = i <=> dir[k] = i /\ k # n
          /\ \A k \in Name \ Names[c] : d[k] = dir[k]
          /\ \A k \in Name : d[k] \in {dir[k], dir[m], NoIno}
      BY <1>t, <2>0, <2>1, <2>5
    <3>3. \A k \in Names[c] : d[k] # NoIno => Has(c, d[k])
      BY <1>h, <3>2, FakerootAssumption
    <3> HIDE DEF d
    <3> QED BY <1>t, <2>0, <2>2, <2>3, <3>1, <3>2, <3>3, RemovingRoot
  <2> QED BY <2>4, <2>5
<1> QED BY <1>1, <1>2

(* The removal of a file after the look at it.                             *)
LEMMA RemoveFileRoot ==
  ASSUME Faults = {}, Separate, TypeInv, RootInv, NEW c \in Client, RemoveFile(c)
  PROVE  /\ OwnFiles' /\ Known' /\ \A e \in Client : Pending(e)'
         /\ untold' = untold
         /\ \E i \in Ino : \A j \in Ino :
              content'[j] # content[j] => j = i /\ content'[j] = "free"
<1> DEFINE n == call[c].path
           i == call[c].st.ino
           d == [dir EXCEPT ![n] = NoIno]
<1>1. /\ n \in Names[c] /\ i \in Ino /\ dir[n] = i /\ call[c] # None
      /\ call[c].st = RealStat(i) /\ call[c].id = "unlink" /\ pc[c] = "remove"
  BY DEF RemoveFile, RootInv, Pending
<1>t. /\ dir \in [Name -> Ino \cup {NoIno}] /\ n \in Name /\ NoIno \notin Ino
      /\ pc \in [Proc -> {"idle", "remove", "tell", "lock", "ask", "wait", "dead"}]
      /\ c \in Proc /\ Client \subseteq Proc /\ Names[c] \subseteq Name
  BY <1>1, FakerootAssumption DEF TypeInv, TypeOK, Proc
<1>2. /\ Without(n, d) /\ pc' = [pc EXCEPT ![c] = "tell"] /\ UNCHANGED <<call, settled>>
  BY <1>1, <1>t DEF RemoveFile, Unchanged, history
<1>3. /\ d \in [Name -> Ino \cup {NoIno}]
      /\ \A m \in Name : d[m] = i <=> dir[m] = i /\ m # n
      /\ \A m \in Name \ Names[c] : d[m] = dir[m]
      /\ \A m \in Names[c] : d[m] # NoIno => d[m] = dir[m]
  BY <1>1, <1>t
<1>4. \A m \in Names[c] : d[m] # NoIno => Has(c, d[m]) BY <1>3 DEF Has
<1>5. /\ pc'[c] = "tell"
      /\ \A e \in Client : e # c => pc'[e] = pc[e] /\ call'[e] = call[e]
  BY <1>2, <1>t
<1> HIDE DEF d, n, i
<1>6. call'[c] # None /\ call'[c].path = n /\ call'[c].id = "unlink" /\ call'[c].st = RealStat(i)
  BY <1>1, <1>2 DEF n
<1> QED BY <1>1, <1>2, <1>3, <1>4, <1>5, <1>6, RemovingRoot

(* A step of a process in a call: one inode comes into use or is freed, or *)
(* none.                                                                   *)
LEMMA FilesRoot ==
  ASSUME Faults = {}, Separate, TypeInv, TypeInv', RootInv,
         NEW c \in Client, Call(c) \/ RemoveFile(c)
  PROVE  /\ RootInv'
         /\ UNCHANGED <<settled, promised>>
         /\ \E i \in Ino :
              /\ \A j \in Ino : j # i => content'[j] = content[j]
              /\ \/ untold' = untold /\ (content'[i] = content[i] \/ content'[i] = "free")
                 \/ Takes(i) /\ content'[i] \in {"empty", "full", "dir"}
<1>t. /\ dir \in [Name -> Ino \cup {NoIno}] /\ Names[c] \subseteq Name
      /\ content \in [Ino -> {"free", "empty", "full", "dir"}]
  BY FakerootAssumption DEF TypeInv, TypeOK
<1>1. UNCHANGED <<table, file, phase, settled, promised>>
  BY DEF Call, Create, Chown, Chmod, Mknod, Mkdir, Unlink, Stat, Link, Rename, RemoveFile,
         Unchanged, daemon, session, history
<1> DEFINE Effect ==
      \E i \in Ino :
         /\ \A j \in Ino : j # i => content'[j] = content[j]
         /\ \/ untold' = untold /\ (content'[i] = content[i] \/ content'[i] = "free")
            \/ Takes(i) /\ content'[i] \in {"empty", "full", "dir"}
           Kept == OwnFiles' /\ Known' /\ \A d \in Client : Pending(d)'
<1>3. Kept /\ Effect
  <2>1. ASSUME NEW n \in Names[c], Chown(c, n) \/ Chmod(c, n) \/ Unlink(c, n) \/ Stat(c, n)
        PROVE  Kept /\ Effect
    <3>1. dir[n] \in Ino /\ UNCHANGED <<content, untold>>
      BY <1>t, <2>1 DEF Chown, Chmod, Unlink, Stat, files
    <3> QED BY <2>1, <3>1, AskingRoot
  <2>2. ASSUME NEW n \in Names[c], Create(c, n) \/ Mknod(c, n) \/ Mkdir(c, n)
        PROVE  Kept /\ Effect
    <3>1. PICK i \in Ino, made \in {"empty", "full", "dir"} :
            Takes(i) /\ content' = [content EXCEPT ![i] = made]
      <4>1. CASE Create(c, n) BY <4>1 DEF Create
      <4>2. CASE Mknod(c, n) BY <4>2 DEF Mknod
      <4>3. CASE Mkdir(c, n) BY <4>3 DEF Mkdir
      <4> QED BY <2>2, <4>1, <4>2, <4>3
    <3>2. Effect BY <1>t, <3>1
    <3> QED BY <2>2, <3>2, MakingRoot
  <2>3. ASSUME NEW m \in Names[c], NEW n \in Names[c], Link(c, m, n) \/ Rename(c, m, n)
        PROVE  Kept /\ Effect
    <3>1. Kept /\ untold' = untold /\ \E i \in Ino : \A j \in Ino :
                      content'[j] # content[j] => j = i /\ content'[j] = "free"
      BY <2>3, MovingRoot
    <3> QED BY <3>1
  <2>4. CASE RemoveFile(c)
    <3>1. Kept /\ untold' = untold /\ \E i \in Ino : \A j \in Ino :
                      content'[j] # content[j] => j = i /\ content'[j] = "free"
      BY <2>4, RemoveFileRoot
    <3> QED BY <3>1
  <2> HIDE DEF Kept, Effect
  <2> QED BY <2>1, <2>2, <2>3, <2>4 DEF Call
<1>4. Sure' \subseteq Sure
  <2>1. untold \subseteq untold' BY <1>3 DEF Takes
  <2> QED BY <2>1 DEF Sure
<1>5. OneEach' /\ Restores'
  <2>1. OneEach /\ Restores BY DEF RootInv
  <2>2. OneEach' BY <1>1, <1>4, <2>1 DEF OneEach
  <2>3. Restores' BY <1>1, <1>4, <2>1 DEF Restores
  <2> QED BY <2>2, <2>3
<1> QED BY <1>1, <1>3, <1>5 DEF RootInv

--------------------------------------------------------------------------------
(* The messages. *)

LEMMA OneOwner ==
  ASSUME Separate, RootInv, NEW c \in Client, NEW d \in Client, NEW i \in Ino,
         Has(c, i), Has(d, i)
  PROVE  c = d
<1> SUFFICES ASSUME c # d PROVE FALSE OBVIOUS
<1>1. PICK m \in Names[c], n \in Names[d] : dir[m] = i /\ dir[n] = i BY DEF Has
<1>2. n \in Name \ Names[c] BY FakerootAssumption DEF Separate
<1>3. dir[m] # NoIno BY <1>1, FakerootAssumption
<1> QED BY <1>1, <1>2, <1>3 DEF RootInv, OwnFiles

(* A request that sets the entry of a file that the process has.           *)
LEMMA SetRoot ==
  ASSUME Separate, TypeInv, RootInv, NEW c \in Client, NEW i \in Ino, Has(c, i),
         NEW e, FakestatEqual(e, RealStat(i)), Sets(settled, settled', e),
         UNCHANGED <<dir, content, untold>>,
         call[c].id # "unlink", pc'[c] = "idle",
         \A d \in Client : d # c => pc'[d] = pc[d] /\ call'[d] = call[d]
  PROVE  OneEach' /\ OwnFiles' /\ Known' /\ \A d \in Client : Pending(d)'
<1> USE FakerootAssumption
<1>e. e.ino = i BY DEF FakestatEqual, RealStat
<1>c. content[i] # "free" BY DEF Has, RootInv, OwnFiles
<1>s. \A j : RealStat(j)' = RealStat(j) BY DEF RealStat, Links
<1>0. Sure' = Sure BY DEF Sure
<1>1. OneEach' BY <1>0 DEF Sets, RootInv, OneEach
<1>2. OwnFiles' BY DEF RootInv, OwnFiles
<1>3. Known'
  <2> SUFFICES ASSUME NEW r \in Rows(settled'), r.ino \in Sure
               PROVE  IF content[r.ino] = "free" THEN \E d \in Client : Drops(r, d)'
                      ELSE FakestatEqual(r, RealStat(r.ino))
    BY <1>0, <1>s DEF Known
  <2>1. CASE r = e BY <1>c, <1>e, <2>1
  <2>2. CASE r # e
    <3>1. r \in Rows(settled) BY <2>2 DEF Sets
    <3>2. IF content[r.ino] = "free" THEN \E d \in Client : Drops(r, d)
          ELSE FakestatEqual(r, RealStat(r.ino))
      BY <3>1 DEF RootInv, Known
    <3>3. \A d \in Client : Drops(r, d) => Drops(r, d)' BY DEF Drops
    <3> QED BY <3>2, <3>3
  <2> QED BY <2>1, <2>2
<1>4. ASSUME NEW d \in Client PROVE Pending(d)'
  <2>1. CASE d = c BY <2>1 DEF Pending
  <2>2. CASE d # c
    <3>1. Pending(d) BY DEF RootInv
    <3>2. pc'[d] = pc[d] /\ call'[d] = call[d] BY <2>2
    <3>3. PICK j : j = call[d].st.ino OBVIOUS
    <3>4. \A k : Has(d, k)' <=> Has(d, k) BY DEF Has
    <3>5. j \in Sure' /\ Has(d, j) /\ NoRow(settled, j) => NoRow(settled', j)
      BY <1>e, <2>2, OneOwner DEF Sets, NoRow, Sure
    <3> QED BY <1>s, <3>1, <3>2, <3>3, <3>4, <3>5, PendingKept
  <2> QED BY <2>1, <2>2
<1> QED BY <1>1, <1>2, <1>3, <1>4

(* A request of an inode of whose removal the daemon is told too late: the *)
(* entries of the others stay as they are.                                 *)
LEMMA LostRoot ==
  ASSUME RootInv, NEW c \in Client, NEW i, i \notin Sure,
         call[c].st.ino = i, Elsewhere(settled, settled', i),
         UNCHANGED <<dir, content, untold>>, pc'[c] = "idle",
         \A d \in Client : d # c => pc'[d] = pc[d] /\ call'[d] = call[d]
  PROVE  OneEach' /\ OwnFiles' /\ Known' /\ \A d \in Client : Pending(d)'
<1>s. \A j : RealStat(j)' = RealStat(j) BY DEF RealStat, Links
<1>0. Sure' = Sure BY DEF Sure
<1>1. OneEach' BY <1>0 DEF Elsewhere, RootInv, OneEach
<1>2. OwnFiles' BY DEF RootInv, OwnFiles
<1>3. Known'
  <2> SUFFICES ASSUME NEW r \in Rows(settled'), r.ino \in Sure
               PROVE  IF content[r.ino] = "free" THEN \E d \in Client : Drops(r, d)'
                      ELSE FakestatEqual(r, RealStat(r.ino))
    BY <1>0, <1>s DEF Known
  <2>1. r \in Rows(settled) BY DEF Elsewhere
  <2>2. IF content[r.ino] = "free" THEN \E d \in Client : Drops(r, d)
        ELSE FakestatEqual(r, RealStat(r.ino))
    BY <2>1 DEF RootInv, Known
  <2>3. \A d \in Client : Drops(r, d) => Drops(r, d)' BY DEF Drops
  <2> QED BY <2>2, <2>3
<1>4. ASSUME NEW d \in Client PROVE Pending(d)'
  <2>1. CASE d = c BY <2>1 DEF Pending
  <2>2. CASE d # c
    <3>1. Pending(d) BY DEF RootInv
    <3>2. pc'[d] = pc[d] /\ call'[d] = call[d] BY <2>2
    <3>3. PICK j : j = call[d].st.ino OBVIOUS
    <3>4. \A k : Has(d, k)' <=> Has(d, k) BY DEF Has
    <3>5. j \in Sure' /\ Has(d, j) /\ NoRow(settled, j) => NoRow(settled', j)
      BY <1>0 DEF Elsewhere, NoRow
    <3> QED BY <1>s, <3>1, <3>2, <3>3, <3>4, <3>5, PendingKept
  <2> QED BY <2>1, <2>2
<1> QED BY <1>1, <1>2, <1>3, <1>4

(* What a stat is answered is what a file of root's may have.              *)
LEMMA AnswerOfRoot ==
  ASSUME NEW t \in Seq(Entry), ~UnknownIsReal, NEW i, NEW st \in Status
  PROVE  Report(i, Answer(t, st))[2] \in
           [type : {"reg", "dir", "dev"}, perm : Perm, uid : Uid \cup {Root}]
<1>1. /\ Answer(t, st).type \in {"reg", "dir", "dev"} /\ Answer(t, st).perm \in Perm
      /\ Answer(t, st).uid \in Uid \cup {Root}
  <2>1. CASE DataFind(t, st) = 0
    <3>1. Answer(t, st) = Owned(st) BY <2>1 DEF Answer
    <3> QED BY <3>1 DEF Owned, Status, StatusOf
  <2>2. CASE DataFind(t, st) # 0
    <3>1. t[DataFind(t, st)] \in Entry BY <2>2, FindRow, RowsTyped
    <3> QED BY <2>2, <3>1 DEF Answer, Entry, Status, StatusOf
  <2> QED BY <2>1, <2>2
<1> QED BY <1>1 DEF Report

(* What a stat would report of every file.                                 *)
Views ==
  \A i \in Sure :
    IF content[i] = "free" THEN View(i) = None
    ELSE /\ View(i) \in [type : {"reg", "dir", "dev"}, perm : Perm, uid : Uid \cup {Root}]
         /\ NoRow(settled, i) =>
              View(i) = [type |-> RealStat(i).type, perm |-> "rw", uid |-> Root]
         /\ \A r \in Rows(settled) : r.ino = i => View(i) = Attributes(r)

LEMMA ViewsAre == TypeInv /\ RootInv /\ ~UnknownIsReal => Views
<1> SUFFICES ASSUME TypeInv, RootInv, ~UnknownIsReal, NEW i \in Sure
             PROVE  IF content[i] = "free" THEN View(i) = None
                    ELSE /\ View(i) \in [type : {"reg", "dir", "dev"}, perm : Perm, uid : Uid \cup {Root}]
                         /\ NoRow(settled, i) =>
                              View(i) = [type |-> RealStat(i).type, perm |-> "rw", uid |-> Root]
                         /\ \A r \in Rows(settled) : r.ino = i => View(i) = Attributes(r)
  BY DEF Views
<1>1. CASE content[i] = "free" BY <1>1 DEF View
<1>2. CASE content[i] # "free"
  <2>1. View(i) = Report(i, Answer(settled, RealStat(i)))[2] BY <1>2 DEF View
  <2>2. settled \in Seq(Entry) /\ KeyedAt(settled, i) /\ i \in Ino /\ RealStat(i) \in Status
    BY RealStatTyped DEF TypeInv, TypeOK, RootInv, OneEach, Sure
  <2>3. RealStat(i).ino = i /\ RealStat(i).perm = "rw" BY DEF RealStat
  <2>4. NoRow(settled, i) =>
          View(i) = [type |-> RealStat(i).type, perm |-> "rw", uid |-> Root]
    BY <2>1, <2>2, <2>3, AnswerIs
  <2>5. \A r \in Rows(settled) : r.ino = i => View(i) = Attributes(r)
    BY <1>2, <2>1, <2>2, <2>3, AnswerIs DEF RootInv, Known
  <2>6. View(i) \in [type : {"reg", "dir", "dev"}, perm : Perm, uid : Uid \cup {Root}]
    BY <2>1, <2>2, AnswerOfRoot
  <2> QED BY <1>2, <2>4, <2>5, <2>6
<1> QED BY <1>1, <1>2

LEMMA ViewsNext == TypeInv' /\ RootInv' /\ (~UnknownIsReal)' => Views'
BY ViewsAre, PTL

(* A call of root's that an inode's new entry is the effect of, or none.   *)
ByRoot(i, e) == Attributes(e) = View(i) \/ Promise!Call(View(i), Attributes(e))

LEMMA ChownTold ==
  ASSUME TypeInv, RootInv, Views, NEW i \in Sure, content[i] # "free",
         NEW u \in Uid \cup {Same}, NEW st, st = [RealStat(i) EXCEPT !.uid = u]
  PROVE  \/ Process(settled, "chown", st) = settled
         \/ \E e : /\ Sets(settled, Process(settled, "chown", st), e)
                   /\ FakestatEqual(e, RealStat(i)) /\ ByRoot(i, e)
<1>t. /\ settled \in Seq(Entry) /\ KeyedAt(settled, i) /\ RealStat(i) \in Status
      /\ Rows(settled) \subseteq Entry
  BY RealStatTyped, RowsTyped DEF TypeInv, TypeOK, RootInv, OneEach, Sure
<1>1. /\ st \in Status /\ st.ino = i /\ st.uid = u /\ RealStat(i).ino = i
      /\ st.type = RealStat(i).type /\ st.perm = "rw" /\ st.empty = RealStat(i).empty
  <2>1. st \in Status /\ st.uid = u /\ st.ino = RealStat(i).ino /\ st.type = RealStat(i).type
        /\ st.perm = RealStat(i).perm /\ st.empty = RealStat(i).empty
    BY <1>t DEF Status, StatusOf
  <2> QED BY <2>1 DEF RealStat
<1>v. View(i) # None BY NoneAssumption DEF Views
<1>c. ASSUME u \in Uid, NEW e, Attributes(e) = [View(i) EXCEPT !.uid = u] PROVE ByRoot(i, e)
  BY <1>c, <1>v DEF ByRoot, Promise!Call, Promise!Chown
<1>2. CASE NoRow(settled, i)
  <2> DEFINE e == IF u = Same THEN Owned(st) ELSE st
  <2>1. Sets(settled, Process(settled, "chown", st), e) BY <1>1, <1>2, <1>t, ChownRow
  <2>2. /\ e.ino = i /\ e.type = RealStat(i).type /\ e.perm = "rw"
        /\ e.uid = IF u = Same THEN Root ELSE u
    BY <1>1 DEF Owned, Status, StatusOf
  <2>3. View(i) = [type |-> RealStat(i).type, perm |-> "rw", uid |-> Root]
    BY <1>2 DEF Views
  <2>4. ByRoot(i, e)
    <3>1. CASE u = Same BY <2>2, <2>3, <3>1 DEF ByRoot, Attributes
    <3>2. CASE u # Same
      <4>1. Attributes(e) = [View(i) EXCEPT !.uid = u] BY <2>2, <2>3, <3>2 DEF Attributes
      <4> HIDE DEF e
      <4> QED BY <1>c, <3>2, <4>1
    <3> QED BY <3>1, <3>2
  <2>5. FakestatEqual(e, RealStat(i)) BY <1>1, <2>2 DEF FakestatEqual
  <2> HIDE DEF e
  <2> QED BY <2>1, <2>4, <2>5
<1>3. ASSUME NEW r \in Rows(settled), r.ino = i
      PROVE  \/ Process(settled, "chown", st) = settled
             \/ \E e : /\ Sets(settled, Process(settled, "chown", st), e)
                       /\ FakestatEqual(e, RealStat(i)) /\ ByRoot(i, e)
  <2> DEFINE e == [r EXCEPT !.uid = u]
  <2>1. FakestatEqual(r, RealStat(i)) /\ r \in Entry BY <1>3, <1>t DEF RootInv, Known
  <2>2. FakestatEqual(r, st) BY <1>1, <2>1 DEF FakestatEqual
  <2>3. \/ Process(settled, "chown", st) = settled
        \/ u \in Uid /\ Sets(settled, Process(settled, "chown", st), e)
    BY <1>1, <1>t, <2>2, ChownRow
  <2>4. View(i) = Attributes(r) BY <1>3 DEF Views
  <2>5. /\ e.ino = i /\ e.type = r.type /\ e.perm = r.perm /\ e.uid = u
    BY <1>3, <2>1 DEF Entry, StatusOf
  <2>6. FakestatEqual(e, RealStat(i)) BY <2>1, <2>5, <1>3 DEF FakestatEqual
  <2>7. Attributes(e) = [View(i) EXCEPT !.uid = u] BY <2>4, <2>5 DEF Attributes
  <2> HIDE DEF e
  <2>8. u \in Uid => ByRoot(i, e) BY <1>c, <2>7
  <2> QED BY <2>3, <2>6, <2>8
<1> QED BY <1>2, <1>3 DEF NoRow

LEMMA ChmodTold ==
  ASSUME TypeInv, RootInv, Views, NEW i \in Sure, content[i] # "free",
         NEW p \in Mode, NEW st, st = [RealStat(i) EXCEPT !.perm = p]
  PROVE  \E e : /\ Sets(settled, Process(settled, "chmod", st), e)
                /\ FakestatEqual(e, RealStat(i)) /\ ByRoot(i, e)
<1>t. /\ settled \in Seq(Entry) /\ KeyedAt(settled, i) /\ RealStat(i) \in Status
      /\ Rows(settled) \subseteq Entry
  BY RealStatTyped, RowsTyped DEF TypeInv, TypeOK, RootInv, OneEach, Sure
<1>1. /\ st \in Status /\ st.ino = i /\ st.perm = p /\ RealStat(i).ino = i
      /\ st.type = RealStat(i).type /\ st.empty = RealStat(i).empty
      /\ st.type \in {"reg", "dir"}
  <2>1. st \in Status /\ st.perm = p /\ st.ino = RealStat(i).ino /\ st.type = RealStat(i).type
        /\ st.empty = RealStat(i).empty
    BY <1>t DEF Status, StatusOf, Perm
  <2> QED BY <2>1 DEF RealStat
<1>v. View(i) # None BY NoneAssumption DEF Views
<1>c. ASSUME NEW e, Attributes(e) = [View(i) EXCEPT !.perm = p] PROVE ByRoot(i, e)
  BY <1>c, <1>v DEF ByRoot, Promise!Call, Promise!Chmod
<1>2. CASE NoRow(settled, i)
  <2> DEFINE e == Owned(st)
  <2>1. Sets(settled, Process(settled, "chmod", st), e) BY <1>1, <1>2, <1>t, ChmodRow
  <2>2. e.ino = i /\ e.type = RealStat(i).type /\ e.perm = p /\ e.uid = Root
    BY <1>1 DEF Owned, Status, StatusOf
  <2>3. View(i) = [type |-> RealStat(i).type, perm |-> "rw", uid |-> Root]
    BY <1>2 DEF Views
  <2>4. Attributes(e) = [View(i) EXCEPT !.perm = p] BY <2>2, <2>3 DEF Attributes
  <2>5. FakestatEqual(e, RealStat(i)) BY <1>1, <2>2 DEF FakestatEqual
  <2> HIDE DEF e
  <2> QED BY <1>c, <2>1, <2>4, <2>5
<1>3. ASSUME NEW r \in Rows(settled), r.ino = i
      PROVE  \E e : /\ Sets(settled, Process(settled, "chmod", st), e)
                    /\ FakestatEqual(e, RealStat(i)) /\ ByRoot(i, e)
  <2> DEFINE e == [r EXCEPT !.perm = p]
  <2>1. FakestatEqual(r, RealStat(i)) /\ r \in Entry BY <1>3, <1>t DEF RootInv, Known
  <2>2. FakestatEqual(r, st) BY <1>1, <2>1 DEF FakestatEqual
  <2>3. Sets(settled, Process(settled, "chmod", st), e) BY <1>1, <1>t, <2>2, ChmodRow
  <2>4. View(i) = Attributes(r) BY <1>3 DEF Views
  <2>5. e.ino = i /\ e.type = r.type /\ e.perm = p /\ e.uid = r.uid
    BY <1>3, <2>1 DEF Entry, StatusOf
  <2>6. FakestatEqual(e, RealStat(i)) BY <2>1, <2>5, <1>3 DEF FakestatEqual
  <2>7. Attributes(e) = [View(i) EXCEPT !.perm = p] BY <2>4, <2>5 DEF Attributes
  <2> HIDE DEF e
  <2> QED BY <1>c, <2>3, <2>6, <2>7
<1> QED BY <1>2, <1>3 DEF NoRow

LEMMA MknodTold ==
  ASSUME TypeInv, RootInv, Views, NEW i \in Sure, content[i] = "empty", NoRow(settled, i),
         NEW p \in Mode, NEW st, st = [RealStat(i) EXCEPT !.type = "dev", !.perm = p]
  PROVE  \E e : /\ Sets(settled, Process(settled, "mknod", st), e)
                /\ FakestatEqual(e, RealStat(i)) /\ ByRoot(i, e)
<1> DEFINE e == Owned(st)
<1>t. settled \in Seq(Entry) /\ KeyedAt(settled, i) /\ RealStat(i) \in Status
  BY RealStatTyped DEF TypeInv, TypeOK, RootInv, OneEach, Sure
<1>r. RealStat(i).ino = i /\ RealStat(i).type = "reg" /\ RealStat(i).empty BY DEF RealStat
<1>1. st \in Status /\ st.ino = i /\ st.type = "dev" /\ st.perm = p
  BY <1>t, <1>r DEF Status, StatusOf, Perm
<1>2. Sets(settled, Process(settled, "mknod", st), e) BY <1>1, <1>t, MknodRow
<1>3. e.ino = i /\ e.type = "dev" /\ e.perm = p /\ e.uid = Root
  BY <1>1 DEF Owned, Status, StatusOf
<1>4. View(i) = [type |-> "reg", perm |-> "rw", uid |-> Root] /\ View(i) # None
  BY <1>r, NoneAssumption DEF Views
<1>5. FakestatEqual(e, RealStat(i)) BY <1>r, <1>3 DEF FakestatEqual
<1>6. Attributes(e) = [type |-> "dev", perm |-> p, uid |-> Root] BY <1>3 DEF Attributes
<1> HIDE DEF e
<1>7. ByRoot(i, e)
  <2> DEFINE x == [type |-> "reg", perm |-> "rw", uid |-> Root]
  <2>1. [x EXCEPT !.type = "dev", !.perm = p] = [type |-> "dev", perm |-> p, uid |-> Root]
    <3>1. [x EXCEPT !.type = "dev"] = [type |-> "dev", perm |-> "rw", uid |-> Root] OBVIOUS
    <3>2. [x EXCEPT !.type = "dev", !.perm = p] = [[x EXCEPT !.type = "dev"] EXCEPT !.perm = p]
      OBVIOUS
    <3>3. [[type |-> "dev", perm |-> "rw", uid |-> Root] EXCEPT !.perm = p]
          = [type |-> "dev", perm |-> p, uid |-> Root]
      OBVIOUS
    <3> HIDE DEF x
    <3> QED BY <3>1, <3>2, <3>3
  <2>2. x.type # "dir" OBVIOUS
  <2>3. View(i) = x BY <1>4
  <2> HIDE DEF x
  <2>4. Attributes(e) \in {[View(i) EXCEPT !.type = "dev", !.perm = q] : q \in Mode}
    BY <1>6, <2>1, <2>3
  <2> QED BY <1>4, <2>2, <2>3, <2>4 DEF ByRoot, Promise!Call, Promise!Mknod
<1> QED BY <1>2, <1>5, <1>7

(* What is told is the effect of a call of root's on one file, or none.    *)
Told ==
  \/ \A i \in Sure : content[i] # "free" =>
       \A r : r.ino = i => (r \in Rows(settled') <=> r \in Rows(settled))
  \/ \E i \in Sure : \E e : /\ content[i] # "free" /\ e.ino = i
                            /\ Sets(settled, settled', e) /\ ByRoot(i, e)

(* An unlink erases the entry of a file that has gone, and no other.       *)
LEMMA UnlinkRoot ==
  ASSUME TypeInv, RootInv, NEW c \in Client, pc[c] = "tell", call[c].id = "unlink",
         call[c].st.ino \in Sure, settled' = Process(settled, "unlink", call[c].st),
         UNCHANGED <<dir, content, untold>>, pc'[c] = "idle",
         \A d \in Client : d # c => pc'[d] = pc[d] /\ call'[d] = call[d]
  PROVE  /\ OneEach' /\ OwnFiles' /\ Known' /\ \A d \in Client : Pending(d)'
         /\ Told
<1> DEFINE st == call[c].st
<1>t. settled \in Seq(Entry) /\ KeyedAt(settled, st.ino) /\ st \in Status
  <2>1. call[c] \in [path : Name \cup {None}, id : Requests, st : Status]
    BY DEF TypeInv, Ready, Proc
  <2> QED BY <2>1 DEF TypeInv, TypeOK, RootInv, OneEach
<1>p. /\ st.ino \in Sure
      /\ IF content[st.ino] = "free" THEN LastLink(st) ELSE ~LastLink(st)
  BY DEF RootInv, Pending
<1>1. /\ \A j : KeyedAt(settled, j) => KeyedAt(settled', j)
      /\ \A r : r \in Rows(settled') <=>
           r \in Rows(settled) /\ ~(LastLink(st) /\ FakestatEqual(r, st))
  BY <1>t, UnlinkRow
<1> HIDE DEF st
<1>s. \A j : RealStat(j)' = RealStat(j) BY DEF RealStat, Links
<1>0. Sure' = Sure BY DEF Sure
<1>2. OneEach' /\ OwnFiles' BY <1>0, <1>1 DEF RootInv, OwnFiles, OneEach
<1>3. Known'
  <2> SUFFICES ASSUME NEW r \in Rows(settled'), r.ino \in Sure
               PROVE  IF content[r.ino] = "free" THEN \E d \in Client : Drops(r, d)'
                      ELSE FakestatEqual(r, RealStat(r.ino))
    BY <1>0, <1>s DEF Known
  <2>1. r \in Rows(settled) /\ ~(LastLink(st) /\ FakestatEqual(r, st)) BY <1>1
  <2>2. IF content[r.ino] = "free" THEN \E d \in Client : Drops(r, d)
        ELSE FakestatEqual(r, RealStat(r.ino))
    BY <2>1 DEF RootInv, Known
  <2>3. CASE content[r.ino] = "free"
    <3>1. PICK d \in Client : Drops(r, d) BY <2>2, <2>3
    <3>2. d # c
      <4> SUFFICES ASSUME d = c PROVE FALSE OBVIOUS
      <4>1. st.ino = r.ino /\ FakestatEqual(r, st) BY <3>1 DEF Drops, st
      <4> QED BY <1>p, <2>1, <2>3, <4>1
    <3>3. Drops(r, d)' BY <3>1, <3>2 DEF Drops
    <3> QED BY <2>2, <2>3, <3>3
  <2> QED BY <2>2, <2>3
<1>4. ASSUME NEW d \in Client PROVE Pending(d)'
  <2>1. CASE d = c BY <2>1 DEF Pending
  <2>2. CASE d # c
    <3>1. Pending(d) BY DEF RootInv
    <3>2. pc'[d] = pc[d] /\ call'[d] = call[d] BY <2>2
    <3>3. \A k : Has(d, k)' <=> Has(d, k) BY DEF Has
    <3>4. PICK j : j = call[d].st.ino OBVIOUS
    <3>5. j \in Sure' /\ Has(d, j) /\ NoRow(settled, j) => NoRow(settled', j)
      BY <1>1 DEF NoRow
    <3> QED BY <1>s, <3>1, <3>2, <3>3, <3>4, <3>5, PendingKept
  <2> QED BY <2>1, <2>2
<1>5. Told
  <2> SUFFICES ASSUME NEW r, r.ino \in Sure, content[r.ino] # "free"
               PROVE  r \in Rows(settled') <=> r \in Rows(settled)
    BY DEF Told
  <2>1. FakestatEqual(r, st) => r.ino = st.ino BY DEF FakestatEqual
  <2> QED BY <1>p, <1>1, <2>1
<1> QED BY <1>1, <1>2, <1>3, <1>4, <1>5

(* A step that touches neither the files nor the data base as it will be.  *)
LEMMA AsideRoot ==
  ASSUME RootInv, UNCHANGED <<dir, content, settled, untold>>,
         \A c \in Client : \/ /\ pc'[c] = pc[c] \/ (pc[c] = "lock" /\ pc'[c] = "ask")
                              /\ call'[c] = call[c]
                           \/ /\ pc'[c] \notin {"remove", "tell", "lock", "ask"}
                              /\ pc[c] = "tell" => call[c].id # "unlink"
  PROVE  OneEach' /\ OwnFiles' /\ Known' /\ \A c \in Client : Pending(c)'
<1>s. \A j : RealStat(j)' = RealStat(j) BY DEF RealStat, Links
<1>0. Sure' = Sure BY DEF Sure
<1>1. OneEach' /\ OwnFiles' BY <1>0 DEF RootInv, OneEach, OwnFiles
<1>2. Known'
  <2> SUFFICES ASSUME NEW r \in Rows(settled), r.ino \in Sure
               PROVE  IF content[r.ino] = "free" THEN \E d \in Client : Drops(r, d)'
                      ELSE FakestatEqual(r, RealStat(r.ino))
    BY <1>0, <1>s DEF Known
  <2>1. IF content[r.ino] = "free" THEN \E d \in Client : Drops(r, d)
        ELSE FakestatEqual(r, RealStat(r.ino))
    BY DEF RootInv, Known
  <2>2. \A d \in Client : Drops(r, d) => Drops(r, d)' BY DEF Drops
  <2> QED BY <2>1, <2>2
<1>3. ASSUME NEW c \in Client PROVE Pending(c)'
  <2>1. CASE pc'[c] \notin {"remove", "tell", "lock", "ask"} BY <2>1 DEF Pending
  <2>2. CASE /\ pc'[c] = pc[c] \/ (pc[c] = "lock" /\ pc'[c] = "ask")
             /\ call'[c] = call[c]
    <3>1. Pending(c) BY DEF RootInv
    <3>2. \A k : Has(c, k)' <=> Has(c, k) BY DEF Has
    <3>3. PICK j : j = call[c].st.ino OBVIOUS
    <3>4. NoRow(settled, j) => NoRow(settled', j) OBVIOUS
    <3> QED BY <1>s, <2>2, <3>1, <3>2, <3>3, <3>4, PendingKept
  <2> QED BY <2>1, <2>2
<1> QED BY <1>1, <1>2, <1>3

LEMMA TellRoot ==
  ASSUME Separate, DrainInv, RootInv, Views, NEW c \in Client, Tell(c)
  PROVE  RootInv' /\ UNCHANGED <<content, promised, untold>> /\ Told
<1> DEFINE st == call[c].st
           i == st.ino
<1>t. TypeInv BY DEF DrainInv
<1>1. /\ pc[c] = "tell" /\ settled' = Process(settled, call[c].id, st)
      /\ UNCHANGED <<dir, content, untold, phase, promised>> /\ pc'[c] = "idle"
      /\ \A d \in Client : d # c => pc'[d] = pc[d] /\ call'[d] = call[d]
  <2>1. /\ pc \in [Proc -> {"idle", "remove", "tell", "lock", "ask", "wait", "dead"}]
        /\ call \in [Proc -> [path : Name \cup {None}, id : Requests, st : Status] \cup {None}]
        /\ c \in Proc /\ Client \subseteq Proc
    BY <1>t DEF TypeInv, TypeOK, Proc
  <2> QED BY <2>1 DEF Tell, Goes, files, session
<1>2. Restores'
  <2>1. phase = "run" BY <1>1 DEF DrainInv, Drained
  <2> QED BY <1>1, <2>1 DEF Restores
<1>3. call[c] \in [path : Name \cup {None}, id : Requests, st : Status]
  BY <1>1, <1>t DEF TypeInv, Ready, Proc
<1>4. i \in Ino /\ call[c].id # "stat" BY <1>1 DEF RootInv, Pending
<1>0. CASE i \notin Sure
  <2>1. Elsewhere(settled, settled', i)
    <3>1. settled \in Seq(Entry) /\ Valid(call[c])
      BY <1>1, <1>t DEF TypeInv, TypeOK, Ready, Proc
    <3> QED BY <1>1, <1>3, <3>1, ProcessElsewhere DEF Valid
  <2> HIDE DEF i
  <2>2. OneEach' /\ OwnFiles' /\ Known' /\ \A d \in Client : Pending(d)'
    BY <1>0, <1>1, <2>1, LostRoot DEF i
  <2>3. Told BY <1>0, <2>1 DEF Told, Elsewhere
  <2> QED BY <1>1, <1>2, <2>2, <2>3 DEF RootInv
<1>5. CASE i \in Sure /\ call[c].id = "unlink"
  <2>1. settled' = Process(settled, "unlink", call[c].st) BY <1>1, <1>5
  <2>2. /\ OneEach' /\ OwnFiles' /\ Known' /\ \A d \in Client : Pending(d)'
        /\ Told
    BY <1>t, <1>1, <1>5, <2>1, UnlinkRoot
  <2> QED BY <1>1, <1>2, <2>2 DEF RootInv
<1>6. CASE i \in Sure /\ call[c].id # "unlink"
  <2>1. Has(c, i)
    <3>1. call[c].id \in {"chown", "chmod", "mknod"} BY <1>3, <1>4, <1>6 DEF Requests
    <3> QED BY <1>1, <3>1 DEF RootInv, Pending
  <2>2. content[i] # "free" BY <1>4, <2>1, FakerootAssumption DEF Has, RootInv, OwnFiles
  <2>3. \/ settled' = settled
        \/ \E e : Sets(settled, settled', e) /\ FakestatEqual(e, RealStat(i)) /\ ByRoot(i, e)
    <3>1. CASE call[c].id = "chown"
      <4>1. PICK u \in Uid \cup {Same} : st = [RealStat(i) EXCEPT !.uid = u]
        BY <1>1, <3>1 DEF RootInv, Pending
      <4> HIDE DEF st, i
      <4> QED BY <1>t, <1>1, <1>6, <2>2, <3>1, <4>1, ChownTold
    <3>2. CASE call[c].id = "chmod"
      <4>1. PICK p \in Mode : st = [RealStat(i) EXCEPT !.perm = p]
        BY <1>1, <3>2 DEF RootInv, Pending
      <4> HIDE DEF st, i
      <4> QED BY <1>t, <1>1, <1>6, <2>2, <3>2, <4>1, ChmodTold
    <3>3. CASE call[c].id = "mknod"
      <4>1. content[i] = "empty" /\ NoRow(settled, i)
        BY <1>1, <1>6, <3>3 DEF RootInv, Pending
      <4>2. PICK p \in Mode : st = [RealStat(i) EXCEPT !.type = "dev", !.perm = p]
        BY <1>1, <3>3 DEF RootInv, Pending
      <4> HIDE DEF st, i
      <4> QED BY <1>t, <1>1, <1>6, <3>3, <4>1, <4>2, MknodTold
    <3> QED BY <1>3, <1>4, <1>6, <3>1, <3>2, <3>3 DEF Requests
  <2> HIDE DEF i
  <2>4. CASE settled' = settled
    <3>1. Told BY <2>4 DEF Told
    <3>2. \A d \in Client : \/ pc'[d] = pc[d] /\ call'[d] = call[d]
                            \/ /\ pc'[d] \notin {"remove", "tell", "lock", "ask"}
                               /\ pc[d] = "tell" => call[d].id # "unlink"
      BY <1>1, <1>6
    <3> QED BY <1>1, <1>2, <2>4, <3>1, <3>2, AsideRoot DEF RootInv
  <2>5. ASSUME NEW e, Sets(settled, settled', e), FakestatEqual(e, RealStat(i)), ByRoot(i, e)
        PROVE  RootInv' /\ Told
    <3>1. e.ino = i BY <2>5 DEF FakestatEqual, RealStat
    <3>2. Told BY <1>6, <2>2, <2>5, <3>1 DEF Told
    <3>3. OneEach' /\ OwnFiles' /\ Known' /\ \A d \in Client : Pending(d)'
      BY <1>t, <1>1, <1>4, <1>6, <2>1, <2>5, SetRoot
    <3> QED BY <1>2, <3>2, <3>3 DEF RootInv
  <2> QED BY <1>1, <2>3, <2>4, <2>5
<1> QED BY <1>0, <1>5, <1>6

--------------------------------------------------------------------------------
(* The script. *)

LEMMA CleanupRoot ==
  ASSUME DrainInv, OrderInv, RootInv, Cleanup
  PROVE  RootInv' /\ UNCHANGED <<content, settled, untold>>
<1>t. table \in Seq(Entry) BY DEF DrainInv, TypeInv, TypeOK
<1>1. /\ phase = "sync" /\ pc[Shell] = "idle" /\ settled' = table /\ table' = <<>>
      /\ file' = SaveDatabase(table) /\ UNCHANGED <<dir, content, untold, pc, call>>
  BY DEF Cleanup, files
<1>2. req = <<>> BY <1>1 DEF DrainInv, Drained, LastIsShell
<1>3. table = settled
  <2>1. PICK s : Leads(s) BY <1>1 DEF OrderInv, Lead
  <2>2. Len(req) = 0 BY <1>2, EmptySeq, LenProperties
  <2> QED BY <2>1, <2>2 DEF Leads
<1>4. OneEach' /\ OwnFiles' /\ Known' /\ \A c \in Client : Pending(c)'
  BY <1>1, <1>3, AsideRoot
<1>5. Restores'
  <2>1. Len(table') = 0 /\ 1..0 = {} BY <1>1, EmptySeq, LenProperties
  <2>2. DOMAIN table = 1..Len(table) /\ Len(table) \in Nat BY <1>t, LenProperties
  <2>3. file' = [k \in 1..Len(table) |-> Line(table[k])] BY <1>1, <2>2 DEF SaveDatabase
  <2>4. Len(file') = Len(table)
    <3>1. file' \in Seq({Line(table[k]) : k \in 1..Len(table)})
      BY <2>2, <2>3, IsASeq
    <3>2. DOMAIN file' = 1..Len(file') /\ Len(file') \in Nat BY <3>1, LenProperties
    <3>3. DOMAIN file' = 1..Len(table) BY <2>3
    <3>4. ASSUME NEW m \in Nat, NEW n \in Nat, 1..m = 1..n PROVE m <= n
      <4>1. m # 0 => m \in 1..m OBVIOUS
      <4>2. m # 0 => m \in 1..n BY <3>4, <4>1
      <4> QED BY <4>2
    <3>5. 1..Len(file') = 1..Len(table) /\ Len(file') \in Nat /\ Len(table) \in Nat
      BY <2>2, <3>2, <3>3
    <3>6. Len(file') <= Len(table) /\ Len(table) <= Len(file') BY <3>4, <3>5
    <3> QED BY <3>5, <3>6
  <2>5. \A k \in 1..Len(file') : file'[k] = Line(table[k]) BY <2>3, <2>4
  <2>6. \A r : Line(r).ino = r.ino BY DEF Line
  <2> SUFFICES ASSUME NEW i \in Sure
               PROVE  /\ KeyedAt(table', i) /\ KeyedAt(file', i) /\ NoRow(table', i)
                      /\ \A l : l \in Lines(settled') <=> l \in Lines(table') \cup Rows(file')
    BY <1>1 DEF Restores, Sure
  <2>7. KeyedAt(table', i) /\ NoRow(table', i) /\ Lines(table') = {}
    BY <2>1 DEF KeyedAt, NoRow, Rows, Lines
  <2>8. KeyedAt(file', i)
    <3>1. KeyedAt(table, i) BY <1>3 DEF RootInv, OneEach
    <3> QED BY <2>4, <2>5, <2>6, <3>1 DEF KeyedAt
  <2>9. Lines(table) = Rows(file') BY <2>4, <2>5 DEF Lines, Rows
  <2> QED BY <1>1, <2>7, <2>8, <2>9
<1> QED BY <1>1, <1>3, <1>4, <1>5 DEF RootInv

(* The first line of a file and the others.                                *)
LEMMA TailRows ==
  ASSUME NEW f \in Seq(Saved), f # <<>>
  PROVE  /\ Head(f) \in Saved /\ Rows(f) = {Head(f)} \cup Rows(Tail(f))
         /\ \A i : KeyedAt(f, i) => /\ KeyedAt(Tail(f), i)
                                    /\ Head(f).ino = i => NoRow(Tail(f), i)
<1>1. /\ Len(f) \in Nat \ {0} /\ Len(Tail(f)) = Len(f) - 1 /\ Head(f) = f[1] /\ Head(f) \in Saved
      /\ \A k \in 1..(Len(f) - 1) : Tail(f)[k] = f[k + 1]
  BY HeadTailProperties, LenProperties, EmptySeq
<1>2. /\ 1 \in 1..Len(f)
      /\ \A k \in 1..(Len(f) - 1) : k + 1 \in 1..Len(f) /\ k + 1 # 1
      /\ \A k \in 1..Len(f) : k # 1 => k - 1 \in 1..(Len(f) - 1) /\ (k - 1) + 1 = k
      /\ \A j, k \in 1..(Len(f) - 1) : j + 1 = k + 1 => j = k
  BY <1>1
<1>3. Rows(f) = {Head(f)} \cup Rows(Tail(f))
  <2>1. ASSUME NEW k \in 1..Len(f) PROVE f[k] \in {Head(f)} \cup Rows(Tail(f))
    <3>1. CASE k = 1 BY <1>1, <3>1
    <3>2. CASE k # 1
      <4>1. k - 1 \in 1..Len(Tail(f)) /\ Tail(f)[k - 1] = f[k] BY <1>1, <1>2, <3>2
      <4> QED BY <4>1 DEF Rows
    <3> QED BY <3>1, <3>2
  <2>2. \A k \in 1..Len(Tail(f)) : Tail(f)[k] \in Rows(f) BY <1>1, <1>2 DEF Rows
  <2>3. Head(f) \in Rows(f) BY <1>1, <1>2 DEF Rows
  <2> QED BY <2>1, <2>2, <2>3 DEF Rows
<1>4. ASSUME NEW i, KeyedAt(f, i) PROVE KeyedAt(Tail(f), i)
  <2> SUFFICES ASSUME NEW j \in 1..(Len(f) - 1), NEW k \in 1..(Len(f) - 1),
                      f[j + 1].ino = i, f[k + 1].ino = i
               PROVE  j = k
    BY <1>1 DEF KeyedAt
  <2> QED BY <1>2, <1>4 DEF KeyedAt
<1>5. ASSUME NEW i, KeyedAt(f, i), Head(f).ino = i PROVE NoRow(Tail(f), i)
  <2> SUFFICES ASSUME NEW k \in 1..(Len(f) - 1), f[k + 1].ino = i PROVE FALSE
    BY <1>1 DEF NoRow, Rows
  <2> QED BY <1>1, <1>2, <1>5 DEF KeyedAt
<1> QED BY <1>1, <1>3, <1>4, <1>5

LEMMA LinesOf == ASSUME NEW t PROVE \A l : l \in Lines(t) <=> \E r \in Rows(t) : l = Line(r)
BY DEF Lines, Rows

(* What has been loaded are entries like those that were saved.            *)
LEMMA LoadRoot ==
  ASSUME DrainInv, RootInv, Load
  PROVE  /\ RootInv' /\ UNCHANGED <<content, promised, untold>>
         /\ \A i \in Sure : \A l : l.ino = i => (l \in Lines(settled') <=> l \in Lines(settled))
<1>t. table \in Seq(Entry) /\ file \in Seq(Saved) BY DEF DrainInv, TypeInv, TypeOK
<1>1. /\ phase = "load" /\ UNCHANGED <<dir, content, untold, promised, pc, call>>
  BY DEF Load, files
<1>0. Sure' = Sure BY <1>1 DEF Sure
<1>2. \A c \in Client : pc[c] \in {"idle", "dead"} BY <1>1 DEF DrainInv, Drained
<1>3. \A i \in Sure :
        /\ KeyedAt(table, i) /\ KeyedAt(file, i)
        /\ NoRow(table, i) \/ NoRow(file, i)
        /\ \A l : l.ino = i => (l \in Lines(settled) <=> l \in Lines(table) \cup Rows(file))
  BY <1>1 DEF RootInv, Restores
<1>l. \A r : Line(r).ino = r.ino /\ Line(r).type = r.type BY DEF Line
<1>4. CASE file = <<>>
  <2>1. phase' = "run" /\ settled' = table /\ table' = table BY <1>4 DEF Load
  <2>2. Rows(file) = {}
    <3>1. Len(file) = 0 /\ 1..0 = {} BY <1>4, EmptySeq, LenProperties
    <3> QED BY <3>1 DEF Rows
  <2>3. \A i \in Sure : \A l : l.ino = i => (l \in Lines(settled') <=> l \in Lines(settled))
    BY <1>3, <2>1, <2>2
  <2>4. OneEach' BY <1>0, <1>3, <2>1 DEF OneEach
  <2>5. OwnFiles' BY <1>1 DEF RootInv, OwnFiles
  <2>6. Known'
    <3> SUFFICES ASSUME NEW r \in Rows(table), r.ino \in Sure
                 PROVE  content[r.ino] # "free" /\ FakestatEqual(r, RealStat(r.ino)')
      BY <1>0, <1>1, <2>1 DEF Known
    <3>1. Line(r) \in Lines(settled) BY <1>l, <2>1, <2>3, LinesOf
    <3>2. PICK q \in Rows(settled) : Line(r) = Line(q) BY <3>1, LinesOf
    <3>3. q.ino = r.ino /\ q.type = r.type BY <1>l, <3>2
    <3>4. IF content[r.ino] = "free" THEN \E d \in Client : Drops(q, d)
          ELSE FakestatEqual(q, RealStat(r.ino))
      BY <3>3 DEF RootInv, Known
    <3>5. content[r.ino] # "free" BY <1>2, <3>4 DEF Drops
    <3>6. RealStat(r.ino)' = RealStat(r.ino) BY <1>1 DEF RealStat, Links
    <3> QED BY <3>3, <3>4, <3>5, <3>6 DEF FakestatEqual
  <2>7. \A c \in Client : Pending(c)' BY <1>1, <1>2 DEF Pending
  <2>8. Restores' BY <2>1 DEF Restores
  <2> QED BY <1>1, <2>3, <2>4, <2>5, <2>6, <2>7, <2>8 DEF RootInv
<1>5. CASE file # <<>>
  <2>1. PICK empty \in BOOLEAN : table' = LoadLine(table, Head(file), empty) BY <1>5 DEF Load
  <2>2. file' = Tail(file) /\ UNCHANGED <<phase, settled>> BY <1>5 DEF Load
  <2>3. /\ Head(file) \in Saved /\ Rows(file) = {Head(file)} \cup Rows(file')
        /\ \A i : KeyedAt(file, i) => /\ KeyedAt(file', i)
                                      /\ Head(file).ino = i => NoRow(file', i)
    BY <1>5, <1>t, <2>2, TailRows
  <2> DEFINE e == Loaded(Head(file), empty)
  <2>4. e \in Entry /\ Line(e) = Head(file) /\ e.ino = Head(file).ino
    BY <2>3 DEF Loaded, Line, Saved, Entry, StatusOf
  <2>5. table' = DataInsert(table, e) BY <2>1 DEF LoadLine
  <2> HIDE DEF e
  <2>6. Elsewhere(table, table', e.ino) BY <1>t, <2>4, <2>5, InsertRow
  <2>7. Restores'
    <3> SUFFICES ASSUME NEW i \in Sure
                 PROVE  /\ KeyedAt(table', i) /\ KeyedAt(file', i)
                        /\ NoRow(table', i) \/ NoRow(file', i)
                        /\ \A l : l.ino = i =>
                             (l \in Lines(settled) <=> l \in Lines(table') \cup Rows(file'))
      BY <1>0, <2>2 DEF Restores
    <3>1. /\ KeyedAt(table, i) /\ KeyedAt(file, i)
          /\ NoRow(table, i) \/ NoRow(file, i)
          /\ \A l : l.ino = i => (l \in Lines(settled) <=> l \in Lines(table) \cup Rows(file))
      BY <1>3
    <3>2. KeyedAt(file', i) BY <2>3, <3>1
    <3>3. CASE i # e.ino
      <4>1. KeyedAt(table', i) BY <2>6, <3>1, <3>3 DEF Elsewhere
      <4>2. \A r : r.ino = i => (r \in Rows(table') <=> r \in Rows(table))
        BY <2>6, <3>3 DEF Elsewhere
      <4>3. \A l : l.ino = i => (l \in Lines(table') <=> l \in Lines(table))
        BY <1>l, <4>2, LinesOf
      <4>4. \A l : l.ino = i => (l \in Rows(file') <=> l \in Rows(file))
        BY <2>3, <2>4, <3>3
      <4>5. NoRow(table', i) \/ NoRow(file', i) BY <3>1, <4>2, <4>4 DEF NoRow
      <4> QED BY <3>1, <3>2, <4>1, <4>3, <4>4, <4>5
    <3>4. CASE i = e.ino
      <4>1. NoRow(table, i) /\ NoRow(file', i) BY <2>3, <2>4, <3>1, <3>4 DEF NoRow
      <4>2. Sets(table, table', e) BY <1>t, <2>4, <2>5, <3>1, <3>4, <4>1, InsertRow DEF NoRow
      <4>3. KeyedAt(table', i) BY <3>4, <4>2 DEF Sets
      <4>4. \A r : r.ino = i => (r \in Rows(table') <=> r = e) BY <3>4, <4>1, <4>2 DEF Sets
      <4>5. \A l : l.ino = i => (l \in Lines(table') <=> l = Head(file))
        BY <1>l, <2>4, <3>4, <4>4, LinesOf
      <4>6. \A l : l.ino = i => (l \in Lines(table) \cup Rows(file) <=> l = Head(file))
        <5>1. \A l : l.ino = i => l \notin Lines(table) BY <1>l, <4>1, LinesOf DEF NoRow
        <5>2. \A l : l.ino = i => l \notin Rows(file') BY <4>1 DEF NoRow
        <5> QED BY <2>3, <5>1, <5>2
      <4>7. \A l : l.ino = i => l \notin Rows(file') BY <4>1 DEF NoRow
      <4> QED BY <3>1, <3>2, <4>1, <4>3, <4>5, <4>6, <4>7
    <3> QED BY <3>3, <3>4
  <2>8. OneEach' /\ OwnFiles' /\ Known' /\ \A c \in Client : Pending(c)'
    BY <1>1, <2>2, AsideRoot
  <2> QED BY <1>1, <2>2, <2>7, <2>8 DEF RootInv
<1> QED BY <1>4, <1>5

(* A step that the files and the data base as it will be do not see.       *)
LEMMA UnseenRoot ==
  ASSUME DrainInv, RootInv,
         \/ UNCHANGED vars \/ \E c \in Client : Exec(c)
         \/ \E p \in Proc : Lock(p) \/ Ask(p) \/ Receive(p)
         \/ Serve \/ SyncStart \/ Restart
  PROVE  RootInv' /\ UNCHANGED <<content, settled, untold>>
<1>t. /\ pc \in [Proc -> {"idle", "remove", "tell", "lock", "ask", "wait", "dead"}]
      /\ call \in [Proc -> [path : Name \cup {None}, id : Requests, st : Status] \cup {None}]
      /\ Client \subseteq Proc /\ Shell \notin Client /\ Shell \in Proc
  BY FakerootAssumption DEF DrainInv, TypeInv, TypeOK, Proc
<1>0. UNCHANGED <<dir, content, settled, untold, file>>
  BY DEF vars, Exec, Lock, Ask, Receive, Serve, SyncStart, Restart, files, session, history
<1> DEFINE Others ==
      \A c \in Client : \/ /\ pc'[c] = pc[c] \/ (pc[c] = "lock" /\ pc'[c] = "ask")
                           /\ call'[c] = call[c]
                        \/ /\ pc'[c] \notin {"remove", "tell", "lock", "ask"}
                           /\ pc[c] # "tell"
<1>1. Others
  <2>1. CASE UNCHANGED vars BY <2>1 DEF vars
  <2>2. ASSUME NEW d \in Client, Exec(d) PROVE Others BY <2>2 DEF Exec
  <2>3. ASSUME NEW p \in Proc, Lock(p) \/ Ask(p) \/ Receive(p) PROVE Others
    <3>1. /\ pc[p] # "tell"
          /\ \/ UNCHANGED <<pc, call>> \/ Goes(p, "idle", None)
             \/ pc' = [pc EXCEPT ![p] = "wait"] /\ UNCHANGED call
             \/ pc[p] = "lock" /\ pc' = [pc EXCEPT ![p] = "ask"] /\ UNCHANGED call
      BY <2>3 DEF Lock, Ask, Receive, Returns
    <3> QED BY <1>t, <3>1 DEF Goes
  <2>4. CASE Serve BY <2>4 DEF Serve
  <2>5. CASE SyncStart BY <1>t, <2>5 DEF SyncStart, Goes
  <2>6. CASE Restart
    <3>1. phase = "down" /\ pc' = [p \in Proc |-> "idle"] BY <2>6 DEF Restart
    <3>2. \A c \in Client : pc[c] \in {"idle", "dead"} BY <3>1 DEF DrainInv, Drained
    <3> QED BY <1>t, <3>1, <3>2
  <2> QED BY <2>1, <2>2, <2>3, <2>4, <2>5, <2>6
<1>2. OneEach' /\ OwnFiles' /\ Known' /\ \A c \in Client : Pending(c)'
  BY <1>0, <1>1, AsideRoot
<1>3. Restores'
  <2>1. \/ UNCHANGED table /\ (phase' \in {"down", "load"} => phase \in {"down", "load"})
        \/ phase' \notin {"down", "load"}
    <3>1. CASE Serve
      <4>1. phase' = phase /\ req # <<>> BY <3>1 DEF Serve, session
      <4> QED BY <4>1 DEF DrainInv, Drained
    <3>2. CASE SyncStart BY <3>2 DEF SyncStart
    <3>3. CASE Restart BY <3>3 DEF Restart, daemon
    <3>4. CASE UNCHANGED vars \/ (\E c \in Client : Exec(c))
               \/ \E p \in Proc : Lock(p) \/ Ask(p) \/ Receive(p)
      <4>1. UNCHANGED <<phase, table>>
        BY <3>4 DEF vars, Exec, Lock, Ask, Receive, daemon, session
      <4> QED BY <4>1
    <3> QED BY <3>1, <3>2, <3>3, <3>4
  <2>2. Restores BY DEF RootInv
  <2>3. Sure' = Sure BY <1>0 DEF Sure
  <2> QED BY <1>0, <2>1, <2>2, <2>3 DEF Restores
<1> QED BY <1>0, <1>2, <1>3 DEF RootInv

(* A process that is killed has told of what it removed, or never will.    *)
LEMMA KillRoot ==
  ASSUME DrainInv, RootInv, NEW c \in Client, Kill(c)
  PROVE  /\ RootInv' /\ UNCHANGED <<content, settled>>
         /\ \/ untold' = untold
            \/ \E i \in Sure : content[i] = "free" /\ untold' = untold \cup {i}
<1>t. /\ pc \in [Proc -> {"idle", "remove", "tell", "lock", "ask", "wait", "dead"}]
      /\ call \in [Proc -> [path : Name \cup {None}, id : Requests, st : Status] \cup {None}]
      /\ c \in Proc /\ Client \subseteq Proc
  BY DEF DrainInv, TypeInv, TypeOK, Proc
<1>1. /\ UNCHANGED <<dir, content, settled, table, file, phase>>
      /\ untold' = untold \cup {i \in Ino : Keeps(c, i)}
  BY DEF Kill, daemon
<1>2. /\ pc'[c] = "dead"
      /\ \A d \in Client : d # c => pc'[d] = pc[d] /\ call'[d] = call[d]
  BY <1>t DEF Kill, Goes
<1>s. \A j : RealStat(j)' = RealStat(j) BY <1>1 DEF RealStat, Links
<1>0. untold \subseteq untold' /\ Sure' \subseteq Sure BY <1>1 DEF Sure
<1>3. OneEach' /\ OwnFiles' /\ Restores'
  <2>1. OneEach /\ OwnFiles /\ Restores BY DEF RootInv
  <2>2. OneEach' BY <1>0, <1>1, <2>1 DEF OneEach
  <2>3. OwnFiles' BY <1>1, <2>1 DEF OwnFiles
  <2>4. Restores' BY <1>0, <1>1, <2>1 DEF Restores
  <2> QED BY <2>2, <2>3, <2>4
<1>4. Known'
  <2> SUFFICES ASSUME NEW r \in Rows(settled), r.ino \in Sure'
               PROVE  IF content[r.ino] = "free" THEN \E d \in Client : Drops(r, d)'
                      ELSE FakestatEqual(r, RealStat(r.ino))
    BY <1>1, <1>s DEF Known
  <2>1. IF content[r.ino] = "free" THEN \E d \in Client : Drops(r, d)
        ELSE FakestatEqual(r, RealStat(r.ino))
    BY <1>0 DEF RootInv, Known
  <2>2. ASSUME NEW d \in Client, Drops(r, d), content[r.ino] = "free" PROVE Drops(r, d)'
    <3>1. d # c
      <4> SUFFICES ASSUME d = c PROVE FALSE OBVIOUS
      <4>1. r.ino \in Ino /\ Keeps(c, r.ino) BY <2>2 DEF Drops, Keeps, Sure
      <4> QED BY <1>1, <4>1 DEF Sure
    <3> QED BY <1>2, <2>2, <3>1 DEF Drops
  <2> QED BY <2>1, <2>2
<1>5. ASSUME NEW d \in Client PROVE Pending(d)'
  <2>1. CASE d = c BY <1>2, <2>1 DEF Pending
  <2>2. CASE d # c
    <3>1. Pending(d) BY DEF RootInv
    <3>2. pc'[d] = pc[d] /\ call'[d] = call[d] BY <1>2, <2>2
    <3>3. \A k : Has(d, k)' <=> Has(d, k) BY <1>1 DEF Has
    <3>4. PICK j : j = call[d].st.ino OBVIOUS
    <3>5. NoRow(settled, j) => NoRow(settled', j) BY <1>1
    <3> QED BY <1>0, <1>1, <1>s, <3>1, <3>2, <3>3, <3>4, <3>5, PendingKept
  <2> QED BY <2>1, <2>2
<1>6. \/ untold' = untold
      \/ \E i \in Sure : content[i] = "free" /\ untold' = untold \cup {i}
  <2>1. CASE \A i \in Ino : ~Keeps(c, i) BY <1>1, <2>1
  <2>2. ASSUME NEW i \in Ino, Keeps(c, i)
        PROVE  \/ untold' = untold
               \/ i \in Sure /\ content[i] = "free" /\ untold' = untold \cup {i}
    <3>1. {j \in Ino : Keeps(c, j)} = {i} BY <2>2 DEF Keeps
    <3>2. content[i] = "free" BY <2>2 DEF Keeps
    <3> QED BY <1>1, <3>1, <3>2 DEF Sure
  <2> QED BY <2>1, <2>2
<1> QED BY <1>1, <1>3, <1>4, <1>5, <1>6 DEF RootInv

(* A message is told, and a file removed, by a client only.                *)
LEMMA ShellOnlyLooks ==
  ASSUME DrainInv PROVE ~Tell(Shell) /\ ~RemoveFile(Shell)
<1>1. phase \in {"run", "sync", "down", "load"} BY DEF DrainInv, TypeInv, TypeOK
<1>2. pc[Shell] \in {"idle", "lock", "ask", "wait"} BY <1>1 DEF DrainInv, Drained
<1> QED BY <1>2 DEF Tell, RemoveFile

LEMMA RootInductive ==
  ASSUME Faults = {}, Separate, ~UnknownIsReal,
         DrainInv, DrainInv', OrderInv, RootInv, [Next]_vars
  PROVE  RootInv'
<1>t. TypeInv /\ TypeInv' /\ Views BY ViewsAre DEF DrainInv
<1>1. ASSUME NEW c \in Client, Call(c) \/ RemoveFile(c) PROVE RootInv' BY <1>t, <1>1, FilesRoot
<1>2. ASSUME NEW c \in Client, Tell(c) PROVE RootInv' BY <1>t, <1>2, TellRoot
<1>3. CASE Cleanup BY <1>3, CleanupRoot
<1>4. CASE Load BY <1>4, LoadRoot
<1>5. CASE \/ UNCHANGED vars \/ \E c \in Client : Exec(c)
           \/ \E p \in Proc : Lock(p) \/ Ask(p) \/ Receive(p)
           \/ Serve \/ SyncStart \/ Restart
  BY <1>5, UnseenRoot
<1>7. ASSUME NEW c \in Client, Kill(c) PROVE RootInv' BY <1>7, KillRoot
<1>6. Done => UNCHANGED vars BY DEF Done
<1> QED BY <1>1, <1>2, <1>3, <1>4, <1>5, <1>6, <1>7, ShellOnlyLooks
        DEF Next, Continue, Script, Proc

LEMMA RootInitially == ASSUME Separate PROVE Init => RootInv
<1> SUFFICES ASSUME Init PROVE RootInv OBVIOUS
<1>1. /\ settled = <<>> /\ dir = Dir0 /\ phase = "run"
      /\ content = [i \in Ino |-> IF \E n \in Name : dir[n] = i THEN "full" ELSE "free"]
      /\ \A c \in Client : pc[c] = "idle"
  BY DEF Init, Proc
<1>2. Len(<<>>) = 0 /\ 1..0 = {} BY EmptySeq, LenProperties
<1>3. Rows(settled) = {} /\ OneEach BY <1>1, <1>2 DEF Rows, KeyedAt, OneEach
<1>4. OwnFiles
  <2>1. ASSUME NEW n \in Name, dir[n] # NoIno PROVE content[dir[n]] # "free"
    <3>1. dir[n] \in Ino BY <1>1, <2>1, FakerootAssumption
    <3> QED BY <1>1, <3>1
  <2> QED BY <1>1, <2>1 DEF OwnFiles, Separate
<1> QED BY <1>1, <1>3, <1>4 DEF RootInv, Known, Restores, Pending

--------------------------------------------------------------------------------
(* Every step is one of root's calls, or none. *)

(* A file whose entry is as it was has the attributes that it had.         *)
LEMMA ViewKept ==
  ASSUME Views, Views', NEW i \in Sure, i \in Sure', content'[i] = content[i],
         content[i] # "free" =>
           \/ NoRow(settled, i) /\ NoRow(settled', i)
           \/ \E r \in Rows(settled), s \in Rows(settled') :
                r.ino = i /\ s.ino = i /\ Attributes(s) = Attributes(r)
  PROVE  View(i)' = View(i)
<1>1. CASE content[i] = "free" BY <1>1 DEF Views
<1>2. CASE content[i] # "free"
  <2>1. RealStat(i)'.type = RealStat(i).type BY DEF RealStat
  <2>2. CASE NoRow(settled, i) /\ NoRow(settled', i) BY <1>2, <2>1, <2>2 DEF Views
  <2>3. ASSUME NEW r \in Rows(settled), NEW s \in Rows(settled'),
               r.ino = i, s.ino = i, Attributes(s) = Attributes(r)
        PROVE  View(i)' = View(i)
    <3>1. View(i) = Attributes(r) BY <1>2, <2>3 DEF Views
    <3>2. View(i)' = Attributes(s) BY <1>2, <2>3 DEF Views
    <3> QED BY <2>3, <3>1, <3>2
  <2> QED BY <1>2, <2>2, <2>3
<1> QED BY <1>1, <1>2

(* A step that RootFiles allows.                                           *)
Promised ==
  [Promise!Next]_<<[i \in Ino |-> IF i \in untold THEN None ELSE View(i)],
                   [c \in Client |-> promised[c]], untold>>

(* The attributes of one file at most change, as a call of root's asks.    *)
LEMMA OneCall ==
  ASSUME UNCHANGED <<promised, untold>>,
         \/ \A j \in Sure : View(j)' = View(j)
         \/ \E i \in Sure : /\ \A j \in Sure : j # i => View(j)' = View(j)
                            /\ View(i)' = View(i) \/ Promise!Call(View(i), View(i)')
  PROVE  Promised
<1> DEFINE a == [j \in Ino |-> IF j \in untold THEN None ELSE View(j)]
<1>1. CASE \A j \in Sure : View(j)' = View(j)
  <2>1. a' = a BY <1>1 DEF Sure
  <2> QED BY <2>1 DEF Promised
<1>2. ASSUME NEW i \in Sure, \A j \in Sure : j # i => View(j)' = View(j),
             View(i)' # View(i), Promise!Call(View(i), View(i)')
      PROVE  Promise!Next
  <2>0. i \in Ino \ untold BY DEF Sure
  <2>1. a' = [a EXCEPT ![i] = a'[i]] BY <1>2 DEF Sure
  <2>2. a[i] = View(i) /\ a'[i] = View(i)' BY <2>0
  <2>3. Promise!Change BY <1>2, <2>0, <2>1, <2>2 DEF Promise!Change
  <2> QED BY <2>3 DEF Promise!Next
<1> QED BY <1>1, <1>2 DEF Promised

(* A file has gone without the daemon being told.                          *)
LEMMA LoseStep ==
  ASSUME Views, promised \in [Proc -> Reports], NEW i \in Sure,
         content[i] = "free", untold' = untold \cup {i},
         \A j \in Sure : j # i => View(j)' = View(j),
         UNCHANGED promised \/ \E c \in Client : promised' = [promised EXCEPT ![c] = None]
  PROVE  Promised
<1> DEFINE attr == [j \in Ino |-> IF j \in untold THEN None ELSE View(j)]
           seen == [c \in Client |-> promised[c]]
<1>1. i \in Ino \ untold /\ attr[i] = None BY DEF Views, Sure
<1>2. attr' = attr BY <1>1 DEF Sure
<1>3. Promise!Forget \/ UNCHANGED seen
  <2>1. ASSUME NEW c \in Client, promised' = [promised EXCEPT ![c] = None]
        PROVE  Promise!Forget
    <3>1. seen' = [seen EXCEPT ![c] = None] BY <2>1 DEF Proc
    <3> QED BY <3>1 DEF Promise!Forget
  <2> QED BY <2>1
<1>4. Promise!Lose BY <1>1, <1>3 DEF Promise!Lose
<1>5. Promise!Next BY <1>2, <1>4 DEF Promise!Next
<1> QED BY <1>5 DEF Promised

LEMMA FilesStep ==
  ASSUME Faults = {}, Separate, TypeInv, TypeInv', RootInv, Views, Views',
         NEW c \in Client, Call(c) \/ RemoveFile(c)
  PROVE  Promised
<1>1. UNCHANGED <<settled, promised>> BY FilesRoot
<1>2. PICK i \in Ino :
        /\ \A j \in Ino : j # i => content'[j] = content[j]
        /\ \/ untold' = untold /\ (content'[i] = content[i] \/ content'[i] = "free")
           \/ Takes(i) /\ content'[i] \in {"empty", "full", "dir"}
  BY FilesRoot
<1>s. untold' \subseteq untold \cup {i} /\ untold \subseteq untold'
      /\ \A j \in Sure : j \in Ino /\ (j # i => j \in Sure')
  BY <1>2 DEF Takes, Sure
<1>3. ASSUME NEW j \in Sure, j \in Sure', content'[j] = content[j] PROVE View(j)' = View(j)
  <2>1. \/ NoRow(settled, j) /\ NoRow(settled', j)
        \/ \E r \in Rows(settled), s \in Rows(settled') :
             r.ino = j /\ s.ino = j /\ Attributes(s) = Attributes(r)
    BY <1>1 DEF NoRow
  <2> QED BY <1>3, <2>1, ViewKept
<1>o. \A j \in Sure : j # i => View(j)' = View(j) BY <1>2, <1>3, <1>s
<1>4. CASE i \in untold \/ (untold' = untold /\ content'[i] = content[i])
  <2>1. untold' = untold BY <1>4, <1>s
  <2>2. \A j \in Sure : View(j)' = View(j) BY <1>3, <1>4, <1>o, <2>1 DEF Sure
  <2> QED BY <1>1, <2>1, <2>2, OneCall
<1>5. CASE i \in Sure /\ untold' = untold /\ content'[i] = "free"
  <2>1. i \in Sure' BY <1>5 DEF Sure
  <2>2. View(i)' = None BY <1>5, <2>1 DEF Views
  <2>3. Promise!Call(View(i), View(i)') BY <2>2 DEF Promise!Call, Promise!Remove
  <2> QED BY <1>1, <1>5, <1>o, <2>3, OneCall
<1>6. CASE i \in Sure /\ i \in Sure' /\ Takes(i) /\ content'[i] \in {"empty", "full", "dir"}
  <2>1. NoRow(settled', i) /\ content[i] = "free" BY <1>1, <1>6, TakesIsNew
  <2>2. View(i) = None BY <1>6, <2>1 DEF Views
  <2>3. View(i)' = [type |-> RealStat(i)'.type, perm |-> "rw", uid |-> Root]
    BY <1>6, <2>1 DEF Views
  <2>4. RealStat(i)'.type \in {"reg", "dir"} BY DEF RealStat
  <2>5. Promise!Call(View(i), View(i)') BY <2>2, <2>3, <2>4 DEF Promise!Call, Promise!Create
  <2>6. untold' = untold BY <1>6, <1>s DEF Sure
  <2> QED BY <1>1, <1>6, <1>o, <2>5, <2>6, OneCall
<1>7. CASE i \in Sure /\ i \notin Sure' /\ Takes(i)
  <2>1. content[i] = "free" /\ untold' = untold \cup {i} BY <1>7, <1>s DEF Sure, Takes
  <2>2. promised \in [Proc -> Reports] BY DEF TypeInv, TypeOK
  <2> QED BY <1>1, <1>7, <1>o, <2>1, <2>2, LoseStep
<1>8. i \in untold \/ i \in Sure BY DEF Sure
<1> QED BY <1>2, <1>4, <1>5, <1>6, <1>7, <1>8

LEMMA TellStep ==
  ASSUME Separate, DrainInv, RootInv, Views, Views', NEW c \in Client, Tell(c)
  PROVE  Promised
<1>1. UNCHANGED <<content, promised, untold>> /\ Told BY TellRoot
<1>0. Sure' = Sure BY <1>1 DEF Sure
<1>2. ASSUME NEW j \in Sure,
             content[j] # "free" =>
               \A r : r.ino = j => (r \in Rows(settled') <=> r \in Rows(settled))
      PROVE  View(j)' = View(j)
  <2>1. content[j] # "free" =>
          \/ NoRow(settled, j) /\ NoRow(settled', j)
          \/ \E r \in Rows(settled), s \in Rows(settled') :
               r.ino = j /\ s.ino = j /\ Attributes(s) = Attributes(r)
    BY <1>2 DEF NoRow
  <2> QED BY <1>0, <1>1, <2>1, ViewKept
<1>3. CASE \A i \in Sure : content[i] # "free" =>
             \A r : r.ino = i => (r \in Rows(settled') <=> r \in Rows(settled))
  BY <1>1, <1>2, <1>3, OneCall
<1>4. ASSUME NEW i \in Sure, NEW e, content[i] # "free", e.ino = i,
             Sets(settled, settled', e), ByRoot(i, e)
      PROVE  Promised
  <2>1. \A j \in Sure : j # i => View(j)' = View(j)
    <3> SUFFICES ASSUME NEW j \in Sure, j # i PROVE View(j)' = View(j) OBVIOUS
    <3>1. \A r : r.ino = j => (r \in Rows(settled') <=> r \in Rows(settled))
      BY <1>4 DEF Sets
    <3> QED BY <1>2, <3>1
  <2>2. e \in Rows(settled') BY <1>4 DEF Sets
  <2>3. View(i)' = Attributes(e) BY <1>0, <1>1, <1>4, <2>2 DEF Views
  <2>4. View(i)' = View(i) \/ Promise!Call(View(i), View(i)') BY <1>4, <2>3 DEF ByRoot
  <2> QED BY <1>1, <2>1, <2>4, OneCall
<1> QED BY <1>1, <1>3, <1>4 DEF Told

LEMMA LoadStep ==
  ASSUME DrainInv, RootInv, Views, Views', Load
  PROVE  Promised
<1>1. /\ UNCHANGED <<content, promised, untold>>
      /\ \A i \in Sure : \A l : l.ino = i => (l \in Lines(settled') <=> l \in Lines(settled))
  BY LoadRoot
<1>0. Sure' = Sure BY <1>1 DEF Sure
<1>l. \A r : Line(r).ino = r.ino BY DEF Line
<1>a. \A r, s : Line(r) = Line(s) => Attributes(r) = Attributes(s)
  BY DEF Line, Attributes
<1>2. ASSUME NEW j \in Sure PROVE View(j)' = View(j)
  <2>1. CASE NoRow(settled, j)
    <3>1. ASSUME NEW s \in Rows(settled'), s.ino = j PROVE FALSE
      <4>1. Line(s) \in Lines(settled) BY <1>1, <1>l, <3>1, LinesOf
      <4> QED BY <1>l, <2>1, <3>1, <4>1, LinesOf DEF NoRow
    <3>2. NoRow(settled', j) BY <3>1 DEF NoRow
    <3> QED BY <1>0, <1>1, <2>1, <3>2, ViewKept
  <2>2. CASE ~NoRow(settled, j)
    <3>1. PICK r \in Rows(settled) : r.ino = j BY <2>2 DEF NoRow
    <3>2. Line(r) \in Lines(settled') BY <1>1, <1>l, <3>1, LinesOf
    <3>3. PICK s \in Rows(settled') : Line(r) = Line(s) BY <3>2, LinesOf
    <3>4. s.ino = j /\ Attributes(s) = Attributes(r) BY <1>l, <1>a, <3>1, <3>3
    <3> QED BY <1>0, <1>1, <3>1, <3>4, ViewKept
  <2> QED BY <2>1, <2>2
<1> QED BY <1>1, <1>2, OneCall

(* A stat reports the attributes of its file, if the removal of no earlier *)
(* file of its number has gone by untold.                                  *)
LEMMA AskStep ==
  ASSUME TypeInv, RootInv, Views, ~UnknownIsReal, NEW c \in Client, Ask(c),
         UNCHANGED untold, \A i \in Sure : View(i)' = View(i)
  PROVE  Promise!Next
<1> DEFINE i == call[c].st.ino
           x == Report(i, Answer(settled, RealStat(i)))
<1>1. /\ pc[c] = "ask" /\ i \in Ino /\ call[c].st = RealStat(i)
      /\ call[c].path \in Names[c] /\ dir[call[c].path] = i
  BY DEF Ask, RootInv, Pending
<1>2. content[i] # "free" BY <1>1, FakerootAssumption DEF RootInv, OwnFiles
<1>3. x = <<i, x[2]>> BY DEF Report
<1>4. promised' = [promised EXCEPT ![c] = x] BY <1>1 DEF Ask
<1>5. promised \in [Proc -> Reports] /\ Client \subseteq Proc /\ settled \in Seq(Entry)
  BY DEF TypeInv, TypeOK, Proc
<1>6. x[2] \in Promise!Attr
  <2>1. RealStat(i) \in Status BY <1>1, RealStatTyped DEF TypeInv
  <2>2. x[2] \in [type : {"reg", "dir", "dev"}, perm : Perm, uid : Uid \cup {Root}]
    BY <1>5, <2>1, AnswerOfRoot
  <2> QED BY <2>2 DEF Promise!Attr, Perm
<1>7. i \notin untold => View(i) = x[2] BY <1>2 DEF View
<1> HIDE DEF x, i
<1> DEFINE seen == [d \in Client |-> promised[d]]
           attr == [j \in Ino |-> IF j \in untold THEN None ELSE View(j)]
<1>8. seen' = [seen EXCEPT ![c] = <<i, x[2]>>] BY <1>3, <1>4, <1>5
<1>9. attr' = attr BY DEF Sure
<1>10. i \in untold \/ attr[i] = x[2] BY <1>1, <1>7
<1>11. Promise!Stat(c) BY <1>1, <1>6, <1>8, <1>10 DEF Promise!Stat
<1> QED BY <1>9, <1>11 DEF Promise!Next

(* The other steps change what the processes have seen, or nothing.        *)
LEMMA SeenStep ==
  ASSUME ~UnknownIsReal, DrainInv, OrderInv, RootInv, Views, Views',
         \/ UNCHANGED vars \/ \E c \in Client : Exec(c)
         \/ \E p \in Proc : Lock(p) \/ Ask(p) \/ Receive(p)
         \/ Serve \/ SyncStart \/ Restart \/ Cleanup
  PROVE  Promised
<1>t. /\ promised \in [Proc -> Reports] /\ Client \subseteq Proc /\ Shell \notin Client
      /\ TypeInv
  BY FakerootAssumption DEF DrainInv, TypeInv, TypeOK, Proc
<1>1. UNCHANGED <<content, settled, untold>> BY UnseenRoot, CleanupRoot
<1>0. Sure' = Sure BY <1>1 DEF Sure
<1>2. \A i \in Sure : View(i)' = View(i)
  <2> SUFFICES ASSUME NEW i \in Sure PROVE View(i)' = View(i) OBVIOUS
  <2>1. \/ NoRow(settled, i) /\ NoRow(settled', i)
        \/ \E r \in Rows(settled), s \in Rows(settled') :
             r.ino = i /\ s.ino = i /\ Attributes(s) = Attributes(r)
    BY <1>1 DEF NoRow
  <2> QED BY <1>0, <1>1, <2>1, ViewKept
<1> DEFINE seen == [d \in Client |-> promised[d]]
           attr == [i \in Ino |-> IF i \in untold THEN None ELSE View(i)]
<1>3. attr' = attr BY <1>1, <1>2 DEF Sure
<1>n. Promise!Next => Promised BY DEF Promised
<1>f. Promise!Forget => Promise!Next BY <1>1, <1>3 DEF Promise!Next
<1>4. CASE seen' = seen BY <1>1, <1>3, <1>4 DEF Promised
<1>5. ASSUME NEW c \in Client, Ask(c) PROVE Promise!Next
  BY <1>t, <1>1, <1>2, <1>5, AskStep
<1>7. CASE Cleanup
  <2>1. promised' = [p \in Proc |-> None] BY <1>7 DEF Cleanup
  <2>2. seen' = [d \in Client |-> None] BY <1>t, <2>1
  <2>3. Promise!Forget BY <2>2 DEF Promise!Forget
  <2> QED BY <1>f, <1>n, <2>3
<1>8. CASE Ask(Shell)
  <2>1. \A d \in Client : promised'[d] = promised[d] BY <1>t, <1>8 DEF Ask
  <2> QED BY <1>4, <2>1
<1>9. CASE \/ UNCHANGED vars \/ \E c \in Client : Exec(c)
           \/ \E p \in Proc : Lock(p) \/ Receive(p)
           \/ Serve \/ SyncStart \/ Restart
  <2>1. UNCHANGED promised
    BY <1>9 DEF vars, Exec, Lock, Receive, Serve, SyncStart, Restart, history
  <2> QED BY <1>4, <2>1
<1> HIDE DEF seen, attr
<1> QED BY <1>5, <1>7, <1>8, <1>9, <1>n DEF Proc

LEMMA KillStep ==
  ASSUME DrainInv, RootInv, Views, Views', NEW c \in Client, Kill(c)
  PROVE  Promised
<1>t. promised \in [Proc -> Reports] /\ Client \subseteq Proc
  BY DEF DrainInv, TypeInv, TypeOK, Proc
<1>1. /\ UNCHANGED <<content, settled>>
      /\ \/ untold' = untold
         \/ \E i \in Sure : content[i] = "free" /\ untold' = untold \cup {i}
  BY KillRoot
<1>2. promised' = [promised EXCEPT ![c] = None] BY DEF Kill
<1>3. ASSUME NEW i \in Sure, i \in Sure' PROVE View(i)' = View(i)
  <2>1. \/ NoRow(settled, i) /\ NoRow(settled', i)
        \/ \E r \in Rows(settled), s \in Rows(settled') :
             r.ino = i /\ s.ino = i /\ Attributes(s) = Attributes(r)
    BY <1>1 DEF NoRow
  <2> QED BY <1>1, <1>3, <2>1, ViewKept
<1>4. CASE untold' = untold
  <2> DEFINE seen == [d \in Client |-> promised[d]]
             attr == [i \in Ino |-> IF i \in untold THEN None ELSE View(i)]
  <2>1. attr' = attr BY <1>3, <1>4 DEF Sure
  <2>2. seen' = [seen EXCEPT ![c] = None] BY <1>t, <1>2
  <2>3. Promise!Forget BY <2>2 DEF Promise!Forget
  <2>4. Promise!Next BY <1>4, <2>1, <2>3 DEF Promise!Next
  <2> QED BY <2>4 DEF Promised
<1>5. ASSUME NEW i \in Sure, content[i] = "free", untold' = untold \cup {i} PROVE Promised
  <2>1. \A j \in Sure : j # i => View(j)' = View(j) BY <1>3, <1>5 DEF Sure
  <2> QED BY <1>t, <1>2, <1>5, <2>1, LoseStep
<1> QED BY <1>1, <1>4, <1>5

LEMMA RootStep ==
  ASSUME Faults = {}, Separate, ~UnknownIsReal,
         DrainInv, DrainInv', OrderInv, RootInv, Views, Views', [Next]_vars
  PROVE  Promised
<1>t. TypeInv /\ TypeInv' BY DEF DrainInv
<1>1. ASSUME NEW c \in Client, Call(c) \/ RemoveFile(c) PROVE Promised
  BY <1>t, <1>1, FilesStep
<1>2. ASSUME NEW c \in Client, Tell(c) PROVE Promised BY <1>2, TellStep
<1>3. CASE Load BY <1>3, LoadStep
<1>4. CASE \/ UNCHANGED vars \/ \E c \in Client : Exec(c)
           \/ \E p \in Proc : Lock(p) \/ Ask(p) \/ Receive(p)
           \/ Serve \/ SyncStart \/ Restart \/ Cleanup
  BY <1>4, SeenStep
<1>5. Done => UNCHANGED vars BY DEF Done
<1>6. ASSUME NEW p \in Proc, Continue(p) PROVE Promised
  <2>1. CASE p \in Client BY <1>1, <1>2, <1>4, <1>6, <2>1 DEF Continue
  <2>2. CASE p = Shell BY <1>4, <1>6, <2>2, ShellOnlyLooks DEF Continue
  <2> QED BY <2>1, <2>2 DEF Proc
<1>7. ASSUME NEW c \in Client, Call(c) \/ Kill(c) \/ Exec(c) PROVE Promised
  BY <1>1, <1>4, <1>7, KillStep
<1>8. CASE Serve \/ Script \/ Done BY <1>3, <1>4, <1>5, <1>8 DEF Script
<1> QED BY <1>4, <1>6, <1>7, <1>8 DEF Next

LEMMA PromisedInitially ==
  ASSUME ~UnknownIsReal, Separate PROVE Init => Promise!Init
<1> SUFFICES ASSUME Init PROVE Promise!Init OBVIOUS
<1>1. TypeInv /\ RootInv BY TypeInitially, RootInitially
<1>2. Views BY <1>1, ViewsAre
<1>3. \A i \in Sure : View(i) \in {None} \cup Promise!Attr
  BY <1>2 DEF Views, Promise!Attr, Perm
<1>4. /\ untold = {} /\ Sure = Ino
      /\ \A c \in Client : promised[c] = None
  BY DEF Init, Proc, Sure
<1> QED BY <1>3, <1>4 DEF Promise!Init

(* doc/fakeroot.1, libfakeroot.c, faked.c: processes that work on files of *)
(* their own, and do not rename a file to itself or make a device where a  *)
(* file is, see of every file what root's calls would have made of it, in  *)
(* any number of sessions, whoever is killed between any two steps of a    *)
(* call, and though the kernel gives the number of a removed file to a new *)
(* one at once: attributes change only as a call asks, a new file has none *)
(* of the attributes of the one that had its number, and a stat reports    *)
(* the attributes of its file at a moment of the call.  Nothing is said of *)
(* the numbers in untold: those given to a new file while a process had    *)
(* something to tell of the old one, and those of a file whose remover was *)
(* killed before it could tell so.                                         *)
THEOREM ImplementsRootFiles ==
  ASSUME Faults = {}, ~UnknownIsReal, Separate PROVE Spec => ActsAsRoot
<1> DEFINE Inv == DrainInv /\ OrderInv /\ RootInv
<1>1. Init => Inv
  BY TypeInitially, DrainInitially, OrderInitially, RootInitially DEF DrainInv
<1>2. Inv /\ [Next]_vars => Inv'
  <2> SUFFICES ASSUME Inv, [Next]_vars PROVE Inv' OBVIOUS
  <2>1. DrainInv' BY TypeInductive, DrainedKept DEF DrainInv
  <2>2. OrderInv' BY OrderInductive
  <2>3. RootInv' BY <2>1, RootInductive
  <2> QED BY <2>1, <2>2, <2>3
<1>3. Inv /\ Inv' /\ [Next]_vars =>
        [Promise!Next]_<<[i \in Ino |-> IF i \in untold THEN None ELSE View(i)],
                         [c \in Client |-> promised[c]], untold>>
  <2> SUFFICES ASSUME Inv, Inv', [Next]_vars PROVE Promised BY DEF Promised
  <2>1. Views BY ViewsAre DEF DrainInv
  <2>2. Views' BY ViewsNext DEF DrainInv
  <2> QED BY <2>1, <2>2, RootStep
<1>4. Init => Promise!Init BY PromisedInitially
<1> HIDE DEF Inv
<1> QED BY <1>1, <1>2, <1>3, <1>4, PTL DEF Spec, ActsAsRoot, Promise!Spec
================================================================================
