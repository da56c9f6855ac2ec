----------------------------- MODULE FakerootProofs -----------------------------
(* For any processes, files and faults: the messages and the data base     *)
(* stay well formed.  When no signal handler interrupts a stat: the daemon *)
(* is never stopped before it has handled every message of the command,    *)
(* and a stat returns what the data base was when it was asked.            *)
EXTENDS Fakeroot, FiniteSetTheorems, SequenceTheorems, WellFoundedInduction, TLAPS

(* A chown asks for an owner, and a stat carries the real one: what the    *)
(* daemon stores, and what it answers, is never "leave it alone".          *)
Valid(m) == /\ m.id = "chown" => m.st.uid \in Uid \cup {Same}
            /\ m.id = "stat" => m.st.uid = User

Ready(p) ==
  /\ pc[p] \in {"tell", "remove", "lock", "ask", "wait"} =>
       call[p] \in [path : Name \cup {None}, id : Requests, st : Status] /\ Valid(call[p])
  /\ pc[p] \in {"lock", "ask", "wait"} => call[p].id = "stat"
  /\ pc[p] = "remove" => call[p].path \in Name

TypeInv ==
  /\ TypeOK
  /\ \A p \in Proc : Ready(p)
  /\ \A i \in DOMAIN req : Valid(req[i])
  /\ \A i \in DOMAIN ans : ans[i].st.uid \in Uid \cup {Root, User}

--------------------------------------------------------------------------------
(* The data base. *)

(* data_find returns the position of an entry that answers, or 0.          *)
LEMMA FindMatches ==
  ASSUME NEW S, NEW t \in Seq(S), NEW key
  PROVE  \/ DataFind(t, key) = 0 /\ \A j \in 1..Len(t) : ~FakestatEqual(t[j], key)
         \/ DataFind(t, key) \in 1..Len(t) /\ FakestatEqual(t[DataFind(t, key)], key)
<1> DEFINE found == {i \in DOMAIN t : FakestatEqual(t[i], key)}
<1>1. CASE found = {} BY <1>1, LenProperties DEF DataFind
<1>2. CASE found # {}
  <2>1. found \subseteq Nat BY LenProperties
  <2>2. PICK i \in found : \A j \in found : ~ (<<j, i>> \in OpToRel(<, Nat))
    BY <1>2, <2>1, NatLessThanWellFounded, WFMin
  <2>3. \A j \in found : i <= j
    <3> SUFFICES ASSUME NEW j \in found, j < i PROVE FALSE BY <2>1
    <3> QED BY <2>1, <2>2 DEF OpToRel
  <2>4. DataFind(t, key) = CHOOSE k \in found : \A j \in found : k <= j
    BY <1>2 DEF DataFind
  <2>5. DataFind(t, key) \in found BY <2>3, <2>4
  <2> QED BY <2>5, LenProperties
<1> QED BY <1>1, <1>2

LEMMA FindIs ==
  ASSUME NEW S, NEW t \in Seq(S), NEW key
  PROVE  DataFind(t, key) = 0 \/ DataFind(t, key) \in 1..Len(t)
BY FindMatches

LEMMA InsertTyped ==
  ASSUME NEW S, NEW t \in Seq(S), NEW st \in S PROVE DataInsert(t, st) \in Seq(S)
<1>1. CASE DataFind(t, st) = 0 BY <1>1, AppendProperties DEF DataInsert
<1>2. CASE DataFind(t, st) \in 1..Len(t)
  BY <1>2, ExceptSeq DEF DataInsert
<1> QED BY <1>1, <1>2, FindIs

LEMMA EraseTyped ==
  ASSUME NEW S, NEW t \in Seq(S), NEW i \in 1..Len(t) PROVE DataErase(t, i) \in Seq(S)
<1>1. Len(t) \in Nat BY LenProperties
<1>2. SubSeq(t, 1, i - 1) \in Seq(S)
  <2>1. \A j \in 1..(i - 1) : t[j] \in S BY <1>1, ElementOfSeq
  <2> QED BY <1>1, <2>1, SubSeqProperties
<1>3. SubSeq(t, i + 1, Len(t)) \in Seq(S)
  <2>1. \A j \in (i + 1)..Len(t) : t[j] \in S BY <1>1, ElementOfSeq
  <2> QED BY <1>1, <2>1, SubSeqProperties
<1> QED BY <1>2, <1>3, ConcatProperties DEF DataErase

(* Every request leaves entries with an owner in the table.                *)
LEMMA ProcessTyped ==
  ASSUME NEW t \in Seq(Entry), NEW id \in Requests, NEW st \in Status,
         id = "chown" => st.uid \in Uid \cup {Same}
  PROVE  Process(t, id, st) \in Seq(Entry)
<1> DEFINE i == DataFind(t, st)
<1>1. i = 0 \/ i \in 1..Len(t) BY FindIs
<1>2. i \in 1..Len(t) => t[i] \in Entry BY ElementOfSeq
<1>3. Owned(st) \in Entry BY DEF Owned, Status, StatusOf, Entry
<1>4. i \in 1..Len(t) => \A e \in Entry : [t EXCEPT ![i] = e] \in Seq(Entry)
  BY ExceptSeq
<1> HIDE DEF i
<1>5. CASE id = "chown"
  <2>1. CASE i = 0
    <3>1. (IF st.uid = Same THEN Owned(st) ELSE st) \in Entry
      BY <1>5, <1>3 DEF Status, StatusOf, Entry
    <3> QED BY <2>1, <3>1, <1>5, InsertTyped DEF Process, ProcessChown, i
  <2>2. CASE i \in 1..Len(t) /\ st.uid # Same
    <3>1. [t[i] EXCEPT !.uid = st.uid] \in Entry BY <1>2, <1>5, <2>2 DEF Entry, StatusOf
    <3>2. [t EXCEPT ![i].uid = st.uid] = [t EXCEPT ![i] = [t[i] EXCEPT !.uid = st.uid]]
      BY <2>2, LenProperties
    <3>3. i # 0 BY <2>2
    <3> QED BY <1>4, <1>5, <2>2, <3>1, <3>2, <3>3 DEF Process, ProcessChown, i
  <2>3. CASE i \in 1..Len(t) /\ st.uid = Same
    BY <1>5, <2>3 DEF Process, ProcessChown, i
  <2> QED BY <1>1, <2>1, <2>2, <2>3
<1>6. CASE id = "chmod"
  <2>1. CASE i = 0 BY <1>3, <1>6, <2>1, InsertTyped DEF Process, ProcessChmod, i
  <2>2. CASE i \in 1..Len(t)
    <3> DEFINE changed == [t[i] EXCEPT !.perm = st.perm,
                                     !.type = IF st.type = "reg" THEN @ ELSE st.type]
    <3>1. changed \in Entry BY <1>2, <2>2 DEF Entry, Status, StatusOf
    <3>2. DataInsert([t EXCEPT ![i] = changed], changed) \in Seq(Entry)
      BY <1>4, <2>2, <3>1, InsertTyped
    <3>3. i # 0 BY <2>2
    <3> QED BY <1>6, <3>2, <3>3 DEF Process, ProcessChmod, i
  <2> QED BY <1>1, <2>1, <2>2
<1>7. CASE id = "mknod"
  <2>1. CASE i = 0 BY <1>3, <1>7, <2>1, InsertTyped DEF Process, ProcessMknod, i
  <2>2. CASE i \in 1..Len(t)
    <3> DEFINE changed == [t[i] EXCEPT !.perm = st.perm, !.type = st.type]
    <3>1. changed \in Entry BY <1>2, <2>2 DEF Entry, Status, StatusOf
    <3>2. DataInsert([t EXCEPT ![i] = changed], changed) \in Seq(Entry)
      BY <1>4, <2>2, <3>1, InsertTyped
    <3>3. i # 0 BY <2>2
    <3> QED BY <1>7, <3>2, <3>3 DEF Process, ProcessMknod, i
  <2> QED BY <1>1, <2>1, <2>2
<1>8. CASE id = "stat" BY <1>8 DEF Process
<1>9. CASE id = "unlink"
  <2>1. Process(t, id, st) = ProcessUnlink(t, st) BY <1>9 DEF Process
  <2>2. CASE i = 0 BY <2>1, <2>2 DEF ProcessUnlink, i
  <2>3. CASE i \in 1..Len(t)
    <3>1. DataErase(t, i) \in Seq(Entry) BY <2>3, EraseTyped
    <3> QED BY <2>1, <3>1 DEF ProcessUnlink, i
  <2> QED BY <1>1, <2>2, <2>3
<1> QED BY <1>5, <1>6, <1>7, <1>8, <1>9 DEF Requests

(* What a stat that carries the real owner is answered.                    *)
LEMMA AnswerTyped ==
  ASSUME NEW t \in Seq(Entry), NEW st \in Status, st.uid = User
  PROVE  Answer(t, st) \in StatusOf(Uid \cup {Root, User})
<1> DEFINE i == DataFind(t, st)
<1>1. i = 0 \/ i \in 1..Len(t) BY FindIs
<1>2. i \in 1..Len(t) => t[i] \in Entry BY ElementOfSeq
<1> HIDE DEF i
<1>3. CASE i = 0
  <2>1. Answer(t, st) = IF UnknownIsReal THEN st ELSE Owned(st) BY <1>3 DEF Answer, i
  <2> QED BY <2>1 DEF Owned, Status, StatusOf
<1>4. CASE i \in 1..Len(t)
  <2>1. i # 0 BY <1>4
  <2>2. Answer(t, st) = [st EXCEPT !.type = t[i].type, !.perm = t[i].perm,
                                  !.uid = t[i].uid, !.empty = t[i].empty]
    BY <2>1 DEF Answer, i
  <2> QED BY <1>2, <1>4, <2>2 DEF Status, StatusOf, Entry
<1> QED BY <1>1, <1>3, <1>4

LEMMA ReportTyped ==
  ASSUME NEW i \in Ino \cup {NoIno}, NEW st \in StatusOf(Uid \cup {Root, User})
  PROVE  Report(i, st) \in Reports
BY DEF Report, Reports, StatusOf

(* The real stat of a file.                                                *)
LEMMA RealStatTyped ==
  ASSUME TypeOK, NEW i \in Ino PROVE RealStat(i) \in Status /\ RealStat(i).uid = User
<1>1. IsFiniteSet({n \in Name : dir[n] = i}) BY FakerootAssumption, FS_Subset
<1>2. Links(i) \in Nat BY <1>1, FS_CardinalityType DEF Links
<1> QED BY <1>2 DEF RealStat, Status, StatusOf, Perm

--------------------------------------------------------------------------------
(* Type correctness. *)

(* A step of one process that gets a message to send, or sends it.         *)
LEMMA GoesReady ==
  ASSUME TypeInv, NEW p \in Proc, NEW point, NEW message, Goes(p, point, message),
         \/ point \in {"idle", "dead"} /\ message = None
         \/ /\ point \in {"tell", "remove", "lock", "ask", "wait"}
            /\ message \in [path : Name \cup {None}, id : Requests, st : Status]
            /\ Valid(message)
            /\ point \in {"lock", "ask", "wait"} => message.id = "stat"
            /\ point = "remove" => message.path \in Name
  PROVE  /\ pc' \in [Proc -> {"idle", "remove", "tell", "lock", "ask", "wait", "dead"}]
         /\ call' \in [Proc -> [path : Name \cup {None}, id : Requests, st : Status] \cup {None}]
         /\ \A q \in Proc : Ready(q)'
<1>1. pc' = [pc EXCEPT ![p] = point] /\ call' = [call EXCEPT ![p] = message] BY DEF Goes
<1>2. pc'[p] = point /\ call'[p] = message BY <1>1 DEF TypeInv, TypeOK
<1>3. Ready(p)' BY <1>2 DEF Ready, Valid
<1>4. ASSUME NEW q \in Proc, q # p PROVE Ready(q)'
  <2>1. pc'[q] = pc[q] /\ call'[q] = call[q] BY <1>1, <1>4 DEF TypeInv, TypeOK
  <2>2. Ready(q) BY DEF TypeInv
  <2> QED BY <2>1, <2>2 DEF Ready, Valid
<1>5. point \in {"idle", "remove", "tell", "lock", "ask", "wait", "dead"} OBVIOUS
<1>6. message \in [path : Name \cup {None}, id : Requests, st : Status] \cup {None} OBVIOUS
<1> QED BY <1>1, <1>3, <1>4, <1>5, <1>6 DEF TypeInv, TypeOK

(* What a call leaves alone keeps its type.                                *)
LEMMA CallTyped ==
  ASSUME TypeInv, Unchanged, UNCHANGED calls \/ calls' = calls + 1,
         dir' \in [Name -> Ino \cup {NoIno}],
         content' \in [Ino -> {"free", "empty", "full", "dir"}], untold' \subseteq Ino,
         pc' \in [Proc -> {"idle", "remove", "tell", "lock", "ask", "wait", "dead"}],
         call' \in [Proc -> [path : Name \cup {None}, id : Requests, st : Status] \cup {None}],
         \A q \in Proc : Ready(q)'
  PROVE  TypeInv'
BY DEF TypeInv, TypeOK, Unchanged, daemon, session, history, Valid

LEMMA ReadyStays ==
  ASSUME TypeInv, UNCHANGED <<pc, call>> PROVE \A q \in Proc : Ready(q)'
BY DEF TypeInv, Ready, Valid

LEMMA CallKeeps ==
  ASSUME TypeInv, NEW c \in Client, Call(c) PROVE TypeInv'
<1> USE FakerootAssumption DEF Proc
<1>n. Names[c] \subseteq Name OBVIOUS
<1>t. /\ dir \in [Name -> Ino \cup {NoIno}]
      /\ content \in [Ino -> {"free", "empty", "full", "dir"}]
      /\ pc \in [Proc -> {"idle", "remove", "tell", "lock", "ask", "wait", "dead"}]
      /\ call \in [Proc -> [path : Name \cup {None}, id : Requests, st : Status] \cup {None}]
      /\ untold \subseteq Ino
  BY DEF TypeInv, TypeOK
<1>c. c \in Proc OBVIOUS
<1>k. \A i \in Ino : Takes(i) => untold' \subseteq Ino BY <1>t DEF Takes
<1>r. \A i \in Ino : RealStat(i) \in Status /\ RealStat(i).uid = User
  BY RealStatTyped DEF TypeInv
<1>m. ASSUME NEW n \in Name, NEW point, NEW id \in Requests, NEW st \in Status,
             Goes(c, point, Message(n, id, st)),
             id = "chown" => st.uid \in Uid \cup {Same},
             \/ point \in {"tell", "remove"} /\ id # "stat"
             \/ point = "lock" /\ id = "stat" /\ st.uid = User,
             dir' \in [Name -> Ino \cup {NoIno}],
             content' \in [Ino -> {"free", "empty", "full", "dir"}], untold' \subseteq Ino,
             Unchanged, calls' = calls + 1
      PROVE  TypeInv'
  <2>1. Message(n, id, st) \in [path : Name \cup {None}, id : Requests, st : Status]
        /\ Valid(Message(n, id, st)) /\ Message(n, id, st).path = n
        /\ Message(n, id, st).id = id
    BY <1>m DEF Message, Valid
  <2>2. /\ pc' \in [Proc -> {"idle", "remove", "tell", "lock", "ask", "wait", "dead"}]
        /\ call' \in [Proc -> [path : Name \cup {None}, id : Requests, st : Status] \cup {None}]
        /\ \A q \in Proc : Ready(q)'
    BY <1>m, <1>c, <2>1, GoesReady
  <2> QED BY <1>m, <2>2, CallTyped
<1>s. ASSUME UNCHANGED <<pc, call>>, calls' = calls + 1, Unchanged,
             dir' \in [Name -> Ino \cup {NoIno}],
             content' \in [Ino -> {"free", "empty", "full", "dir"}], untold' \subseteq Ino
      PROVE  TypeInv'
  BY <1>s, <1>t, ReadyStays, CallTyped
<1>w. ASSUME NEW n \in Name, NEW d \in [Name -> Ino \cup {NoIno}], Without(n, d)
      PROVE  /\ dir' \in [Name -> Ino \cup {NoIno}]
             /\ content' \in [Ino -> {"free", "empty", "full", "dir"}]
             /\ untold' \subseteq Ino
  <2>1. dir' = d /\ untold' = untold BY <1>w DEF Without
  <2>2. PICK x : /\ content' = [content EXCEPT ![dir[n]] = x]
                 /\ dir[n] \in Ino => x \in {"free", "empty", "full", "dir"}
    BY <1>w, <1>t DEF Without
  <2> QED BY <2>1, <2>2, <1>t
<1>1. ASSUME NEW n \in Names[c], Create(c, n) PROVE TypeInv'
  <2> USE <1>1, <1>n, <1>t DEF Create, Begins
  <2>1. dir' \in [Name -> Ino \cup {NoIno}] OBVIOUS
  <2>2. content' \in [Ino -> {"free", "empty", "full", "dir"}] OBVIOUS
  <2>3. untold' \subseteq Ino BY <1>k
  <2> QED BY <2>1, <2>2, <2>3, <1>s
<1>2. ASSUME NEW n \in Names[c], Chown(c, n) PROVE TypeInv'
  <2>1. dir[n] \in Ino BY <1>2, <1>n, <1>t DEF Chown
  <2>2. PICK u \in Uid \cup {Same} :
           Goes(c, "tell", Message(n, "chown", [RealStat(dir[n]) EXCEPT !.uid = u]))
    BY <1>2 DEF Chown
  <2>3. [RealStat(dir[n]) EXCEPT !.uid = u] \in Status
        /\ [RealStat(dir[n]) EXCEPT !.uid = u].uid = u
    BY <2>1, <1>r DEF Status, StatusOf
  <2>4. UNCHANGED files /\ Unchanged /\ calls' = calls + 1 BY <1>2 DEF Chown, Begins
  <2> QED BY <1>n, <1>t, <2>2, <2>3, <2>4, <1>m DEF Requests, files
<1>3. ASSUME NEW n \in Names[c], Chmod(c, n) PROVE TypeInv'
  <2>1. dir[n] \in Ino BY <1>3, <1>n, <1>t DEF Chmod
  <2>2. PICK q \in Mode :
           Goes(c, "tell", Message(n, "chmod", [RealStat(dir[n]) EXCEPT !.perm = q]))
    BY <1>3 DEF Chmod
  <2>3. [RealStat(dir[n]) EXCEPT !.perm = q] \in Status
    BY <2>1, <1>r DEF Status, StatusOf, Perm
  <2>4. UNCHANGED files /\ Unchanged /\ calls' = calls + 1 BY <1>3 DEF Chmod, Begins
  <2> QED BY <1>n, <1>t, <2>2, <2>3, <2>4, <1>m DEF Requests, files
<1>f. ASSUME NEW i \in Ino,
             dir' \in [Name -> Ino \cup {NoIno}],
             content' \in [Ino -> {"free", "empty", "full", "dir"}]
      PROVE  RealStat(i)' \in Status
  <2>1. IsFiniteSet({n \in Name : dir'[n] = i}) BY FS_Subset
  <2>2. Links(i)' \in Nat BY <2>1, FS_CardinalityType DEF Links
  <2> QED BY <2>2, <1>f DEF RealStat, Status, StatusOf, Perm
<1>4. ASSUME NEW n \in Names[c], Mknod(c, n) PROVE TypeInv'
  <2>1. PICK i \in Ino, q \in Mode :
          /\ dir' = [dir EXCEPT ![n] = i]
          /\ content' = [content EXCEPT ![i] = "empty"]
          /\ Goes(c, "tell", Message(n, "mknod",
                  [RealStat(i)' EXCEPT !.type = "dev", !.perm = q]))
    BY <1>4 DEF Mknod
  <2>2. /\ dir' \in [Name -> Ino \cup {NoIno}]
        /\ content' \in [Ino -> {"free", "empty", "full", "dir"}]
    BY <2>1, <1>t
  <2>3. [RealStat(i)' EXCEPT !.type = "dev", !.perm = q] \in Status
    BY <2>2, <1>f DEF Status, StatusOf, Perm
  <2>4. Unchanged /\ calls' = calls + 1 /\ untold' \subseteq Ino
    BY <1>4, <1>k, <1>t DEF Mknod, Begins
  <2> QED BY <1>n, <2>1, <2>2, <2>3, <2>4, <1>m DEF Requests
<1>5. ASSUME NEW n \in Names[c], Mkdir(c, n) PROVE TypeInv'
  <2>1. PICK i \in Ino, q \in Mode :
          /\ dir' = [dir EXCEPT ![n] = i]
          /\ content' = [content EXCEPT ![i] = "dir"]
          /\ Goes(c, "tell", Message(n, "chmod", [RealStat(i)' EXCEPT !.perm = q]))
    BY <1>5 DEF Mkdir
  <2>2. /\ dir' \in [Name -> Ino \cup {NoIno}]
        /\ content' \in [Ino -> {"free", "empty", "full", "dir"}]
    BY <2>1, <1>t
  <2>3. [RealStat(i)' EXCEPT !.perm = q] \in Status
    BY <2>2, <1>f DEF Status, StatusOf, Perm
  <2>4. Unchanged /\ calls' = calls + 1 /\ untold' \subseteq Ino
    BY <1>5, <1>k DEF Mkdir, Begins
  <2> QED BY <1>n, <2>1, <2>2, <2>3, <2>4, <1>m DEF Requests
<1>6. ASSUME NEW n \in Names[c], Unlink(c, n) PROVE TypeInv'
  <2>1. dir[n] \in Ino BY <1>6, <1>n, <1>t DEF Unlink
  <2>2. /\ Goes(c, "remove", Message(n, "unlink", RealStat(dir[n])))
        /\ UNCHANGED files /\ Unchanged /\ calls' = calls + 1
    BY <1>6 DEF Unlink, Begins
  <2> QED BY <1>n, <1>t, <1>r, <2>1, <2>2, <1>m DEF Requests, files
<1>7. ASSUME NEW n \in Names[c], Stat(c, n) PROVE TypeInv'
  <2>1. dir[n] \in Ino BY <1>7, <1>n, <1>t DEF Stat
  <2>2. /\ Goes(c, "lock", Message(n, "stat", RealStat(dir[n])))
        /\ UNCHANGED files /\ Unchanged /\ calls' = calls + 1
    BY <1>7 DEF Stat, Begins
  <2> QED BY <1>n, <1>t, <1>r, <2>1, <2>2, <1>m DEF Requests, files
<1>8. ASSUME NEW m \in Names[c], NEW n \in Names[c], Link(c, m, n) PROVE TypeInv'
  <2>1. dir' \in [Name -> Ino \cup {NoIno}] BY <1>8, <1>n, <1>t DEF Link
  <2>2. UNCHANGED <<content, untold, pc, call>> /\ Unchanged /\ calls' = calls + 1
    BY <1>8 DEF Link, Begins
  <2> QED BY <1>t, <2>1, <2>2, <1>s
<1>9. ASSUME NEW m \in Names[c], NEW n \in Names[c], Rename(c, m, n) PROVE TypeInv'
  <2> DEFINE d == [dir EXCEPT ![n] = dir[m], ![m] = NoIno]
  <2>1. d \in [Name -> Ino \cup {NoIno}] BY <1>n, <1>t
  <2>2. Unchanged /\ calls' = calls + 1 BY <1>9 DEF Rename, Begins
  <2>3. CASE dir[n] = NoIno
    <3>1. dir' = d /\ UNCHANGED <<content, untold, pc, call>> BY <1>9, <2>3 DEF Rename
    <3> HIDE DEF d
    <3> QED BY <1>t, <2>1, <2>2, <3>1, <1>s
  <2>4. CASE dir[n] # NoIno
    <3>1. dir[n] \in Ino BY <2>4, <1>n, <1>t
    <3>2. Goes(c, "tell", Message(n, "unlink", RealStat(dir[n])))
      BY <1>9, <2>4 DEF Rename
    <3>3. UNCHANGED files \/ Without(n, d) BY <1>9, <2>4 DEF Rename
    <3> HIDE DEF d
    <3>4. /\ dir' \in [Name -> Ino \cup {NoIno}]
          /\ content' \in [Ino -> {"free", "empty", "full", "dir"}]
          /\ untold' \subseteq Ino
      BY <3>3, <2>1, <1>n, <1>w, <1>t DEF files
    <3> QED BY <1>n, <1>r, <2>2, <3>1, <3>2, <3>4, <1>m DEF Requests
  <2> QED BY <2>3, <2>4
<1> QED BY <1>1, <1>2, <1>3, <1>4, <1>5, <1>6, <1>7, <1>8, <1>9 DEF Call

LEMMA MessagesKeep ==
  ASSUME TypeInv, NEW p \in Proc, Continue(p) PROVE TypeInv'
<1> DEFINE Calls == [path : Name \cup {None}, id : Requests, st : Status]
<1>t. /\ dir \in [Name -> Ino \cup {NoIno}]
      /\ content \in [Ino -> {"free", "empty", "full", "dir"}]
      /\ table \in Seq(Entry) /\ settled \in Seq(Entry)
      /\ req \in Seq(Messages) /\ ans \in Seq(Messages)
      /\ serial \in [Proc -> Nat] /\ untold \subseteq Ino /\ Ready(p)
  BY DEF TypeInv, TypeOK
<1>1. CASE Tell(p)
  <2>1. call[p] \in Calls /\ Valid(call[p]) BY <1>1, <1>t DEF Tell, Ready
  <2>2. Sent(p, None, 0) \in Messages /\ Valid(Sent(p, None, 0))
    BY <2>1 DEF Sent, Messages, Valid
  <2>3. req' = Append(req, Sent(p, None, 0)) BY <1>1 DEF Tell
  <2>4. req' \in Seq(Messages) /\ \A i \in DOMAIN req' : Valid(req'[i])
    BY <1>t, <2>2, <2>3, AppendProperties, LenProperties DEF TypeInv
  <2>5. settled' \in Seq(Entry)
    BY <1>1, <1>t, <2>1, ProcessTyped DEF Tell, Valid
  <2>6. Goes(p, "idle", None) BY <1>1 DEF Tell
  <2>7. UNCHANGED <<promised, files, daemon, session, sem, serial, got, calls>>
    BY <1>1 DEF Tell
  <2>8. /\ pc' \in [Proc -> {"idle", "remove", "tell", "lock", "ask", "wait", "dead"}]
        /\ call' \in [Proc -> Calls \cup {None}] /\ \A q \in Proc : Ready(q)'
    BY <2>6, GoesReady
  <2> QED BY <2>4, <2>5, <2>7, <2>8
      DEF TypeInv, TypeOK, files, daemon, session, Valid
<1>2. CASE Ask(p)
  <2>1. call[p] \in Calls /\ Valid(call[p]) /\ call[p].id = "stat"
    BY <1>2, <1>t DEF Ask, Ready
  <2>2. serial' = [serial EXCEPT ![p] = @ + 1] /\ serial'[p] \in Nat
    BY <1>2, <1>t DEF Ask
  <2>3. Sent(p, p, serial'[p]) \in Messages /\ Valid(Sent(p, p, serial'[p]))
    BY <2>1, <2>2 DEF Sent, Messages, Valid
  <2>4. req' = Append(req, Sent(p, p, serial'[p])) BY <1>2 DEF Ask
  <2>5. req' \in Seq(Messages) /\ \A i \in DOMAIN req' : Valid(req'[i])
    BY <1>t, <2>3, <2>4, AppendProperties, LenProperties DEF TypeInv
  <2>6. Report(call[p].st.ino, Answer(settled, call[p].st)) \in Reports
    <3>1. call[p].st \in Status /\ call[p].st.uid = User BY <2>1 DEF Valid
    <3>2. call[p].st.ino \in Ino \cup {NoIno} BY <3>1 DEF Status, StatusOf
    <3> QED BY <1>t, <3>1, <3>2, AnswerTyped, ReportTyped
  <2>7. promised' \in [Proc -> Reports] BY <1>2, <2>6 DEF Ask, TypeInv, TypeOK
  <2>8. pc' = [pc EXCEPT ![p] = "wait"]
        /\ UNCHANGED <<settled, files, daemon, session, sem, call, got, calls>>
    BY <1>2 DEF Ask
  <2>9. ASSUME NEW q \in Proc PROVE Ready(q)'
    <3>1. call'[q] = call[q] /\ (q # p => pc'[q] = pc[q]) /\ Ready(q)
      BY <2>8 DEF TypeInv, TypeOK
    <3>2. pc'[p] = "wait" BY <2>8 DEF TypeInv, TypeOK
    <3> QED BY <2>1, <3>1, <3>2 DEF Ready, Valid
  <2> QED BY <2>2, <2>5, <2>7, <2>8, <2>9
      DEF TypeInv, TypeOK, files, daemon, session, Valid
<1>3. CASE Receive(p)
  <2>1. call[p] \in Calls /\ Valid(call[p]) /\ call[p].id = "stat"
    BY <1>3, <1>t DEF Receive, Ready
  <2>2. call[p].st \in StatusOf(Uid \cup {Root, User}) /\ call[p].st.ino \in Ino \cup {NoIno}
    BY <2>1 DEF Valid, Status, StatusOf
  <2>3. UNCHANGED <<files, table, req, session, history, serial, calls>>
    BY <1>3 DEF Receive
  <2>r. ASSUME NEW st \in StatusOf(Uid \cup {Root, User}), Returns(p, st)
        PROVE  /\ got' \in [Proc -> Reports] /\ sem' \in Proc \cup {None}
               /\ pc' \in [Proc -> {"idle", "remove", "tell", "lock", "ask", "wait", "dead"}]
               /\ call' \in [Proc -> Calls \cup {None}]
               /\ \A q \in Proc : Ready(q)'
    <3>1. Goes(p, "idle", None) /\ sem' = None BY <2>r DEF Returns
    <3>2. got' \in [Proc -> Reports]
      BY <2>r, <2>2, ReportTyped DEF Returns, TypeInv, TypeOK
    <3> QED BY <3>1, <3>2, GoesReady
  <2>4. CASE UNCHANGED ans /\ Returns(p, call[p].st)
    BY <2>2, <2>3, <2>4, <2>r DEF TypeInv, TypeOK, files, session, history, Valid
  <2>5. CASE ans # <<>> /\ ans' = Tail(ans)
             /\ IF Mine(p, Head(ans)) THEN Returns(p, Head(ans).st)
                ELSE UNCHANGED <<got, pc, call, sem>>
    <3>1. ans' \in Seq(Messages) /\ Head(ans) \in Messages /\ Len(ans') = Len(ans) - 1
          /\ \A i \in 1..Len(ans') : ans'[i] = ans[i + 1]
      BY <1>t, <2>5, HeadTailProperties
    <3>2. DOMAIN ans' = 1..Len(ans') /\ DOMAIN ans = 1..Len(ans) /\ Len(ans) \in Nat
      BY <1>t, <3>1, LenProperties
    <3>3. \A i \in DOMAIN ans' : ans'[i].st.uid \in Uid \cup {Root, User}
      <4>1. \A i \in DOMAIN ans : ans[i].st.uid \in Uid \cup {Root, User} BY DEF TypeInv
      <4>2. \A i \in DOMAIN ans' : i + 1 \in DOMAIN ans /\ ans'[i] = ans[i + 1]
        BY <3>1, <3>2
      <4> QED BY <4>1, <4>2
    <3>4. Head(ans) = ans[1] /\ 1 \in DOMAIN ans BY <1>t, <2>5, EmptySeq, <3>2
    <3>5. Head(ans).st \in StatusOf(Uid \cup {Root, User})
      BY <3>1, <3>4 DEF TypeInv, Messages, Status, StatusOf
    <3>6. CASE Returns(p, Head(ans).st)
      BY <2>3, <3>1, <3>3, <3>5, <3>6, <2>r DEF TypeInv, TypeOK, files, session, history, Valid
    <3>7. CASE UNCHANGED <<got, pc, call, sem>>
      <4>1. \A q \in Proc : Ready(q)' BY <3>7, ReadyStays
      <4> QED BY <2>3, <3>1, <3>3, <3>7, <4>1
          DEF TypeInv, TypeOK, files, session, history, Valid
    <3> QED BY <2>5, <3>6, <3>7
  <2> QED BY <1>3, <2>4, <2>5 DEF Receive
<1>4. CASE RemoveFile(p)
  <2>1. call[p] \in Calls /\ Valid(call[p]) /\ call[p].path \in Name
    BY <1>4, <1>t DEF RemoveFile, Ready
  <2> DEFINE n == call[p].path
             d == [dir EXCEPT ![n] = NoIno]
  <2>2. Unchanged /\ UNCHANGED calls BY <1>4 DEF RemoveFile
  <2>3. CASE dir[n] = NoIno
    <3>1. Goes(p, "idle", None) /\ UNCHANGED files BY <1>4, <2>3 DEF RemoveFile
    <3> QED BY <1>t, <2>2, <3>1, GoesReady, CallTyped DEF files
  <2>4. CASE dir[n] # NoIno
    <3>1. Without(n, d) /\ pc' = [pc EXCEPT ![p] = "tell"] /\ UNCHANGED call
      BY <1>4, <2>4 DEF RemoveFile
    <3>2. dir' \in [Name -> Ino \cup {NoIno}] /\ untold' \subseteq Ino
          /\ content' \in [Ino -> {"free", "empty", "full", "dir"}]
      <4>1. dir' = d /\ untold' = untold BY <3>1 DEF Without
      <4>2. d \in [Name -> Ino \cup {NoIno}] BY <1>t, <2>1
      <4>3. PICK x : /\ content' = [content EXCEPT ![dir[n]] = x]
                     /\ dir[n] \in Ino => x \in {"free", "empty", "full", "dir"}
        BY <3>1, <1>t, <2>1 DEF Without
      <4> QED BY <4>1, <4>2, <4>3, <1>t
    <3>3. ASSUME NEW q \in Proc PROVE Ready(q)'
      <4>1. call'[q] = call[q] /\ (q # p => pc'[q] = pc[q]) /\ Ready(q)
        BY <3>1 DEF TypeInv, TypeOK
      <4>2. pc'[p] = "tell" BY <3>1 DEF TypeInv, TypeOK
      <4> QED BY <2>1, <4>1, <4>2 DEF Ready, Valid
    <3>4. pc' \in [Proc -> {"idle", "remove", "tell", "lock", "ask", "wait", "dead"}]
          /\ call' \in [Proc -> Calls \cup {None}]
      BY <3>1 DEF TypeInv, TypeOK
    <3> QED BY <2>2, <3>2, <3>3, <3>4, CallTyped
  <2> QED BY <2>3, <2>4
<1>5. CASE Lock(p)
  <2>1. /\ pc[p] = "lock" /\ pc' = [pc EXCEPT ![p] = "ask"] /\ sem' = p
        /\ UNCHANGED <<files, daemon, session, history, req, serial, call, got, calls>>
    BY <1>5 DEF Lock
  <2>2. ASSUME NEW q \in Proc PROVE Ready(q)'
    <3>1. call'[q] = call[q] /\ (q # p => pc'[q] = pc[q]) /\ Ready(q)
      BY <2>1 DEF TypeInv, TypeOK
    <3>2. pc'[p] = "ask" BY <2>1 DEF TypeInv, TypeOK
    <3> QED BY <2>1, <3>1, <3>2 DEF Ready, Valid
  <2> QED BY <2>1, <2>2 DEF TypeInv, TypeOK, files, daemon, session, history, Valid
<1> QED BY <1>1, <1>2, <1>3, <1>4, <1>5 DEF Continue

LEMMA ServeKeeps == TypeInv /\ Serve => TypeInv'
<1> SUFFICES ASSUME TypeInv, Serve PROVE TypeInv' OBVIOUS
<1> DEFINE m == Head(req)
<1>1. /\ req \in Seq(Messages) /\ ans \in Seq(Messages) /\ table \in Seq(Entry)
      /\ req # <<>> /\ req' = Tail(req) /\ table' = Process(table, m.id, m.st)
      /\ UNCHANGED <<files, session, history, sem, serial, pc, call, got, calls>>
  BY DEF Serve, TypeInv, TypeOK
<1>2. /\ req' \in Seq(Messages) /\ m \in Messages /\ Len(req') = Len(req) - 1
      /\ \A i \in 1..Len(req') : req'[i] = req[i + 1]
  BY <1>1, HeadTailProperties
<1>3. DOMAIN req' = 1..Len(req') /\ DOMAIN req = 1..Len(req) /\ Len(req) \in Nat
  BY <1>1, <1>2, LenProperties
<1>4. m = req[1] /\ 1 \in DOMAIN req BY <1>1, EmptySeq, <1>3
<1>5. Valid(m) /\ \A i \in DOMAIN req' : Valid(req'[i])
  BY <1>2, <1>3, <1>4 DEF TypeInv
<1> HIDE DEF m
<1>6. m.id \in Requests /\ m.st \in Status BY <1>2 DEF Messages
<1>7. table' \in Seq(Entry) BY <1>1, <1>5, <1>6, ProcessTyped DEF Valid
<1>8. ans' \in Seq(Messages) /\ \A i \in DOMAIN ans' : ans'[i].st.uid \in Uid \cup {Root, User}
  <2>1. CASE m.id = "stat"
    <3> DEFINE a == [m EXCEPT !.st = Answer(table, m.st)]
    <3>1. Answer(table, m.st) \in StatusOf(Uid \cup {Root, User})
      BY <1>1, <1>5, <1>6, <2>1, AnswerTyped DEF Valid
    <3>2. a \in Messages /\ a.st.uid \in Uid \cup {Root, User}
      BY <1>2, <3>1 DEF Messages, Status, StatusOf
    <3>3. ans' = Append(ans, a) BY <2>1 DEF Serve, m
    <3> HIDE DEF a
    <3>4. \A i \in DOMAIN ans : ans[i].st.uid \in Uid \cup {Root, User} BY DEF TypeInv
    <3> QED BY <1>1, <3>2, <3>3, <3>4, AppendProperties, LenProperties
  <2>2. CASE m.id # "stat" BY <2>2, <1>1 DEF Serve, TypeInv, m
  <2> QED BY <2>1, <2>2
<1>9. \A q \in Proc : Ready(q)' BY <1>1, ReadyStays
<1> QED BY <1>1, <1>2, <1>5, <1>7, <1>8, <1>9
    DEF TypeInv, TypeOK, files, session, history, Valid

LEMMA ScriptKeeps == TypeInv /\ Script => TypeInv'
<1> SUFFICES ASSUME TypeInv, Script PROVE TypeInv' OBVIOUS
<1> USE DEF Proc
<1>t. table \in Seq(Entry) /\ file \in Seq(Saved) BY DEF TypeInv, TypeOK
<1>e. \A S : <<>> \in Seq(S) /\ DOMAIN <<>> = {} BY EmptySeq
<1>1. CASE SyncStart
  <2>1. Message(None, "stat", Slash) \in [path : Name \cup {None}, id : Requests, st : Status]
        /\ Valid(Message(None, "stat", Slash)) /\ Message(None, "stat", Slash).id = "stat"
    BY DEF Message, Slash, Valid, Requests, Status, StatusOf, Perm
  <2>2. Goes(Shell, "lock", Message(None, "stat", Slash)) /\ phase' = "sync"
        /\ UNCHANGED <<files, daemon, history, req, sem, serial, got, file, calls, kills, sessions>>
    BY <1>1 DEF SyncStart
  <2>3. /\ pc' \in [Proc -> {"idle", "remove", "tell", "lock", "ask", "wait", "dead"}]
        /\ call' \in [Proc -> [path : Name \cup {None}, id : Requests, st : Status] \cup {None}]
        /\ \A q \in Proc : Ready(q)'
    BY <2>1, <2>2, GoesReady
  <2> QED BY <2>2, <2>3 DEF TypeInv, TypeOK, files, daemon, history, Valid
<1>2. CASE Cleanup
  <2>1. file' = SaveDatabase(table) /\ table' = <<>> /\ settled' = table
        /\ req' = <<>> /\ ans' = <<>> /\ sem' = None /\ phase' = "down"
        /\ promised' = [q \in Proc |-> None] /\ got' = [q \in Proc |-> None]
        /\ UNCHANGED <<files, serial, pc, call, calls, kills, sessions>>
    BY <1>2 DEF Cleanup
  <2>2. SaveDatabase(table) \in Seq(Saved)
    <3>1. \A i \in 1..Len(table) : Line(table[i]) \in Saved
      <4>1. \A e \in Entry : Line(e) \in Saved BY DEF Line, Entry, StatusOf, Saved
      <4> QED BY <1>t, <4>1, ElementOfSeq
    <3>2. Len(table) \in Nat /\ DOMAIN table = 1..Len(table) BY <1>t, LenProperties
    <3>3. [i \in 1..Len(table) |-> Line(table[i])] \in Seq(Saved) BY <3>1, <3>2, IsASeq
    <3> QED BY <3>2, <3>3 DEF SaveDatabase
  <2>3. promised' \in [Proc -> Reports] /\ got' \in [Proc -> Reports] BY <2>1 DEF Reports
  <2>4. \A q \in Proc : Ready(q)' BY <2>1, ReadyStays
  <2> QED BY <1>t, <1>e, <2>1, <2>2, <2>3, <2>4 DEF TypeInv, TypeOK, files
<1>3. CASE Restart
  <2>1. \A q \in Proc : Ready(q)' BY <1>3 DEF Restart, Ready
  <2> QED BY <1>3, <2>1 DEF Restart, TypeInv, TypeOK, files, daemon, history, Valid
<1>4. CASE Load
  <2>1. UNCHANGED <<files, ans, req, sem, serial, pc, call, got, promised, calls, kills, sessions>>
    BY <1>4 DEF Load
  <2>2. \A q \in Proc : Ready(q)' BY <2>1, ReadyStays
  <2>3. CASE file = <<>> /\ phase' = "run" /\ settled' = table /\ UNCHANGED <<table, file>>
    BY <1>t, <2>1, <2>2, <2>3 DEF TypeInv, TypeOK, files, Valid
  <2>4. CASE file # <<>> /\ file' = Tail(file) /\ UNCHANGED <<phase, settled>>
             /\ \E empty \in BOOLEAN : table' = LoadLine(table, Head(file), empty)
    <3>1. Head(file) \in Saved /\ file' \in Seq(Saved) BY <1>t, <2>4, HeadTailProperties
    <3>2. \A empty \in BOOLEAN : Loaded(Head(file), empty) \in Entry
      BY <3>1 DEF Loaded, Saved, Entry, StatusOf
    <3>3. table' \in Seq(Entry) BY <1>t, <2>4, <3>2, InsertTyped DEF LoadLine
    <3> QED BY <2>1, <2>2, <2>4, <3>1, <3>3 DEF TypeInv, TypeOK, files, Valid
  <2> QED BY <1>4, <2>3, <2>4 DEF Load
<1> QED BY <1>1, <1>2, <1>3, <1>4 DEF Script

LEMMA TypeInductive == TypeInv /\ [Next]_vars => TypeInv'
<1> SUFFICES ASSUME TypeInv, [Next]_vars PROVE TypeInv' OBVIOUS
<1> USE DEF Proc
<1>1. CASE UNCHANGED vars
  <2>1. \A q \in Proc : Ready(q)' BY <1>1, ReadyStays DEF vars
  <2> QED BY <1>1, <2>1 DEF TypeInv, TypeOK, vars, Valid
<1>2. CASE Done BY <1>1, <1>2 DEF Done
<1>3. ASSUME NEW c \in Client, Kill(c) PROVE TypeInv'
  <2>1. Goes(c, "dead", None) /\ sem' = SemUndo(c) /\ kills' = kills + 1
        /\ got' = [got EXCEPT ![c] = None] /\ promised' = [promised EXCEPT ![c] = None]
        /\ UNCHANGED <<dir, content, daemon, settled, req, serial, phase, file, sessions, calls>>
    BY <1>3 DEF Kill
  <2>2. sem' \in Proc \cup {None} BY <2>1 DEF SemUndo, TypeInv, TypeOK
  <2>3. got' \in [Proc -> Reports] /\ promised' \in [Proc -> Reports]
    BY <2>1 DEF TypeInv, TypeOK, Reports
  <2>4. /\ pc' \in [Proc -> {"idle", "remove", "tell", "lock", "ask", "wait", "dead"}]
        /\ call' \in [Proc -> [path : Name \cup {None}, id : Requests, st : Status] \cup {None}]
        /\ \A q \in Proc : Ready(q)'
    BY <2>1, GoesReady
  <2>5. untold' \subseteq Ino
    <3>1. untold' = untold \cup {i \in Ino : Keeps(c, i)} BY <1>3 DEF Kill
    <3> QED BY <3>1 DEF TypeInv, TypeOK
  <2> QED BY <2>1, <2>2, <2>3, <2>4, <2>5 DEF TypeInv, TypeOK, daemon, Valid
<1>4. ASSUME NEW c \in Client, Exec(c) PROVE TypeInv'
  <2>1. serial' = [serial EXCEPT ![c] = 0]
        /\ UNCHANGED <<files, daemon, req, session, history, sem, pc, call, got, calls>>
    BY <1>4 DEF Exec
  <2>2. \A q \in Proc : Ready(q)' BY <2>1, ReadyStays
  <2> QED BY <2>1, <2>2 DEF TypeInv, TypeOK, files, daemon, session, history, Valid
<1> QED BY <1>1, <1>2, <1>3, <1>4, CallKeeps, MessagesKeep, ServeKeeps, ScriptKeeps DEF Next

LEMMA TypeInitially == Init => TypeInv
<1> SUFFICES ASSUME Init PROVE TypeInv OBVIOUS
<1>1. \A S : <<>> \in Seq(S) /\ DOMAIN <<>> = {} BY EmptySeq
<1>2. \A p \in Proc : Ready(p) BY DEF Init, Ready
<1>3. content \in [Ino -> {"free", "empty", "full", "dir"}] BY DEF Init
<1> QED BY <1>1, <1>2, <1>3, FakerootAssumption DEF Init, TypeInv, TypeOK, Reports, Proc

(* faked.c, communicate.c, libfakeroot.c: for any processes, files, owners *)
(* and faults, every message is well formed, and no entry of the data base *)
(* and no answer holds the "leave it alone" that a chown may ask for.      *)
THEOREM TypeCorrect == Spec => []TypeOK
<1>1. Spec => []TypeInv BY TypeInitially, TypeInductive, PTL DEF Spec
<1>2. TypeInv => TypeOK BY DEF TypeInv
<1> QED BY <1>1, <1>2, PTL

--------------------------------------------------------------------------------
(* The end of a session.  The stat of the script's ls is the last message  *)
(* that anyone sends, and so its answer is sent when the queue is empty.   *)

NoShell(q) == \A i \in DOMAIN q : q[i].pid # Shell

LastIsShell == /\ req # <<>>
               /\ \A i \in DOMAIN req : req[i].pid = Shell <=> i = Len(req)

Drained ==
  /\ phase # "run" => \A c \in Client : pc[c] \in {"idle", "dead"}
  /\ phase = "run" => pc[Shell] = "idle" /\ NoShell(req) /\ NoShell(ans)
  /\ phase = "sync" =>
       \/ pc[Shell] \in {"lock", "ask"} /\ NoShell(req) /\ NoShell(ans)
       \/ pc[Shell] = "wait" /\ NoShell(ans) /\ LastIsShell
       \/ pc[Shell] \in {"wait", "idle"} /\ req = <<>>
  /\ phase \in {"down", "load"} => pc[Shell] = "idle" /\ req = <<>> /\ ans = <<>>

DrainInv == TypeInv /\ Drained

LEMMA NoShellAppend ==
  ASSUME NEW q \in Seq(Messages), NEW m \in Messages
  PROVE  NoShell(q) /\ m.pid # Shell => NoShell(Append(q, m))
BY AppendProperties, LenProperties DEF NoShell

LEMMA NoShellTail ==
  ASSUME NEW q \in Seq(Messages), q # <<>>
  PROVE  NoShell(q) => NoShell(Tail(q)) /\ Head(q).pid # Shell
<1>1. /\ Tail(q) \in Seq(Messages) /\ Len(Tail(q)) = Len(q) - 1
      /\ \A i \in 1..Len(Tail(q)) : Tail(q)[i] = q[i + 1]
  BY HeadTailProperties
<1>2. DOMAIN q = 1..Len(q) /\ Len(q) \in Nat \ {0} /\ DOMAIN Tail(q) = 1..Len(Tail(q))
  BY <1>1, LenProperties, EmptySeq
<1>3. \A i \in DOMAIN Tail(q) : i + 1 \in DOMAIN q /\ Tail(q)[i] = q[i + 1] BY <1>1, <1>2
<1>4. Head(q) = q[1] /\ 1 \in DOMAIN q BY <1>2
<1> QED BY <1>3, <1>4 DEF NoShell

(* Every client's message is its own or nobody's.                          *)
LEMMA SentPid ==
  ASSUME NEW p, NEW pid, NEW n PROVE Sent(p, pid, n).pid = pid
BY DEF Sent

LEMMA DrainedKept ==
  ASSUME "signal" \notin Faults, DrainInv, [Next]_vars, TypeInv' PROVE Drained'
<1> USE DEF Proc
<1>s. Shell \notin Client /\ None \notin Client /\ None # Shell BY FakerootAssumption
<1>t. /\ req \in Seq(Messages) /\ ans \in Seq(Messages)
      /\ pc \in [Proc -> {"idle", "remove", "tell", "lock", "ask", "wait", "dead"}]
      /\ phase \in {"run", "sync", "down", "load"}
  BY DEF DrainInv, TypeInv, TypeOK
<1>e. NoShell(<<>>) BY EmptySeq DEF NoShell
<1>1. CASE UNCHANGED vars \/ Done
  BY <1>1 DEF DrainInv, Drained, vars, Done, NoShell, LastIsShell
(* In a session a step of a client that sends nothing.                     *)
<1>c. ASSUME NEW c \in Client, phase = "run", UNCHANGED <<phase, req, ans>>,
             \A q \in Proc : q # c => pc'[q] = pc[q]
      PROVE  Drained'
  BY <1>c, <1>s DEF DrainInv, Drained, NoShell
<1>2. ASSUME NEW c \in Client, Call(c) PROVE Drained'
  <2>1. phase = "run" /\ Unchanged
    BY <1>2 DEF Call, Create, Chown, Chmod, Mknod, Mkdir, Unlink, Stat, Link, Rename, Begins
  <2>2. \A q \in Proc : q # c => pc'[q] = pc[q]
    <3>1. (\E point, message : Goes(c, point, message)) \/ UNCHANGED pc
      BY <1>2 DEF Call, Create, Chown, Chmod, Mknod, Mkdir, Unlink, Stat, Link, Rename
    <3> QED BY <1>t, <3>1 DEF Goes
  <2> QED BY <2>1, <2>2, <1>c DEF Unchanged, daemon, session
<1>3. ASSUME NEW c \in Client, Kill(c) PROVE Drained'
  <2>1. pc[c] \notin {"idle", "dead"} /\ Goes(c, "dead", None)
        /\ UNCHANGED <<phase, req, ans>>
    BY <1>3 DEF Kill, daemon
  <2>2. phase = "run" BY <2>1, <1>t DEF DrainInv, Drained
  <2> QED BY <1>t, <2>1, <2>2, <1>c DEF Goes
<1>4. ASSUME NEW c \in Client, Exec(c) PROVE Drained'
  BY <1>4, <1>c DEF Exec, daemon, session
<1>5. ASSUME NEW p \in Proc, Tell(p) PROVE Drained'
  <2>1. pc[p] = "tell" /\ req' = Append(req, Sent(p, None, 0)) /\ Goes(p, "idle", None)
        /\ UNCHANGED <<phase, ans>>
    BY <1>5 DEF Tell, daemon, session
  <2>2. p \in Client /\ phase = "run" BY <2>1, <1>t DEF DrainInv, Drained
  <2>3. Sent(p, None, 0) \in Messages
    <3>1. call[p] \in [path : Name \cup {None}, id : Requests, st : Status]
      BY <2>1 DEF DrainInv, TypeInv, Ready
    <3> QED BY <3>1 DEF Sent, Messages
  <2>4. NoShell(req') BY <1>s, <1>t, <2>1, <2>2, <2>3, NoShellAppend, SentPid DEF DrainInv, Drained
  <2>5. pc'[Shell] = pc[Shell] BY <1>s, <1>t, <2>1, <2>2 DEF Goes
  <2> QED BY <2>1, <2>2, <2>4, <2>5 DEF DrainInv, Drained
<1>6. ASSUME NEW p \in Proc, Ask(p) PROVE Drained'
  <2> DEFINE m == Sent(p, p, serial'[p])
  <2>1. pc[p] = "ask" /\ req' = Append(req, m) /\ pc' = [pc EXCEPT ![p] = "wait"]
        /\ UNCHANGED <<phase, ans>>
    BY <1>6 DEF Ask, daemon, session
  <2>2. m \in Messages
    <3>1. call[p] \in [path : Name \cup {None}, id : Requests, st : Status]
      BY <2>1 DEF DrainInv, TypeInv, Ready
    <3>2. serial'[p] \in Nat BY DEF TypeInv, TypeOK
    <3> QED BY <3>1, <3>2 DEF Sent, Messages
  <2>3. m.pid = p BY SentPid
  <2> HIDE DEF m
  <2>4. CASE p \in Client
    <3>1. phase = "run" BY <2>1, <2>4, <1>t DEF DrainInv, Drained
    <3>2. NoShell(req') BY <1>s, <1>t, <2>1, <2>2, <2>3, <2>4, <3>1, NoShellAppend
          DEF DrainInv, Drained
    <3> QED BY <1>s, <1>t, <2>1, <2>4, <3>1, <3>2 DEF DrainInv, Drained
  <2>5. CASE p = Shell
    <3>1. phase = "sync" /\ NoShell(req) /\ NoShell(ans)
      BY <2>1, <2>5, <1>t DEF DrainInv, Drained
    <3>2. /\ req' \in Seq(Messages) /\ Len(req') = Len(req) + 1 /\ Len(req) \in Nat
          /\ \A i \in 1..Len(req) : req'[i] = req[i]
          /\ req'[Len(req) + 1] = m
      BY <1>t, <2>1, <2>2, AppendProperties, LenProperties
    <3>3. DOMAIN req' = 1..Len(req') /\ DOMAIN req = 1..Len(req) /\ req' # <<>>
      BY <1>t, <3>2, LenProperties, EmptySeq
    <3>4. \A i \in DOMAIN req' : i # Len(req') => i \in DOMAIN req /\ req'[i] = req[i]
      BY <3>2, <3>3
    <3>5. LastIsShell' BY <2>3, <2>5, <3>1, <3>2, <3>3, <3>4 DEF LastIsShell, NoShell
    <3>6. pc'[Shell] = "wait" /\ \A c \in Client : pc'[c] = pc[c]
      BY <1>s, <1>t, <2>1, <2>5
    <3> QED BY <2>1, <3>1, <3>5, <3>6 DEF DrainInv, Drained
  <2> QED BY <2>4, <2>5
<1>7. ASSUME NEW p \in Proc, Receive(p) PROVE Drained'
  <2>1. /\ pc[p] = "wait" /\ ans # <<>> /\ ans' = Tail(ans) /\ UNCHANGED <<phase, req>>
        /\ IF Mine(p, Head(ans)) THEN Returns(p, Head(ans).st)
           ELSE UNCHANGED <<got, pc, call, sem>>
    BY <1>7 DEF Receive, session
  <2>2. NoShell(ans) => NoShell(ans') /\ Head(ans).pid # Shell BY <1>t, <2>1, NoShellTail
  <2>3. UNCHANGED pc \/ (pc' = [pc EXCEPT ![p] = "idle"] /\ Head(ans).pid = p)
    BY <2>1 DEF Returns, Goes, Mine
  <2>4. CASE p \in Client
    <3>1. phase = "run" BY <2>1, <2>4, <1>t DEF DrainInv, Drained
    <3> QED BY <1>s, <1>t, <2>1, <2>2, <2>3, <2>4, <3>1 DEF DrainInv, Drained, NoShell
  <2>5. CASE p = Shell
    <3>1. phase = "sync" BY <2>1, <2>5, <1>t DEF DrainInv, Drained
    <3>2. \A c \in Client : pc'[c] = pc[c] BY <1>s, <1>t, <2>3, <2>5
    <3>3. CASE NoShell(ans) /\ LastIsShell
      <4>1. UNCHANGED pc BY <2>2, <2>3, <2>5, <3>3
      <4> QED BY <2>1, <2>2, <2>5, <3>1, <3>3, <4>1 DEF DrainInv, Drained, LastIsShell
    <3>4. CASE req = <<>>
      <4>1. pc'[Shell] \in {"wait", "idle"} BY <1>t, <2>1, <2>3, <2>5
      <4> QED BY <2>1, <3>1, <3>2, <3>4, <4>1 DEF DrainInv, Drained
    <3> QED BY <2>1, <2>5, <3>1, <3>3, <3>4 DEF DrainInv, Drained
  <2> QED BY <2>4, <2>5
<1>8. ASSUME NEW p \in Proc, RemoveFile(p) PROVE Drained'
  <2>1. pc[p] = "remove" /\ Unchanged BY <1>8 DEF RemoveFile
  <2>2. p \in Client /\ phase = "run" BY <2>1, <1>t DEF DrainInv, Drained
  <2>3. \A q \in Proc : q # p => pc'[q] = pc[q] BY <1>8, <1>t DEF RemoveFile, Goes
  <2> QED BY <2>1, <2>2, <2>3, <1>c DEF Unchanged, daemon, session
<1>9. CASE Serve
  <2> DEFINE m == Head(req)
  <2>1. /\ phase # "down" /\ req # <<>> /\ req' = Tail(req) /\ UNCHANGED <<phase, pc>>
    BY <1>9 DEF Serve, session
  <2>2. ans' = ans \/ \E st : ans' = Append(ans, [m EXCEPT !.st = st])
    BY <1>9 DEF Serve
  <2>3. /\ m \in Messages /\ req' \in Seq(Messages) /\ Len(req') = Len(req) - 1
        /\ \A i \in 1..Len(req') : req'[i] = req[i + 1]
    BY <1>t, <2>1, HeadTailProperties
  <2>4. /\ DOMAIN req' = 1..Len(req') /\ DOMAIN req = 1..Len(req)
        /\ Len(req) \in Nat \ {0}
    BY <1>t, <2>1, <2>3, LenProperties, EmptySeq
  <2>5. m = req[1] BY <2>4
  <2>6. ans' \in Seq(Messages) BY DEF TypeInv, TypeOK
  <2>7. NoShell(ans) /\ m.pid # Shell => NoShell(ans')
    <3> SUFFICES ASSUME NoShell(ans), m.pid # Shell PROVE NoShell(ans') OBVIOUS
    <3>1. CASE ans' = ans BY <3>1 DEF NoShell
    <3>2. ASSUME NEW st, ans' = Append(ans, [m EXCEPT !.st = st]) PROVE NoShell(ans')
      <4> DEFINE a == [m EXCEPT !.st = st]
      <4>1. a.pid = m.pid BY <2>3 DEF Messages
      <4> HIDE DEF a, m
      <4>2. ans' = Append(ans, a) BY <3>2 DEF a
      <4>3. /\ DOMAIN ans' = 1..(Len(ans) + 1) /\ ans'[Len(ans) + 1] = a
            /\ \A i \in 1..Len(ans) : ans'[i] = ans[i]
            /\ DOMAIN ans = 1..Len(ans) /\ Len(ans) \in Nat
        BY <1>t, <4>2, LenProperties
      <4> QED BY <4>1, <4>3 DEF NoShell
    <3> QED BY <2>2, <3>1, <3>2
  <2>8. CASE phase = "run"
    BY <1>t, <2>1, <2>7, <2>8, NoShellTail DEF DrainInv, Drained, m
  <2>9. CASE phase = "sync" /\ NoShell(req) /\ NoShell(ans)
    BY <1>t, <2>1, <2>7, <2>9, NoShellTail DEF DrainInv, Drained, m, LastIsShell
  <2>10. CASE phase = "sync" /\ NoShell(ans) /\ LastIsShell /\ pc[Shell] = "wait"
    <3>1. CASE Len(req) = 1
      <4>1. req' = <<>> BY <2>3, <3>1, EmptySeq
      <4> QED BY <2>1, <2>10, <4>1 DEF DrainInv, Drained
    <3>2. CASE Len(req) # 1
      <4>1. m.pid # Shell BY <2>4, <2>5, <2>10, <3>2 DEF LastIsShell
      <4>2. \A i \in DOMAIN req' : /\ i + 1 \in DOMAIN req /\ req'[i] = req[i + 1]
                                  /\ (i + 1 = Len(req) <=> i = Len(req'))
        BY <2>3, <2>4
      <4>3. req' # <<>> BY <2>3, <2>4, <3>2, EmptySeq
      <4>4. LastIsShell' BY <2>10, <4>2, <4>3 DEF LastIsShell
      <4> QED BY <2>1, <2>7, <2>10, <4>1, <4>4 DEF DrainInv, Drained
    <3> QED BY <3>1, <3>2
  <2> QED BY <1>t, <2>1, <2>8, <2>9, <2>10 DEF DrainInv, Drained
<1>10. CASE SyncStart
  <2>1. /\ phase = "run" /\ phase' = "sync" /\ UNCHANGED <<req, ans>>
        /\ pc' = [pc EXCEPT ![Shell] = "lock"]
        /\ \A c \in Client : pc[c] \in {"idle", "dead"}
    BY <1>10 DEF SyncStart, Goes, daemon
  <2> QED BY <1>s, <1>t, <2>1 DEF DrainInv, Drained, NoShell
<1>11. CASE Cleanup
  <2>1. /\ phase = "sync" /\ pc[Shell] = "idle" /\ phase' = "down"
        /\ req' = <<>> /\ ans' = <<>> /\ UNCHANGED pc
    BY <1>11 DEF Cleanup
  <2> QED BY <2>1 DEF DrainInv, Drained
<1>12. CASE Restart
  BY <1>12 DEF Restart, DrainInv, Drained, daemon
<1>13. CASE Load
  BY <1>13, <1>e DEF Load, DrainInv, Drained
<1>14. ASSUME NEW p \in Proc, Lock(p) PROVE Drained'
  <2>1. pc[p] = "lock" /\ pc' = [pc EXCEPT ![p] = "ask"] /\ UNCHANGED <<phase, req, ans>>
    BY <1>14 DEF Lock, daemon, session
  <2>2. CASE p \in Client
    <3>1. phase = "run" BY <2>1, <2>2, <1>t DEF DrainInv, Drained
    <3> QED BY <1>t, <2>1, <2>2, <3>1, <1>c
  <2>3. CASE p = Shell
    <3>1. phase = "sync" /\ NoShell(req) /\ NoShell(ans)
      BY <2>1, <2>3, <1>t DEF DrainInv, Drained
    <3>2. pc'[Shell] = "ask" /\ \A c \in Client : pc'[c] = pc[c] BY <1>s, <1>t, <2>1, <2>3
    <3> QED BY <2>1, <3>1, <3>2 DEF DrainInv, Drained, NoShell
  <2> QED BY <2>2, <2>3
<1> QED
  BY <1>1, <1>2, <1>3, <1>4, <1>5, <1>6, <1>7, <1>8, <1>9, <1>10, <1>11, <1>12, <1>13, <1>14
  DEF Next, Continue, Script

LEMMA DrainInitially == Init => Drained
BY EmptySeq DEF Init, Drained, NoShell, Proc

(* fakeroot.in: the trap's ls makes sure that the daemon has handled every *)
(* request of the command before it is told to stop.  Without signal       *)
(* handlers no message is dropped with the queues, for any processes,      *)
(* files, other faults, length of the queues and number of sessions.       *)
THEOREM NoMessageLost ==
  ASSUME "signal" \notin Faults PROVE Spec => NothingLost
<1>1. DrainInv /\ [Next]_vars => DrainInv' BY TypeInductive, DrainedKept DEF DrainInv
<1>2. Init => DrainInv BY TypeInitially, DrainInitially DEF DrainInv
<1>3. Spec => []DrainInv BY <1>1, <1>2, PTL DEF Spec
<1>4. DrainInv /\ [Next]_vars => [phase' = "down" /\ phase # "down" => req = <<>>]_vars
  <2> SUFFICES ASSUME DrainInv, Next, phase' = "down", phase # "down" PROVE req = <<>>
    BY DEF vars
  <2>1. CASE Cleanup BY <2>1 DEF Cleanup, DrainInv, Drained, LastIsShell
  <2>2. ASSUME NEW c \in Client, Call(c) \/ Kill(c) \/ Exec(c) PROVE phase' = phase
    <3>1. Call(c) => Unchanged
      BY DEF Call, Create, Chown, Chmod, Mknod, Mkdir, Unlink, Stat, Link, Rename
    <3> QED BY <2>2, <3>1 DEF Unchanged, Kill, Exec, session
  <2>3. ASSUME NEW p \in Proc, Continue(p) PROVE phase' = phase
    <3>1. RemoveFile(p) => phase' = phase BY DEF RemoveFile, Unchanged, session
    <3> QED BY <2>3, <3>1 DEF Continue, Tell, Lock, Ask, Receive, session
  <2>4. CASE Serve BY <2>4 DEF Serve, session
  <2>5. CASE SyncStart \/ Restart BY <2>5 DEF SyncStart, Restart
  <2>6. CASE Load BY <2>6 DEF Load
  <2>7. CASE Done BY <2>7 DEF Done, vars
  <2> QED BY <2>1, <2>2, <2>3, <2>4, <2>5, <2>6, <2>7 DEF Next, Script
<1> QED BY <1>3, <1>4, PTL DEF Spec, NothingLost

--------------------------------------------------------------------------------
(* When no signal handler interrupts a stat, it returns what the data base *)
(* was for its file when it was asked.                                     *)
(*                                                                         *)
(* Between two requests in the queue stands a data base that the daemon    *)
(* will have: s[k] is the one after the first k requests.  A stat that is  *)
(* waited for will be answered from the one before it, and a process has   *)
(* one request or answer under way at most, since it waits for it or dies. *)

(* The data bases that the queue leads through, from the present one to    *)
(* the one after all requests.                                             *)
Leads(s) ==
  /\ s[0] = table /\ s[Len(req)] = settled
  /\ \A k \in 1..Len(req) : s[k] = Process(s[k - 1], req[k].id, req[k].st)

(* The request of p is where it will get the answer that was promised.     *)
Asked(s, p) ==
  \A k \in 1..Len(req) : req[k].pid = p =>
     promised[p] = Report(call[p].st.ino, Answer(s[k - 1], req[k].st))

Answered(p) ==
  \A k \in 1..Len(ans) : ans[k].pid = p =>
     promised[p] = Report(call[p].st.ino, ans[k].st)

Lead == phase \in {"run", "sync"} =>
          \E s : Leads(s) /\ \A p \in Proc : pc[p] = "wait" => Asked(s, p)

NoneOf(q, p) == \A k \in 1..Len(q) : q[k].pid # p
OneOf(q, p) == \A j, k \in 1..Len(q) : q[j].pid = p /\ q[k].pid = p => j = k

Outstanding(p) ==
  /\ pc[p] \notin {"wait", "dead"} => NoneOf(req, p) /\ NoneOf(ans, p)
  /\ OneOf(req, p) /\ OneOf(ans, p)
  /\ NoneOf(req, p) \/ NoneOf(ans, p)
  /\ pc[p] = "wait" => Answered(p)

Returned == \A p \in Proc : got[p] # None /\ pc[p] # "wait" => got[p] = promised[p]

OrderInv == Lead /\ (\A p \in Proc : Outstanding(p)) /\ Returned

--------------------------------------------------------------------------------
(* Queues. *)

LEMMA AfterAppend ==
  ASSUME NEW q \in Seq(Messages), NEW m \in Messages
  PROVE  /\ Len(Append(q, m)) = Len(q) + 1 /\ Len(q) \in Nat
         /\ \A k \in 1..Len(q) : Append(q, m)[k] = q[k]
         /\ Append(q, m)[Len(q) + 1] = m
BY AppendProperties, LenProperties

LEMMA AfterTail ==
  ASSUME NEW q \in Seq(Messages), q # <<>>
  PROVE  /\ Len(q) \in Nat \ {0} /\ Len(Tail(q)) = Len(q) - 1 /\ Head(q) = q[1]
         /\ \A k \in 1..(Len(q) - 1) : Tail(q)[k] = q[k + 1]
BY HeadTailProperties, LenProperties, EmptySeq

(* One message more, or one less.                                          *)
LEMMA AppendOf ==
  ASSUME NEW q \in Seq(Messages), NEW m \in Messages, NEW p
  PROVE  /\ NoneOf(q, p) /\ m.pid # p => NoneOf(Append(q, m), p)
         /\ OneOf(q, p) /\ m.pid # p => OneOf(Append(q, m), p)
         /\ NoneOf(q, p) => OneOf(Append(q, m), p)
<1>1. /\ Len(Append(q, m)) = Len(q) + 1 /\ Len(q) \in Nat
      /\ \A k \in 1..Len(q) : Append(q, m)[k] = q[k]
      /\ Append(q, m)[Len(q) + 1] = m
  BY AfterAppend
<1>2. \A k \in 1..Len(Append(q, m)) : k \in 1..Len(q) \/ k = Len(q) + 1 BY <1>1
<1> QED BY <1>1, <1>2 DEF NoneOf, OneOf

LEMMA TailOf ==
  ASSUME NEW q \in Seq(Messages), q # <<>>, NEW p
  PROVE  /\ NoneOf(q, p) => NoneOf(Tail(q), p) /\ Head(q).pid # p
         /\ OneOf(q, p) => OneOf(Tail(q), p)
         /\ OneOf(q, p) /\ Head(q).pid = p => NoneOf(Tail(q), p)
<1>1. /\ Len(q) \in Nat \ {0} /\ Len(Tail(q)) = Len(q) - 1 /\ Head(q) = q[1]
      /\ \A k \in 1..(Len(q) - 1) : Tail(q)[k] = q[k + 1]
  BY AfterTail
<1>2. \A k \in 1..Len(Tail(q)) :
        k + 1 \in 1..Len(q) /\ k \in Int /\ k + 1 # 1 /\ Tail(q)[k] = q[k + 1]
  BY <1>1
<1>3. 1 \in 1..Len(q) BY <1>1
<1> QED BY <1>1, <1>2, <1>3 DEF NoneOf, OneOf

LEMMA NoneOfEmpty == \A p : NoneOf(<<>>, p) /\ OneOf(<<>>, p)
BY EmptySeq, LenProperties DEF NoneOf, OneOf

--------------------------------------------------------------------------------
(* Steps. *)

(* A step that touches neither queues nor data base, and makes nobody wait *)
(* or stop waiting.                                                        *)
LEMMA AsideInOrder ==
  ASSUME OrderInv, UNCHANGED <<table, req, ans, settled, promised, got>>,
         phase' \in {"run", "sync"} => phase \in {"run", "sync"},
         \A p \in Proc : /\ pc'[p] = "wait" <=> pc[p] = "wait"
                         /\ pc[p] = "dead" => pc'[p] = "dead"
                         /\ pc[p] = "wait" => call'[p] = call[p]
  PROVE  OrderInv'
<1>1. Lead'
  <2> SUFFICES ASSUME phase' \in {"run", "sync"}
               PROVE \E s : Leads(s)' /\ \A p \in Proc : pc'[p] = "wait" => Asked(s, p)'
    BY DEF Lead
  <2>1. PICK s : Leads(s) /\ \A p \in Proc : pc[p] = "wait" => Asked(s, p)
    BY DEF OrderInv, Lead
  <2>2. Leads(s)' BY <2>1 DEF Leads
  <2>3. \A p \in Proc : pc'[p] = "wait" => Asked(s, p)' BY <2>1 DEF Asked
  <2> QED BY <2>2, <2>3
<1>2. ASSUME NEW p \in Proc PROVE Outstanding(p)'
  <2>1. Outstanding(p) BY DEF OrderInv
  <2> QED BY <2>1 DEF Outstanding, Answered
<1>3. Returned' BY DEF OrderInv, Returned
<1> QED BY <1>1, <1>2, <1>3 DEF OrderInv

(* One request more: a message that nobody waits for, or the question of a *)
(* stat, which is promised the answer that the data base of then gives.    *)
LEMMA SendInOrder ==
  ASSUME OrderInv, TypeInv, NEW c \in Proc, NEW m \in Messages,
         req' = Append(req, m), settled' = Process(settled, m.id, m.st),
         UNCHANGED <<table, ans, phase, got>>,
         \A p \in Proc : p # c => /\ pc'[p] = pc[p] /\ call'[p] = call[p]
                                  /\ promised'[p] = promised[p],
         \/ m.pid = None /\ pc[c] = "tell" /\ pc'[c] = "idle" /\ promised'[c] = promised[c]
         \/ /\ m.pid = c /\ pc[c] = "ask" /\ pc'[c] = "wait"
            /\ promised'[c] = Report(call'[c].st.ino, Answer(settled, m.st))
  PROVE  OrderInv'
<1> DEFINE n == Len(req)
<1>t. req \in Seq(Messages) BY DEF TypeInv, TypeOK
<1>1. /\ Len(req') = n + 1 /\ n \in Nat /\ req'[n + 1] = m
      /\ \A k \in 1..n : req'[k] = req[k]
  BY <1>t, AfterAppend
<1>2. None \notin Proc BY FakerootAssumption DEF Proc
<1>3. NoneOf(req, c) /\ NoneOf(ans, c) BY DEF OrderInv, Outstanding
<1>4. Lead'
  <2> SUFFICES ASSUME phase' \in {"run", "sync"}
               PROVE \E s : Leads(s)' /\ \A p \in Proc : pc'[p] = "wait" => Asked(s, p)'
    BY DEF Lead
  <2>1. PICK s : Leads(s) /\ \A p \in Proc : pc[p] = "wait" => Asked(s, p)
    BY DEF OrderInv, Lead
  <2>2. PICK z : /\ z[0] = s[0] /\ z[n] = s[n] /\ z[n + 1] = settled'
                 /\ \A k \in 1..n : z[k] = s[k] /\ z[k - 1] = s[k - 1]
    <3> DEFINE y == [k \in 0..(n + 1) |-> IF k = n + 1 THEN settled' ELSE s[k]]
    <3>1. /\ y[0] = s[0] /\ y[n] = s[n] /\ y[n + 1] = settled'
          /\ \A k \in 1..n : y[k] = s[k] /\ y[k - 1] = s[k - 1]
      BY <1>1
    <3> HIDE DEF y
    <3> QED BY <3>1
  <2>3. z[n] = settled BY <2>1, <2>2 DEF Leads
  <2>4. \A k \in 1..Len(req') : k \in 1..n \/ (k = n + 1 /\ k - 1 = n) BY <1>1
  <2>5. Leads(z)'
    <3>1. \A k \in 1..n : z[k] = Process(z[k - 1], req'[k].id, req'[k].st)
      BY <1>1, <2>1, <2>2 DEF Leads
    <3>2. z[n + 1] = Process(z[n], m.id, m.st) BY <2>2, <2>3
    <3>3. \A k \in 1..Len(req') : z[k] = Process(z[k - 1], req'[k].id, req'[k].st)
      BY <1>1, <2>4, <3>1, <3>2
    <3>4. z[0] = table' BY <2>1, <2>2 DEF Leads
    <3> QED BY <1>1, <2>2, <3>3, <3>4 DEF Leads
  <2>6. ASSUME NEW p \in Proc, pc'[p] = "wait" PROVE Asked(z, p)'
    <3>1. SUFFICES ASSUME NEW k \in 1..Len(req'), req'[k].pid = p
                   PROVE  promised'[p] = Report(call'[p].st.ino, Answer(z[k - 1], req'[k].st))
      BY DEF Asked
    <3>2. CASE p # c
      <4>1. Asked(s, p) BY <2>1, <2>6, <3>2
      <4>2. k \in 1..n BY <1>1, <1>2, <2>4, <3>1, <3>2
      <4> QED BY <1>1, <2>2, <3>1, <3>2, <4>1, <4>2 DEF Asked
    <3>3. CASE p = c
      <4>1. k = n + 1 /\ k - 1 = n BY <1>1, <1>3, <2>4, <3>1, <3>3 DEF NoneOf
      <4> QED BY <1>1, <2>3, <2>6, <3>1, <3>3, <4>1
    <3> QED BY <3>2, <3>3
  <2> QED BY <2>5, <2>6
<1>5. ASSUME NEW p \in Proc PROVE Outstanding(p)'
  <2>1. Outstanding(p) BY DEF OrderInv
  <2>2. /\ NoneOf(req, p) /\ m.pid # p => NoneOf(req', p)
        /\ OneOf(req, p) /\ m.pid # p => OneOf(req', p)
        /\ NoneOf(req, p) => OneOf(req', p)
    BY <1>t, AppendOf
  <2>3. (NoneOf(req, p)' <=> NoneOf(req', p)) /\ (OneOf(req, p)' <=> OneOf(req', p))
    BY DEF NoneOf, OneOf
  <2>4. (NoneOf(ans, p)' <=> NoneOf(ans, p)) /\ (OneOf(ans, p)' <=> OneOf(ans, p))
    BY DEF NoneOf, OneOf
  <2>5. CASE p # c
    <3>1. m.pid # p BY <1>2, <2>5
    <3>2. Answered(p)' <=> Answered(p) BY <2>5 DEF Answered
    <3> QED BY <2>1, <2>2, <2>3, <2>4, <2>5, <3>1, <3>2 DEF Outstanding
  <2>6. CASE p = c
    <3>1. Answered(p)' BY <1>3, <2>6 DEF Answered, NoneOf
    <3> QED BY <1>2, <1>3, <2>1, <2>2, <2>3, <2>4, <2>6, <3>1 DEF Outstanding
  <2> QED BY <2>5, <2>6
<1>6. Returned' BY DEF OrderInv, Returned
<1> QED BY <1>4, <1>5, <1>6 DEF OrderInv

LEMMA TellInOrder ==
  ASSUME OrderInv, TypeInv, NEW c \in Proc, Tell(c) PROVE OrderInv'
<1> DEFINE m == Sent(c, None, 0)
<1>t. /\ pc \in [Proc -> {"idle", "remove", "tell", "lock", "ask", "wait", "dead"}]
      /\ call \in [Proc -> [path : Name \cup {None}, id : Requests, st : Status] \cup {None}]
  BY DEF TypeInv, TypeOK
<1>1. /\ pc[c] = "tell" /\ req' = Append(req, m)
      /\ settled' = Process(settled, call[c].id, call[c].st)
      /\ pc' = [pc EXCEPT ![c] = "idle"] /\ call' = [call EXCEPT ![c] = None]
      /\ UNCHANGED <<promised, table, ans, phase, got>>
  BY DEF Tell, Goes, daemon, session
<1>2. call[c] \in [path : Name \cup {None}, id : Requests, st : Status]
  BY <1>1 DEF TypeInv, Ready
<1>3. m \in Messages /\ m.pid = None /\ m.id = call[c].id /\ m.st = call[c].st
  BY <1>2 DEF Sent, Messages
<1> HIDE DEF m
<1>4. \A p \in Proc : p # c => pc'[p] = pc[p] /\ call'[p] = call[p] BY <1>t, <1>1
<1>5. pc'[c] = "idle" BY <1>t, <1>1
<1> QED BY <1>1, <1>3, <1>4, <1>5, SendInOrder

LEMMA AskInOrder ==
  ASSUME OrderInv, TypeInv, NEW c \in Proc, Ask(c) PROVE OrderInv'
<1> DEFINE m == Sent(c, c, serial'[c])
<1>t. /\ pc \in [Proc -> {"idle", "remove", "tell", "lock", "ask", "wait", "dead"}]
      /\ serial \in [Proc -> Nat] /\ promised \in [Proc -> Reports]
  BY DEF TypeInv, TypeOK
<1>1. /\ pc[c] = "ask" /\ req' = Append(req, m)
      /\ serial' = [serial EXCEPT ![c] = @ + 1]
      /\ pc' = [pc EXCEPT ![c] = "wait"]
      /\ promised' = [promised EXCEPT ![c] =
                        Report(call[c].st.ino, Answer(settled, call[c].st))]
      /\ UNCHANGED <<settled, table, ans, phase, got, call>>
  BY DEF Ask, daemon, session
<1>2. call[c] \in [path : Name \cup {None}, id : Requests, st : Status] /\ call[c].id = "stat"
  BY <1>1 DEF TypeInv, Ready
<1>3. m \in Messages /\ m.pid = c /\ m.id = "stat" /\ m.st = call[c].st
  BY <1>1, <1>2, <1>t DEF Sent, Messages
<1> HIDE DEF m
<1>4. settled' = Process(settled, m.id, m.st) BY <1>1, <1>3 DEF Process
<1>5. \A p \in Proc : p # c => pc'[p] = pc[p] /\ promised'[p] = promised[p] BY <1>t, <1>1
<1>6. /\ pc'[c] = "wait"
      /\ promised'[c] = Report(call'[c].st.ino, Answer(settled, m.st))
  BY <1>t, <1>1, <1>3
<1> QED BY <1>1, <1>3, <1>4, <1>5, <1>6, SendInOrder

(* An answer that is taken is the process's own, the only one to it, and   *)
(* what was promised; one that is dropped is of a process that died.       *)
LEMMA ReceiveInOrder ==
  ASSUME "signal" \notin Faults, OrderInv, TypeInv, NEW c \in Proc, Receive(c)
  PROVE  OrderInv'
<1>t. /\ ans \in Seq(Messages) /\ got \in [Proc -> Reports]
      /\ pc \in [Proc -> {"idle", "remove", "tell", "lock", "ask", "wait", "dead"}]
      /\ call \in [Proc -> [path : Name \cup {None}, id : Requests, st : Status] \cup {None}]
  BY DEF TypeInv, TypeOK
<1>1. /\ pc[c] = "wait" /\ ans # <<>> /\ ans' = Tail(ans)
      /\ IF Mine(c, Head(ans)) THEN Returns(c, Head(ans).st)
         ELSE UNCHANGED <<got, pc, call, sem>>
      /\ UNCHANGED <<table, req, settled, promised, phase>>
  BY DEF Receive, session, history
<1>2. /\ Len(ans) \in Nat \ {0} /\ Len(ans') = Len(ans) - 1 /\ Head(ans) = ans[1]
      /\ \A k \in 1..(Len(ans) - 1) : ans'[k] = ans[k + 1]
  BY <1>t, <1>1, AfterTail
<1>3. ASSUME NEW p \in Proc PROVE
        /\ NoneOf(ans, p) => NoneOf(ans', p)
        /\ OneOf(ans, p) => OneOf(ans', p)
        /\ OneOf(ans, p) /\ Head(ans).pid = p => NoneOf(ans', p)
  BY <1>t, <1>1, TailOf
<1>4. \A p \in Proc : \/ pc'[p] = pc[p] /\ call'[p] = call[p] /\ got'[p] = got[p]
                      \/ /\ p = c /\ Mine(c, Head(ans)) /\ pc'[c] = "idle"
                         /\ got'[c] = Report(call[c].st.ino, Head(ans).st)
  BY <1>t, <1>1 DEF Returns, Goes
<1>5. Lead'
  <2> SUFFICES ASSUME phase' \in {"run", "sync"}
               PROVE \E s : Leads(s)' /\ \A p \in Proc : pc'[p] = "wait" => Asked(s, p)'
    BY DEF Lead
  <2>1. PICK s : Leads(s) /\ \A p \in Proc : pc[p] = "wait" => Asked(s, p)
    BY <1>1 DEF OrderInv, Lead
  <2>2. Leads(s)' BY <1>1, <2>1 DEF Leads
  <2>3. ASSUME NEW p \in Proc, pc'[p] = "wait" PROVE Asked(s, p)'
    <3>1. pc[p] = "wait" /\ call'[p] = call[p] BY <1>4, <2>3
    <3> QED BY <1>1, <2>1, <3>1 DEF Asked
  <2> QED BY <2>2, <2>3
<1>6. ASSUME NEW p \in Proc PROVE Outstanding(p)'
  <2>1. Outstanding(p) BY DEF OrderInv
  <2>2. (NoneOf(req, p)' <=> NoneOf(req, p)) /\ (OneOf(req, p)' <=> OneOf(req, p))
    BY <1>1 DEF NoneOf, OneOf
  <2>3. (NoneOf(ans, p)' <=> NoneOf(ans', p)) /\ (OneOf(ans, p)' <=> OneOf(ans', p))
    BY DEF NoneOf, OneOf
  <2>4. CASE pc'[p] = pc[p] /\ call'[p] = call[p]
    <3>1. Answered(p) => Answered(p)'
      <4>1. \A k \in 1..Len(ans') : k + 1 \in 1..Len(ans) /\ ans'[k] = ans[k + 1] BY <1>2
      <4> QED BY <1>1, <2>4, <4>1 DEF Answered
    <3> QED BY <1>3, <2>1, <2>2, <2>3, <2>4, <3>1 DEF Outstanding
  <2>5. CASE p = c /\ Mine(c, Head(ans)) /\ pc'[c] = "idle"
    <3>1. Head(ans).pid = p BY <2>5 DEF Mine
    <3>2. NoneOf(ans', p) /\ OneOf(ans', p) BY <1>3, <2>1, <3>1 DEF Outstanding
    <3>3. ~NoneOf(ans, p) BY <1>2, <3>1 DEF NoneOf
    <3>4. NoneOf(req, p) BY <2>1, <3>3 DEF Outstanding
    <3> QED BY <2>1, <2>2, <2>3, <2>5, <3>2, <3>4 DEF Outstanding
  <2> QED BY <1>4, <2>4, <2>5
<1>7. ASSUME NEW p \in Proc, got'[p] # None, pc'[p] # "wait" PROVE got'[p] = promised'[p]
  <2>1. CASE pc'[p] = pc[p] /\ got'[p] = got[p]
    BY <1>1, <1>7, <2>1 DEF OrderInv, Returned
  <2>2. CASE /\ p = c /\ Mine(c, Head(ans))
             /\ got'[c] = Report(call[c].st.ino, Head(ans).st)
    <3>1. ans[1].pid = c /\ 1 \in 1..Len(ans) BY <1>2, <2>2 DEF Mine
    <3>2. promised[c] = Report(call[c].st.ino, ans[1].st)
      BY <1>1, <3>1 DEF OrderInv, Outstanding, Answered
    <3> QED BY <1>1, <1>2, <2>2, <3>2
  <2> QED BY <1>4, <2>1, <2>2
<1> QED BY <1>5, <1>6, <1>7 DEF OrderInv, Returned

(* The daemon takes the first request; the answer to a stat is what the    *)
(* data base of now says.                                                  *)
LEMMA ServeInOrder ==
  ASSUME OrderInv, DrainInv, Serve PROVE OrderInv'
<1> DEFINE m == Head(req)
           n == Len(req)
<1>t. req \in Seq(Messages) /\ ans \in Seq(Messages) /\ TypeInv
  BY DEF DrainInv, TypeInv, TypeOK
<1>1. /\ req # <<>> /\ req' = Tail(req) /\ table' = Process(table, m.id, m.st)
      /\ UNCHANGED <<phase, settled, promised, pc, call, got>>
      /\ \/ ans' = ans
         \/ m.id = "stat" /\ ans' = Append(ans, [m EXCEPT !.st = Answer(table, m.st)])
  BY DEF Serve, session, history
<1>p. phase \in {"run", "sync"} BY <1>1 DEF DrainInv, Drained, TypeInv, TypeOK
<1>2. /\ n \in Nat \ {0} /\ Len(req') = n - 1 /\ m = req[1]
      /\ \A k \in 1..(n - 1) : req'[k] = req[k + 1]
  BY <1>t, <1>1, AfterTail
<1>3. m \in Messages BY <1>t, <1>1, HeadTailProperties
<1>4. PICK s : Leads(s) /\ \A p \in Proc : pc[p] = "wait" => Asked(s, p)
  BY <1>p DEF OrderInv, Lead
<1>5. 1 \in 1..n /\ 1 - 1 = 0 /\ s[0] = table BY <1>2, <1>4 DEF Leads
<1>6. Lead'
  <2>1. PICK z : \A k \in 0..(n - 1) : z[k] = s[k + 1]
    <3> DEFINE y == [k \in 0..(n - 1) |-> s[k + 1]]
    <3>1. \A k \in 0..(n - 1) : y[k] = s[k + 1] OBVIOUS
    <3> HIDE DEF y
    <3> QED BY <3>1
  <2>2. Leads(z)'
    <3>1. z[0] = table'
      <4>1. s[1] = Process(s[0], req[1].id, req[1].st) BY <1>4, <1>5 DEF Leads
      <4>2. z[0] = s[1] BY <1>2, <2>1
      <4> QED BY <1>1, <1>2, <1>5, <4>1, <4>2
    <3>2. z[n - 1] = settled'
      <4>1. n - 1 \in 0..(n - 1) /\ (n - 1) + 1 = n BY <1>2
      <4> QED BY <1>1, <1>4, <2>1, <4>1 DEF Leads
    <3>3. ASSUME NEW k \in 1..Len(req')
          PROVE  z[k] = Process(z[k - 1], req'[k].id, req'[k].st)
      <4>1. /\ k + 1 \in 1..n /\ (k + 1) - 1 = k /\ (k - 1) + 1 = k
            /\ k \in 0..(n - 1) /\ k - 1 \in 0..(n - 1) /\ k \in 1..(n - 1)
        BY <1>2
      <4>2. z[k] = s[k + 1] /\ z[k - 1] = s[k] /\ req'[k] = req[k + 1] BY <1>2, <2>1, <4>1
      <4> QED BY <1>4, <4>1, <4>2 DEF Leads
    <3> QED BY <1>2, <3>1, <3>2, <3>3 DEF Leads
  <2>3. ASSUME NEW p \in Proc, pc'[p] = "wait" PROVE Asked(z, p)'
    <3>1. SUFFICES ASSUME NEW k \in 1..Len(req'), req'[k].pid = p
                   PROVE  promised'[p] = Report(call'[p].st.ino, Answer(z[k - 1], req'[k].st))
      BY DEF Asked
    <3>2. /\ k + 1 \in 1..n /\ (k + 1) - 1 = k /\ (k - 1) + 1 = k
          /\ k - 1 \in 0..(n - 1) /\ k \in 1..(n - 1)
      BY <1>2
    <3>3. z[k - 1] = s[k] /\ req'[k] = req[k + 1] BY <1>2, <2>1, <3>2
    <3>4. Asked(s, p) BY <1>1, <1>4, <2>3
    <3> QED BY <1>1, <3>1, <3>2, <3>3, <3>4 DEF Asked
  <2> QED BY <2>2, <2>3 DEF Lead
<1>7. ASSUME NEW p \in Proc PROVE Outstanding(p)'
  <2>1. Outstanding(p) BY DEF OrderInv
  <2>2. /\ NoneOf(req, p) => NoneOf(req', p) /\ m.pid # p
        /\ OneOf(req, p) => OneOf(req', p)
        /\ OneOf(req, p) /\ m.pid = p => NoneOf(req', p)
    BY <1>t, <1>1, TailOf
  <2>3. (NoneOf(req, p)' <=> NoneOf(req', p)) /\ (OneOf(req, p)' <=> OneOf(req', p))
    BY DEF NoneOf, OneOf
  <2>4. (NoneOf(ans, p)' <=> NoneOf(ans', p)) /\ (OneOf(ans, p)' <=> OneOf(ans', p))
    BY DEF NoneOf, OneOf
  <2>5. CASE ans' = ans
    BY <1>1, <2>1, <2>2, <2>3, <2>4, <2>5 DEF Outstanding, Answered
  <2>6. CASE m.id = "stat" /\ ans' = Append(ans, [m EXCEPT !.st = Answer(table, m.st)])
    <3> DEFINE a == [m EXCEPT !.st = Answer(table, m.st)]
    <3>1. a \in Messages
      <4>1. Valid(m) BY <1>t, <1>2, <1>5, LenProperties DEF TypeInv
      <4>2. Answer(table, m.st) \in StatusOf(Uid \cup {Root, User})
        BY <1>t, <1>3, <2>6, <4>1, AnswerTyped DEF Valid, Messages, TypeInv, TypeOK
      <4> QED BY <1>3, <4>2 DEF Messages, Status, StatusOf
    <3>2. a.pid = m.pid /\ a.st = Answer(table, m.st) BY <1>3 DEF Messages
    <3> HIDE DEF a, m
    <3>3. ans' = Append(ans, a) BY <2>6 DEF a
    <3>4. /\ NoneOf(ans, p) /\ m.pid # p => NoneOf(ans', p)
          /\ OneOf(ans, p) /\ m.pid # p => OneOf(ans', p)
          /\ NoneOf(ans, p) => OneOf(ans', p)
      BY <1>t, <3>1, <3>2, <3>3, AppendOf
    <3>5. /\ Len(ans') = Len(ans) + 1 /\ Len(ans) \in Nat /\ ans'[Len(ans) + 1] = a
          /\ \A k \in 1..Len(ans) : ans'[k] = ans[k]
      BY <1>t, <3>1, <3>3, AfterAppend
    <3>6. pc[p] = "wait" => Answered(p)'
      <4> SUFFICES ASSUME pc[p] = "wait", NEW k \in 1..Len(ans'), ans'[k].pid = p
                   PROVE  promised'[p] = Report(call'[p].st.ino, ans'[k].st)
        BY DEF Answered
      <4>1. CASE k \in 1..Len(ans)
        BY <1>1, <2>1, <3>5, <4>1 DEF Outstanding, Answered
      <4>2. CASE k = Len(ans) + 1
        <5>1. req[1].pid = p BY <1>2, <3>2, <3>5, <4>2
        <5>2. promised[p] = Report(call[p].st.ino, Answer(s[1 - 1], req[1].st))
          BY <1>4, <1>5, <5>1 DEF Asked
        <5> QED BY <1>1, <1>2, <1>5, <3>2, <3>5, <4>2, <5>2
      <4> QED BY <3>5, <4>1, <4>2
    <3>7. m.pid = p => ~NoneOf(req, p) BY <2>2
    <3> QED BY <1>1, <2>1, <2>2, <2>3, <2>4, <3>4, <3>6, <3>7 DEF Outstanding
  <2> QED BY <1>1, <2>5, <2>6
<1>8. Returned' BY <1>1 DEF OrderInv, Returned
<1> QED BY <1>6, <1>7, <1>8 DEF OrderInv

(* A killed process leaves its request, or the answer to it, behind.       *)
LEMMA KillInOrder ==
  ASSUME OrderInv, TypeInv, NEW c \in Client, Kill(c) PROVE OrderInv'
<1>c. c \in Proc BY DEF Proc
<1>t. /\ pc \in [Proc -> {"idle", "remove", "tell", "lock", "ask", "wait", "dead"}]
      /\ call \in [Proc -> [path : Name \cup {None}, id : Requests, st : Status] \cup {None}]
      /\ got \in [Proc -> Reports] /\ promised \in [Proc -> Reports]
  BY DEF TypeInv, TypeOK
<1>1. /\ pc' = [pc EXCEPT ![c] = "dead"] /\ call' = [call EXCEPT ![c] = None]
      /\ got' = [got EXCEPT ![c] = None] /\ promised' = [promised EXCEPT ![c] = None]
      /\ UNCHANGED <<table, req, ans, settled, phase>>
  BY DEF Kill, Goes, daemon
<1>2. /\ pc'[c] = "dead" /\ got'[c] = None
      /\ \A p \in Proc : p # c => /\ pc'[p] = pc[p] /\ call'[p] = call[p]
                                  /\ got'[p] = got[p] /\ promised'[p] = promised[p]
  BY <1>c, <1>t, <1>1
<1>3. Lead'
  <2> SUFFICES ASSUME phase' \in {"run", "sync"}
               PROVE \E s : Leads(s)' /\ \A p \in Proc : pc'[p] = "wait" => Asked(s, p)'
    BY DEF Lead
  <2>1. PICK s : Leads(s) /\ \A p \in Proc : pc[p] = "wait" => Asked(s, p)
    BY <1>1 DEF OrderInv, Lead
  <2>2. Leads(s)' BY <1>1, <2>1 DEF Leads
  <2>3. \A p \in Proc : pc'[p] = "wait" => Asked(s, p)' BY <1>1, <1>2, <2>1 DEF Asked
  <2> QED BY <2>2, <2>3
<1>4. ASSUME NEW p \in Proc PROVE Outstanding(p)'
  <2>1. Outstanding(p) BY DEF OrderInv
  <2>2. p # c => (Answered(p)' <=> Answered(p)) BY <1>1, <1>2 DEF Answered
  <2>3. /\ (NoneOf(req, p)' <=> NoneOf(req, p)) /\ (OneOf(req, p)' <=> OneOf(req, p))
        /\ (NoneOf(ans, p)' <=> NoneOf(ans, p)) /\ (OneOf(ans, p)' <=> OneOf(ans, p))
    BY <1>1 DEF NoneOf, OneOf
  <2> QED BY <1>2, <2>1, <2>2, <2>3 DEF Outstanding
<1>5. Returned' BY <1>2 DEF OrderInv, Returned
<1> QED BY <1>3, <1>4, <1>5 DEF OrderInv

(* The daemon stops with empty queues, loads the file, and starts with     *)
(* what it has read.                                                       *)
LEMMA ScriptInOrder ==
  ASSUME OrderInv, DrainInv, Script PROVE OrderInv'
<1>t. pc \in [Proc -> {"idle", "remove", "tell", "lock", "ask", "wait", "dead"}]
  BY DEF DrainInv, TypeInv, TypeOK
<1>s. Shell \notin Client BY FakerootAssumption
<1>e. /\ Len(<<>>) = 0 /\ 1..0 = {} BY EmptySeq, LenProperties
<1>q. (phase \in {"down", "load"} =>
         /\ req = <<>> /\ ans = <<>> /\ \A p \in Proc : pc[p] \in {"idle", "dead"})
  BY DEF DrainInv, Drained, Proc
(* Empty queues hold no message of anyone.                                 *)
<1>n. ASSUME req' = <<>>, ans' = <<>>, NEW p \in Proc, pc'[p] # "wait" PROVE Outstanding(p)'
  <2>1. /\ NoneOf(req, p)' /\ OneOf(req, p)' /\ NoneOf(ans, p)' /\ OneOf(ans, p)'
    BY <1>e, <1>n DEF NoneOf, OneOf
  <2> QED BY <1>n, <2>1 DEF Outstanding
<1>1. CASE SyncStart
  <2>1. /\ phase = "run" /\ \A c \in Client : pc[c] \in {"idle", "dead"}
        /\ pc' = [pc EXCEPT ![Shell] = "lock"]
        /\ UNCHANGED <<table, req, ans, settled, promised, got>>
    BY <1>1 DEF SyncStart, Goes, daemon, history
  <2>2. pc[Shell] = "idle" BY <2>1 DEF DrainInv, Drained
  <2>3. \A p \in Proc : /\ pc'[p] = "wait" <=> pc[p] = "wait"
                        /\ pc[p] = "dead" => pc'[p] = "dead"
                        /\ pc[p] # "wait"
    BY <1>t, <1>s, <2>1, <2>2 DEF Proc
  <2> QED BY <2>1, <2>3, AsideInOrder
<1>2. CASE Cleanup
  <2>1. /\ phase' = "down" /\ req' = <<>> /\ ans' = <<>> /\ UNCHANGED pc
        /\ got' = [q \in Proc |-> None] /\ phase = "sync" /\ pc[Shell] = "idle"
    BY <1>2 DEF Cleanup
  <2>2. \A p \in Proc : pc'[p] # "wait" BY <2>1 DEF DrainInv, Drained, Proc
  <2> QED BY <1>n, <2>1, <2>2 DEF OrderInv, Lead, Returned
<1>3. CASE Restart
  <2>1. /\ phase = "down" /\ phase' = "load" /\ pc' = [p \in Proc |-> "idle"]
        /\ UNCHANGED <<table, req, ans, settled, promised, got>>
    BY <1>3 DEF Restart, daemon, history
  <2>2. \A p \in Proc : pc[p] # "wait" /\ pc'[p] # "wait" BY <1>q, <2>1
  <2>3. Returned' BY <2>1, <2>2 DEF OrderInv, Returned
  <2> QED BY <1>n, <1>q, <2>1, <2>2, <2>3 DEF OrderInv, Lead
<1>4. CASE Load
  <2>1. phase = "load" /\ UNCHANGED <<ans, req, pc, got, promised>> BY <1>4 DEF Load
  <2>2. /\ req' = <<>> /\ ans' = <<>>
        /\ \A p \in Proc : pc[p] # "wait" /\ pc'[p] # "wait"
    BY <1>q, <2>1
  <2>3. Returned' BY <2>1, <2>2 DEF OrderInv, Returned
  <2>4. Lead'
    <3> SUFFICES ASSUME phase' \in {"run", "sync"}
                 PROVE \E s : Leads(s)' /\ \A p \in Proc : pc'[p] = "wait" => Asked(s, p)'
      BY DEF Lead
    <3>1. settled' = table /\ table' = table BY <1>4, <2>1 DEF Load
    <3>2. PICK s : s[0] = table
      <4>1. [k \in {0} |-> table][0] = table OBVIOUS
      <4> QED BY <4>1
    <3>3. Leads(s)' BY <1>e, <2>2, <3>1, <3>2 DEF Leads
    <3> QED BY <2>2, <3>3
  <2> QED BY <1>n, <2>2, <2>3, <2>4 DEF OrderInv
<1> QED BY <1>1, <1>2, <1>3, <1>4 DEF Script

LEMMA OrderInductive ==
  ASSUME "signal" \notin Faults, OrderInv, DrainInv, [Next]_vars PROVE OrderInv'
<1>t. TypeInv /\ pc \in [Proc -> {"idle", "remove", "tell", "lock", "ask", "wait", "dead"}]
  BY DEF DrainInv, TypeInv, TypeOK
<1>1. CASE UNCHANGED vars \/ Done
  BY <1>1, AsideInOrder DEF vars, Done
<1>2. ASSUME NEW c \in Client, Call(c) PROVE OrderInv'
  <2>1. /\ UNCHANGED <<table, req, ans, settled, promised, got, phase>> /\ pc[c] = "idle"
    BY <1>2 DEF Call, Create, Chown, Chmod, Mknod, Mkdir, Unlink, Stat, Link, Rename, Begins,
                Unchanged, daemon, session, history
  <2>2. \/ UNCHANGED <<pc, call>>
        \/ \E point \in {"tell", "remove", "lock"} : \E message : Goes(c, point, message)
    BY <1>2 DEF Call, Create, Chown, Chmod, Mknod, Mkdir, Unlink, Stat, Link, Rename
  <2>3. \A p \in Proc : /\ pc'[p] = "wait" <=> pc[p] = "wait"
                        /\ pc[p] = "dead" => pc'[p] = "dead"
                        /\ pc[p] = "wait" => call'[p] = call[p]
    <3>1. CASE UNCHANGED <<pc, call>> BY <3>1
    <3>2. ASSUME NEW point \in {"tell", "remove", "lock"}, NEW message, Goes(c, point, message)
          PROVE \A p \in Proc : /\ pc'[p] = "wait" <=> pc[p] = "wait"
                                /\ pc[p] = "dead" => pc'[p] = "dead"
                                /\ pc[p] = "wait" => call'[p] = call[p]
      <4>1. c \in Proc BY DEF Proc
      <4>2. call \in [Proc -> [path : Name \cup {None}, id : Requests, st : Status] \cup {None}]
        BY DEF DrainInv, TypeInv, TypeOK
      <4> QED BY <1>t, <2>1, <3>2, <4>1, <4>2 DEF Goes
    <3> QED BY <2>2, <3>1, <3>2
  <2> QED BY <2>1, <2>3, AsideInOrder
<1>3. ASSUME NEW c \in Client, Kill(c) PROVE OrderInv' BY <1>t, <1>3, KillInOrder
<1>4. ASSUME NEW c \in Client, Exec(c) PROVE OrderInv'
  BY <1>4, AsideInOrder DEF Exec, daemon, session, history
<1>5. ASSUME NEW p \in Proc, Tell(p) PROVE OrderInv' BY <1>t, <1>5, TellInOrder
<1>6. ASSUME NEW p \in Proc, Ask(p) PROVE OrderInv' BY <1>t, <1>6, AskInOrder
<1>7. ASSUME NEW p \in Proc, Receive(p) PROVE OrderInv' BY <1>t, <1>7, ReceiveInOrder
<1>8. ASSUME NEW p \in Proc, RemoveFile(p) PROVE OrderInv'
  <2>1. /\ pc[p] = "remove"
        /\ UNCHANGED <<table, req, ans, settled, promised, got, phase>>
    BY <1>8 DEF RemoveFile, Unchanged, daemon, session, history
  <2>2. \E point \in {"idle", "tell"} :
          /\ pc' = [pc EXCEPT ![p] = point]
          /\ UNCHANGED call \/ call' = [call EXCEPT ![p] = None]
    BY <1>8 DEF RemoveFile, Goes
  <2>3. call \in [Proc -> [path : Name \cup {None}, id : Requests, st : Status] \cup {None}]
    BY DEF DrainInv, TypeInv, TypeOK
  <2>4. \A q \in Proc : /\ pc'[q] = "wait" <=> pc[q] = "wait"
                        /\ pc[q] = "dead" => pc'[q] = "dead"
                        /\ pc[q] = "wait" => call'[q] = call[q]
    BY <1>t, <2>1, <2>2, <2>3
  <2> QED BY <2>1, <2>4, AsideInOrder
<1>9. ASSUME NEW p \in Proc, Lock(p) PROVE OrderInv'
  <2>1. /\ pc[p] = "lock" /\ pc' = [pc EXCEPT ![p] = "ask"]
        /\ UNCHANGED <<table, req, ans, settled, promised, got, phase, call>>
    BY <1>9 DEF Lock, daemon, session, history
  <2>2. \A q \in Proc : /\ pc'[q] = "wait" <=> pc[q] = "wait"
                        /\ pc[q] = "dead" => pc'[q] = "dead"
    BY <1>t, <2>1
  <2> QED BY <2>1, <2>2, AsideInOrder
<1> QED BY <1>1, <1>2, <1>3, <1>4, <1>5, <1>6, <1>7, <1>8, <1>9, ServeInOrder, ScriptInOrder
        DEF Next, Continue

LEMMA OrderInitially == Init => OrderInv
<1> SUFFICES ASSUME Init PROVE OrderInv OBVIOUS
<1>e. Len(<<>>) = 0 /\ 1..0 = {} BY EmptySeq, LenProperties
<1>1. /\ table = <<>> /\ settled = <<>> /\ req = <<>> /\ ans = <<>>
      /\ \A p \in Proc : pc[p] = "idle" /\ got[p] = None
  BY DEF Init
<1>2. PICK s : s[0] = <<>>
  <2>1. [k \in {0} |-> <<>>][0] = <<>> OBVIOUS
  <2> QED BY <2>1
<1>3. Leads(s) BY <1>e, <1>1, <1>2 DEF Leads
<1>4. Lead BY <1>1, <1>3 DEF Lead
<1>5. \A p \in Proc : Outstanding(p) BY <1>e, <1>1 DEF Outstanding, NoneOf, OneOf
<1>6. Returned BY <1>1 DEF Returned
<1> QED BY <1>4, <1>5, <1>6 DEF OrderInv

(* communicate.c 507-579, faked.c 813-857: whatever other processes do,    *)
(* are killed at or execute, and in every session, a stat returns what the *)
(* data base was for its file when it was asked; and the data base of a    *)
(* daemon with nothing to do is what the requests, in their order, ask for.*)
(* A signal handler that interrupts the wait breaks this, see the run      *)
(* fakeroot_signal.                                                        *)
THEOREM StatsInOrder ==
  ASSUME "signal" \notin Faults PROVE Spec => []InOrder
<1>1. DrainInv /\ [Next]_vars => DrainInv' BY TypeInductive, DrainedKept DEF DrainInv
<1>2. Init => DrainInv /\ OrderInv
  BY TypeInitially, DrainInitially, OrderInitially DEF DrainInv
<1>3. DrainInv /\ OrderInv /\ [Next]_vars => DrainInv' /\ OrderInv' BY <1>1, OrderInductive
<1>4. DrainInv /\ OrderInv => InOrder
  <2> SUFFICES ASSUME DrainInv, OrderInv PROVE InOrder OBVIOUS
  <2>1. ASSUME phase \in {"run", "sync"}, req = <<>> PROVE table = settled
    <3>1. PICK s : Leads(s) BY <2>1 DEF OrderInv, Lead
    <3>2. Len(req) = 0 BY <2>1, EmptySeq, LenProperties
    <3> QED BY <3>1, <3>2 DEF Leads
  <2> QED BY <2>1 DEF OrderInv, Returned, InOrder
<1> QED BY <1>2, <1>3, <1>4, PTL DEF Spec
================================================================================
