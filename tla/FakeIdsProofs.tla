----------------------------- MODULE FakeIdsProofs -----------------------------
(* For any processes and users: a process under fakeroot reads the ids     *)
(* that a process of root's would have.                                    *)
EXTENDS FakeIds, TLAPS

(* What the environment and the static variables of a process hold: the    *)
(* environment never has a file system id of its own, which an exec        *)
(* relies on, and a static variable that was read is up to date.           *)
Kept(e, f, c) ==
  /\ e["real"] = c["real"]
  /\ e["effective"] = c["effective"] /\ e["fs"] = c["effective"]
  /\ f["real"] \in {Keep, c["real"]}
  /\ f["effective"] \in {Keep, c["effective"]}
  /\ f["fs"] = c["fs"] \/ (f["fs"] = Keep /\ c["fs"] = c["effective"])

IdsInv == IdsTypeOK /\ \A p \in running : Kept(env[p], faked[p], cred[p])

--------------------------------------------------------------------------------
LEMMA KeepIsNoUser == Keep \notin UserId
BY IdsAssumption DEF Keep

(* What read_uids and the four arguments of write_uids are, by kind.       *)
LEMMA MakeIs ==
  ASSUME NEW r, NEW e, NEW s
  PROVE  /\ Make(r, e, s)["real"] = r /\ Make(r, e, s)["effective"] = e
         /\ Make(r, e, s)["saved"] = s /\ Make(r, e, s)["fs"] = e
         /\ \A S : r \in S /\ e \in S /\ s \in S => Make(r, e, s) \in [Kinds -> S]
BY DEF Make, Kinds

(* read_uids returns the ids of the kernel, but the saved one.             *)
LEMMA ReadIs ==
  ASSUME IdsInv, NEW p \in running
  PROVE  /\ Read(p) \in Ids
         /\ Read(p)["real"] = cred[p]["real"]
         /\ Read(p)["effective"] = cred[p]["effective"]
         /\ Read(p)["fs"] = cred[p]["fs"]
<1>1. p \in IdProc BY DEF IdsInv, IdsTypeOK
<1>2. faked[p] \in [Kinds -> UserId \cup {Keep}] /\ env[p] \in Ids /\ cred[p] \in Ids
  BY <1>1 DEF IdsInv, IdsTypeOK
<1>3. Kept(env[p], faked[p], cred[p]) BY DEF IdsInv
<1>4. Read(p) \in Ids BY <1>2 DEF Read, Ids
<1> QED BY <1>2, <1>3, <1>4, KeepIsNoUser DEF Read, Kept, Kinds, Ids

(* write_uids keeps the invariant when what is kept and the new ids of the *)
(* kernel agree.                                                           *)
LEMMA WriteKeeps ==
  ASSUME IdsInv, NEW p \in IdProc, NEW kept, NEW ids, NEW kernel,
         Write(p, kept, ids, kernel),
         ids \in [Kinds -> UserId \cup {Keep}], kernel \in Ids,
         \A k \in kept \cap Kinds : ids[k] \in UserId,
         Kept([k \in Kinds |-> IF k \in kept THEN ids[k] ELSE env[p][k]], ids, kernel)
  PROVE  IdsInv'
<1>1. /\ p \in running /\ running' = running
      /\ idcalls' \in 0..MaxIdCalls
      /\ faked' = [faked EXCEPT ![p] = ids]
      /\ env' = [env EXCEPT ![p] = [k \in Kinds |-> IF k \in kept THEN ids[k] ELSE @[k]]]
      /\ cred' = [cred EXCEPT ![p] = kernel]
  BY IdsAssumption DEF Write, IdsInv, IdsTypeOK
<1> DEFINE e == [k \in Kinds |-> IF k \in kept THEN ids[k] ELSE env[p][k]]
<1>2. e \in Ids BY DEF Ids, IdsInv, IdsTypeOK
<1>3. env' = [env EXCEPT ![p] = e] BY <1>1
<1> HIDE DEF e
<1>4. IdsTypeOK' BY <1>1, <1>2, <1>3 DEF IdsInv, IdsTypeOK
<1>5. env'[p] = e /\ faked'[p] = ids /\ cred'[p] = kernel
  BY <1>1, <1>3 DEF IdsInv, IdsTypeOK
<1>6. Kept(env'[p], faked'[p], cred'[p]) BY <1>5 DEF e
<1>7. ASSUME NEW q \in running', q # p PROVE Kept(env'[q], faked'[q], cred'[q])
  <2>1. q \in IdProc /\ env'[q] = env[q] /\ faked'[q] = faked[q] /\ cred'[q] = cred[q]
    BY <1>1, <1>3, <1>7 DEF IdsInv, IdsTypeOK
  <2> QED BY <1>1, <1>7, <2>1 DEF IdsInv
<1> QED BY <1>4, <1>6, <1>7 DEF IdsInv

LEMMA IdsInductive == IdsInv /\ [IdsNext]_idvars => IdsInv'
<1> SUFFICES ASSUME IdsInv, [IdsNext]_idvars PROVE IdsInv' OBVIOUS
<1> USE KeepIsNoUser
<1>0. 0 \in UserId BY IdsAssumption
<1>1. CASE UNCHANGED idvars BY <1>1 DEF IdsInv, IdsTypeOK, idvars
<1>2. ASSUME NEW p \in IdProc, SetIds(p) PROVE IdsInv'
  <2>1. p \in running
    BY <1>2 DEF SetIds, Setuid, Seteuid, Setfsuid, Setreuid, Setresuid, Write
  <2>2. /\ faked[p] \in [Kinds -> UserId \cup {Keep}] /\ env[p] \in Ids /\ cred[p] \in Ids
        /\ Kept(env[p], faked[p], cred[p])
    BY <2>1 DEF IdsInv, IdsTypeOK
  <2>r. /\ Read(p) \in Ids /\ Read(p)["real"] = cred[p]["real"]
        /\ Read(p)["effective"] = cred[p]["effective"] /\ Read(p)["fs"] = cred[p]["fs"]
    BY <2>1, ReadIs
  <2>k. \A ids \in Ids : /\ \A k \in Kinds : ids[k] \in UserId
                         /\ ids \in [Kinds -> UserId \cup {Keep}]
    BY DEF Ids
  <2>m. \A r, e, s \in UserId : Make(r, e, s) \in Ids BY MakeIs DEF Ids
  <2>w. ASSUME NEW ids \in Ids, NEW kernel \in Ids, Write(p, Kinds, ids, kernel),
               ids["real"] = kernel["real"], ids["effective"] = kernel["effective"],
               ids["fs"] = ids["effective"], kernel["fs"] = kernel["effective"]
        PROVE  IdsInv'
    <3>1. Kept([k \in Kinds |-> IF k \in Kinds THEN ids[k] ELSE env[p][k]], ids, kernel)
      BY <2>w DEF Kept, Kinds
    <3> QED BY <2>w, <2>k, <3>1, WriteKeeps
  <2>x. ASSUME NEW r \in UserId, NEW e \in UserId, NEW s \in UserId, NEW t \in UserId,
               Write(p, Kinds, Make(r, e, s), Make(r, e, t))
        PROVE  IdsInv'
    <3>1. Make(r, e, s) \in Ids /\ Make(r, e, t) \in Ids BY <2>m
    <3>2. /\ Make(r, e, s)["real"] = r /\ Make(r, e, s)["effective"] = e
          /\ Make(r, e, s)["fs"] = e /\ Make(r, e, t)["real"] = r
          /\ Make(r, e, t)["effective"] = e /\ Make(r, e, t)["fs"] = e
      BY MakeIs
    <3> QED BY <2>x, <3>1, <3>2, <2>w
  <2>v. \A x \in UserId \cup {Keep}, y \in UserId : Set(x, y) \in UserId BY DEF Set
  <2>c. \A k \in Kinds : cred[p][k] \in UserId /\ Read(p)[k] \in UserId
    BY <2>2, <2>r DEF Ids
  <2>d. {"real", "effective", "saved", "fs"} = Kinds BY DEF Kinds
  <2>3. ASSUME NEW u \in UserId, Setuid(p, u) PROVE IdsInv'
    <3>1. CASE cred[p]["effective"] = 0
      <4>1. Write(p, Kinds, Make(u, u, u), Make(u, u, u)) BY <2>3, <2>r, <3>1 DEF Setuid
      <4> QED BY <4>1, <2>x
    <3>2. CASE cred[p]["effective"] # 0
      <4>1. Write(p, Kinds, Make(Read(p)["real"], u, Read(p)["saved"]),
                  Make(cred[p]["real"], u, cred[p]["saved"]))
        BY <2>3, <2>r, <3>2 DEF Setuid
      <4> QED BY <4>1, <2>x, <2>c, <2>d, <2>r
    <3> QED BY <3>1, <3>2
  <2>4. ASSUME NEW u \in UserId, Seteuid(p, u) PROVE IdsInv'
    <3> DEFINE ids == Make(faked[p]["real"], u, faked[p]["saved"])
               kernel == Make(cred[p]["real"], u, cred[p]["saved"])
    <3>1. Write(p, {"effective", "fs"}, ids, kernel) BY <2>4 DEF Seteuid
    <3>2. kernel \in Ids BY <2>m, <2>c, <2>d
    <3>3. /\ ids["real"] = faked[p]["real"] /\ ids["effective"] = u /\ ids["fs"] = u
          /\ kernel["real"] = cred[p]["real"] /\ kernel["effective"] = u /\ kernel["fs"] = u
      BY MakeIs
    <3>4. ids \in [Kinds -> UserId \cup {Keep}] BY <2>2, <2>d, MakeIs
    <3> HIDE DEF ids, kernel
    <3>5. \A k \in {"effective", "fs"} \cap Kinds : ids[k] \in UserId BY <3>3
    <3>6. Kept([k \in Kinds |-> IF k \in {"effective", "fs"} THEN ids[k] ELSE env[p][k]],
               ids, kernel)
      BY <2>2, <3>3 DEF Kept, Kinds
    <3> QED BY <3>1, <3>2, <3>4, <3>5, <3>6, WriteKeeps
  <2>5. ASSUME NEW u \in UserId, Setfsuid(p, u) PROVE IdsInv'
    <3> DEFINE ids == [faked[p] EXCEPT !["fs"] = u]
               kernel == [cred[p] EXCEPT !["fs"] = u]
    <3>1. Write(p, {}, ids, kernel) BY <2>5 DEF Setfsuid
    <3>2. kernel \in Ids /\ ids \in [Kinds -> UserId \cup {Keep}] BY <2>2 DEF Ids
    <3>3. Kept([k \in Kinds |-> IF k \in {} THEN ids[k] ELSE env[p][k]], ids, kernel)
      BY <2>2 DEF Kept, Kinds, Ids
    <3> QED BY <3>1, <3>2, <3>3, WriteKeeps
  <2>6. ASSUME NEW r \in UserId \cup {Keep}, NEW e \in UserId \cup {Keep}, Setreuid(p, r, e)
        PROVE  IdsInv'
    <3>1. PICK s \in UserId, t \in UserId :
            Write(p, Kinds, Make(Set(r, Read(p)["real"]), Set(e, Read(p)["effective"]), s),
                  Make(Set(r, cred[p]["real"]), Set(e, cred[p]["effective"]), t))
      <4> DEFINE eff == Set(e, cred[p]["effective"])
      <4>1. eff \in UserId BY <2>v, <2>c, <2>d
      <4> HIDE DEF eff
      <4> DEFINE s == IF {r, e} = {Keep} THEN Read(p)["saved"] ELSE Read(p)["effective"]
                 t == IF r # Keep \/ (e # Keep /\ e # cred[p]["real"]) THEN eff
                      ELSE cred[p]["saved"]
      <4>2. s \in UserId /\ t \in UserId BY <4>1, <2>c, <2>d
      <4>3. Write(p, Kinds, Make(Set(r, Read(p)["real"]), Set(e, Read(p)["effective"]), s),
                  Make(Set(r, cred[p]["real"]), eff, t))
        BY <2>6 DEF Setreuid, eff
      <4> QED BY <4>2, <4>3 DEF eff
    <3>2. Set(r, cred[p]["real"]) \in UserId /\ Set(e, cred[p]["effective"]) \in UserId
      BY <2>c, <2>d, <2>v
    <3> QED BY <3>1, <3>2, <2>x, <2>r
  <2>7. ASSUME NEW r \in UserId \cup {Keep}, NEW e \in UserId \cup {Keep},
               NEW s \in UserId \cup {Keep}, Setresuid(p, r, e, s)
        PROVE  IdsInv'
    <3>1. Write(p, Kinds,
             Make(Set(r, Read(p)["real"]), Set(e, Read(p)["effective"]), Set(s, Read(p)["saved"])),
             Make(Set(r, cred[p]["real"]), Set(e, cred[p]["effective"]), Set(s, cred[p]["saved"])))
      BY <2>7 DEF Setresuid
    <3>2. /\ Set(r, cred[p]["real"]) \in UserId /\ Set(e, cred[p]["effective"]) \in UserId
          /\ Set(s, cred[p]["saved"]) \in UserId /\ Set(s, Read(p)["saved"]) \in UserId
      BY <2>c, <2>d, <2>v
    <3> QED BY <3>1, <3>2, <2>x, <2>r
  <2> QED BY <1>2, <2>3, <2>4, <2>5, <2>6, <2>7 DEF SetIds
<1>3. ASSUME NEW p \in IdProc, ExecImage(p) PROVE IdsInv'
  <2>1. p \in running /\ UNCHANGED <<env, running, idcalls>> BY <1>3 DEF ExecImage
  <2>2. faked' = [faked EXCEPT ![p] = [k \in Kinds |-> Keep]]
    BY <1>3 DEF ExecImage
  <2>3. cred' = [cred EXCEPT ![p] = [cred[p] EXCEPT !["saved"] = cred[p]["effective"],
                                                   !["fs"] = cred[p]["effective"]]]
    BY <1>3 DEF ExecImage, IdsInv, IdsTypeOK
  <2>4. env[p] \in Ids /\ cred[p] \in Ids /\ Kept(env[p], faked[p], cred[p])
    BY <2>1 DEF IdsInv, IdsTypeOK
  <2>5. IdsTypeOK' BY <2>1, <2>2, <2>3, <2>4 DEF IdsInv, IdsTypeOK, Ids, Kinds
  <2>6. Kept(env'[p], faked'[p], cred'[p])
    BY <2>1, <2>2, <2>3, <2>4 DEF IdsInv, IdsTypeOK, Kept, Ids, Kinds
  <2>7. ASSUME NEW q \in running', q # p PROVE Kept(env'[q], faked'[q], cred'[q])
    BY <2>1, <2>2, <2>3, <2>7 DEF IdsInv, IdsTypeOK
  <2> QED BY <2>5, <2>6, <2>7 DEF IdsInv
<1>4. ASSUME NEW p \in IdProc, NEW q \in IdProc, Fork(p, q) PROVE IdsInv'
  <2>1. /\ p \in running /\ running' = running \cup {q} /\ idcalls' = idcalls
        /\ env' = [env EXCEPT ![q] = env[p]] /\ faked' = [faked EXCEPT ![q] = faked[p]]
        /\ cred' = [cred EXCEPT ![q] = cred[p]]
    BY <1>4 DEF Fork
  <2>2. IdsTypeOK' BY <2>1 DEF IdsInv, IdsTypeOK
  <2>3. ASSUME NEW r \in running' PROVE Kept(env'[r], faked'[r], cred'[r])
    BY <2>1, <2>3 DEF IdsInv, IdsTypeOK
  <2> QED BY <2>2, <2>3 DEF IdsInv
<1> QED BY <1>1, <1>2, <1>3, <1>4 DEF IdsNext

LEMMA IdsInitially == IdsInit => IdsInv
BY IdsAssumption DEF IdsInit, IdsInv, IdsTypeOK, Ids, Kept, Kinds

(* set*id, get*id, fork and exec: through any sequence of them, by any     *)
(* number of processes, the real, effective and file system ids that the   *)
(* library answers are those of a process of root's.                       *)
THEOREM IdsAreRoots == IdsSpec => []IdsAsRoot
<1>1. IdsSpec => []IdsInv BY IdsInitially, IdsInductive, PTL DEF IdsSpec
<1>2. IdsInv => IdsAsRoot
  <2> SUFFICES ASSUME IdsInv, NEW p \in running, NEW k \in {"real", "effective", "fs"}
               PROVE  GetId(p, k) = cred[p][k]
    BY DEF IdsAsRoot
  <2> QED BY ReadIs DEF GetId
<1> QED BY <1>1, <1>2, PTL
================================================================================
