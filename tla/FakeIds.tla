-------------------------------- MODULE FakeIds --------------------------------
(***************************************************************************)
(* The fake user ids of a process under fakeroot (libfakeroot.c, set*id    *)
(* and get*id): each is read from an environment variable when it is first *)
(* needed, kept in a static variable, and written back when it is set, so  *)
(* that fork and exec hand it on.  The group ids are handled in the same   *)
(* way by functions of their own, and are not modelled twice.              *)
(*                                                                         *)
(* The source names as known issues that privileges are not checked, and   *)
(* that a setenv may fail: processes ask here for what root may, and       *)
(* setenv succeeds.                                                        *)
(***************************************************************************)
EXTENDS Integers

CONSTANTS IdProc,     \* processes, those not started yet included
          UserId,     \* user ids, root's 0 among them
          MaxIdCalls  \* bound of the model

ASSUME IdsAssumption == 0 \in UserId /\ UserId \subseteq Nat /\ MaxIdCalls \in Nat

Kinds == {"real", "effective", "saved", "fs"}
Keep == -1      \* (uid_t)-1: not read yet, or leave it alone

VARIABLES env,      \* the environment of every process; unset stands for 0
          faked,    \* the static variables
          cred,     \* what the kernel would keep for a process of root's
          running,  \* the processes that have been started
          idcalls

idvars == <<env, faked, cred, running, idcalls>>

Ids == [Kinds -> UserId]

IdsInit ==
  /\ env = [p \in IdProc |-> [k \in Kinds |-> 0]]
  /\ faked = [p \in IdProc |-> [k \in Kinds |-> Keep]]
  /\ cred = [p \in IdProc |-> [k \in Kinds |-> 0]]
  /\ \E p \in IdProc : running = {p}
  /\ idcalls = 0

(* read_uids *)
Read(p) == [k \in Kinds |-> IF faked[p][k] = Keep THEN env[p][k] ELSE faked[p][k]]

Set(id, old) == IF id = Keep THEN old ELSE id

(* write_uids: every id that is kept, and what the kernel does meanwhile.  *)
Write(p, kept, ids, kernel) ==
  /\ p \in running /\ idcalls < MaxIdCalls
  /\ idcalls' = idcalls + 1
  /\ faked' = [faked EXCEPT ![p] = ids]
  /\ env' = [env EXCEPT ![p] = [k \in Kinds |-> IF k \in kept THEN ids[k] ELSE @[k]]]
  /\ cred' = [cred EXCEPT ![p] = kernel]
  /\ UNCHANGED running

Make(r, e, s) == [real |-> r, effective |-> e, saved |-> s, fs |-> e]

(* What root may set: anything, and anyone else one of the ids it has.     *)
Permitted(p, ids) ==
  cred[p]["effective"] = 0
  \/ ids \subseteq {cred[p]["real"], cred[p]["effective"], cred[p]["saved"]}

Setuid(p, u) ==
  LET f == Read(p)  c == cred[p]
  IN  /\ Permitted(p, {u})
      /\ Write(p, Kinds,
               IF f["effective"] = 0 THEN Make(u, u, u)
               ELSE Make(f["real"], u, f["saved"]),
               IF c["effective"] = 0 THEN Make(u, u, u)
               ELSE Make(c["real"], u, c["saved"]))

(* Mutant: the id of the file system is left alone.                        *)
SeteuidOnly(p, u) ==
  LET f == faked[p]  c == cred[p]
  IN  /\ Permitted(p, {u})
      /\ Write(p, {"effective", "fs"}, [f EXCEPT !["effective"] = u],
               Make(c["real"], u, c["saved"]))

(* Only the effective id and that of the file system are read and written. *)
Seteuid(p, u) ==
  LET f == faked[p]  c == cred[p]
  IN  /\ Permitted(p, {u})
      /\ Write(p, {"effective", "fs"}, Make(f["real"], u, f["saved"]),
               Make(c["real"], u, c["saved"]))

(* The saved id becomes the old effective one; the kernel's becomes the    *)
(* new one, unless the effective one alone is set to the real one.         *)
Setreuid(p, r, e) ==
  LET f == Read(p)  c == cred[p]
      eff == Set(e, c["effective"])
  IN  /\ Permitted(p, {r, e} \ {Keep})
      /\ Write(p, Kinds,
               Make(Set(r, f["real"]), Set(e, f["effective"]),
                    IF {r, e} = {Keep} THEN f["saved"] ELSE f["effective"]),
               Make(Set(r, c["real"]), eff,
                    IF r # Keep \/ (e # Keep /\ e # c["real"]) THEN eff ELSE c["saved"]))

Setresuid(p, r, e, s) ==
  LET f == Read(p)  c == cred[p]
  IN  /\ Permitted(p, {r, e, s} \ {Keep})
      /\ Write(p, Kinds,
               Make(Set(r, f["real"]), Set(e, f["effective"]), Set(s, f["saved"])),
               Make(Set(r, c["real"]), Set(e, c["effective"]), Set(s, c["saved"])))

(* setfsuid writes nothing: an exec makes it the effective id again.       *)
Setfsuid(p, u) ==
  /\ Permitted(p, {u})
  /\ Write(p, {}, [faked[p] EXCEPT !["fs"] = u], [cred[p] EXCEPT !["fs"] = u])

Fork(p, q) ==
  /\ p \in running /\ q \notin running
  /\ running' = running \cup {q}
  /\ env' = [env EXCEPT ![q] = env[p]]
  /\ faked' = [faked EXCEPT ![q] = faked[p]]
  /\ cred' = [cred EXCEPT ![q] = cred[p]]
  /\ UNCHANGED idcalls

ExecImage(p) ==
  /\ p \in running
  /\ faked' = [faked EXCEPT ![p] = [k \in Kinds |-> Keep]]
  /\ cred' = [cred EXCEPT ![p]["saved"] = cred[p]["effective"],
                          ![p]["fs"] = cred[p]["effective"]]
  /\ UNCHANGED <<env, running, idcalls>>

SetIds(p) ==
  \/ \E u \in UserId : Setuid(p, u) \/ Seteuid(p, u) \/ Setfsuid(p, u)
  \/ \E r, e \in UserId \cup {Keep} : Setreuid(p, r, e)
  \/ \E r, e, s \in UserId \cup {Keep} : Setresuid(p, r, e, s)

IdsNext == \E p \in IdProc : SetIds(p) \/ ExecImage(p) \/ \E q \in IdProc : Fork(p, q)

IdsSpec == IdsInit /\ [][IdsNext]_idvars

(* What getuid, geteuid and the others return, and setfsuid as the old id. *)
GetId(p, k) == Read(p)[k]

IdsTypeOK ==
  /\ env \in [IdProc -> Ids] /\ cred \in [IdProc -> Ids]
  /\ faked \in [IdProc -> [Kinds -> UserId \cup {Keep}]]
  /\ running \subseteq IdProc /\ idcalls \in 0..MaxIdCalls

(* Through any sequence of calls, forks and execs, a process reads the     *)
(* real, effective and file system ids that a process of root's would      *)
(* have.  The saved id is not the kernel's after a setreuid or an exec.    *)
IdsAsRoot ==
  \A p \in running, k \in {"real", "effective", "fs"} : GetId(p, k) = cred[p][k]
================================================================================
