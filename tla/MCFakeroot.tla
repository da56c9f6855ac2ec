------------------------------- MODULE MCFakeroot -------------------------------
(* Two processes, one of them with two names, so that it can link and      *)
(* rename; two inodes, so that the number of a removed file is soon used   *)
(* again.  The ids of the processes share no state with the files: every   *)
(* behaviour is of one of the two parts, while the other one stays.        *)
EXTENDS Fakeroot, FakeIds, TLC
CONSTANTS c1, c2, a, b, d, i1, i2, noino
MCNames == (c1 :> {a, b}) @@ (c2 :> {d})
MCDir == (a :> i1) @@ (b :> noino) @@ (d :> noino)

(* What the proofs assume of the instances.                                *)
ASSUME SeparateAssumption == Separate /\ ~UnknownIsReal

VARIABLE part
mcvars == <<vars, idvars, part>>

MCInit == part \in {"files", "ids"} /\ Init /\ IdsInit /\ c1 \in running
MCNext == /\ UNCHANGED part
          /\ \/ part = "files" /\ Next /\ UNCHANGED idvars
             \/ part = "ids" /\ IdsNext /\ UNCHANGED vars
MCSpec == MCInit /\ [][MCNext]_mcvars /\ Fairness
================================================================================
