------------------------------ MODULE MCAutoConf ------------------------------
(***************************************************************************)
(* Instances of AutoConf for TLC.                                          *)
(*                                                                         *)
(* Wide: package p names the symbols a and b; b depends on a in the first  *)
(* version of the Kconfig files, and is the same as a in the second.       *)
(*                                                                         *)
(* Deep: packages p and q, which build_depends on p, name the symbol b,    *)
(* free in the first version and without a prompt in the second.           *)
(***************************************************************************)
EXTENDS AutoConf

CONSTANTS a, b, p, q, k1, k2, y

Values == {No, y}

WidePkg == {p}
WideSym == {a, b}
WideCalc ==
  [k \in {k1, k2} |-> [c \in [WideSym -> Values] |->
     IF k = k2 THEN [c EXCEPT ![b] = c[a]]
     ELSE IF c[a] = No THEN [c EXCEPT ![b] = No] ELSE c]]
WideUses == [x \in WidePkg |-> WideSym]
WideDep == [x \in WidePkg |-> {}]

DeepPkg == {p, q}
DeepSym == {b}
DeepCalc ==
  [k \in {k1, k2} |-> [c \in [DeepSym -> Values] |->
                        IF k = k1 THEN c ELSE [c EXCEPT ![b] = No]]]
DeepUses == [x \in DeepPkg |-> {b}]
DeepDep == [x \in DeepPkg |-> IF x = p THEN {} ELSE {p}]
=============================================================================
