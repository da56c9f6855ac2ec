------------------------------- MODULE MCStaging -------------------------------
(***************************************************************************)
(* Instances of Staging for TLC: package q build_depends on p; p installs  *)
(* f, with one of two contents, or nothing; q installs g or nothing. The   *)
(* pattern of p's rootfs rule also matches the file of q.                  *)
(***************************************************************************)
EXTENDS Staging

CONSTANTS f, g, p, q, c1, c2

Packages == {p, q}
FileNames == {f, g}
Contents == {c1, c2}

Only(name, c) == [x \in FileNames |-> IF x = name THEN c ELSE None]
Empty == [x \in FileNames |-> None]

Installations ==
  [x \in Packages |-> IF x = p THEN {Only(f, c1), Only(f, c2), Empty}
                      ELSE {Only(g, c1), Empty}]
QAfterP == [x \in Packages |-> IF x = p THEN {} ELSE {p}]
Patterns == [x \in Packages |-> IF x = p THEN {f, g} ELSE {g}]
=============================================================================
