---------------------------- MODULE KconfigTree ----------------------------
(***************************************************************************)
(* The expressions of Kconfig as trees (expr.h).  A symbol, the constants  *)
(* n, m and y included, stands for itself; the values n, m and y are 0, 1  *)
(* and 2.                                                                  *)
(***************************************************************************)
EXTENDS Naturals

Const == {"n", "m", "y"}
Nil == [type |-> "NULL"]

Sym(s)         == [type |-> "SYMBOL", sym |-> s]
Not(e)         == [type |-> "NOT", left |-> e]
Two(type, a, b) == [type |-> type, left |-> a, right |-> b]
Cmp(type, s, v) == [type |-> type, sym |-> s, with |-> v]

Compare == {"EQUAL", "UNEQUAL"}
Joined == {"AND", "OR"}

Max2(a, b) == IF a >= b THEN a ELSE b
Min2(a, b) == IF a <= b THEN a ELSE b
=============================================================================
