---------------------------- MODULE KconfigRewrite ----------------------------
(***************************************************************************)
(* What expr.c makes of one node of an expression, given what it has made  *)
(* of the operands below: how the node is evaluated, simplified,           *)
(* transformed and compared, and which two operands are joined to one.     *)
(* KconfigExpr goes through the trees with these.                          *)
(***************************************************************************)
EXTENDS KconfigTree

CONSTANTS
  BoolSym,      \* the symbols of type S_BOOLEAN
  TriSym        \* the symbols of type S_TRISTATE

ASSUME SymbolAssumption ==
  /\ BoolSym \cap TriSym = {}
  /\ {"n", "m", "y", "none"} \cap (BoolSym \cup TriSym) = {}

Symbols == BoolSym \cup TriSym

No == Sym("n")
Yes == Sym("y")

(* The unit of AND is y and that of OR is n; the other one decides alone.  *)
Unit(type) == IF type = "AND" THEN "y" ELSE "n"
Decides(type) == IF type = "AND" THEN "n" ELSE "y"
Dual(type) == IF type = "AND" THEN "OR" ELSE "AND"
Opposite(type) == IF type = "EQUAL" THEN "UNEQUAL" ELSE "EQUAL"
ThirdAsCommented(u, v) ==
  IF {u, v} = {"m", "n"} THEN "m" ELSE CHOOSE w \in Const : w \notin {u, v}
Third(u, v) == CHOOSE w \in Const : w \notin {u, v}

-----------------------------------------------------------------------------
(* What an expression is worth: n, m and y are 0, 1 and 2, val gives the   *)
(* value of every symbol, l and r are what the operands are worth.         *)
Worth(e, val, l, r) ==
  CASE e.type = "NULL"    -> 2
    [] e.type = "SYMBOL"  -> val[e.sym]
    [] e.type = "AND"     -> Min2(l, r)
    [] e.type = "OR"      -> Max2(l, r)
    [] e.type = "NOT"     -> 2 - l
    [] e.type = "EQUAL"   -> IF val[e.sym] = val[e.with] THEN 2 ELSE 0
    [] e.type = "UNEQUAL" -> IF val[e.sym] = val[e.with] THEN 0 ELSE 2

Valuations ==
  {val \in [Symbols \cup Const -> 0..2] :
     /\ val["n"] = 0 /\ val["m"] = 1 /\ val["y"] = 2
     /\ \A s \in BoolSym : val[s] # 1}

-----------------------------------------------------------------------------
Simpler(type, l, r) ==
  CASE Sym(Decides(type)) \in {l, r} -> Sym(Decides(type))
    [] Sym(Unit(type)) = l           -> r
    [] Sym(Unit(type)) = r           -> l
    [] OTHER                         -> Two(type, l, r)
SimplerNode(e, l, r) == IF e.type \in Joined THEN Simpler(e.type, l, r) ELSE e

(* No negation but of a symbol, and no comparison of a boolean with n, m   *)
(* or y.  TransformNode gets for a negation what becomes of the operand    *)
(* negated; x is an operand that was transformed, and both what becomes of *)
(* its own two operands negated and connected by the other connective.     *)
TransformCompare(e) ==
  IF e.sym \notin BoolSym \/ e.with \notin Const THEN e
  ELSE IF e.with = "m" THEN IF e.type = "EQUAL" THEN No ELSE Yes
  ELSE IF (e.type = "EQUAL") = (e.with = "y") THEN Sym(e.sym) ELSE Not(Sym(e.sym))

TransformNode(e, l, r, negated) ==
  CASE e.type \in Compare -> TransformCompare(e)
    [] e.type \in Joined  -> Two(e.type, l, r)
    [] e.type = "NOT"     -> negated
    [] OTHER              -> e

DeMorgan(x) == Two(Dual(x.type), Not(x.left), Not(x.right))

NegatedNode(x, inner, both) ==
  CASE x.type = "NOT"     -> inner
    [] x.type \in Compare -> Cmp(Opposite(x.type), x.sym, x.with)
    [] x.type \in Joined  -> both
    [] x \in {Yes, No}    -> IF x = Yes THEN No ELSE Yes
    [] x = Sym("m")       -> x
    [] OTHER              -> Not(x)

(* A tristate that is not n may be m, of which a boolean is visible.       *)
TransBoolNodeAny(e, l, r) ==
  CASE e.type \in Joined -> Two(e.type, l, r)
    [] e.type = "NOT"    -> Not(l)
    [] e.type = "UNEQUAL" /\ e.sym \in TriSym /\ e.with # "m" -> Sym(e.sym)
    [] OTHER             -> e

TransBoolNode(e, l, r) ==
  CASE e.type \in Joined -> Two(e.type, l, r)
    [] e.type = "NOT"    -> Not(l)
    [] e.type = "UNEQUAL" /\ e.sym \in TriSym /\ e.with = "n" -> Sym(e.sym)
    [] OTHER             -> e

(* e = n or e != n, without comparing anything but symbols; l and r are    *)
(* the operands compared to be equal, other is the left one compared the   *)
(* other way.                                                              *)
TransCompareNode(e, type, l, r, other) ==
  LET Negated(x) == IF type = "UNEQUAL" THEN Not(x) ELSE x
  IN CASE e.type = "NULL"    -> Negated(No)
       [] e.type \in Joined  -> Negated(Two(Dual(e.type), l, r))
       [] e.type = "NOT"     -> other
       [] e.type \in Compare -> IF type = "EQUAL" THEN Not(e) ELSE e
       [] e.type = "SYMBOL"  -> Cmp(type, e.sym, "n")

(* Whether an expression is n as long as s is, as far as this is looked    *)
(* for.                                                                    *)
DependsNodeSomewhere(e, s, l, r) ==
  \/ e.type = "SYMBOL" /\ e.sym = s
  \/ e.type \in Joined /\ (l \/ r)

DependsNode(e, s, l, r) ==
  CASE e.type = "SYMBOL"  -> e.sym = s
    [] e.type = "EQUAL"   -> e.sym = s /\ e.with \in {"y", "m"}
    [] e.type = "UNEQUAL" -> e.sym = s /\ e.with = "n"
    [] e.type = "AND"     -> l \/ r
    [] OTHER              -> FALSE

-----------------------------------------------------------------------------
(* Two operands that say something of one symbol may join to one; NULL is  *)
(* the answer when they do not.                                            *)
Leaf == {"EQUAL", "UNEQUAL", "SYMBOL"}
Positive(e) == IF e.type = "NOT" THEN e.left ELSE e
SameLeaf(a, b, ofA, ofB) ==
  /\ ofA.type \in Leaf /\ ofB.type \in Leaf /\ (b.type = "NOT" => ofB.type = "SYMBOL")
  /\ ofA.sym = ofB.sym /\ ofA.sym \in Symbols
JoinSym(a, b) == IF SameLeaf(a, b, Positive(a), Positive(b)) THEN Positive(a).sym ELSE "none"

JoinOrSym(a, b, s) ==
  CASE s \in TriSym /\ a.type = "EQUAL" /\ b.type = "EQUAL" /\ {a.with, b.with} \subseteq Const ->
         Cmp("UNEQUAL", s, Third(a.with, b.with))
    [] s \in BoolSym /\ {a, b} = {Not(Sym(s)), Sym(s)} -> Yes
    [] OTHER -> Nil

Equals(s, v, w) == IF v # w THEN Cmp("EQUAL", s, v) ELSE No
JoinCompared(a, b, s) ==
  CASE a.type = "EQUAL" /\ b.type = "UNEQUAL"   -> Equals(s, a.with, b.with)
    [] a.type = "UNEQUAL" /\ b.type = "EQUAL"   -> Equals(s, b.with, a.with)
    [] a.type = "UNEQUAL" /\ b.type = "UNEQUAL" -> Cmp("EQUAL", s, Third(a.with, b.with))
    [] OTHER                                    -> Nil
JoinAndSym(a, b, s) ==
  CASE s # "none" /\ {a, b} \in {{Sym(s), Cmp("EQUAL", s, "y")}, {Sym(s), Cmp("UNEQUAL", s, "m")}} ->
         Cmp("EQUAL", s, "y")
    [] s # "none" /\ {a, b} = {Sym(s), Cmp("UNEQUAL", s, "n")} -> Sym(s)
    [] s \in TriSym /\ a.type \in Compare /\ b.type \in Compare /\ {a.with, b.with} \subseteq Const ->
         JoinCompared(a, b, s)
    [] OTHER -> Nil

-----------------------------------------------------------------------------
(* After expr_transform negations are of symbols only, and no boolean is   *)
(* compared with a constant.                                               *)
WellFormedNode(e, l, r) ==
  \/ e.type = "SYMBOL" /\ e.sym \in Symbols \cup Const
  \/ e.type \in Compare /\ e.sym \in TriSym \cup Const /\ e.with \in Const \cup Symbols
  \/ e.type \in Compare /\ e.sym \in BoolSym /\ e.with \in Symbols
  \/ e.type = "NOT" /\ e.left.type = "SYMBOL" /\ e.left.sym \in Symbols
  \/ e.type \in Joined /\ l /\ r

(* A recursion over trees, as a function on a set E of trees that has the  *)
(* trees below each of its trees; size says which ones are below.  What is *)
(* said of every such E is said of every tree, and needs no recursion.     *)
Operand == {Sym(s) : s \in Symbols \cup Const}
           \cup {Cmp(t, s, v) : t \in Compare, s, v \in Symbols \cup Const}

Trees(E, size) ==
  /\ size \in [E -> Nat]
  /\ \A e \in E :
       \/ e \in Operand
       \/ \E a \in E : e = Not(a) /\ size[a] < size[e]
       \/ \E t \in Joined : \E a, b \in E :
             e = Two(t, a, b) /\ size[a] < size[e] /\ size[b] < size[e]

Evaluates(V, E, val) == \A e \in E : V[e] = Worth(e, val, V[e.left], V[e.right])
Simplifies(R, E) == R \in [E -> E] /\ \A e \in E : R[e] = SimplerNode(e, R[e.left], R[e.right])
IsWellFormed(W, E) ==
  W \in [E -> BOOLEAN] /\ \A e \in E : W[e] = WellFormedNode(e, W[e.left], W[e.right])
TransBools(B, E) == B \in [E -> E] /\ \A e \in E : B[e] = TransBoolNode(e, B[e.left], B[e.right])
Depends(D, s, E) ==
  D \in [E -> BOOLEAN] /\ \A e \in E : D[e] = DependsNode(e, s, D[e.left], D[e.right])

(* N is the transformation of the negation of a tree that was transformed. *)
Transforms(T, N, W, E) ==
  /\ T \in [E -> E] /\ N \in [E -> E]
  /\ \A e \in E : T[e] = TransformNode(e, T[e.left], T[e.right], N[T[e.left]])
  /\ \A x \in E : W[x] =>
       /\ x.type \in Joined => DeMorgan(x) \in E
       /\ N[x] = NegatedNode(x, T[x.left], T[DeMorgan(x)])

(* The trees of E, compared with n, are in F.                              *)
TransCompares(C, E, F) ==
  /\ C \in [Compare -> [E -> F]]
  /\ \A type \in Compare : \A e \in E :
       C[type][e] = TransCompareNode(e, type, C["EQUAL"][e.left], C["EQUAL"][e.right],
                                     C[Opposite(type)][e.left])
=============================================================================
