---------------------------- MODULE MCKconfigExpr ----------------------------
EXTENDS KconfigExpr

(* A boolean and a tristate symbol.                                        *)
CONSTANTS A, T

MCCompared == {Cmp(t, T, v) : t \in Compare, v \in Const}
              \cup {Cmp("EQUAL", A, v) : v \in Const} \cup {Cmp("EQUAL", T, A)}

(* What the proofs assume of functions on trees, the operators of           *)
(* KconfigExpr satisfy on Few, the expressions of one or two operands, and *)
(* where they transform, on Closure: with what these are transformed to    *)
(* and the negations that are met on the way.                              *)
RECURSIVE Height(_), Below(_)
Height(e) == CASE e.type = "NOT"    -> 1 + Height(e.left)
               [] e.type \in Joined -> 1 + Max2(Height(e.left), Height(e.right))
               [] OTHER             -> 0
Below(e) == CASE e.type = "NOT"    -> {e} \cup Below(e.left)
              [] e.type \in Joined -> {e} \cup Below(e.left) \cup Below(e.right)
              [] OTHER             -> {e}
WithBelow(S) == UNION {Below(e) : e \in S}
WithTransformed(S) ==
  LET R == S \cup {Transform(e) : e \in S}
  IN WithBelow(R \cup {DeMorgan(x) : x \in {y \in R : WellFormed(y) /\ y.type \in Joined}})

Few == Operand \cup Written(1) \cup Written(2)
Closure == WithTransformed(WithTransformed(Few))
Sizes(S) == [e \in S |-> Height(e)]

Comparing == [type \in Compare |-> [e \in Few |-> TransCompare(e, type)]]
CompareResults == WithBelow({Comparing[type][e] : type \in Compare, e \in Few})

ASSUME RecursionAssumption ==
  /\ Trees(Closure, Sizes(Closure)) /\ Trees(CompareResults, Sizes(CompareResults))
  /\ \A val \in Valuations : \A S \in {Closure, CompareResults} :
       Evaluates([e \in S |-> Value(e, val)], S, val)
  /\ LET W == [e \in Closure |-> WellFormed(e)]
     IN /\ IsWellFormed(W, Closure)
        /\ Transforms([e \in Closure |-> Transform(e)],
                      [e \in Closure |-> IF W[e] THEN TransformNot(e) ELSE e], W, Closure)
  /\ Simplifies([e \in Closure |-> EliminateYn(e)], Closure)
  /\ \A s \in Symbols : Depends([e \in Closure |-> DependsSymbol(e, s)], s, Closure)
  /\ Trees(Few, Sizes(Few)) /\ TransBools([e \in Few |-> TransBool(e)], Few)
  /\ TransCompares(Comparing, Few, CompareResults)
=============================================================================
