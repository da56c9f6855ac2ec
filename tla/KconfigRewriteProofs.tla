------------------------- MODULE KconfigRewriteProofs -------------------------
(* For expressions of any size over any boolean and tristate symbols, and  *)
(* all values of these: what expr.c makes of an expression node by node is *)
(* worth what the expression was worth.                                    *)
EXTENDS KconfigRewrite, WellFoundedInduction, TLAPS

(* Every set of numbers has a least one.                                   *)
LEMMA Least ==
  ASSUME NEW S \in SUBSET Nat, S # {}
  PROVE  \E n \in S : \A m \in S : ~(m < n)
<1> DEFINE R == OpToRel(<, Nat)
<1>1. IsWellFoundedOn(R, Nat) BY NatLessThanWellFounded
<1>2. \A m, n \in Nat : m < n => <<m, n>> \in R BY DEF OpToRel
<1> HIDE DEF R
<1>3. PICK n \in S : \A m \in S : <<m, n>> \notin R BY <1>1, WFMin
<1> QED BY <1>2, <1>3

(* A set that has every tree whose smaller ones it has, has all of them.   *)
LEMMA TreeInduction ==
  ASSUME NEW E, NEW size \in [E -> Nat], NEW G,
         \A e \in E : (\A a \in E : size[a] < size[e] => a \in G) => e \in G
  PROVE  E \subseteq G
<1> DEFINE S == {size[e] : e \in E \ G}
<1>1. SUFFICES ASSUME E \ G # {} PROVE FALSE OBVIOUS
<1>2. S # {} /\ S \in SUBSET Nat BY <1>1
<1>3. PICK n \in S : \A m \in S : ~(m < n)
  <2> HIDE DEF S
  <2> QED BY <1>2, Least
<1>4. PICK e \in E \ G : n = size[e] BY <1>3
<1>5. \A a \in E : size[a] < size[e] => a \in G BY <1>3, <1>4
<1> QED BY <1>4, <1>5

--------------------------------------------------------------------------------
(* One node. *)

(* An operand is a symbol or a comparison of two.                          *)
LEMMA Operands ==
  ASSUME NEW e \in Operand
  PROVE  /\ e.type \in {"SYMBOL", "EQUAL", "UNEQUAL"}
         /\ e.type = "SYMBOL" => e.sym \in Symbols \cup Const /\ e = Sym(e.sym)
         /\ e.type \in Compare => /\ e.sym \in Symbols \cup Const /\ e.with \in Symbols \cup Const
                                  /\ e = Cmp(e.type, e.sym, e.with)
BY DEF Operand, Sym, Cmp, Compare

(* Trees are told apart by their types.                                    *)
LEMMA Shapes ==
  /\ \A s : Sym(s).type = "SYMBOL" /\ Sym(s).sym = s
  /\ \A a : Not(a).type = "NOT" /\ Not(a).left = a
  /\ \A t, a, b : Two(t, a, b).type = t /\ Two(t, a, b).left = a /\ Two(t, a, b).right = b
  /\ \A t, s, v : Cmp(t, s, v).type = t /\ Cmp(t, s, v).sym = s /\ Cmp(t, s, v).with = v
BY DEF Sym, Not, Two, Cmp

(* The alternatives of a negated node exclude each other.                  *)
LEMMA NegatedNodes ==
  ASSUME NEW x, NEW inner, NEW both
  PROVE  LET n == NegatedNode(x, inner, both)
         IN /\ x.type = "NOT" => n = inner
            /\ x.type \in Compare => n = Cmp(Opposite(x.type), x.sym, x.with)
            /\ x.type \in Joined => n = both
            /\ x = Yes => n = No
            /\ x = No => n = Yes
            /\ x = Sym("m") => n = x
            /\ x.type = "SYMBOL" /\ x \notin {Yes, No, Sym("m")} => n = Not(x)
<1>1. /\ Yes.type = "SYMBOL" /\ No.type = "SYMBOL" /\ Sym("m").type = "SYMBOL"
      /\ Yes # No /\ Yes # Sym("m") /\ No # Sym("m")
  BY DEF Yes, No, Sym
<1> HIDE DEF Yes, No
<1> QED BY <1>1 DEF NegatedNode, Compare, Joined

(* What a tree is worth in terms of what is below it.                      *)
LEMMA ValueOf ==
  ASSUME NEW E, NEW val, NEW V, Evaluates(V, E, val)
  PROVE  /\ \A s : Sym(s) \in E => V[Sym(s)] = val[s]
         /\ \A a : Not(a) \in E => V[Not(a)] = 2 - V[a]
         /\ \A a, b : Two("AND", a, b) \in E => V[Two("AND", a, b)] = Min2(V[a], V[b])
         /\ \A a, b : Two("OR", a, b) \in E => V[Two("OR", a, b)] = Max2(V[a], V[b])
         /\ \A s, v : Cmp("EQUAL", s, v) \in E =>
              V[Cmp("EQUAL", s, v)] = IF val[s] = val[v] THEN 2 ELSE 0
         /\ \A s, v : Cmp("UNEQUAL", s, v) \in E =>
              V[Cmp("UNEQUAL", s, v)] = IF val[s] = val[v] THEN 0 ELSE 2
BY DEF Evaluates, Worth, Sym, Not, Two, Cmp

(* What an expression is worth is n, m or y.                               *)
LEMMA InRange ==
  ASSUME NEW E, NEW size, Trees(E, size), NEW val \in Valuations, NEW V, Evaluates(V, E, val)
  PROVE  \A e \in E : V[e] \in 0..2
<1> DEFINE G == {e \in E : V[e] \in 0..2}
<1>1. \A s \in Symbols \cup Const : val[s] \in 0..2 BY DEF Valuations
<1>2. ASSUME NEW e \in E, \A a \in E : size[a] < size[e] => a \in G PROVE e \in G
  <2>1. CASE e \in Operand
    BY <2>1, <1>1, Operands, ValueOf DEF Compare
  <2>2. CASE \E a \in E : e = Not(a) /\ size[a] < size[e]
    BY <2>2, <1>2, ValueOf
  <2>3. ASSUME NEW t \in Joined, NEW a \in E, NEW b \in E, e = Two(t, a, b),
               size[a] < size[e], size[b] < size[e]
        PROVE  e \in G
    BY <2>3, <1>2, ValueOf DEF Joined, Min2, Max2
  <2> QED BY <2>1, <2>2, <2>3 DEF Trees
<1>3. E \subseteq G
  <2> HIDE DEF G
  <2> QED BY <1>2, TreeInduction DEF Trees
<1> QED BY <1>3

--------------------------------------------------------------------------------
(* Trees. *)

(* Of the constants a connective has a unit and one that decides alone.    *)
LEMMA SimplerWorth ==
  ASSUME NEW E, NEW size, Trees(E, size), NEW val \in Valuations, NEW V, Evaluates(V, E, val),
         NEW t \in Joined, NEW l \in E, NEW r \in E, Simpler(t, l, r) \in E
  PROVE  V[Simpler(t, l, r)] = IF t = "AND" THEN Min2(V[l], V[r]) ELSE Max2(V[l], V[r])
<1>1. V[l] \in 0..2 /\ V[r] \in 0..2 BY InRange
<1>2. val["n"] = 0 /\ val["y"] = 2 BY DEF Valuations
<1>3. \A e \in {l, r} : /\ e = Sym("n") => V[e] = 0
                        /\ e = Sym("y") => V[e] = 2
  BY <1>2, ValueOf
<1>4. CASE Sym(Decides(t)) \in {l, r}
  <2>1. Simpler(t, l, r) = Sym(Decides(t)) BY <1>4 DEF Simpler, Sym, Decides, Unit
  <2>2. t = "AND" => V[Sym(Decides(t))] = 0 BY <1>3, <1>4 DEF Decides
  <2>3. t = "OR" => V[Sym(Decides(t))] = 2 BY <1>3, <1>4 DEF Decides
  <2>4. V[Sym(Decides(t))] \in {V[l], V[r]} BY <1>4
  <2> QED BY <1>1, <2>1, <2>2, <2>3, <2>4 DEF Joined, Min2, Max2
<1>5. CASE Sym(Decides(t)) \notin {l, r} /\ Sym(Unit(t)) \in {l, r}
  BY <1>1, <1>3, <1>5 DEF Simpler, Unit, Joined, Min2, Max2
<1>6. CASE {Sym(Decides(t)), Sym(Unit(t))} \cap {l, r} = {}
  <2>1. Simpler(t, l, r) = Two(t, l, r) BY <1>6 DEF Simpler
  <2> QED BY <2>1, ValueOf DEF Joined
<1> QED BY <1>4, <1>5, <1>6

(* expr_eliminate_yn takes the constants out of an expression and leaves   *)
(* what it is worth, m included.                                           *)
THEOREM SimplifiedIsWorthTheSame ==
  ASSUME NEW E, NEW size, Trees(E, size), NEW val \in Valuations, NEW V, Evaluates(V, E, val),
         NEW R, Simplifies(R, E)
  PROVE  \A e \in E : V[R[e]] = V[e]
<1> DEFINE G == {e \in E : V[R[e]] = V[e]}
<1>1. ASSUME NEW e \in E, \A a \in E : size[a] < size[e] => a \in G PROVE e \in G
  <2>1. R[e] = SimplerNode(e, R[e.left], R[e.right]) BY DEF Simplifies
  <2>2. CASE e \in Operand
    BY <2>1, <2>2, Operands DEF SimplerNode, Joined
  <2>3. CASE \E a \in E : e = Not(a)
    BY <2>1, <2>3 DEF SimplerNode, Joined, Not
  <2>4. ASSUME NEW t \in Joined, NEW a \in E, NEW b \in E, e = Two(t, a, b),
               size[a] < size[e], size[b] < size[e]
        PROVE  e \in G
    <3>1. R[e] = Simpler(t, R[a], R[b]) BY <2>1, <2>4 DEF SimplerNode, Two
    <3>2. R[e] \in E /\ R[a] \in E /\ R[b] \in E BY DEF Simplifies
    <3>3. V[R[a]] = V[a] /\ V[R[b]] = V[b] BY <1>1, <2>4
    <3>4. V[R[e]] = IF t = "AND" THEN Min2(V[a], V[b]) ELSE Max2(V[a], V[b])
      BY <3>1, <3>2, <3>3, SimplerWorth
    <3>5. V[e] = IF t = "AND" THEN Min2(V[a], V[b]) ELSE Max2(V[a], V[b])
      BY <2>4, ValueOf DEF Joined
    <3> QED BY <3>4, <3>5
  <2> QED BY <2>2, <2>3, <2>4 DEF Trees
<1>2. E \subseteq G
  <2> HIDE DEF G
  <2> QED BY <1>1, TreeInduction DEF Trees
<1> QED BY <1>2

(* expr_trans_bool, which the prompts of booleans go through, keeps when   *)
(* an expression with negations of symbols only is n.                      *)
THEOREM TransBoolHidesTheSame ==
  ASSUME NEW E, NEW size, Trees(E, size), NEW val \in Valuations, NEW V, Evaluates(V, E, val),
         NEW B, TransBools(B, E), NEW W, IsWellFormed(W, E)
  PROVE  \A e \in E : W[e] => (V[B[e]] = 0 <=> V[e] = 0)
<1> DEFINE G == {e \in E : W[e] => (V[B[e]] = 0 <=> V[e] = 0)}
<1>1. \A e \in E : B[e] \in E /\ V[e] \in 0..2 /\ V[B[e]] \in 0..2
  BY InRange DEF TransBools
<1>2. ASSUME NEW e \in E, \A a \in E : size[a] < size[e] => a \in G PROVE e \in G
  <2>1. /\ B[e] = TransBoolNode(e, B[e.left], B[e.right])
        /\ W[e] = WellFormedNode(e, W[e.left], W[e.right])
    BY DEF TransBools, IsWellFormed
  <2>2. CASE e \in Operand /\ ~(e.type = "UNEQUAL" /\ e.sym \in TriSym /\ e.with = "n")
    BY <2>1, <2>2, Operands DEF TransBoolNode, Joined
  <2>3. CASE e \in Operand /\ e.type = "UNEQUAL" /\ e.sym \in TriSym /\ e.with = "n"
    <3>1. B[e] = Sym(e.sym) BY <2>1, <2>3 DEF TransBoolNode, Joined
    <3>2. V[B[e]] = val[e.sym] BY <3>1, <1>1, ValueOf
    <3>3. e = Cmp("UNEQUAL", e.sym, "n") BY <2>3, Operands DEF Compare
    <3>4. V[e] = IF val[e.sym] = val["n"] THEN 0 ELSE 2 BY <3>3, ValueOf
    <3> QED BY <3>2, <3>4 DEF Valuations
  <2>4. ASSUME NEW a \in E, e = Not(a) PROVE e \in G
    <3>1. SUFFICES ASSUME W[e] PROVE V[B[e]] = V[e] OBVIOUS
    <3>2. a.type = "SYMBOL"
      BY <2>1, <2>4, <3>1 DEF WellFormedNode, Not, Compare, Joined
    <3>3. B[a] = a BY <3>2 DEF TransBools, TransBoolNode, Joined
    <3>4. B[e] = Not(a) BY <2>1, <2>4, <3>3 DEF TransBoolNode, Not, Joined
    <3> QED BY <2>4, <3>4
  <2>5. ASSUME NEW t \in Joined, NEW a \in E, NEW b \in E, e = Two(t, a, b),
               size[a] < size[e], size[b] < size[e], W[e]
        PROVE  V[B[e]] = 0 <=> V[e] = 0
    <3>1. W[a] /\ W[b] BY <2>1, <2>5 DEF WellFormedNode, Two, Compare, Joined
    <3>2. /\ V[B[a]] = 0 <=> V[a] = 0
          /\ V[B[b]] = 0 <=> V[b] = 0 BY <1>2, <2>5, <3>1
    <3>3. B[e] = Two(t, B[a], B[b]) BY <2>1, <2>5 DEF TransBoolNode, Two, Joined
    <3>4. V[e] = IF t = "AND" THEN Min2(V[a], V[b]) ELSE Max2(V[a], V[b])
      BY <2>5, ValueOf DEF Joined
    <3>5. V[B[e]] = IF t = "AND" THEN Min2(V[B[a]], V[B[b]]) ELSE Max2(V[B[a]], V[B[b]])
      BY <3>3, <1>1, ValueOf DEF Joined
    <3> QED BY <1>1, <3>2, <3>4, <3>5 DEF Min2, Max2
  <2> QED BY <2>2, <2>3, <2>4, <2>5 DEF Trees
<1>3. E \subseteq G
  <2> HIDE DEF G
  <2> QED BY <1>2, TreeInduction DEF Trees
<1> QED BY <1>3

(* An expression that expr_depends_symbol finds to depend on a symbol is n *)
(* as long as that one is: an entry that menu_finalize puts below the one  *)
(* of the symbol for this reason is invisible then.                        *)
THEOREM DependentIsHidden ==
  ASSUME NEW E, NEW size, Trees(E, size), NEW val \in Valuations, NEW V, Evaluates(V, E, val),
         NEW s \in Symbols, NEW D, Depends(D, s, E), val[s] = 0
  PROVE  \A e \in E : D[e] => V[e] = 0
<1> DEFINE G == {e \in E : D[e] => V[e] = 0}
<1>1. \A e \in E : V[e] \in 0..2 BY InRange
<1>2. ASSUME NEW e \in E, \A a \in E : size[a] < size[e] => a \in G PROVE e \in G
  <2>1. D[e] = DependsNode(e, s, D[e.left], D[e.right]) BY DEF Depends
  <2>2. CASE e \in Operand
    <3>1. SUFFICES ASSUME D[e] PROVE V[e] = 0 OBVIOUS
    <3>2. val["n"] = 0 /\ val["m"] = 1 /\ val["y"] = 2 BY DEF Valuations
    <3>3. CASE e.type = "SYMBOL"
      <4>1. e.sym = s BY <2>1, <3>1, <3>3 DEF DependsNode
      <4> QED BY <2>2, <3>3, <4>1, Operands, ValueOf
    <3>4. CASE e.type = "EQUAL"
      <4>1. e.sym = s /\ e.with \in {"y", "m"} BY <2>1, <3>1, <3>4 DEF DependsNode
      <4>2. e = Cmp("EQUAL", s, e.with) BY <2>2, <3>4, <4>1, Operands DEF Compare
      <4> QED BY <3>2, <4>1, <4>2, ValueOf
    <3>5. CASE e.type = "UNEQUAL"
      <4>1. e.sym = s /\ e.with = "n" BY <2>1, <3>1, <3>5 DEF DependsNode
      <4>2. e = Cmp("UNEQUAL", s, "n") BY <2>2, <3>5, <4>1, Operands DEF Compare
      <4> QED BY <3>2, <4>2, ValueOf
    <3> QED BY <2>2, <3>3, <3>4, <3>5, Operands
  <2>3. CASE \E a \in E : e = Not(a)
    <3>1. e.type = "NOT" BY <2>3 DEF Not
    <3>2. DependsNode(e, s, D[e.left], D[e.right]) = FALSE BY <3>1 DEF DependsNode
    <3> QED BY <2>1, <3>2
  <2>4. ASSUME NEW t \in Joined, NEW a \in E, NEW b \in E, e = Two(t, a, b),
               size[a] < size[e], size[b] < size[e], D[e]
        PROVE  V[e] = 0
    <3>1. t = "AND" /\ (D[a] \/ D[b]) BY <2>1, <2>4 DEF DependsNode, Two, Joined
    <3>2. V[a] = 0 \/ V[b] = 0 BY <1>2, <2>4, <3>1
    <3>3. V[e] = Min2(V[a], V[b]) BY <2>4, <3>1, ValueOf
    <3> QED BY <1>1, <3>2, <3>3 DEF Min2
  <2> QED BY <2>2, <2>3, <2>4 DEF Trees
<1>3. E \subseteq G
  <2> HIDE DEF G
  <2> QED BY <1>2, TreeInduction DEF Trees
<1> QED BY <1>3

(* expr_trans_compare writes e != n (or e = n) with comparisons of symbols *)
(* alone: the result is y when e is (or is not) something else than n, and *)
(* n otherwise, as long as nothing is m.                                   *)
THEOREM ComparedWithNo ==
  ASSUME NEW E, NEW size, Trees(E, size), NEW F, NEW sizeF, Trees(F, sizeF),
         NEW val \in Valuations, \A s \in Symbols : val[s] # 1, Sym("m") \notin E,
         NEW V, Evaluates(V, E, val), NEW X, Evaluates(X, F, val), NEW C, TransCompares(C, E, F)
  PROVE  \A e \in E : \/ V[e] = 0 /\ X[C["UNEQUAL"][e]] = 0 /\ X[C["EQUAL"][e]] = 2
                      \/ V[e] = 2 /\ X[C["UNEQUAL"][e]] = 2 /\ X[C["EQUAL"][e]] = 0
<1> DEFINE G == {e \in E : \/ V[e] = 0 /\ X[C["UNEQUAL"][e]] = 0 /\ X[C["EQUAL"][e]] = 2
                           \/ V[e] = 2 /\ X[C["UNEQUAL"][e]] = 2 /\ X[C["EQUAL"][e]] = 0}
<1>1. ASSUME NEW e \in E, \A a \in E : size[a] < size[e] => a \in G PROVE e \in G
  <2> DEFINE l == C["EQUAL"][e.left]
             r == C["EQUAL"][e.right]
  <2>1. /\ C["UNEQUAL"][e] \in F /\ C["EQUAL"][e] \in F
        /\ C["UNEQUAL"][e] = TransCompareNode(e, "UNEQUAL", l, r, C["EQUAL"][e.left])
        /\ C["EQUAL"][e] = TransCompareNode(e, "EQUAL", l, r, C["UNEQUAL"][e.left])
    BY DEF TransCompares, Compare, Opposite
  <2>2. /\ val["n"] = 0 /\ val["m"] = 1 /\ val["y"] = 2
        /\ \A s \in (Symbols \cup Const) \ {"m"} : val[s] \in {0, 2}
    BY DEF Valuations, Const
  <2>3. CASE e \in Operand /\ e.type = "SYMBOL"
    <3>1. e = Sym(e.sym) /\ e.sym \in (Symbols \cup Const) \ {"m"} BY <2>3, Operands
    <3>2. V[e] = val[e.sym] BY <3>1, ValueOf
    <3>3. C["UNEQUAL"][e] = Cmp("UNEQUAL", e.sym, "n") /\ C["EQUAL"][e] = Cmp("EQUAL", e.sym, "n")
      BY <2>1, <2>3 DEF TransCompareNode, Joined, Compare
    <3>4. /\ X[C["UNEQUAL"][e]] = IF val[e.sym] = val["n"] THEN 0 ELSE 2
          /\ X[C["EQUAL"][e]] = IF val[e.sym] = val["n"] THEN 2 ELSE 0
      BY <2>1, <3>3, ValueOf
    <3>5. val[e.sym] = 0 \/ val[e.sym] = 2 BY <2>2, <3>1
    <3> QED BY <2>2, <3>2, <3>4, <3>5
  <2>4. CASE e \in Operand /\ e.type \in Compare
    <3>1. C["UNEQUAL"][e] = e /\ C["EQUAL"][e] = Not(e)
      BY <2>1, <2>4 DEF TransCompareNode, Joined, Compare
    <3>2. e = Cmp(e.type, e.sym, e.with) BY <2>4, Operands
    <3>3. V[e] = X[e] /\ V[e] \in {0, 2}
      BY <2>1, <2>4, <3>1, <3>2, ValueOf DEF Compare
    <3>4. X[Not(e)] = 2 - X[e] BY <2>1, <3>1, ValueOf
    <3>5. X[C["UNEQUAL"][e]] = V[e] /\ X[C["EQUAL"][e]] = 2 - V[e] BY <3>1, <3>3, <3>4
    <3>6. V[e] = 0 \/ V[e] = 2 BY <3>3
    <3> QED BY <3>5, <3>6
  <2>5. ASSUME NEW a \in E, e = Not(a), size[a] < size[e] PROVE e \in G
    <3>1. C["UNEQUAL"][e] = C["EQUAL"][a] /\ C["EQUAL"][e] = C["UNEQUAL"][a]
      BY <2>1, <2>5 DEF TransCompareNode, Not, Joined, Compare
    <3>2. V[e] = 2 - V[a] BY <2>5, ValueOf
    <3>3. a \in G BY <1>1, <2>5
    <3> QED BY <3>1, <3>2, <3>3
  <2>6. ASSUME NEW t \in Joined, NEW a \in E, NEW b \in E, e = Two(t, a, b),
               size[a] < size[e], size[b] < size[e]
        PROVE  e \in G
    <3> DEFINE d == Two(Dual(t), C["EQUAL"][a], C["EQUAL"][b])
    <3>1. C["UNEQUAL"][e] = Not(d) /\ C["EQUAL"][e] = d
      BY <2>1, <2>6 DEF TransCompareNode, Two, Joined, Compare
    <3>2. X[Not(d)] = 2 - X[d] BY <2>1, <3>1, ValueOf
    <3>3. X[d] = IF t = "OR" THEN Min2(X[C["EQUAL"][a]], X[C["EQUAL"][b]])
                             ELSE Max2(X[C["EQUAL"][a]], X[C["EQUAL"][b]])
      BY <2>1, <3>1, ValueOf DEF Joined, Dual
    <3>4. V[e] = IF t = "AND" THEN Min2(V[a], V[b]) ELSE Max2(V[a], V[b])
      BY <2>6, ValueOf DEF Joined
    <3>5. a \in G /\ b \in G BY <1>1, <2>6
    <3> HIDE DEF d
    <3> QED BY <3>1, <3>2, <3>3, <3>4, <3>5 DEF Joined, Min2, Max2
  <2> QED BY <2>3, <2>4, <2>5, <2>6, Operands DEF Trees, Compare
<1>2. E \subseteq G
  <2> HIDE DEF G
  <2> QED BY <1>1, TreeInduction DEF Trees
<1> QED BY <1>2

(* A tree that has been transformed is transformed to itself.              *)
LEMMA TransformedStays ==
  ASSUME NEW E, NEW size, Trees(E, size), NEW W, IsWellFormed(W, E),
         NEW T, NEW N, Transforms(T, N, W, E)
  PROVE  \A e \in E : W[e] => T[e] = e
<1> DEFINE G == {e \in E : W[e] => T[e] = e}
<1>1. ASSUME NEW e \in E, \A a \in E : size[a] < size[e] => a \in G, W[e] PROVE T[e] = e
  <2>1. /\ T[e] = TransformNode(e, T[e.left], T[e.right], N[T[e.left]])
        /\ WellFormedNode(e, W[e.left], W[e.right])
    BY <1>1 DEF Transforms, IsWellFormed
  <2>2. CASE e \in Operand /\ e.type = "SYMBOL"
    BY <2>1, <2>2 DEF TransformNode, Compare, Joined
  <2>3. CASE e \in Operand /\ e.type \in Compare
    <3>1. e.sym \notin BoolSym \/ e.with \notin Const
      BY <2>1, <2>3, SymbolAssumption DEF WellFormedNode, Compare, Joined, Const, Symbols
    <3>2. T[e] = TransformCompare(e) BY <2>1, <2>3 DEF TransformNode, Compare, Joined
    <3> QED BY <3>1, <3>2 DEF TransformCompare
  <2>4. ASSUME NEW a \in E, e = Not(a) PROVE T[e] = e
    <3>1. a.type = "SYMBOL" /\ a.sym \in Symbols
      BY <2>1, <2>4 DEF WellFormedNode, Not, Compare, Joined
    <3>2. T[a] = a BY <3>1 DEF Transforms, TransformNode, Compare, Joined
    <3>3. W[a] BY <3>1 DEF IsWellFormed, WellFormedNode
    <3>4. N[a] = NegatedNode(a, T[a.left], T[DeMorgan(a)]) BY <3>3 DEF Transforms
    <3>5. a.sym \notin Const BY <3>1, SymbolAssumption DEF Symbols, Const
    <3>6. a \notin {Yes, No, Sym("m")} BY <3>5 DEF Yes, No, Sym, Const
    <3>7. N[a] = Not(a) BY <3>1, <3>4, <3>6 DEF NegatedNode, Compare, Joined
    <3> QED BY <2>1, <2>4, <3>2, <3>7 DEF TransformNode, Not, Compare, Joined
  <2>5. ASSUME NEW t \in Joined, NEW a \in E, NEW b \in E, e = Two(t, a, b),
               size[a] < size[e], size[b] < size[e]
        PROVE  T[e] = e
    <3>1. W[a] /\ W[b] BY <2>1, <2>5 DEF WellFormedNode, Two, Compare, Joined
    <3>2. T[a] = a /\ T[b] = b BY <1>1, <2>5, <3>1
    <3> QED BY <2>1, <2>5, <3>2 DEF TransformNode, Two, Compare, Joined
  <2> QED BY <2>2, <2>3, <2>4, <2>5, Operands DEF Trees, Compare
<1>2. E \subseteq G
  <2>1. \A e \in E : (\A a \in E : size[a] < size[e] => a \in G) => e \in G BY <1>1
  <2> HIDE DEF G
  <2> QED BY <2>1, TreeInduction DEF Trees
<1> QED BY <1>2

(* The trees below a connective's negation by De Morgan are trees.         *)
LEMMA DeMorganBelow ==
  ASSUME NEW E, NEW size, Trees(E, size), NEW t \in Joined, NEW a, NEW b,
         DeMorgan(Two(t, a, b)) \in E
  PROVE  /\ DeMorgan(Two(t, a, b)) = Two(Dual(t), Not(a), Not(b))
         /\ Not(a) \in E /\ Not(b) \in E
<1> DEFINE d == Two(Dual(t), Not(a), Not(b))
<1>1. DeMorgan(Two(t, a, b)) = d BY DEF DeMorgan, Two
<1>2. d.type \in Joined /\ d.left = Not(a) /\ d.right = Not(b) BY DEF Two, Dual, Joined
<1>3. d \notin Operand BY <1>2, Operands DEF Joined
<1>4. ~\E x \in E : d = Not(x)
  <2> HIDE DEF d
  <2> QED BY <1>2, Shapes DEF Joined
<1>5. PICK u \in Joined, x \in E, y \in E : d = Two(u, x, y)
  BY <1>1, <1>3, <1>4 DEF Trees
<1>6. d.left = x /\ d.right = y BY <1>5 DEF Two
<1> QED BY <1>1, <1>2, <1>6

(* A transformed tree is negated to one that is transformed, worth the     *)
(* opposite.                                                               *)
LEMMA NegatedWorth ==
  ASSUME NEW E, NEW size, Trees(E, size), NEW val \in Valuations, NEW V, Evaluates(V, E, val),
         NEW W, IsWellFormed(W, E), NEW T, NEW N, Transforms(T, N, W, E)
  PROVE  \A x \in E : W[x] => W[N[x]] /\ V[N[x]] = 2 - V[x]
<1> DEFINE G == {x \in E : W[x] => W[N[x]] /\ V[N[x]] = 2 - V[x]}
<1>1. /\ val["n"] = 0 /\ val["m"] = 1 /\ val["y"] = 2
      /\ \A x \in E : V[x] \in 0..2 /\ N[x] \in E /\ T[x] \in E
  BY InRange DEF Valuations, Transforms
<1>2. \A x \in E : W[x] = WellFormedNode(x, W[x.left], W[x.right]) BY DEF IsWellFormed
<1>3. \A x \in E : W[x] => T[x] = x BY TransformedStays
<1>4. ASSUME NEW x \in E, \A a \in E : size[a] < size[x] => a \in G, W[x]
      PROVE  W[N[x]] /\ V[N[x]] = 2 - V[x]
  <2>1. N[x] = NegatedNode(x, T[x.left], T[DeMorgan(x)]) BY <1>4 DEF Transforms
  <2>2. CASE x \in Operand /\ x.type = "SYMBOL"
    <3>1. x = Sym(x.sym) /\ x.sym \in Symbols \cup Const BY <2>2, Operands
    <3>2. CASE x \in {Yes, No}
      <4>1. N[x] = IF x = Yes THEN No ELSE Yes
        BY <2>1, <3>2, NegatedNodes
      <4>2. Yes # No /\ No.type = "SYMBOL" /\ No.sym = "n" /\ Yes.type = "SYMBOL" /\ Yes.sym = "y"
        BY DEF Yes, No, Sym
      <4>3. N[x] \in {Yes, No} /\ W[N[x]]
        <5>1. N[x].type = "SYMBOL" /\ N[x].sym \in Const BY <4>1, <4>2 DEF Const
        <5>2. WellFormedNode(N[x], W[N[x].left], W[N[x].right]) BY <5>1 DEF WellFormedNode
        <5> QED BY <1>1, <1>2, <4>1, <5>2
      <4>4. \A z \in E : (z = Yes => V[z] = 2) /\ (z = No => V[z] = 0)
        BY <1>1, ValueOf DEF Yes, No
      <4> QED BY <1>1, <3>2, <4>1, <4>2, <4>3, <4>4
    <3>3. CASE x = Sym("m")
      <4>1. N[x] = x BY <2>1, <3>3, NegatedNodes
      <4>2. V[x] = 1 BY <1>1, <3>3, ValueOf
      <4> QED BY <1>4, <4>1, <4>2
    <3>4. CASE x \notin {Yes, No, Sym("m")}
      <4>1. x.sym \in Symbols BY <3>1, <3>4 DEF Yes, No, Const
      <4>2. N[x] = Not(x) BY <2>1, <2>2, <3>4, NegatedNodes
      <4>3. Not(x) \in E BY <1>1, <4>2
      <4>4. WellFormedNode(Not(x), W[Not(x).left], W[Not(x).right])
        BY <2>2, <4>1 DEF WellFormedNode, Not
      <4>5. V[Not(x)] = 2 - V[x] BY <4>3, ValueOf
      <4> QED BY <1>2, <4>2, <4>3, <4>4, <4>5
    <3> QED BY <3>2, <3>3, <3>4
  <2>3. CASE x \in Operand /\ x.type \in Compare
    <3>1. x = Cmp(x.type, x.sym, x.with) BY <2>3, Operands
    <3> DEFINE c == Cmp(Opposite(x.type), x.sym, x.with)
    <3>2. N[x] = c BY <2>1, <2>3, NegatedNodes
    <3>3. c \in E BY <1>1, <3>2
    <3>4. c.type \in Compare /\ c.sym = x.sym /\ c.with = x.with
      BY DEF Cmp, Opposite, Compare
    <3>5. WellFormedNode(x, W[x.left], W[x.right]) BY <1>2, <1>4
    <3>6. WellFormedNode(c, W[c.left], W[c.right])
      BY <2>3, <3>4, <3>5 DEF WellFormedNode, Compare, Joined
    <3>7. W[c] BY <1>2, <3>3, <3>6
    <3>8. x.type = "EQUAL" => V[c] = 2 - V[x]
      BY <3>1, <3>3, ValueOf DEF Opposite
    <3>9. x.type = "UNEQUAL" => V[c] = 2 - V[x]
      BY <3>1, <3>3, ValueOf DEF Opposite
    <3> QED BY <2>3, <3>2, <3>7, <3>8, <3>9 DEF Compare
  <2>4. ASSUME NEW a \in E, x = Not(a) PROVE W[N[x]] /\ V[N[x]] = 2 - V[x]
    <3>1. x.type = "NOT" /\ x.left = a BY <2>4 DEF Not
    <3>2. WellFormedNode(x, W[x.left], W[x.right]) BY <1>2, <1>4
    <3>3. a.type = "SYMBOL" /\ a.sym \in Symbols
      BY <3>1, <3>2 DEF WellFormedNode, Compare, Joined
    <3>4. WellFormedNode(a, W[a.left], W[a.right]) BY <3>3 DEF WellFormedNode
    <3>5. W[a] BY <1>2, <3>4
    <3>6. N[x] = a BY <1>3, <2>1, <3>1, <3>5, NegatedNodes
    <3>7. V[x] = 2 - V[a] BY <2>4, ValueOf
    <3> QED BY <1>1, <3>5, <3>6, <3>7
  <2>5. ASSUME NEW t \in Joined, NEW a \in E, NEW b \in E, x = Two(t, a, b),
               size[a] < size[x], size[b] < size[x]
        PROVE  W[N[x]] /\ V[N[x]] = 2 - V[x]
    <3>1. x.type = t /\ x.left = a /\ x.right = b BY <2>5 DEF Two
    <3>2. WellFormedNode(x, W[a], W[b]) BY <1>2, <1>4, <3>1
    <3>3. W[a] /\ W[b] BY <3>1, <3>2 DEF WellFormedNode, Compare, Joined
    <3>4. DeMorgan(x) \in E BY <1>4, <3>1 DEF Transforms
    <3> DEFINE d == Two(Dual(t), Not(a), Not(b))
    <3>5. DeMorgan(x) = d /\ Not(a) \in E /\ Not(b) \in E BY <2>5, <3>4, DeMorganBelow
    <3>6. N[x] = T[d] BY <2>1, <3>1, <3>5, NegatedNodes
    <3>7. ASSUME NEW c \in E, W[c], Not(c) \in E PROVE T[Not(c)] = N[c]
      <4>1. T[c] = c BY <1>3, <3>7
      <4>2. T[Not(c)] = TransformNode(Not(c), T[Not(c).left], T[Not(c).right], N[T[Not(c).left]])
        BY <3>7 DEF Transforms
      <4>3. Not(c).type = "NOT" /\ Not(c).left = c BY DEF Not
      <4> QED BY <4>1, <4>2, <4>3 DEF TransformNode, Compare, Joined
    <3>8. d.type = Dual(t) /\ Dual(t) \in Joined /\ d.left = Not(a) /\ d.right = Not(b)
      BY DEF Two, Dual, Joined
    <3>9. T[d] = Two(Dual(t), T[Not(a)], T[Not(b)])
      <4>1. T[d] = TransformNode(d, T[d.left], T[d.right], N[T[d.left]])
        BY <3>4, <3>5 DEF Transforms
      <4> HIDE DEF d
      <4> QED BY <4>1, <3>8 DEF TransformNode, Compare, Joined
    <3> DEFINE f == Two(Dual(t), N[a], N[b])
    <3>10. N[x] = f /\ f \in E BY <1>1, <3>3, <3>5, <3>6, <3>7, <3>9
    <3>11. /\ W[N[a]] /\ V[N[a]] = 2 - V[a]
           /\ W[N[b]] /\ V[N[b]] = 2 - V[b]
      BY <1>4, <2>5, <3>3
    <3>12. W[f]
      <4>1. f.type \in Joined /\ f.left = N[a] /\ f.right = N[b] BY DEF Two, Dual, Joined
      <4> HIDE DEF f
      <4> QED BY <1>2, <3>10, <3>11, <4>1 DEF WellFormedNode
    <3>13. V[x] = IF t = "AND" THEN Min2(V[a], V[b]) ELSE Max2(V[a], V[b])
      BY <2>5, ValueOf DEF Joined
    <3>14. V[f] = IF t = "OR" THEN Min2(V[N[a]], V[N[b]]) ELSE Max2(V[N[a]], V[N[b]])
      BY <3>10, ValueOf DEF Joined, Dual
    <3>15. V[f] = 2 - V[x] BY <1>1, <3>11, <3>13, <3>14 DEF Min2, Max2, Joined
    <3> QED BY <3>10, <3>12, <3>15
  <2> QED BY <2>2, <2>3, <2>4, <2>5, Operands DEF Trees, Compare
<1>5. E \subseteq G
  <2>1. \A x \in E : (\A a \in E : size[a] < size[x] => a \in G) => x \in G BY <1>4
  <2> HIDE DEF G
  <2> QED BY <2>1, TreeInduction DEF Trees
<1> QED BY <1>5

(* expr_transform: no negation but of a symbol and no comparison of a      *)
(* boolean with a constant is left, and the expression is worth the same,  *)
(* given that booleans are never m.                                        *)
THEOREM TransformedIsWorthTheSame ==
  ASSUME NEW E, NEW size, Trees(E, size), NEW val \in Valuations, NEW V, Evaluates(V, E, val),
         NEW W, IsWellFormed(W, E), NEW T, NEW N, Transforms(T, N, W, E)
  PROVE  \A e \in E : W[T[e]] /\ V[T[e]] = V[e]
<1> DEFINE G == {e \in E : W[T[e]] /\ V[T[e]] = V[e]}
<1>1. /\ val["n"] = 0 /\ val["m"] = 1 /\ val["y"] = 2
      /\ \A s \in Symbols \cup Const : val[s] \in 0..2
      /\ \A s \in BoolSym : val[s] # 1
      /\ \A e \in E : V[e] \in 0..2 /\ T[e] \in E
  BY InRange DEF Valuations, Transforms
<1>2. \A e \in E : W[e] = WellFormedNode(e, W[e.left], W[e.right]) BY DEF IsWellFormed
<1>3. ASSUME NEW e \in E, \A a \in E : size[a] < size[e] => a \in G PROVE e \in G
  <2>1. T[e] = TransformNode(e, T[e.left], T[e.right], N[T[e.left]]) BY DEF Transforms
  <2>2. CASE e \in Operand /\ e.type = "SYMBOL"
    <3>1. T[e] = e BY <2>1, <2>2 DEF TransformNode, Compare, Joined
    <3>2. e.sym \in Symbols \cup Const BY <2>2, Operands
    <3>3. W[e] BY <1>2, <2>2, <3>2 DEF WellFormedNode
    <3> QED BY <3>1, <3>3
  <2>3. CASE e \in Operand /\ e.type \in Compare
    <3>1. T[e] = TransformCompare(e) BY <2>1, <2>3 DEF TransformNode, Compare, Joined
    <3>2. /\ e.sym \in Symbols \cup Const /\ e.with \in Symbols \cup Const
          /\ e = Cmp(e.type, e.sym, e.with)
      BY <2>3, Operands
    <3>3. CASE e.sym \notin BoolSym \/ e.with \notin Const
      <4>1. T[e] = e BY <3>1, <3>3 DEF TransformCompare
      <4>2. WellFormedNode(e, W[e.left], W[e.right])
        BY <2>3, <3>2, <3>3 DEF WellFormedNode, Symbols
      <4>3. W[e] BY <1>2, <4>2
      <4> QED BY <4>1, <4>3
    <3>4. CASE e.sym \in BoolSym /\ e.with \in Const
      <4>1. val[e.sym] = 0 \/ val[e.sym] = 2 BY <1>1, <3>2, <3>4
      <4>2. /\ e.type = "EQUAL" => V[e] = IF val[e.sym] = val[e.with] THEN 2 ELSE 0
            /\ e.type = "UNEQUAL" => V[e] = IF val[e.sym] = val[e.with] THEN 0 ELSE 2
        BY <3>2, ValueOf
      <4>3. ASSUME e.with = "m" PROVE e \in G
        <5>1. T[e] = IF e.type = "EQUAL" THEN No ELSE Yes
          BY <3>1, <3>4, <4>3 DEF TransformCompare
        <5>2. V[e] = IF e.type = "EQUAL" THEN 0 ELSE 2
          BY <1>1, <2>3, <4>1, <4>2, <4>3 DEF Compare
        <5>3. V[T[e]] = IF e.type = "EQUAL" THEN 0 ELSE 2
          BY <1>1, <5>1, ValueOf DEF No, Yes
        <5>4. T[e].type = "SYMBOL" /\ T[e].sym \in Const BY <5>1 DEF No, Yes, Sym, Const
        <5>5. W[T[e]] BY <1>1, <1>2, <5>4 DEF WellFormedNode
        <5> QED BY <5>2, <5>3, <5>5
      <4>4. ASSUME e.with # "m", (e.type = "EQUAL") = (e.with = "y") PROVE e \in G
        <5>1. T[e] = Sym(e.sym) BY <3>1, <3>4, <4>4 DEF TransformCompare
        <5>2. V[T[e]] = val[e.sym] BY <1>1, <5>1, ValueOf
        <5>3. T[e].type = "SYMBOL" /\ T[e].sym \in Symbols BY <5>1, <3>4 DEF Sym, Symbols
        <5>4. W[T[e]] BY <1>1, <1>2, <5>3 DEF WellFormedNode
        <5>5. V[e] = val[e.sym]
          BY <1>1, <2>3, <3>4, <4>1, <4>2, <4>4 DEF Compare, Const
        <5> QED BY <5>2, <5>4, <5>5
      <4>5. ASSUME e.with # "m", (e.type = "EQUAL") # (e.with = "y") PROVE e \in G
        <5>1. T[e] = Not(Sym(e.sym)) BY <3>1, <3>4, <4>5 DEF TransformCompare
        <5>2. WellFormedNode(T[e], W[T[e].left], W[T[e].right])
          BY <5>1, <3>4 DEF WellFormedNode, Not, Sym, Symbols
        <5>3. W[T[e]] BY <1>1, <1>2, <5>2
        <5>4. Sym(e.sym) \in E
          <6>1. T[e].type = "NOT" /\ T[e].left = Sym(e.sym) BY <5>1 DEF Not
          <6>2. T[e] \in E /\ T[e] \notin Operand BY <1>1, <6>1, Operands
          <6>3. ~\E t \in Joined : \E a, b \in E : T[e] = Two(t, a, b)
            BY <6>1, Shapes DEF Joined
          <6>4. PICK a \in E : T[e] = Not(a) BY <6>2, <6>3 DEF Trees
          <6> QED BY <6>1, <6>4 DEF Not
        <5>5. V[T[e]] = 2 - val[e.sym] BY <1>1, <5>1, <5>4, ValueOf
        <5>6. V[e] = 2 - val[e.sym]
          BY <1>1, <2>3, <3>4, <4>1, <4>2, <4>5 DEF Compare, Const
        <5> QED BY <5>3, <5>5, <5>6
      <4> QED BY <4>3, <4>4, <4>5
    <3> QED BY <3>3, <3>4
  <2>4. ASSUME NEW a \in E, e = Not(a), size[a] < size[e] PROVE e \in G
    <3>1. W[T[a]] /\ V[T[a]] = V[a] /\ T[a] \in E BY <1>1, <1>3, <2>4
    <3>2. T[e] = N[T[a]] BY <2>1, <2>4 DEF TransformNode, Not, Compare, Joined
    <3>3. W[N[T[a]]] /\ V[N[T[a]]] = 2 - V[T[a]] BY <3>1, NegatedWorth
    <3>4. V[e] = 2 - V[a] BY <2>4, ValueOf
    <3> QED BY <3>1, <3>2, <3>3, <3>4
  <2>5. ASSUME NEW t \in Joined, NEW a \in E, NEW b \in E, e = Two(t, a, b),
               size[a] < size[e], size[b] < size[e]
        PROVE  e \in G
    <3>1. T[e] = Two(t, T[a], T[b]) BY <2>1, <2>5 DEF TransformNode, Two, Compare, Joined
    <3>2. /\ W[T[a]] /\ V[T[a]] = V[a]
          /\ W[T[b]] /\ V[T[b]] = V[b]
      BY <1>3, <2>5
    <3>3. T[e].type \in Joined /\ T[e].left = T[a] /\ T[e].right = T[b] BY <3>1 DEF Two
    <3>4. W[T[e]] BY <1>1, <1>2, <3>2, <3>3 DEF WellFormedNode
    <3>5. V[T[e]] = IF t = "AND" THEN Min2(V[T[a]], V[T[b]]) ELSE Max2(V[T[a]], V[T[b]])
      BY <1>1, <3>1, ValueOf DEF Joined
    <3>6. V[e] = IF t = "AND" THEN Min2(V[a], V[b]) ELSE Max2(V[a], V[b])
      BY <2>5, ValueOf DEF Joined
    <3> QED BY <3>2, <3>4, <3>5, <3>6
  <2> QED BY <2>2, <2>3, <2>4, <2>5, Operands DEF Trees, Compare
<1>4. E \subseteq G
  <2> HIDE DEF G
  <2> QED BY <1>3, TreeInduction DEF Trees
<1> QED BY <1>4

--------------------------------------------------------------------------------
(* Two operands joined to one. *)

(* An operand, negated or not, that is not below anything.                 *)
Single == Operand \cup {Not(o) : o \in Operand}
Alone(e, val) == Worth(e, val, Worth(e.left, val, 0, 0), 0)

(* What the operands are worth that are ever joined.                       *)
LEMMA AloneWorth ==
  ASSUME NEW val
  PROVE  /\ \A s : Alone(Sym(s), val) = val[s]
         /\ \A s : Alone(Not(Sym(s)), val) = 2 - val[s]
         /\ \A s, v : Alone(Cmp("EQUAL", s, v), val) = IF val[s] = val[v] THEN 2 ELSE 0
         /\ \A s, v : Alone(Cmp("UNEQUAL", s, v), val) = IF val[s] = val[v] THEN 0 ELSE 2
BY DEF Alone, Worth, Sym, Not, Cmp

(* Joined operands say something of one symbol, which has a type.          *)
LEMMA JoinedSymbol ==
  ASSUME NEW a \in Single, NEW b \in Single, NEW s, s = JoinSym(a, b), s # "none"
  PROVE  /\ s \in Symbols
         /\ \A e \in {a, b} :
              /\ e.type \in {"SYMBOL", "EQUAL", "UNEQUAL", "NOT"}
              /\ e.type = "SYMBOL" => e = Sym(s)
              /\ e.type \in Compare => e = Cmp(e.type, s, e.with)
<1>1. SameLeaf(a, b, Positive(a), Positive(b)) /\ s = Positive(a).sym BY DEF JoinSym
<1>2. s \in Symbols /\ s = Positive(b).sym BY <1>1 DEF SameLeaf
<1>3. ASSUME NEW e \in Single, Positive(e).sym = s
      PROVE  /\ e.type \in {"SYMBOL", "EQUAL", "UNEQUAL", "NOT"}
             /\ e.type = "SYMBOL" => e = Sym(s)
             /\ e.type \in Compare => e = Cmp(e.type, s, e.with)
  <2>1. CASE e \in Operand
    BY <1>3, <2>1, Operands DEF Positive, Compare
  <2>2. CASE \E o \in Operand : e = Not(o)
    BY <2>2, Shapes DEF Compare
  <2> QED BY <2>1, <2>2 DEF Single
<1> QED BY <1>1, <1>2, <1>3

(* A third constant is another one than both.                              *)
LEMMA ThirdConstant ==
  ASSUME NEW u \in Const, NEW v \in Const, u # v
  PROVE  Third(u, v) \in Const /\ Const = {u, v, Third(u, v)} /\ Third(u, v) \notin {u, v}
<1>1. \E w \in Const : w \notin {u, v} BY DEF Const
<1>2. Third(u, v) \in Const /\ Third(u, v) \notin {u, v} BY <1>1 DEF Third
<1> QED BY <1>2 DEF Const

(* A value is that of exactly one constant.                                *)
LEMMA OneConstant ==
  ASSUME NEW val \in Valuations
  PROVE  /\ \A u, v \in Const : val[u] = val[v] <=> u = v
         /\ \A s \in Symbols : \E u \in Const : val[s] = val[u]
<1>1. /\ val["n"] = 0 /\ val["m"] = 1 /\ val["y"] = 2
      /\ \A s \in Symbols : val[s] = 0 \/ val[s] = 1 \/ val[s] = 2
  BY DEF Valuations
<1> QED BY <1>1 DEF Const

(* expr_join_or: what two different operands join to is worth what they    *)
(* are worth connected by OR.                                              *)
THEOREM JoinedByOr ==
  ASSUME NEW a \in Single, NEW b \in Single, a # b, NEW val \in Valuations,
         JoinOrSym(a, b, JoinSym(a, b)) # Nil
  PROVE  Alone(JoinOrSym(a, b, JoinSym(a, b)), val) = Max2(Alone(a, val), Alone(b, val))
<1> DEFINE s == JoinSym(a, b)
<1>1. val["y"] = 2 /\ \A x \in BoolSym : val[x] = 0 \/ val[x] = 2
  BY DEF Valuations, Symbols
<1>2. s \in TriSym \/ s \in BoolSym
  BY DEF JoinOrSym
<1>3. s # "none" BY <1>2, SymbolAssumption
<1>4. ~(s \in TriSym /\ s \in BoolSym) BY SymbolAssumption
<1> HIDE DEF s
<1>5. CASE s \in TriSym
  <2>1. a.type = "EQUAL" /\ b.type = "EQUAL" /\ a.with \in Const /\ b.with \in Const
    BY <1>4, <1>5 DEF JoinOrSym, s
  <2>2. a = Cmp("EQUAL", s, a.with) /\ b = Cmp("EQUAL", s, b.with)
    BY <1>3, <2>1, JoinedSymbol DEF s, Compare
  <2> DEFINE w == Third(a.with, b.with)
  <2>3. a.with # b.with BY <2>2
  <2>4. w \in Const /\ Const = {a.with, b.with, w} /\ w \notin {a.with, b.with}
    BY <2>1, <2>3, ThirdConstant
  <2>5. JoinOrSym(a, b, s) = Cmp("UNEQUAL", s, w)
    BY <1>4, <1>5, <2>1 DEF JoinOrSym
  <2> HIDE DEF w
  <2>6. PICK u \in Const : val[s] = val[u] BY <1>5, OneConstant DEF Symbols
  <2>7. /\ Alone(a, val) = IF u = a.with THEN 2 ELSE 0
        /\ Alone(b, val) = IF u = b.with THEN 2 ELSE 0
        /\ Alone(JoinOrSym(a, b, s), val) = IF u = w THEN 0 ELSE 2
    BY <2>1, <2>2, <2>4, <2>5, <2>6, AloneWorth, OneConstant
  <2>8. u = w <=> u # a.with /\ u # b.with BY <2>4
  <2>9. Alone(JoinOrSym(a, b, s), val) = Max2(Alone(a, val), Alone(b, val))
    BY <2>7, <2>8 DEF Max2
  <2> QED BY <2>9 DEF s
<1>6. CASE s \in BoolSym
  <2>1. {a, b} = {Not(Sym(s)), Sym(s)} /\ JoinOrSym(a, b, s) = Yes
    BY <1>4, <1>6 DEF JoinOrSym, s
  <2>2. \/ a = Not(Sym(s)) /\ b = Sym(s)
        \/ a = Sym(s) /\ b = Not(Sym(s))
    BY <2>1
  <2>3. \/ Alone(a, val) = 2 - val[s] /\ Alone(b, val) = val[s]
        \/ Alone(a, val) = val[s] /\ Alone(b, val) = 2 - val[s]
    BY <2>2, AloneWorth
  <2>4. Alone(Yes, val) = 2 BY <1>1, AloneWorth DEF Yes
  <2>5. Alone(JoinOrSym(a, b, s), val) = Max2(Alone(a, val), Alone(b, val))
    BY <1>1, <1>6, <2>1, <2>3, <2>4 DEF Max2
  <2> QED BY <2>5 DEF s
<1> QED BY <1>2, <1>5, <1>6

(* expr_join_and: what two different operands join to is worth what they   *)
(* are worth connected by AND.                                             *)
THEOREM JoinedByAnd ==
  ASSUME NEW a \in Single, NEW b \in Single, a # b, NEW val \in Valuations,
         JoinAndSym(a, b, JoinSym(a, b)) # Nil
  PROVE  Alone(JoinAndSym(a, b, JoinSym(a, b)), val) = Min2(Alone(a, val), Alone(b, val))
<1> DEFINE s == JoinSym(a, b)
           j == JoinAndSym(a, b, s)
<1>1. /\ val["n"] = 0 /\ val["m"] = 1 /\ val["y"] = 2
      /\ \A x \in Symbols : val[x] = 0 \/ val[x] = 1 \/ val[x] = 2
  BY DEF Valuations
<1>2. s # "none"
  BY SymbolAssumption DEF JoinAndSym
<1>3. /\ s \in Symbols
      /\ a.type \in Compare => a = Cmp(a.type, s, a.with)
      /\ b.type \in Compare => b = Cmp(b.type, s, b.with)
  BY <1>2, JoinedSymbol
<1> HIDE DEF s
<1> DEFINE isYes == {{Sym(s), Cmp("EQUAL", s, "y")}, {Sym(s), Cmp("UNEQUAL", s, "m")}}
           itself == {Sym(s), Cmp("UNEQUAL", s, "n")}
<1>4. /\ Alone(Sym(s), val) = val[s]
      /\ Alone(Cmp("EQUAL", s, "y"), val) = IF val[s] = 2 THEN 2 ELSE 0
      /\ Alone(Cmp("UNEQUAL", s, "m"), val) = IF val[s] = 1 THEN 0 ELSE 2
      /\ Alone(Cmp("UNEQUAL", s, "n"), val) = IF val[s] = 0 THEN 0 ELSE 2
  BY <1>1, AloneWorth
<1>5. CASE {a, b} \in isYes
  <2>1. {a, b} # itself BY <1>5 DEF Sym, Cmp
  <2>2. ~(a.type \in Compare /\ b.type \in Compare) BY <1>5 DEF Sym, Cmp, Compare
  <2>3. j = Cmp("EQUAL", s, "y") BY <1>2, <1>5, <2>1, <2>2 DEF JoinAndSym
  <2> HIDE DEF j
  <2>4. \/ a = Sym(s) /\ b = Cmp("EQUAL", s, "y")
        \/ b = Sym(s) /\ a = Cmp("EQUAL", s, "y")
        \/ a = Sym(s) /\ b = Cmp("UNEQUAL", s, "m")
        \/ b = Sym(s) /\ a = Cmp("UNEQUAL", s, "m")
    BY <1>5
  <2>5. Alone(j, val) = Min2(Alone(a, val), Alone(b, val))
    BY <1>1, <1>3, <1>4, <2>3, <2>4 DEF Min2
  <2> QED BY <2>5 DEF s, j
<1>6. CASE {a, b} = itself
  <2>1. {a, b} \notin isYes BY <1>6 DEF Sym, Cmp
  <2>2. ~(a.type \in Compare /\ b.type \in Compare) BY <1>6 DEF Sym, Cmp, Compare
  <2>3. j = Sym(s) BY <1>2, <1>6, <2>1, <2>2 DEF JoinAndSym
  <2> HIDE DEF j
  <2>4. \/ a = Sym(s) /\ b = Cmp("UNEQUAL", s, "n")
        \/ b = Sym(s) /\ a = Cmp("UNEQUAL", s, "n")
    BY <1>6
  <2>5. Alone(j, val) = Min2(Alone(a, val), Alone(b, val))
    BY <1>1, <1>3, <1>4, <2>3, <2>4 DEF Min2
  <2> QED BY <2>5 DEF s, j
<1>7. CASE {a, b} \notin isYes /\ {a, b} # itself
  <2>1. /\ s \in TriSym /\ a.type \in Compare /\ b.type \in Compare
        /\ a.with \in Const /\ b.with \in Const
        /\ j = JoinCompared(a, b, s)
    BY <1>7 DEF JoinAndSym, s
  <2>2. JoinCompared(a, b, s) # Nil BY <2>1 DEF s
  <2> HIDE DEF j
  <2>3. PICK u \in Const : val[s] = val[u] BY <1>3, OneConstant
  <2>4. a = Cmp(a.type, s, a.with) /\ b = Cmp(b.type, s, b.with) BY <1>3, <2>1
  <2>5. /\ Alone(a, val) = IF (u = a.with) = (a.type = "EQUAL") THEN 2 ELSE 0
        /\ Alone(b, val) = IF (u = b.with) = (b.type = "EQUAL") THEN 2 ELSE 0
    <3>1. ASSUME NEW e, e.type \in Compare, e.with \in Const, e = Cmp(e.type, s, e.with)
          PROVE  Alone(e, val) = IF (u = e.with) = (e.type = "EQUAL") THEN 2 ELSE 0
      <4>1. val[s] = val[e.with] <=> u = e.with BY <2>3, <3>1, OneConstant
      <4>2. CASE e.type = "EQUAL"
        <5>1. Alone(e, val) = IF val[s] = val[e.with] THEN 2 ELSE 0
          BY <3>1, <4>2, AloneWorth
        <5> QED BY <4>1, <4>2, <5>1
      <4>3. CASE e.type = "UNEQUAL"
        <5>1. Alone(e, val) = IF val[s] = val[e.with] THEN 0 ELSE 2
          BY <3>1, <4>3, AloneWorth
        <5> QED BY <4>1, <4>3, <5>1
      <4> QED BY <3>1, <4>2, <4>3 DEF Compare
    <3> QED BY <2>1, <2>4, <3>1
  <2>6. /\ \A w \in Const : Alone(Cmp("EQUAL", s, w), val) = IF u = w THEN 2 ELSE 0
        /\ Alone(No, val) = 0
    BY <1>1, <2>3, AloneWorth, OneConstant DEF No
  <2>7. CASE a.type = "EQUAL" /\ b.type = "UNEQUAL"
    <3>1. j = IF a.with # b.with THEN Cmp("EQUAL", s, a.with) ELSE No
      BY <2>1, <2>7 DEF JoinCompared, Equals
    <3> QED BY <2>1, <2>5, <2>6, <2>7, <3>1 DEF Min2, j, s
  <2>8. CASE a.type = "UNEQUAL" /\ b.type = "EQUAL"
    <3>1. j = IF b.with # a.with THEN Cmp("EQUAL", s, b.with) ELSE No
      BY <2>1, <2>8 DEF JoinCompared, Equals
    <3> QED BY <2>1, <2>5, <2>6, <2>8, <3>1 DEF Min2, j, s
  <2>9. CASE a.type = "UNEQUAL" /\ b.type = "UNEQUAL"
    <3> DEFINE w == Third(a.with, b.with)
    <3>1. j = Cmp("EQUAL", s, w) BY <2>1, <2>9 DEF JoinCompared
    <3>2. a.with # b.with BY <2>4, <2>9
    <3>3. w \in Const /\ Const = {a.with, b.with, w} /\ w \notin {a.with, b.with}
      BY <2>1, <3>2, ThirdConstant
    <3> HIDE DEF w
    <3>4. u = w <=> u # a.with /\ u # b.with BY <3>3
    <3>5. Alone(j, val) = IF u = w THEN 2 ELSE 0 BY <2>6, <3>1, <3>3
    <3>6. Alone(j, val) = Min2(Alone(a, val), Alone(b, val))
      BY <2>5, <2>9, <3>4, <3>5 DEF Min2
    <3> QED BY <3>6 DEF j, s
  <2>10. ~(a.type = "EQUAL" /\ b.type = "EQUAL") BY <2>2 DEF JoinCompared
  <2> QED BY <2>1, <2>7, <2>8, <2>9, <2>10 DEF Compare
<1> QED BY <1>5, <1>6, <1>7
=============================================================================
