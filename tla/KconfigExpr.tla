---------------------------- MODULE KconfigExpr ----------------------------
(***************************************************************************)
(* The dependency expressions of Kconfig (expr.c) and what menu_finalize   *)
(* does with them: an expression comes from the parser as it was written,  *)
(* is rewritten without negations above leaves, joined to the dependency   *)
(* of the enclosing entry and reduced, in place, until nothing changes.    *)
(*                                                                         *)
(* An expression is a record.  C changes a tree through pointers to its    *)
(* nodes, two of which may point into one tree; here a pointer is a tree   *)
(* and a path in it, a sequence of "left" and "right".                     *)
(***************************************************************************)
EXTENDS KconfigRewrite, Sequences

CONSTANTS
  Compared,     \* bound: the comparisons that occur
  MaxOperands   \* bound: operands in the expressions of all nested entries

ASSUME ExprAssumption == MaxOperands \in Nat \ {0}

VARIABLES
  pc,       \* "entry": between two entries; "loop": in expr_eliminate_dups; "done"
  source,   \* the expressions of the entries looked at so far, as the parser read them
  room,     \* bound: how many operands the next entry may have
  work,     \* basedep
  nested,   \* whether the second entry is inside the first one, or follows it
  final,    \* the dependencies of the entries finalized so far
  under     \* the symbols that, as the symbol of the first entry, make the
            \* second one its submenu

vars == <<pc, source, room, work, nested, final, under>>

AllocAnd(a, b) == IF a = Nil THEN b ELSE IF b = Nil THEN a ELSE Two("AND", a, b)

RECURSIVE Value(_, _)
Value(e, val) == Worth(e, val, Value(e.left, val), Value(e.right, val))

-----------------------------------------------------------------------------
RECURSIVE At(_, _), Put(_, _, _)
At(e, p) == IF p = <<>> THEN e ELSE At(e[Head(p)], Tail(p))
Put(e, p, x) == IF p = <<>> THEN x ELSE [e EXCEPT ![Head(p)] = Put(@, Tail(p), x)]
PutBoth(e, p, x, q, y) == Put(Put(e, p, x), q, y)

(* The operands of a chain of ANDs or of ORs, from left to right, and the  *)
(* same with every node of the chain after its operands.                   *)
RECURSIVE Operands(_, _, _), Nodes(_, _, _)
Operands(type, e, p) ==
  IF e.type = type
    THEN Operands(type, e.left, Append(p, "left")) \o Operands(type, e.right, Append(p, "right"))
    ELSE <<p>>
Nodes(type, e, p) ==
  IF e.type = type
    THEN Nodes(type, e.left, Append(p, "left")) \o Nodes(type, e.right, Append(p, "right")) \o <<p>>
    ELSE <<p>>

Pairs(ps, qs) ==
  [i \in 1..Len(ps) * Len(qs) |->
     <<ps[((i - 1) \div Len(qs)) + 1], qs[((i - 1) % Len(qs)) + 1]>>]

RECURSIVE EliminateYn(_)
EliminateYn(e) == SimplerNode(e, EliminateYn(e.left), EliminateYn(e.right))

-----------------------------------------------------------------------------
(* expr_eq compares two chains by cancelling their common operands: they   *)
(* are equal when the same symbol is left of both.                         *)
RECURSIVE ExprEq(_, _), Cancel(_, _, _), EliminateEq(_, _)
OneSymbol(r) == r[1].type = "SYMBOL" /\ r[2].type = "SYMBOL" /\ r[1].sym = r[2].sym
ExprEq(a, b) ==
  CASE a.type # b.type     -> FALSE
    [] a.type = "NOT"      -> b.type = "NOT" /\ ExprEq(a.left, b.left)
    [] a.type \in Joined   -> a.type = b.type /\ OneSymbol(EliminateEq(a, b))
    [] OTHER               -> a = b

(* e holds the two trees as its "left" and its "right".                    *)
CancelPair(type, e, p, q) ==
  IF ~(At(e, p) = At(e, q) /\ At(e, p) \in {Yes, No}) /\ ExprEq(At(e, p), At(e, q))
    THEN PutBoth(e, p, Sym(Unit(type)), q, Sym(Unit(type))) ELSE e
Cancel(type, e, pairs) ==
  IF pairs = <<>> THEN e
  ELSE Cancel(type, CancelPair(type, e, pairs[1][1], pairs[1][2]), Tail(pairs))

CancelBoth(type, e) ==
  Cancel(type, e, Pairs(Operands(type, e.left, <<"left">>), Operands(type, e.right, <<"right">>)))
CancelLeft(e) == IF e.left.type \in Joined THEN CancelBoth(e.left.type, e) ELSE e
CancelRight(e) ==
  IF e.left.type # e.right.type /\ e.right.type \in Joined THEN CancelBoth(e.right.type, e) ELSE e
BothSimpler(e) == <<EliminateYn(e.left), EliminateYn(e.right)>>
EliminateEq(a, b) == BothSimpler(CancelRight(CancelLeft([left |-> a, right |-> b])))

(* expr_extract_eq takes what is common out of both; its one caller here   *)
(* looks at what is left of the first.                                     *)
RECURSIVE Extract(_, _, _)
ExtractPair(type, st, p, q) ==
  IF ExprEq(At(st.e, p), At(st.e, q))
    THEN [e |-> PutBoth(st.e, p, Sym(Unit(type)), q, Sym(Unit(type))), common |-> TRUE] ELSE st
Extract(type, st, pairs) ==
  IF pairs = <<>> THEN st
  ELSE Extract(type, ExtractPair(type, st, pairs[1][1], pairs[1][2]), Tail(pairs))

LeftOf(st) == IF st.common THEN EliminateYn(st.e.left) ELSE st.e.left
LeftAfterExtract(type, a, b) ==
  LeftOf(Extract(type, [e |-> [left |-> a, right |-> b], common |-> FALSE],
                 Pairs(Operands(type, a, <<"left">>), Operands(type, b, <<"right">>))))

-----------------------------------------------------------------------------
RECURSIVE Transform(_), TransformNot(_)
Transform(e) ==
  TransformNode(e, Transform(e.left), Transform(e.right), TransformNot(Transform(e.left)))

TransformNot(x) == NegatedNode(x, Transform(x.left), Transform(DeMorgan(x)))

RECURSIVE TransBool(_), TransCompare(_, _)
TransBool(e) == TransBoolNode(e, TransBool(e.left), TransBool(e.right))
TransCompare(e, type) ==
  TransCompareNode(e, type, TransCompare(e.left, "EQUAL"), TransCompare(e.right, "EQUAL"),
                   TransCompare(e.left, Opposite(type)))

-----------------------------------------------------------------------------
JoinOr(a, b) == IF ExprEq(a, b) THEN a ELSE JoinOrSym(a, b, JoinSym(a, b))

JoinAnd(a, b) == IF ExprEq(a, b) THEN a ELSE JoinAndSym(a, b, JoinSym(a, b))

Join(type, a, b) == IF type = "OR" THEN JoinOr(a, b) ELSE JoinAnd(a, b)

(* st is the tree and trans_count.  Every operand meets every other one,   *)
(* in both orders; an operand that joins another is replaced by the unit.  *)
RECURSIVE Dups1(_, _, _), Dups1At(_, _, _)
JoinPair(type, st, p, q, joined) ==
  IF joined = Nil THEN st
  ELSE [e |-> PutBoth(st.e, p, Sym(Unit(type)), q, joined), count |-> st.count + 1]
JoinAt(type, st, p, q) == JoinPair(type, st, p, q, Join(type, At(st.e, p), At(st.e, q)))
Inside(st, p) == IF At(st.e, p).type \in Joined THEN Dups1At(At(st.e, p).type, st, p) ELSE st

Dups1PairItself(type, st, p, q) == JoinAt(type, st, p, q)
Dups1Pair(type, st, p, q) == IF p = q THEN st ELSE JoinAt(type, Inside(st, p), p, q)
Dups1(type, st, pairs) ==
  IF pairs = <<>> THEN st
  ELSE Dups1(type, Dups1Pair(type, st, pairs[1][1], pairs[1][2]), Tail(pairs))

Crossed(ps) == Pairs(ps, ps)
Dups1At(type, st, p) == Dups1(type, st, Crossed(Operands(type, At(st.e, p), p)))

(* An operand that the others contradict: (A || B) && !A && !B is n, and   *)
(* (A && B) || !A || !B is y.                                              *)
RECURSIVE Dups2(_, _, _), Dups2At(_, _, _)
Contradict(mine, st, p, q) ==
  IF LeftAfterExtract(Dual(mine), Transform(Not(At(st.e, p))), At(st.e, q)) = Sym(Unit(Dual(mine)))
    THEN [e |-> Put(st.e, p, Sym(Decides(Dual(mine)))), count |-> st.count + 1] ELSE st
Dups2Pair(mine, st, p, q) ==
  IF p = q \/ mine \notin Joined THEN st ELSE Contradict(mine, Dups2At(mine, st, p), p, q)
Dups2(type, st, pairs) ==
  IF pairs = <<>> THEN st
  ELSE Dups2(type, Dups2Pair(At(st.e, pairs[1][1]).type, st, pairs[1][1], pairs[1][2]), Tail(pairs))

Dups2At(type, st, p) ==
  Dups2(type, st, Pairs(Operands(type, At(st.e, p), p), Nodes(type, At(st.e, p), p)))

OnePass(e) ==
  IF e.type \in Joined
    THEN Dups2At(e.type, Dups1At(e.type, [e |-> e, count |-> 0], <<>>), <<>>)
    ELSE [e |-> e, count |-> 0]

RECURSIVE EliminateDups(_)
EliminateDups(e) ==
  LET r == OnePass(e) IN IF r.count = 0 THEN r.e ELSE EliminateDups(EliminateYn(r.e))

-----------------------------------------------------------------------------
(* Printing puts an expression in parentheses when it binds less than what *)
(* is around it.  A leaf is one token.                                     *)
LooseLeftToRight(type) ==
  CASE type \in Joined -> 3 [] type = "NOT" -> 2 [] type \in Compare -> 1 [] OTHER -> 0
Loose(type) ==
  CASE type = "OR" -> 4 [] type = "AND" -> 3 [] type = "NOT" -> 2
    [] type \in Compare -> 1 [] OTHER -> 0
Token(t) == <<[type |-> t]>>

RECURSIVE ExprPrint(_, _)
ExprPrint(e, prev) ==
  LET text == CASE e.type = "NULL"   -> <<Yes>>
                [] e.type \in Leaf   -> <<e>>
                [] e.type = "NOT"    -> Token("!") \o ExprPrint(e.left, "NOT")
                [] e.type \in Joined -> ExprPrint(e.left, e.type) \o Token(e.type)
                                        \o ExprPrint(e.right, e.type)
  IN IF prev # "NONE" /\ Loose(prev) < Loose(e.type)
       THEN Token("(") \o text \o Token(")") ELSE text

-----------------------------------------------------------------------------
(* Whether an entry that follows another one goes below it, where it is    *)
(* shown only together with that one.                                      *)
RECURSIVE ContainsSymbol(_, _), DependsSymbol(_, _)
ContainsSymbol(e, s) ==
  CASE e.type = "SYMBOL"   -> e.sym = s
    [] e.type \in Compare  -> s \in {e.sym, e.with}
    [] e.type = "NOT"      -> ContainsSymbol(e.left, s)
    [] e.type \in Joined   -> ContainsSymbol(e.left, s) \/ ContainsSymbol(e.right, s)
    [] OTHER               -> FALSE

DependsSymbol(e, s) == DependsNode(e, s, DependsSymbol(e.left, s), DependsSymbol(e.right, s))

Shown(e) == EliminateDups(Transform(TransCompare(e, "UNEQUAL")))

IsSubmenu(first, second, s) ==
  /\ ContainsSymbol(second, s)
  /\ \/ DependsSymbol(second, s)
     \/ EliminateEq(Shown(second), Shown(first))[2] = Yes

-----------------------------------------------------------------------------
(* Bound: what the parser may have read.  A symbol, negated or not, is one *)
(* operand, and a comparison is two.                                       *)
Combined(S, R) == {Two(t, a, b) : t \in Joined, a \in S, b \in R}

RECURSIVE Written(_)
Written(n) ==
  CASE n = 1 -> {Sym(s) : s \in Symbols} \cup {Not(Sym(s)) : s \in Symbols}
    [] n = 2 -> LET plain == Compared \cup Combined(Written(1), Written(1))
                IN plain \cup {Not(e) : e \in plain}
    [] OTHER -> UNION {Combined(Written(k), Written(n - k)) : k \in 1..(n - 1)}

Init ==
  /\ pc = "entry" /\ source = <<>> /\ room = MaxOperands
  /\ work = Nil /\ nested = FALSE /\ final = <<>> /\ under = {}

(* basedep of an entry before it is reduced.                               *)
BasedepAsWritten(parentdep, dep) == AllocAnd(parentdep, dep)
Basedep(parentdep, dep) == AllocAnd(parentdep, Transform(dep))

(* The next entry, inside the first one or after it.                       *)
StartEntry ==
  /\ pc = "entry" /\ Len(final) < 2
  /\ nested' \in IF final = <<>> THEN {FALSE} ELSE BOOLEAN
  /\ \E n \in 1..room : \E e \in Written(n) :
       /\ source' = Append(source, e) /\ room' = room - n
       /\ work' = Basedep(IF nested' THEN final[1] ELSE Nil, e)
  /\ pc' = "loop"
  /\ UNCHANGED <<final, under>>

(* One round of the loop of expr_eliminate_dups: it ends when the round has *)
(* changed nothing.                                                        *)
Round ==
  LET r == OnePass(work) IN
  /\ pc = "loop"
  /\ IF r.count > 0
       THEN work' = EliminateYn(r.e) /\ UNCHANGED <<pc, final>>
       ELSE final' = Append(final, r.e) /\ work' = Nil /\ pc' = "entry"
  /\ UNCHANGED <<source, room, nested, under>>

(* The prompts of symbols that are no tristate lost their m before.        *)
Layout ==
  /\ pc = "entry" /\ Len(final) = 2 /\ ~nested
  /\ \E first \in {final[1], TransBool(final[1])}, second \in {final[2], TransBool(final[2])} :
       /\ final' = <<first, second>>
       /\ under' = {s \in Symbols : IsSubmenu(first, second, s)}
  /\ pc' = "done"
  /\ UNCHANGED <<source, room, work, nested>>

Done == pc \in {"entry", "done"} /\ final # <<>> /\ UNCHANGED vars

Next == StartEntry \/ Round \/ Layout \/ Done

Spec == Init /\ [][Next]_vars

-----------------------------------------------------------------------------
RECURSIVE WellFormed(_)
WellFormed(e) == WellFormedNode(e, WellFormed(e.left), WellFormed(e.right))

(* Types; and a dependency that went through expr_transform has negations  *)
(* above symbols only, and compares no boolean with a constant.            *)
TypeOK ==
  /\ pc \in {"entry", "loop", "done"} /\ nested \in BOOLEAN /\ under \subseteq Symbols
  /\ work = Nil \/ WellFormed(work)
  /\ \A i \in 1..Len(final) : WellFormed(final[i])

(* What the entries as they are written are worth.                         *)
Meaning(i, val) ==
  IF nested /\ i = 2 THEN Min2(Value(source[1], val), Value(source[2], val))
  ELSE Value(source[i], val)

Latest == IF pc = "entry" THEN {Len(final)} \ {0} ELSE {}

(* Reducing a dependency, in the order of menu_finalize, changes no y to   *)
(* another value and no n either; only an m may become y or n, which       *)
(* expr_eliminate_dups2 does.                                              *)
DefiniteKept ==
  \A i \in Latest : \A val \in Valuations :
    Meaning(i, val) # 1 => Value(final[i], val) = Meaning(i, val)

(* The visibility that expr_trans_bool leaves to a boolean symbol is still *)
(* n where the dependency as written is n, and not n where it is y.        *)
VisibleKept ==
  \A i \in Latest : \A val \in Valuations :
    /\ Meaning(i, val) = 0 => Value(TransBool(final[i]), val) = 0
    /\ Meaning(i, val) = 2 => Value(TransBool(final[i]), val) # 0

(* An entry goes below another one (menu_finalize) only if it is invisible *)
(* whenever that one is, or else whenever that one's symbol is n, as long  *)
(* as no symbol is m: expr_trans_compare takes !T != n for T = n, but !m   *)
(* is m.                                                                   *)
SubmenuHidden ==
  LET Definite == {val \in Valuations : \A t \in Symbols : val[t] # 1}
  IN \A s \in under :
       \/ \A val \in Definite : Value(final[1], val) = 0 => Value(final[2], val) = 0
       \/ \A val \in Definite : val[s] = 0 => Value(final[2], val) = 0

(* What a reader of the grammar in zconf.y takes printed tokens to mean.   *)
RECURSIVE Parsed(_)
Parsed(text) ==
  LET Count(t, i) == Len(SelectSeq(SubSeq(text, 1, i), LAMBDA x : x.type = t))
      Outer(t) == {i \in 1..Len(text) : text[i].type = t /\ Count("(", i) = Count(")", i)}
      SplitAt(t, i) == Two(t, Parsed(SubSeq(text, 1, i - 1)), Parsed(SubSeq(text, i + 1, Len(text))))
      Split(t) == SplitAt(t, CHOOSE i \in Outer(t) : TRUE)
  IN CASE Outer("OR") # {} -> Split("OR")
       [] Outer("OR") = {} /\ Outer("AND") # {} -> Split("AND")
       [] Outer("OR") = {} /\ Outer("AND") = {} ->
            CASE text[1].type = "!" -> Not(Parsed(Tail(text)))
              [] text[1].type = "(" -> Parsed(SubSeq(text, 2, Len(text) - 1))
              [] OTHER              -> text[1]

(* A printed expression, written or finalized, reads back to the same      *)
(* value (expr_print and expr_compare_type).                               *)
PrintKept ==
  \A i \in Latest : \A e \in {source[i], final[i]} :
    LET read == Parsed(ExprPrint(e, "NONE"))
    IN \A val \in Valuations : Value(read, val) = Value(e, val)

RECURSIVE Size(_)
Size(e) == CASE e.type = "NOT"    -> Size(e.left)
             [] e.type \in Joined -> Size(e.left) + Size(e.right)
             [] OTHER             -> 1

(* Every round of expr_eliminate_dups that changes anything leaves fewer   *)
(* leaves than there were, so its endless loop ends.                       *)
EveryRoundShrinks ==
  LET r == OnePass(work)
  IN pc = "loop" /\ r.count > 0 => Size(EliminateYn(r.e)) < Size(work)
=============================================================================
