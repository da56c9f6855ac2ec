----------------------------- MODULE KconfigSym -----------------------------
(***************************************************************************)
(* The symbols of a configurator (symbol.c, confdata.c): how a value is    *)
(* calculated, when it is asked for, from what the user set and from the   *)
(* other symbols, and kept until the next change; how values are set, read *)
(* from a file and written to one.                                         *)
(*                                                                         *)
(* All symbols together are one record st:                                 *)
(*   valid, write, user   the symbols with SYMBOL_VALID, SYMBOL_WRITE and  *)
(*                        SYMBOL_DEF_USER                                  *)
(*   def, pick            def[S_DEF_USER]; of a choice, tri and val        *)
(*   curr, chosen         curr; of a choice, tri and val                   *)
(*   visible, rev         visible and rev_dep.tri                          *)
(*   count                sym_change_count, of which only 0 or not matters *)
(*   alone                no variable of the code: the symbols that lost    *)
(*                        SYMBOL_VALID alone since all of them lost it     *)
(*   warned, unsaved      conf_warnings and conf_unsaved, while conf_read  *)
(*                        runs                                             *)
(* A value is a text, "n", "m" and "y" for a boolean.  There are booleans, *)
(* numbers and choices: the Kconfig files have no tristate, and so m is    *)
(* always promoted to y (modules_val is no), and every choice is mandatory *)
(* and depends on its prompt.                                              *)
(***************************************************************************)
EXTENDS KconfigTree, Sequences, FiniteSets, TLC

CONSTANTS
  Bool, Int, Choice,  \* the symbols by type
  Menu,        \* the menus that are no symbols; "root" is one
  Children,    \* [Symbol \cup Menu -> Seq(Symbol \cup Menu)]: the tree of entries
  Members,     \* [Choice -> Seq(Bool)]: the list of P_CHOICE
  Prompted,    \* the entries that have a prompt
  Prompt,      \* [Prompted -> expressions]: what a prompt depends on
  RevDep,      \* [Bool \cup Choice -> expressions]: the selecting symbols, Nil if none
  Default,     \* [Symbol -> Seq([value, when])]: the defaults, in order
  Range,       \* [Int -> <<>> or <<lowest, highest>>]
  MaxNumber    \* bound: the numbers are those from 0 to MaxNumber

Symbol == Bool \cup Int \cup Choice
Entry == Symbol \cup Menu
MemberOf(c) == {Members[c][i] : i \in DOMAIN Members[c]}
IsMember(s) == \E c \in Choice : s \in MemberOf(c)
ChoiceOf(s) == CHOOSE c \in Choice : s \in MemberOf(c)
NoSymbol == ""
Numbers == {ToString(n) : n \in 0..MaxNumber}
Number(text) == IF text \in Numbers THEN CHOOSE n \in 0..MaxNumber : ToString(n) = text ELSE 0

Blank ==
  [valid |-> {}, write |-> {}, user |-> {},
   def |-> [s \in Symbol |-> IF s \in Int THEN "" ELSE "n"],
   pick |-> [c \in Choice |-> NoSymbol],
   curr |-> [s \in Symbol |-> IF s \in Int THEN "" ELSE "n"],
   chosen |-> [c \in Choice |-> NoSymbol],
   visible |-> [s \in Symbol |-> 0], rev |-> [s \in Symbol |-> 0],
   count |-> 0, alone |-> {}, warned |-> FALSE, unsaved |-> FALSE]

Tri(value) == IF value = "y" THEN 2 ELSE IF value = "m" THEN 1 ELSE 0
Text(tri) == IF tri = 2 THEN "y" ELSE IF tri = 1 THEN "m" ELSE "n"
Unpromoted(tri) == tri
Promote(tri) == IF tri = 1 THEN 2 ELSE tri

RECURSIVE SymsOf(_), ExprValue(_, _)
SymsOf(e) ==
  CASE e.type = "NULL"    -> <<>>
    [] e.type = "SYMBOL"  -> <<e.sym>>
    [] e.type = "NOT"     -> SymsOf(e.left)
    [] e.type \in Joined  -> SymsOf(e.left) \o SymsOf(e.right)
    [] e.type \in Compare -> <<e.sym, e.with>>

Current(st, x) == IF x \in Symbol THEN st.curr[x] ELSE x
ExprValue(st, e) ==
  CASE e.type = "NULL"    -> 2
    [] e.type = "SYMBOL"  -> Tri(Current(st, e.sym))
    [] e.type = "NOT"     -> 2 - ExprValue(st, e.left)
    [] e.type = "AND"     -> Min2(ExprValue(st, e.left), ExprValue(st, e.right))
    [] e.type = "OR"      -> Max2(ExprValue(st, e.left), ExprValue(st, e.right))
    [] e.type = "EQUAL"   -> IF Current(st, e.sym) = Current(st, e.with) THEN 2 ELSE 0
    [] e.type = "UNEQUAL" -> IF Current(st, e.sym) = Current(st, e.with) THEN 0 ELSE 2

-----------------------------------------------------------------------------
(* Calculating.  expr_calc_value calculates every symbol of an expression, *)
(* from left to right, before it uses their values.                        *)
RECURSIVE Calc(_, _), CalcAll(_, _), CalcVisibility(_, _), DefaultFrom(_, _, _),
          FirstVisible(_, _)

CalcAll(st, syms) == IF syms = <<>> THEN st ELSE CalcAll(Calc(st, Head(syms)), Tail(syms))
CalcExpr(st, e) == CalcAll(st, SymsOf(e))

SeePrompt(st, s) ==
  [st EXCEPT !.visible[s] = IF s \in Prompted THEN Promote(ExprValue(st, Prompt[s])) ELSE 0]
SeeRev(st, s) == [st EXCEPT !.rev[s] = Promote(ExprValue(st, RevDep[s]))]
CalcRev(st, s) ==
  IF s \in Int \/ IsMember(s) \/ RevDep[s] = Nil THEN st ELSE SeeRev(CalcExpr(st, RevDep[s]), s)
CalcVisibility(st, s) ==
  CalcRev(SeePrompt(IF s \in Prompted THEN CalcExpr(st, Prompt[s]) ELSE st, s), s)

(* The first default whose condition holds, from the i-th on; 0 if none.   *)
DefaultIf(st, s, i) ==
  IF ExprValue(st, Default[s][i].when) # 0 THEN [st |-> st, at |-> i] ELSE DefaultFrom(st, s, i + 1)
DefaultFrom(st, s, i) ==
  IF i > Len(Default[s]) THEN [st |-> st, at |-> 0]
  ELSE DefaultIf(CalcExpr(st, Default[s][i].when), s, i)

(* The first candidate for the choice's value whose condition holds and    *)
(* which is visible.                                                       *)
IfVisible(st, candidates) ==
  IF st.visible[Head(candidates).value] # 0 THEN [st |-> st, found |-> Head(candidates).value]
  ELSE FirstVisible(st, Tail(candidates))
IfHolds(st, candidates) ==
  IF ExprValue(st, Head(candidates).when) = 0 THEN FirstVisible(st, Tail(candidates))
  ELSE IfVisible(CalcVisibility(st, Head(candidates).value), candidates)
FirstVisible(st, candidates) ==
  IF candidates = <<>> THEN [st |-> st, found |-> NoSymbol]
  ELSE IfHolds(CalcExpr(st, Head(candidates).when), candidates)

Candidates(st, c) ==
  (IF st.pick[c] = NoSymbol THEN <<>> ELSE <<[value |-> st.pick[c], when |-> Nil]>>)
  \o Default[c]
  \o [i \in DOMAIN Members[c] |-> [value |-> Members[c][i], when |-> Nil]]

Choose(r, c) ==
  [r.st EXCEPT !.chosen[c] = r.found, !.curr[c] = IF r.found = NoSymbol THEN "n" ELSE @]
CalcChoice(st, c) == Choose(FirstVisible(st, Candidates(st, c)), c)

(* sym_validate_range: a text that is no number counts as 0.               *)
InRange(s, text) ==
  Range[s] = <<>> \/ (Number(text) >= Number(Range[s][1]) /\ Number(text) <= Number(Range[s][2]))
Validated(s, text) ==
  IF InRange(s, text) THEN text
  ELSE IF Number(text) < Number(Range[s][1]) THEN Range[s][1] ELSE Range[s][2]

(* A symbol that is not chosen by its choice: the user's value when there  *)
(* is a visible prompt, or else the default; at least what selects it.     *)
UsersValue(st, s) == st.visible[s] # 0 /\ s \in st.user

TakeNumber(st, s, at) ==
  LET text == CASE UsersValue(st, s) -> st.def[s]
                [] at # 0            -> Current(st, Default[s][at].value)
                [] OTHER             -> ""
  IN [st EXCEPT !.curr[s] = Validated(s, text)]
TakeTristate(st, s, at) ==
  LET own == CASE UsersValue(st, s) -> Min2(Tri(st.def[s]), st.visible[s])
               [] at # 0 -> Min2(Tri(Current(st, Default[s][at].value)),
                                 ExprValue(st, Default[s][at].when))
               [] OTHER  -> 0
  IN [st EXCEPT !.curr[s] = Text(Promote(Max2(own, st.rev[s])))]
TakeValue(st, s, at) == IF s \in Int THEN TakeNumber(st, s, at) ELSE TakeTristate(st, s, at)

TakeDefault(d, s) ==
  IF d.at = 0 THEN TakeValue(d.st, s, 0)
  ELSE TakeValue(Calc([d.st EXCEPT !.write = @ \cup {s}], Default[s][d.at].value), s, d.at)
FindValue(st, s) ==
  IF UsersValue(st, s) \/ s \in Choice THEN TakeValue(st, s, 0)
  ELSE TakeDefault(DefaultFrom(st, s, 1), s)
CalcOwn(st, s) ==
  FindValue(IF st.visible[s] # 0 \/ st.rev[s] # 0 THEN [st EXCEPT !.write = @ \cup {s}] ELSE st, s)

WriteMembers(st, c) == IF c \in st.write THEN [st EXCEPT !.write = @ \cup MemberOf(c)] ELSE st
PickMember(st, c) == WriteMembers(IF st.curr[c] = "y" THEN CalcChoice(st, c) ELSE st, c)
CalcValue(st, s) ==
  CASE s \in Choice -> PickMember(CalcOwn([st EXCEPT !.chosen[s] = NoSymbol], s), s)
    [] IsMember(s) /\ st.visible[s] = 2 ->
         [st EXCEPT !.curr[s] = IF st.chosen[ChoiceOf(s)] = s THEN "y" ELSE "n"]
    [] OTHER -> CalcOwn(st, s)

(* sym_calc_value.  While it is calculated a symbol counts as calculated   *)
(* and has no value.                                                       *)
NoValue(st, s) == [st EXCEPT !.curr[s] = Blank.curr[s]]
Calc(st, s) ==
  IF s \notin Symbol \/ s \in st.valid THEN st
  ELSE CalcValue(NoValue(CalcVisibility(
         [st EXCEPT !.valid = @ \cup {s}, !.write = IF IsMember(s) THEN @ ELSE @ \ {s}],
         s), s), s)

-----------------------------------------------------------------------------
(* Setting.                                                                *)
AddCount(st, n) == [st EXCEPT !.count = Min2(@ + n, 1)]
ClearAllValid(st) == AddCount([st EXCEPT !.valid = {}, !.alone = {}], 1)

IsChangable(st, s) == st.visible[s] > st.rev[s]

WithinPrompt(st, s, value) == s \notin Int /\ value # "m" /\ Tri(value) <= st.visible[s]

TristateWithinRange(st, s, value) ==
  /\ s \notin Int /\ value # "m" /\ st.visible[s] # 0
  /\ IsChangable(st, s)
  /\ IF IsMember(s) /\ st.visible[s] = 2
       THEN value = "y"
       ELSE Tri(value) >= st.rev[s] /\ Tri(value) <= st.visible[s]

CanSetTristate(st, s, value) == st.curr[s] = value \/ TristateWithinRange(st, s, value)

SetWithoutFlag(st, s, value) == ClearAllValid([st EXCEPT !.def[s] = value])

(* Choosing a member settles the choice and all its visible members.       *)
SetTristate(st, s, value) ==
  LET a == [st EXCEPT !.user = @ \cup {s}, !.def[s] = value]
      c == ChoiceOf(s)
      b == IF IsMember(s) /\ value = "y"
             THEN [a EXCEPT !.pick[c] = s,
                            !.user = @ \cup {c} \cup {x \in MemberOf(c) : st.visible[x] # 0}]
             ELSE a
  IN IF st.curr[s] = value THEN b ELSE ClearAllValid(b)

NextTristate == [n |-> "m", m |-> "y", y |-> "n"]
Toggle(st, s) ==
  LET one == NextTristate[st.curr[s]]
      two == NextTristate[one]
  IN SetTristate(st, s, IF CanSetTristate(st, s, one) THEN one
                        ELSE IF CanSetTristate(st, s, two) THEN two ELSE st.curr[s])

StringWithinRange(s, text) == text \in Numbers /\ InRange(s, text)

SetQuietly(st, s, text) == AddCount([st EXCEPT !.user = @ \cup {s}, !.def[s] = text], 1)

SetString(st, s, text) ==
  LET a == [st EXCEPT !.user = @ \cup {s}, !.def[s] = text]
  IN IF st.def[s] = text THEN a ELSE ClearAllValid(a)

-----------------------------------------------------------------------------
(* Entries of the menu.                                                    *)
RECURSIVE IsVisible(_, _), AnyVisible(_, _), Build(_, _, _), BuildAll(_, _, _), Walk(_), WalkAll(_)

Seen(st, e) == IF e \in Symbol THEN st.visible[e] # 0 ELSE ExprValue(st, Prompt[e]) # 0
SeenBelow(st, e) ==
  IF Seen(st, e) \/ e \in Menu \/ Tri(Current(st, e)) = 0
    THEN [st |-> st, yes |-> Seen(st, e)]
    ELSE AnyVisible(st, Children[e])
IsVisible(st, e) ==
  IF e \notin Prompted THEN [st |-> st, yes |-> FALSE]
  ELSE SeenBelow(IF e \in Symbol THEN Calc(st, e) ELSE CalcExpr(st, Prompt[e]), e)
OrVisible(r, es) == IF r.yes THEN r ELSE AnyVisible(r.st, es)
AnyVisible(st, es) ==
  IF es = <<>> THEN [st |-> st, yes |-> FALSE] ELSE OrVisible(IsVisible(st, Head(es)), Tail(es))

(* What drawing the menus calculates: all says whether hidden entries are  *)
(* drawn too.                                                              *)
Draw(r, e, all) == IF r.yes \/ all THEN BuildAll(r.st, Children[e], all) ELSE r.st
Build(st, e, all) == IF e \in Prompted THEN Draw(IsVisible(st, e), e, all) ELSE st
BuildAll(st, es, all) ==
  IF es = <<>> THEN st ELSE BuildAll(Build(st, Head(es), all), Tail(es), all)

(* The entries below e in the order of the menu.                           *)
Walk(e) == <<e>> \o WalkAll(Children[e])
WalkAll(es) == IF es = <<>> THEN <<>> ELSE Walk(Head(es)) \o WalkAll(Tail(es))

-----------------------------------------------------------------------------
(* Reading and writing a file, which is a sequence of lines [sym, value];  *)
(* "# X is not set" is the line of the value n.                            *)
RECURSIVE ReadLines(_, _), CheckSaved(_, _), ResetValues(_, _), WriteEntries(_, _, _)

ReadLine(st, l) ==
  LET s == l.sym
      good == IF s \in Int THEN l.value \in Numbers ELSE l.value \in {"n", "y"}
      unset == s \in Int /\ l.value = "n"
      a == [st EXCEPT !.warned = @ \/ s \in st.user \/ ~(good \/ unset),
                      !.user = IF good THEN @ \cup {s} ELSE @,
                      !.def[s] = IF good THEN l.value ELSE @]
      c == ChoiceOf(s)
  IN IF s \notin Symbol THEN AddCount(st, 1)
     ELSE IF IsMember(s) /\ a.def[s] = "y"
       THEN [a EXCEPT !.warned = @ \/ a.def[c] # "n", !.pick[c] = s, !.def[c] = "y"]
       ELSE a
ReadLines(st, lines) ==
  IF lines = <<>> THEN st ELSE ReadLines(ReadLine(st, Head(lines)), Tail(lines))

ReadSimple(st, lines) ==
  ReadLines([st EXCEPT !.user = Choice, !.valid = {}, !.alone = {}, !.def = Blank.def, !.pick = Blank.pick,
                       !.warned = FALSE, !.unsaved = FALSE], lines)

(* Does the calculated value agree with the saved one?  A choice only      *)
(* keeps its value, and is not new, if all its visible members have one.   *)
Agrees(st, s) ==
  IF s \in st.write THEN s \in st.user /\ st.def[s] = st.curr[s] ELSE s \notin st.user

CheckSymbol(st, s) ==
  LET new == \E x \in MemberOf(s) : st.visible[x] # 0 /\ x \notin st.user
  IN IF s \in Choice THEN IF new THEN [st EXCEPT !.user = @ \ {s}] ELSE st
     ELSE IF Agrees(st, s) THEN st ELSE [st EXCEPT !.unsaved = TRUE]
CheckSaved(st, order) ==
  IF order = <<>> THEN st
  ELSE CheckSaved(CheckSymbol(Calc(st, Head(order)), Head(order)), Tail(order))

ResetValue(st, s) ==
  LET a == IF st.visible[s] = 0 /\ ~st.unsaved THEN [st EXCEPT !.user = @ \ {s}] ELSE st
  IN IF s \notin st.user \/ IsMember(s) THEN st
     ELSE IF s \in Int /\ ~StringWithinRange(s, st.def[s])
       THEN [a EXCEPT !.valid = @ \ {s}, !.alone = @ \cup {s}, !.user = @ \ {s}, !.unsaved = TRUE]
       ELSE a
ResetValues(st, order) ==
  IF order = <<>> THEN st ELSE ResetValues(ResetValue(st, Head(order)), Tail(order))

ReadChoicesFirst(st, lines, order) ==
  LET turned == [i \in DOMAIN order |-> order[Len(order) + 1 - i]]
  IN ResetValues(CheckSaved(ReadSimple([st EXCEPT !.count = 0], lines), turned), order)

CountRead(st) ==
  [AddCount(st, IF st.warned \/ st.unsaved THEN 1 ELSE 0)
     EXCEPT !.warned = FALSE, !.unsaved = FALSE]
ConfRead(st, lines, order) ==
  CountRead(ResetValues(CheckSaved(ReadSimple([st EXCEPT !.count = 0], lines), order), order))

(* What is written of the entry e, once its value is calculated.           *)
WriteEntry(st, e, es, lines) ==
  WriteEntries([st EXCEPT !.write = @ \ {e}], es,
    IF e \in st.write THEN Append(lines, [sym |-> e, value |-> st.curr[e]]) ELSE lines)
WriteEntries(st, es, lines) ==
  IF es = <<>> THEN [st |-> [st EXCEPT !.count = 0], lines |-> lines]
  ELSE CASE Head(es) \in Menu   -> WriteEntries(IsVisible(st, Head(es)).st, Tail(es), lines)
         [] Head(es) \in Choice -> WriteEntries(st, Tail(es), lines)
         [] OTHER -> WriteEntry(Calc(st, Head(es)), Head(es), Tail(es), lines)

WriteUncalculated(st) ==
  LET written == SelectSeq(WalkAll(Children["root"]), LAMBDA e : e \in st.write \ Choice)
  IN [st |-> [st EXCEPT !.count = 0],
      lines |-> [i \in DOMAIN written |-> [sym |-> written[i], value |-> st.curr[written[i]]]]]

ConfWrite(st) ==
  WriteEntries(IF st.count = 0 THEN ClearAllValid(st) ELSE st, WalkAll(Children["root"]), <<>>)

-----------------------------------------------------------------------------
(* conf_set_all_new_symbols.  values says what every boolean and choice    *)
(* without a value is set to, <<>> that none is.                           *)
SetAllNew(st, values, random) ==
  LET new == IF values = <<>> THEN {} ELSE (Bool \cup Choice) \ st.user
  IN ClearAllValid([st EXCEPT
       !.def = [s \in Symbol |-> IF s \in new THEN values[s] ELSE @[s]],
       !.user = @ \cup (IF random THEN new \ Choice ELSE new)])

(* The rest of it for random values: every choice that has no value gets   *)
(* the member picks[c].                                                    *)
RECURSIVE SetChoices(_, _, _)
SetChoice(st, c, picked) ==
  IF st.curr[c] # "y" THEN st
  ELSE [st EXCEPT !.def = [s \in Symbol |-> IF s \in MemberOf(c)
                             THEN IF s = picked THEN "y" ELSE "n" ELSE @[s]],
                  !.pick[c] = picked, !.user = @ \cup {c},
                  !.valid = @ \ {c}, !.alone = @ \cup {c}]
SetChoices(st, order, picks) ==
  IF order = <<>> THEN st
  ELSE LET c == Head(order)
       IN SetChoices(IF c \in Choice \ st.user THEN SetChoice(Calc(st, c), c, picks[c]) ELSE st,
                     Tail(order), picks)

-----------------------------------------------------------------------------
(* What the values should be, said without any order of calculation: what  *)
(* st says the user set (user, def and pick) determines the value of every *)
(* symbol.  A member is shown while its choice, taken in open, is on.      *)
RECURSIVE Meant(_, _, _), MeantChoice(_, _, _)

MeantExpr(st, e, open) ==
  LET syms == SymsOf(e)
  IN ExprValue([curr |-> [x \in {syms[i] : i \in DOMAIN syms} \cap Symbol |-> Meant(st, x, open)]], e)

MeantVisible(st, s, open) ==
  IF s \notin Prompted THEN 0
  ELSE Promote(MeantExpr(st, Prompt[s], IF IsMember(s) THEN open \cup {ChoiceOf(s)} ELSE open))
MeantRev(st, s, open) ==
  IF s \in Int \/ IsMember(s) \/ RevDep[s] = Nil THEN 0 ELSE Promote(MeantExpr(st, RevDep[s], open))

(* The first of ms that fits, NoSymbol if none does.                        *)
First(ms, Fits(_)) ==
  LET fit(i) == Fits(ms[i])
  IN IF \E i \in DOMAIN ms : fit(i)
       THEN ms[CHOOSE i \in DOMAIN ms : fit(i) /\ \A j \in 1..(i-1) : ~fit(j)]
       ELSE [value |-> NoSymbol, when |-> Nil]

MeantDefault(st, s, open) ==
  LET Holds(d) == MeantExpr(st, d.when, open) # 0
      d == First(Default[s], Holds)
  IN CASE s \in Int -> Meant(st, d.value, open)
       [] OTHER     -> Text(Min2(Tri(Meant(st, d.value, open)), MeantExpr(st, d.when, open)))

MeantChoice(st, c, open) ==
  LET Fits(d) == /\ MeantExpr(st, d.when, open) # 0
                 /\ MeantVisible(st, d.value, open \cup {c}) # 0
  IN First(Candidates(st, c), Fits).value

Meant(st, s, open) ==
  IF s \notin Symbol THEN s
  ELSE
    LET visible == MeantVisible(st, s, open)
        own == IF visible # 0 /\ s \in st.user THEN st.def[s]
               ELSE IF s \in Choice THEN "n" ELSE MeantDefault(st, s, open)
        tri == Promote(Max2(Min2(Tri(own), IF s \in st.user /\ visible # 0 THEN visible ELSE 2),
                            MeantRev(st, s, open)))
    IN CASE s \in Int -> Validated(s, own)
         [] IsMember(s) /\ visible # 0 ->
              IF MeantChoice(st, ChoiceOf(s), open) = s THEN "y" ELSE "n"
         [] s \in Choice /\ s \notin open /\ tri = 2 ->
              IF MeantChoice(st, s, open) = NoSymbol THEN "n" ELSE "y"
         [] OTHER -> Text(tri)

Meaning(st) == [s \in Symbol |-> Meant(st, s, {})]
=============================================================================
