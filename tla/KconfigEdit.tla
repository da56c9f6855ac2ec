---------------------------- MODULE KconfigEdit ----------------------------
(***************************************************************************)
(* Sessions of the configurators: mconf, gconf and qconf, in which a user  *)
(* changes, loads and saves; conf, which asks; and conf -y, -n, -m, -r and *)
(* -d, which set everything at once.  One program runs at a time, and what *)
(* it leaves in the files is what the next one finds.                      *)
(***************************************************************************)
EXTENDS KconfigSym

CONSTANTS
  Missing,      \* what there is where there is no file
  Saved,        \* what the files may hold at first
  Orders,       \* the orders the hash table may have
  Package,      \* the symbols that enable a package
  Randoms,      \* the values rand may give to the symbols
  MaxSessions,  \* bound: programs started
  MaxEdits      \* bound: changes of a user in a window

(* A choice has no name: sym_lookup puts it at the head of the last bucket *)
(* of the hash table, where the choice that comes later in the Kconfig     *)
(* files is before the earlier one.                                        *)
InHash(order) ==
  LET IsChoice(s) == s \in Choice
      parsed == SelectSeq(Walk("root"), IsChoice)
      named == SelectSeq(order, LAMBDA s : ~IsChoice(s))
  IN /\ Cardinality({order[i] : i \in DOMAIN order} \cap Symbol) = Len(order)
     /\ Len(order) = Cardinality(Symbol)
     /\ order = named \o [i \in DOMAIN parsed |-> parsed[Len(parsed) + 1 - i]]

ASSUME EditAssumption ==
  /\ Package \subseteq Bool
  /\ \A order \in Orders : InHash(order)
  /\ MaxSessions \in Nat /\ MaxEdits \in Nat

VARIABLES
  files,    \* [File -> what it holds]
  hash,     \* the order of for_all_symbols
  mem,      \* the symbols of the running program
  tool,     \* the running program, "none" if none
  all,      \* mconf, gconf, qconf: whether hidden entries are shown
  name,     \* mconf: filename
  hand,     \* the file last read or written, Missing if none is, or if one
            \* could not be read since
  edit,     \* the last change of the user, <<symbol, value>>, or <<>>
  ask,      \* conf: input_mode, "all" or "silent"; "done" after the
            \* questions, "set" if none is asked
  sync,     \* conf: sync_kconfig
  todo,     \* conf: the entries still to be visited
  root,     \* conf: rootEntry
  again,    \* conf: whether conf_cnt is not 0
  before,   \* the symbols with a value at the start of this round of check_conf
  deps,     \* the packages of the last auto.conf.cmd and of the last auto.conf
  sessions, edits

windows == <<all, name, edit, edits>>
asking == <<ask, sync, todo, root, again, before>>
vars == <<files, hash, mem, tool, hand, deps, sessions, windows, asking>>

File == {".config", "alt"}
Window == {"mconf", "gconf", "qconf"}

Refresh(st) == Build(st, "root", all)

-----------------------------------------------------------------------------
(* Starting and leaving.                                                   *)
Idle ==
  /\ tool = "none" /\ mem = Blank /\ hand = Missing
  /\ all = FALSE /\ name = ".config" /\ edit = <<>>
  /\ ask = "done" /\ sync = FALSE /\ todo = <<>> /\ root = "root" /\ again = FALSE
  /\ before = {}

Init ==
  /\ files \in Saved /\ hash \in Orders
  /\ deps = <<{}, {}>> /\ sessions = 0 /\ edits = 0
  /\ Idle

Leave ==
  /\ tool' = "none" /\ mem' = Blank /\ hand' = Missing
  /\ all' = FALSE /\ name' = ".config" /\ edit' = <<>>
  /\ ask' = "done" /\ sync' = FALSE /\ todo' = <<>> /\ root' = "root" /\ again' = FALSE
  /\ before' = {}
  /\ UNCHANGED <<hash, deps, sessions, edits>>

(* conf_read(NULL): without a .config there is something to save.          *)
ReadConfig ==
  IF files[".config"] = Missing THEN AddCount(Blank, 1)
  ELSE ConfRead(Blank, files[".config"], hash)

Start(t) ==
  /\ tool = "none" /\ sessions < MaxSessions
  /\ tool' = t /\ sessions' = sessions + 1
  /\ hand' = IF files[".config"] = Missing THEN Missing ELSE ".config"
  /\ UNCHANGED <<files, hash, deps, name, edit, edits>>

OpenWindow(t) ==
  /\ Start(t)
  /\ all' \in BOOLEAN
  /\ mem' = Build(ReadConfig, "root", all')
  /\ UNCHANGED asking

-----------------------------------------------------------------------------
(* In a window.  After a change the menus are drawn again: all of them, of *)
(* which mconf draws the one that is open.                                 *)
Change(s, value, st) ==
  /\ tool \in Window /\ edits < MaxEdits
  /\ mem' = Refresh(st) /\ edit' = <<s, value>> /\ edits' = edits + 1
  /\ UNCHANGED <<files, hash, tool, hand, deps, sessions, all, name, asking>>

Shown(s) == s \in Prompted /\ (all \/ IsVisible(mem, s).yes)

(* In mconf the members of a choice that is on are not rows: one of them   *)
(* is selected in a dialogue (conf_choice).                                *)
InDialogue(s) == tool = "mconf" /\ IsMember(s) /\ mem.curr[ChoiceOf(s)] = "y"

(* The keys y and n of mconf and qconf, a column of gconf or qconf.  gconf *)
(* says yes when what was clicked is not possible.                         *)
SetKey(s, key) ==
  LET value == IF tool = "gconf" /\ ~TristateWithinRange(mem, s, key) THEN "y" ELSE key
  IN /\ Shown(s) /\ (InDialogue(s) => key = "y") /\ CanSetTristate(mem, s, value)
     /\ Change(s, value, SetTristate(mem, s, value))

ToggleKey(s) ==
  LET st == Toggle(mem, s)
  IN Shown(s) /\ ~InDialogue(s) /\ Change(s, st.def[s], st)

EnterText(s, text) ==
  Shown(s) /\ StringWithinRange(s, text) /\ Change(s, text, SetString(mem, s, text))

(* When a file cannot be opened, the change count has already been reset.  *)
LoadFails(f) ==
  /\ tool \in Window /\ files[f] = Missing
  /\ mem' = [mem EXCEPT !.count = 0] /\ hand' = Missing /\ edit' = <<>>
  /\ UNCHANGED <<files, hash, tool, deps, sessions, all, name, edits, asking>>

Load(f) ==
  /\ tool \in Window /\ edits < MaxEdits /\ files[f] # Missing
  /\ LET st == ConfRead(mem, files[f], hash)
     IN mem' = Refresh(IF tool = "mconf" THEN [st EXCEPT !.count = 1] ELSE st)
  /\ name' = IF tool = "mconf" THEN f ELSE name
  /\ hand' = f /\ edit' = <<>> /\ edits' = edits + 1
  /\ UNCHANGED <<files, hash, tool, deps, sessions, all, asking>>

WriteTo(f) ==
  LET r == ConfWrite(mem)
  IN /\ files' = [files EXCEPT ![f] = r.lines]
     /\ mem' = IF tool = "mconf" THEN Refresh(r.st) ELSE r.st
     /\ hand' = f

(* Save of gconf and qconf is SaveAs(".config"); mconf asks for a name, and *)
(* goes on with it.                                                        *)
SaveAs(f) ==
  /\ tool \in Window /\ WriteTo(f)
  /\ name' = IF tool = "mconf" THEN f ELSE name
  /\ edit' = <<>>
  /\ UNCHANGED <<hash, tool, deps, sessions, all, edits, asking>>

QuitUnasked == tool \in Window /\ mem.count = 0 /\ Leave /\ UNCHANGED files
QuitDiscard == tool \in Window /\ mem.count # 0 /\ Leave /\ UNCHANGED files
QuitSave ==
  /\ tool \in Window /\ mem.count # 0
  /\ files' = [files EXCEPT ![name] = ConfWrite(mem).lines]
  /\ Leave

-----------------------------------------------------------------------------
(* conf.                                                                   *)
Task(do, e) == [do |-> do, entry |-> e]
Tasks(do, e) == [i \in DOMAIN Children[e] |-> Task(do, Children[e][i])]

StartConf(mode, syncing) ==
  /\ syncing => mode = "silent" /\ files[".config"] # Missing
  /\ Start("conf")
  /\ mem' = ReadConfig
  /\ ask' = mode /\ sync' = syncing
  /\ todo' = <<Task(IF mode = "silent" THEN "check" ELSE "conf", "root")>>
  /\ root' = "root" /\ again' = FALSE /\ before' = {}
  /\ UNCHANGED all

conf == tool = "conf" /\ todo # <<>>
task == Head(todo)
visit == IsVisible(mem, task.entry)

Visit(do, st, tasks) ==
  /\ conf /\ task.do = do
  /\ mem' = st /\ todo' = tasks \o Tail(todo)
  /\ UNCHANGED <<files, hash, tool, hand, deps, sessions, windows, ask, sync, before>>

SkipHidden ==
  /\ conf /\ ~visit.yes
  /\ Visit(task.do, visit.st, <<>>) /\ UNCHANGED <<root, again>>

(* A menu is not entered but checked when only new symbols are asked for,  *)
(* unless one was found in it.                                             *)
VisitMenu ==
  /\ conf /\ visit.yes /\ task.entry \in Menu
  /\ Visit("conf", visit.st, IF ask = "silent" /\ root # task.entry
                               THEN <<Task("check", task.entry)>>
                               ELSE Tasks("conf", task.entry))
  /\ UNCHANGED <<root, again>>

Asked(st, s) == IsChangable(st, s) /\ (ask = "all" \/ s \notin st.user)

VisitSymbol ==
  /\ conf /\ visit.yes /\ task.entry \in Bool \cup Int /\ ~Asked(visit.st, task.entry)
  /\ Visit("conf", visit.st, Tasks("conf", task.entry))
  /\ UNCHANGED <<root, again>>

AskTristate(value) ==
  LET s == task.entry
  IN /\ conf /\ visit.yes /\ s \in Bool /\ Asked(visit.st, s)
     /\ CanSetTristate(visit.st, s, value)
     /\ Visit("conf", SetTristate(visit.st, s, value), Tasks("conf", s))
     /\ UNCHANGED <<root, again>>

AskText(text) ==
  LET s == task.entry
  IN /\ conf /\ visit.yes /\ s \in Int /\ Asked(visit.st, s)
     /\ StringWithinRange(s, text)
     /\ Visit("conf", SetString(visit.st, s, text), Tasks("conf", s))
     /\ UNCHANGED <<root, again>>

(* A choice that is not new is set again to what it is; the member is      *)
(* asked for when there are several.                                       *)
RECURSIVE VisibleOf(_, _)
VisibleOf(st, es) ==
  IF es = <<>> THEN [st |-> st, shown |-> {}]
  ELSE LET r == IsVisible(st, Head(es))
           q == VisibleOf(r.st, Tail(es))
       IN [q EXCEPT !.shown = IF r.yes THEN @ \cup {Head(es)} ELSE @]

VisitChoice(s) ==
  LET c == task.entry
      r == VisibleOf(visit.st, Children[c])
      options == IF Cardinality(r.shown) > 1 /\ ask # "all" /\ c \in visit.st.user
                   THEN {r.st.chosen[c]} ELSE r.shown
  IN /\ conf /\ visit.yes /\ c \in Choice
     /\ IF visit.st.curr[c] = "n"
          THEN s = NoSymbol /\ Visit("conf", visit.st, <<>>)
          ELSE s \in options /\ Visit("conf", SetTristate(r.st, s, "y"), Tasks("conf", s))
     /\ UNCHANGED <<root, again>>

RECURSIVE MenuOf(_)
MenuOf(e) == IF e \in Menu THEN e
             ELSE MenuOf(CHOOSE p \in Entry : \E i \in DOMAIN Children[p] : Children[p][i] = e)

(* check_conf looks for a symbol that is to be asked for, and asks for     *)
(* everything new in its menu.                                             *)
Check ==
  LET e == task.entry
      new == /\ e \in Symbol /\ e \notin visit.st.user
             /\ IsChangable(visit.st, e) \/ (e \in Choice /\ visit.st.curr[e] = "y")
  IN /\ conf /\ visit.yes
     /\ again' = (again \/ new)
     /\ root' = IF new THEN MenuOf(e) ELSE root
     /\ Visit("check", visit.st,
              (IF new THEN <<Task("conf", MenuOf(e))>> ELSE <<>>) \o Tasks("check", e))

(* Update until a loop caused no more changes.                             *)
OneRound == ask # "silent"
Unsettled == ask # "silent" \/ again

Round ==
  /\ tool = "conf" /\ ask \in {"all", "silent"} /\ todo = <<>>
  /\ Unsettled
  /\ ask' = "silent" /\ again' = FALSE /\ todo' = <<Task("check", "root")>>
  /\ before' = mem.user
  /\ UNCHANGED <<files, hash, mem, tool, hand, deps, sessions, windows, sync, root>>

(* conf -s only writes a .config that changed.  It reads the packages for  *)
(* auto.conf.cmd from values that it has just declared invalid.            *)
Enabled(st) == {p \in Package : st.curr[p] = "y"}

Finish ==
  LET r == ConfWrite(mem)
      st == IF sync /\ mem.count = 0 THEN mem ELSE r.st
      a == CalcAll(ClearAllValid(st), hash)
  IN /\ tool = "conf" /\ todo = <<>> /\ ask \in {"all", "silent"} /\ ~Unsettled
     /\ ask' = "done" /\ mem' = IF sync THEN a ELSE st
     /\ files' = IF sync /\ mem.count = 0 THEN files ELSE [files EXCEPT ![".config"] = r.lines]
     /\ hand' = ".config"
     /\ deps' = IF sync THEN <<Enabled(st), Enabled(a) \cap a.write>> ELSE deps
     /\ UNCHANGED <<hash, tool, sessions, windows, sync, todo, root, again, before>>

(* conf -y, -n, -m and -r set what all.config, or nothing, leaves open,    *)
(* conf -d what a default configuration does.                              *)
SetAll(st, values, random, picks) ==
  LET a == SetAllNew(st, values, random)
      r == ConfWrite(IF random THEN SetChoices(a, hash, picks) ELSE a)
  IN /\ tool = "none" /\ sessions < MaxSessions
     /\ tool' = "conf" /\ ask' = "set" /\ sessions' = sessions + 1
     /\ mem' = r.st /\ hand' = ".config"
     /\ files' = [files EXCEPT ![".config"] = r.lines]
     /\ UNCHANGED <<hash, deps, windows, sync, todo, root, again, before>>

AllConfig(f) == IF f = Missing THEN Blank ELSE ReadSimple(Blank, files[f])
AllValues == {[s \in Symbol |-> v] : v \in Const}

SetEverything ==
  \E f \in {x \in File : files[x] # Missing} \cup {Missing}, values \in AllValues :
    SetAll(AllConfig(f), values, FALSE, <<>>)

(* conf -r also picks a member of every choice, in the order of the hash   *)
(* table, and declares invalid no more than the choice.                    *)
SetRandom ==
  \E f \in {x \in File : files[x] # Missing} \cup {Missing}, values \in Randoms,
     picks \in {g \in [Choice -> Bool] : \A c \in Choice : g[c] \in MemberOf(c)} :
    SetAll(AllConfig(f), values, TRUE, picks)

SetDefault ==
  /\ files["alt"] # Missing
  /\ SetAll(ConfRead(Blank, files["alt"], hash), <<>>, FALSE, <<>>)

(* A question that is not answered: ^C, or no terminal to ask on.          *)
Abort == conf /\ Leave /\ UNCHANGED files

Exit == tool = "conf" /\ ask \in {"done", "set"} /\ Leave /\ UNCHANGED files

(* The bound on the programs started is reached.                           *)
Rest == tool = "none" /\ sessions = MaxSessions /\ UNCHANGED vars

-----------------------------------------------------------------------------
InWindow ==
  \/ \E s \in Bool \cup Choice, key \in {"n", "y"} : SetKey(s, key)
  \/ \E s \in Bool \cup Choice : ToggleKey(s)
  \/ \E s \in Int, text \in Numbers : EnterText(s, text)
  \/ \E f \in File : Load(f) \/ LoadFails(f) \/ SaveAs(f)
  \/ QuitUnasked \/ QuitDiscard \/ QuitSave

InConf ==
  \/ SkipHidden \/ VisitMenu \/ VisitSymbol \/ Check \/ Round \/ Finish \/ Abort \/ Exit
  \/ \E value \in Const : AskTristate(value)
  \/ \E text \in Numbers : AskText(text)
  \/ \E s \in Bool \cup {NoSymbol} : VisitChoice(s)

Next ==
  \/ \E t \in Window : OpenWindow(t)
  \/ \E mode \in {"all", "silent"}, syncing \in BOOLEAN : StartConf(mode, syncing)
  \/ SetEverything \/ SetRandom \/ SetDefault
  \/ InWindow \/ InConf
  \/ Rest

Spec == Init /\ [][Next]_vars

-----------------------------------------------------------------------------
(* PROPERTIES                                                              *)

(* The symbols, files and tasks have the shape the code gives them.        *)
Value == Numbers \cup {"", "n", "m", "y"}
TypeOK ==
  /\ mem.valid \subseteq Symbol /\ mem.write \subseteq Symbol /\ mem.user \subseteq Symbol
  /\ mem.def \in [Symbol -> Value] /\ mem.curr \in [Symbol -> Value]
  /\ \A c \in Choice : {mem.pick[c], mem.chosen[c]} \subseteq MemberOf(c) \cup {NoSymbol}
  /\ mem.visible \in [Symbol -> {0, 2}] /\ mem.rev \in [Symbol -> {0, 2}]
  /\ \A s \in Bool \cup Choice : mem.curr[s] \in {"n", "y"}
  /\ \A f \in File : files[f] # Missing =>
       \A i \in DOMAIN files[f] : files[f][i].value \in Value \ {""}
  /\ tool \in Window \cup {"none", "conf"} /\ ask \in {"all", "silent", "done", "set"}
  /\ \A i \in DOMAIN todo : todo[i] \in [do : {"conf", "check"}, entry : Entry]

(* Two functions declare one symbol invalid, and not what was calculated   *)
(* from it: conf_read a number that is out of range, and conf -r, with an  *)
(* inner choice, the outer one whose members it calculated before.  What   *)
(* depends on such a symbol is out of date until all are cleared.          *)
Needs(s) ==
  LET Of(e) == {SymsOf(e)[i] : i \in DOMAIN SymsOf(e)} \cap Symbol
      OfPrompt(x) == IF x \in Prompted THEN Of(Prompt[x]) ELSE {}
      OfDefault(d) == Of(d.when) \cup ({d.value} \cap Symbol)
  IN OfPrompt(s) \cup (IF s \in Int THEN {} ELSE Of(RevDep[s]))
     \cup IF s \in Choice
            THEN UNION {OfPrompt(x) : x \in MemberOf(s)}
                 \cup UNION {Of(Default[s][i].when) : i \in DOMAIN Default[s]}
            ELSE UNION {OfDefault(Default[s][i]) : i \in DOMAIN Default[s]}
                 \cup {c \in Choice : s \in MemberOf(c)}
RECURSIVE WithNeeds(_)
WithNeeds(S) ==
  LET more == S \cup UNION {Needs(s) : s \in S} IN IF more = S THEN S ELSE WithNeeds(more)
UpToDate(s) == mem.alone \cap WithNeeds(Needs(s) \ {s}) = {}

(* A value that counts as calculated is the one that what the user set     *)
(* determines: nothing that was calculated before survives a change        *)
(* (SYMBOL_VALID, sym_clear_all_valid).                                    *)
ValuesCurrent ==
  \A s \in mem.valid : UpToDate(s) => mem.curr[s] = Meant(mem, s, {})

(* When the change count says that nothing is to be saved, and when conf   *)
(* has ended, reading the file that was last read or written gives every   *)
(* symbol the value it has: conf_write writes all that matters, and        *)
(* conf_read notices when values and file differ.                          *)
SavedIsRead ==
  /\ hand # Missing
  /\ mem.count = 0 \/ (ask \in {"done", "set"} /\ tool = "conf")
  => LET read == ReadSimple(Blank, files[hand])
     IN \A s \in Symbol : UpToDate(s) => Meant(read, s, {}) = Meant(mem, s, {})

(* A change that is accepted takes effect: no default, selection or choice *)
(* overrules what the user just said of a symbol that is shown             *)
(* (sym_tristate_within_range, sym_string_within_range).                   *)
EditTakesEffect ==
  edit # <<>> /\ MeantVisible(mem, edit[1], {}) # 0 /\ UpToDate(edit[1]) =>
    Meant(mem, edit[1], {}) = edit[2]

(* A choice one of whose visible members is not in the file is new after   *)
(* the file was read, and so asked for (conf_read).                        *)
ChoiceWithNewMemberIsNew ==
  [][tool = "none" /\ tool' # "none" /\ ask' # "set" =>
       \A c \in Choice \cap mem'.user : \A x \in MemberOf(c) :
         MeantVisible(mem', x, {}) # 0 => x \in mem'.user]_vars

(* When conf has asked, the user was asked for everything that can be      *)
(* changed, also for what an answer made visible (check_conf).             *)
AllAsked ==
  ask = "done" /\ tool = "conf" =>
    \A s \in (Prompted \cap Symbol) \ mem.user :
      /\ MeantVisible(mem, s, {}) <= MeantRev(mem, s, {})
      /\ s \in Choice => Meant(mem, s, {}) = "n"

(* Every round of check_conf that asks for something settles at least one  *)
(* symbol more, so that the loop ends.                                     *)
RoundsSettle ==
  [][Round /\ again => before \subseteq mem.user /\ before # mem.user]_vars

(* The packages whose dependencies conf -s writes to auto.conf.cmd are     *)
(* those that auto.conf enables (file_write_dep, conf_write_autoconf).     *)
DepsAgree == deps[1] = deps[2]

(* A window is only left without a question when a file holds what it      *)
(* shows (conf_get_changed).                                               *)
AskedBeforeQuitting ==
  [][QuitUnasked => \E f \in File : files[f] # Missing
       /\ Meaning(ReadSimple(Blank, files[f])) = Meaning(mem)]_vars
=============================================================================
