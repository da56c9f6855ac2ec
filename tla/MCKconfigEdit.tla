--------------------------- MODULE MCKconfigEdit ---------------------------
(* A part of toolchain/Kconfig, with its choice inside a choice, and a     *)
(* package that another symbol selects.  The number comes before the       *)
(* choice it depends on, so that an answer may show what was passed.       *)
EXTENDS KconfigEdit

MCBool == {"ARM", "X86", "SOFT", "VFP3", "VFP", "SSH", "DROPBEAR"}
MCInt == {"ARM_ARCH"}
MCChoice == {"ARCH", "FLOAT"}
MCMenu == {"root", "services"}

Is(s) == Sym(s)
And(a, b) == Two("AND", a, b)

MCChildren ==
  [e \in Entry |->
     CASE e = "root"     -> <<"ARM_ARCH", "ARCH", "FLOAT", "VFP", "services">>
       [] e = "ARCH"     -> <<"X86", "ARM">>
       [] e = "FLOAT"    -> <<"SOFT", "VFP3">>
       [] e = "services" -> <<"SSH", "DROPBEAR">>
       [] OTHER          -> <<>>]
MCMembers == ("ARCH" :> MCChildren["ARCH"]) @@ ("FLOAT" :> MCChildren["FLOAT"])

MCPrompted == Entry \ {"VFP"}
MCPrompt ==
  [e \in Prompted |->
     CASE e \in {"ARM", "X86"}        -> Is("ARCH")
       [] e \in {"ARM_ARCH", "FLOAT"} -> Is("ARM")
       [] e = "SOFT"                  -> Is("FLOAT")
       [] e = "VFP3"                  -> And(Is("FLOAT"), Cmp("EQUAL", "ARM_ARCH", "2"))
       [] OTHER                       -> Nil]
MCRevDep ==
  [s \in Bool \cup Choice |->
     CASE s = "ARCH"     -> Is("m")
       [] s = "FLOAT"    -> And(Is("ARM"), Is("m"))
       [] s = "DROPBEAR" -> Is("SSH")
       [] OTHER          -> Nil]
By(value, when) == [value |-> value, when |-> when]
MCDefault ==
  [s \in Symbol |->
     CASE s = "ARM_ARCH" -> <<By("1", Nil)>>
       [] s = "VFP"      -> <<By("y", And(Is("ARM"), Not(Is("SOFT"))))>>
       [] s = "FLOAT"    -> <<By("VFP3", Cmp("EQUAL", "ARM_ARCH", "2")), By("SOFT", Nil)>>
       [] OTHER          -> <<>>]
MCRange == "ARM_ARCH" :> <<"1", "2">>

Line(s, value) == [sym |-> s, value |-> value]
ArmFile == <<Line("X86", "n"), Line("ARM", "y"), Line("ARM_ARCH", "2"), Line("SOFT", "n"),
             Line("VFP3", "y"), Line("VFP", "y"), Line("SSH", "n"), Line("DROPBEAR", "y")>>
OldFile == <<Line("ARM", "y"), Line("X86", "n"), Line("ARM_ARCH", "2"), Line("SOFT", "y"),
             Line("SSH", "y"), Line("DROPBEAR", "y")>>
\* a number out of range, and two members of a choice, as conf -r may leave it
BothFile == <<Line("X86", "y"), Line("ARM", "y"), Line("ARM_ARCH", "3"), Line("GONE", "y"),
              Line("SSH", "n"), Line("SSH", "y")>>
MCSaved == {".config" :> c @@ "alt" :> a :
              <<c, a>> \in {<<Missing, ArmFile>>, <<OldFile, BothFile>>}}

MCOrders == {<<"ARM", "SOFT", "VFP3", "DROPBEAR", "VFP", "X86", "SSH", "ARM_ARCH", "FLOAT", "ARCH">>,
             <<"VFP", "ARM_ARCH", "X86", "SSH", "DROPBEAR", "VFP3", "ARM", "SOFT", "FLOAT", "ARCH">>}
MCRandoms == {[s \in Symbol |-> IF s \in {"SSH", "VFP3", "FLOAT"} THEN v ELSE w] :
                <<v, w>> \in {<<"m", "n">>, <<"n", "y">>}}
=============================================================================
