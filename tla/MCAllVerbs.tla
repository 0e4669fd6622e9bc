----------------------------- MODULE MCAllVerbs -----------------------------
(***************************************************************************)
(* An instance of AllVerbs: three verbs of which a letter matches two and  *)
(* a second letter one, with or without an entry that has no infinitive.   *)
(***************************************************************************)
EXTENDS AllVerbs

MCVerbs == {"be", "bring", "go", "blank"}
MCDictionaries == {MCVerbs, MCVerbs \ {"blank"}}
MCTexts == {"", "b", "be"}
MCMatches ==
    [t \in MCTexts |-> CASE t = "" -> {"be", "bring", "go"}
                         [] t = "b" -> {"be", "bring"}
                         [] t = "be" -> {"be"}]
=============================================================================
