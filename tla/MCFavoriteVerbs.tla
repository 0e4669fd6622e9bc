-------------------------- MODULE MCFavoriteVerbs --------------------------
(***************************************************************************)
(* Instances of FavoriteVerbs: a dictionary of three entries, of which one *)
(* has no infinitive; a profile may name either of the two others, and "". *)
(***************************************************************************)
EXTENDS FavoriteVerbs

MCVerbs == {"be", "bring", "blank"}
MCInfinitive == [v \in {"be", "bring"} |-> v]
MCTexts == {"b", "be"}
MCMatches == [t \in MCTexts |-> IF t = "be" THEN {"be"} ELSE {"be", "bring"}]
=============================================================================
