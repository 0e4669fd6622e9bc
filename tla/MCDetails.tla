----------------------------- MODULE MCDetails -----------------------------
(***************************************************************************)
(* Instances of Details: one screen tapped twice, or two screens one after *)
(* the other, for the same verb, another, or one without infinitive.       *)
(***************************************************************************)
EXTENDS Details
=============================================================================
