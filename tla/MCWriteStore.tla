---------------------------- MODULE MCWriteStore ----------------------------
(***************************************************************************)
(* An instance of WriteStore: a user writes, leaves to another and returns.*)
(* Another device changes the favourites, to which the second write adds,  *)
(* too.                                                                    *)
(***************************************************************************)
EXTENDS WriteStore

MCField == [w \in AllWrites |-> IF w \in {1, 3} THEN "bestScore" ELSE "favoritesVerbs"]
=============================================================================
