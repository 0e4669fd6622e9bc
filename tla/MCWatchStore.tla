---------------------------- MODULE MCWatchStore ----------------------------
(***************************************************************************)
(* Instances of WatchStore: a few calls of getDocuments one upon another.  *)
(***************************************************************************)
EXTENDS WatchStore, TLC
=============================================================================
