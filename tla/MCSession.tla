----------------------------- MODULE MCSession -----------------------------
(***************************************************************************)
(* An instance of Session: two users on one device.                        *)
(***************************************************************************)
EXTENDS Session
=============================================================================
