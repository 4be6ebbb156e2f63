---------------------------- MODULE MCKeyHandler ----------------------------
(***************************************************************************)
(* Instances of KeyHandler for TLC.                                        *)
(***************************************************************************)
EXTENDS KeyHandler

\* Silent, total silence, normal.
SilentZenNormal == <<0, 4, 2>>
=============================================================================
