---------------------------- MODULE MCAlertSlider ----------------------------
(***************************************************************************)
(* Instances of the alert slider for TLC.                                  *)
(***************************************************************************)
EXTENDS AlertSlider

\* Silent, total silence, normal.
SilentZenNormal == <<0, 4, 2>>
=============================================================================
