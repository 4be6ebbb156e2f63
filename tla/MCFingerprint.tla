---------------------------- MODULE MCFingerprint ----------------------------
(***************************************************************************)
(* A small instance of the fingerprint HAL: one message of each kind that  *)
(* notify tells apart.                                                     *)
(***************************************************************************)
EXTENDS Fingerprint, TLC

MCMessages == {[type |-> "ERROR", data |-> 5], [type |-> "ACQUIRED", data |-> 1000],
               [type |-> "AUTHENTICATED", data |-> 0],
               [type |-> "AUTHENTICATED", data |-> 1]}

Symmetry == Permutations(Clients)
=============================================================================
