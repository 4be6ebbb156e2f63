------------------------- MODULE FaceHalRefinement -------------------------
(***************************************************************************)
(* FaceHal implements FaceEnrollment: the one place for an enrollment is   *)
(* the enrollment file together with the template in the store that the    *)
(* engine named in the file uses.                                          *)
(***************************************************************************)
EXTENDS FaceHal

\* The store an engine keeps its template in, on this device.
StoreOf(engine) ==
    CASE engine = "auth" -> "auth"
      [] engine = "cv" -> IF "data" \in Backends THEN "data" ELSE "tee"

Abstract ==
    INSTANCE FaceEnrollment WITH
        NoId <- 0,
        owner <- file.user,
        id <- file.id,
        face <- file # NoEnrollment /\ template[StoreOf(file.engine)] = file.id,
        accepted <- IF reply.what = "onAuthenticationSucceeded" THEN reply.id ELSE 0

\* Every behaviour of the HAL is one of the single enrollment slot.
ImplementsEnrollment == Abstract!Spec
=============================================================================
