--------------------------- MODULE FaceEnrollment ---------------------------
(***************************************************************************)
(* What the face HAL promises about enrollment, whatever its sessions do   *)
(* and however its writes fail: "The trusted app stores a single feature,  *)
(* so only one user can be enrolled at a time" (Session.h).                *)
(*                                                                         *)
(* There is one place for an enrollment.  It is taken only while empty,    *)
(* together with a face; the face may be lost before the enrollment is,    *)
(* never regained without a new enrollment; and nothing but an enrollment  *)
(* that still has its face is ever accepted.                               *)
(***************************************************************************)
CONSTANTS Users, NoUser, Ids, NoId

VARIABLES owner,    \* whose enrollment is on file
          id,       \* its enrollment id
          face,     \* the template of that enrollment is stored
          accepted  \* the enrollment just accepted, until the next answer

vars == <<owner, id, face, accepted>>

Nobody == owner = NoUser /\ id = NoId /\ face = FALSE

Init == Nobody /\ accepted = NoId

Enroll ==
    /\ Nobody
    /\ owner' \in Users
    /\ id' \in Ids \ {NoId}
    /\ face' = TRUE
    /\ accepted' = NoId

\* The template goes first: a removal under way, or one that got no further.
LoseFace ==
    /\ face
    /\ face' = FALSE
    /\ accepted' = NoId
    /\ UNCHANGED <<owner, id>>

\* The record goes: removed, or lost to a write that failed or was cut short.
Forget ==
    /\ owner # NoUser
    /\ owner' = NoUser
    /\ id' = NoId
    /\ face' = FALSE
    /\ accepted' = NoId

Accept ==
    /\ owner # NoUser
    /\ face
    /\ accepted' = id
    /\ UNCHANGED <<owner, id, face>>

\* Any other answer.
Answer == accepted' = NoId /\ UNCHANGED <<owner, id, face>>

Next == Enroll \/ LoseFace \/ Forget \/ Accept \/ Answer

Spec == Init /\ [][Next]_vars
=============================================================================
