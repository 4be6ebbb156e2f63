--------------------------- MODULE FaceHalProofs ---------------------------
(***************************************************************************)
(* Proofs about FaceHal, for every number of sessions and users and every  *)
(* choice of backends, failures and bounds.                                *)
(***************************************************************************)
EXTENDS FaceHalRefinement, SequenceTheorems, TLAPS

-----------------------------------------------------------------------------
(* Types.                                                                  *)

\* The sentinels and the bounded numbers have the types the records ask for.
LEMMA Sentinels ==
    /\ NoJob \in Jobs
    /\ NoReply \in Reply
    /\ NoEnrollment \notin Enrollment
    /\ 0 \in Ids
BY ConstantsAssumption DEF NoJob, Jobs, Kinds, Ids, NoReply, Reply, Replies,
   NoEnrollment, Enrollment

\* Erasing a template leaves the stores typed: everything stays but the slot of
\* the store in use, which may have become empty.
LEMMA RemoveFeatureOutcome ==
    ASSUME TypeOK, NEW r \in RemoveFeature
    PROVE  /\ r.ok \in BOOLEAN
           /\ \/ r.template = template
              \/ r.template = [template EXCEPT ![backend] = 0]
           /\ r.template \in [AllBackends -> Ids]
           /\ r.ok => r.template = [template EXCEPT ![backend] = 0]
<1> DEFINE erased == [template EXCEPT ![backend] = 0]
<1>1. erased \in [AllBackends -> Ids] /\ template \in [AllBackends -> Ids]
  BY Sentinels DEF TypeOK
<1>2. r.ok \in BOOLEAN /\ r.template \in {template, erased}
  BY DEF RemoveFeature
<1>3. r.ok => r.template = erased
  BY <1>2 DEF RemoveFeature
<1> HIDE DEF erased
<1>4. QED BY <1>1, <1>2, <1>3 DEF erased

\* The end of an operation keeps the types of what it resets.
LEMMA FinishTypes ==
    ASSUME TypeOK, NEW s \in Sessions, NEW r \in Reply, FinishWith(s, r)
    PROVE  /\ pc' \in [Sessions -> Steps]
           /\ job' \in [Sessions -> Jobs]
           /\ enr' \in [Sessions -> Enrollment \cup {NoEnrollment}]
           /\ found' \in [Sessions -> {"nothing", "another", "match", "error"}]
           /\ lock' \in Sessions \cup {NoSession}
           /\ reply' \in Reply
BY Sentinels DEF FinishWith, TypeOK, Steps

\* A reply with nothing but an addressee and a name is a reply.
LEMMA PlainReply ==
    ASSUME NEW s \in Sessions, NEW what \in Replies
    PROVE  [NoReply EXCEPT !.to = s, !.what = what] \in Reply
BY Sentinels DEF Reply, NoReply

\* Callers leave every variable in its type.
LEMMA ClientTypes ==
    ASSUME TypeOK, NEW s \in Sessions, ClientStep(s) \/ SessionDestroyed(s)
    PROVE  TypeOK'
<1> USE ConstantsAssumption, Sentinels
        DEF storage, lockouts, objects, worker
<1>1. ASSUME NEW u \in Users, createSession(s, u) PROVE TypeOK'
  BY <1>1 DEF createSession, TypeOK
<1>2. CASE ReleaseSession(s)
  BY <1>2 DEF ReleaseSession, TypeOK
<1>3. CASE SessionDestroyed(s)
  BY <1>3 DEF SessionDestroyed, TypeOK
<1>4. CASE generateChallenge(s)
  BY <1>4 DEF generateChallenge, TypeOK
<1>5. CASE revokeChallenge(s)
  BY <1>5 DEF revokeChallenge, TypeOK
<1>6. ASSUME NEW j \in Jobs, schedule(s, j), nextId' \in Ids PROVE TypeOK'
  BY <1>6 DEF schedule, TypeOK
<1>7. ASSUME nextId < MaxIds, nextId' = nextId + 1
      PROVE  nextId' \in Ids /\ nextId + 1 \in Ids /\ nextId + 1 # 0
  BY <1>7 DEF TypeOK, Ids
<1>8. CASE enroll(s)
  <2>1. PICK c \in Challenges :
            schedule(s, [NoJob EXCEPT !.kind = "enroll", !.challenge = c,
                                      !.id = nextId + 1])
    BY <1>8 DEF enroll
  <2>2. [NoJob EXCEPT !.kind = "enroll", !.challenge = c, !.id = nextId + 1] \in Jobs
    BY <1>7, <1>8 DEF enroll, Jobs, NoJob, Kinds
  <2> QED BY <1>6, <1>7, <1>8, <2>1, <2>2 DEF enroll
<1>9. CASE authenticate(s)
  <2>1. [NoJob EXCEPT !.kind = "authenticate"] \in Jobs
    BY DEF Jobs, NoJob, Kinds
  <2> QED BY <1>6, <1>9, <2>1 DEF authenticate, TypeOK
<1>10. CASE removeEnrollments(s)
  <2>1. PICK i \in KnownIds :
            schedule(s, [NoJob EXCEPT !.kind = "removeEnrollments", !.id = i])
    BY <1>10 DEF removeEnrollments
  <2>2. i \in Ids
    BY DEF KnownIds, TypeOK, Enrollment, NoEnrollment, Jobs
  <2>3. [NoJob EXCEPT !.kind = "removeEnrollments", !.id = i] \in Jobs
    BY <2>2 DEF Jobs, NoJob, Kinds
  <2> QED BY <1>6, <1>10, <2>1, <2>3 DEF removeEnrollments, TypeOK
<1>11. CASE setFeature(s)
  <2>1. PICK on \in BOOLEAN :
            schedule(s, [NoJob EXCEPT !.kind = "setFeature", !.on = on])
    BY <1>11 DEF setFeature
  <2>2. [NoJob EXCEPT !.kind = "setFeature", !.on = on] \in Jobs
    BY DEF Jobs, NoJob, Kinds
  <2> QED BY <1>6, <1>11, <2>1, <2>2 DEF setFeature, TypeOK
<1>12. CASE invalidateAuthenticatorId(s)
  <2>1. [NoJob EXCEPT !.kind = "invalidateAuthenticatorId", !.id = nextId + 1] \in Jobs
    BY <1>7, <1>12 DEF invalidateAuthenticatorId, Jobs, NoJob, Kinds
  <2> QED BY <1>6, <1>7, <1>12, <2>1 DEF invalidateAuthenticatorId
<1>13. CASE resetLockout(s)
  <2>1. [NoJob EXCEPT !.kind = "resetLockout"] \in Jobs
    BY DEF Jobs, NoJob, Kinds
  <2> QED BY <1>6, <1>13, <2>1 DEF resetLockout, TypeOK
<1>14. CASE query(s)
  BY <1>6, <1>14 DEF query, TypeOK
<1>15. CASE Cancel(s)
  <2>1. CASE UNCHANGED queue
    <3>1. job[s] \in Jobs
      BY DEF TypeOK
    <3>2. [job[s] EXCEPT !.cancelled = TRUE] \in Jobs
      BY <3>1 DEF Jobs
    <3>3. job' = job \/ job' = [job EXCEPT ![s] = [job[s] EXCEPT !.cancelled = TRUE]]
      BY <1>15, <2>1 DEF Cancel, TypeOK
    <3>4. job' \in [Sessions -> Jobs]
      BY <3>2, <3>3 DEF TypeOK
    <3> QED BY <1>15, <2>1, <3>4 DEF Cancel, TypeOK
  <2>2. ASSUME NEW k \in 1 .. Len(queue[s]),
               queue' = [queue EXCEPT ![s][k].cancelled = TRUE], UNCHANGED job
        PROVE  TypeOK'
    <3>1. queue[s] \in Seq(Jobs) /\ queue[s][k] \in Jobs
      BY DEF TypeOK
    <3>2. [queue[s][k] EXCEPT !.cancelled = TRUE] \in Jobs
      BY <3>1 DEF Jobs
    <3>3. [queue[s] EXCEPT ![k] = [queue[s][k] EXCEPT !.cancelled = TRUE]] \in Seq(Jobs)
      BY <3>1, <3>2
    <3>4. queue' = [queue EXCEPT ![s] =
                       [queue[s] EXCEPT ![k] = [queue[s][k] EXCEPT !.cancelled = TRUE]]]
      BY <2>2, <3>1 DEF TypeOK
    <3>5. queue' \in [Sessions -> Seq(Jobs)]
      BY <3>3, <3>4 DEF TypeOK
    <3> QED BY <1>15, <2>2, <3>5 DEF Cancel, TypeOK
  <2> QED BY <1>15, <2>1, <2>2 DEF Cancel
<1> QED BY <1>1, <1>2, <1>3, <1>4, <1>5, <1>8, <1>9, <1>10, <1>11, <1>12, <1>13,
           <1>14, <1>15 DEF ClientStep
\* What is written to the enrollment file is a record, or nothing is left.
LEMMA SaveFileOutcome ==
    ASSUME TypeOK, NEW e \in Enrollment \cup {NoEnrollment}, NEW w \in SaveFile(e)
    PROVE  /\ w.ok \in BOOLEAN
           /\ w.ok => w.file = e
           /\ ~ w.ok => w.file \in {file, NoEnrollment}
           /\ w.file \in Enrollment \cup {NoEnrollment}
BY DEF SaveFile, TypeOK

\* A record's fields have their types whether or not there is an enrollment, and
\* having an owner is what tells one.
LEMMA RecordFields ==
    ASSUME NEW e \in Enrollment \cup {NoEnrollment}
    PROVE  /\ e.id \in Ids
           /\ e.authId \in Ids
           /\ e.user \in Users => e \in Enrollment
           /\ e.user = NoUser <=> e = NoEnrollment
           /\ e.id = 0 <=> e = NoEnrollment
<1>1. CASE e \in Enrollment
  BY <1>1, Sentinels, ConstantsAssumption DEF Enrollment
<1>2. CASE e = NoEnrollment
  BY <1>2, Sentinels, ConstantsAssumption DEF NoEnrollment
<1> QED BY <1>1, <1>2

\* Counting one more keeps a table of counters one.
LEMMA CounterIncrement ==
    ASSUME NEW f \in [Users -> Nat], NEW u \in Users
    PROVE  [f EXCEPT ![u] = f[u] + 1] \in [Users -> Nat]
OBVIOUS

\* Waiting for a frame and being given one changes nothing but the camera.
LEMMA NextFrameStutters ==
    ASSUME NEW s \in Sessions, NextFrame(s)
    PROVE  /\ pc[s] \in {"capture", "match"}
           /\ camera # "off" /\ camera' \in {"on", "awaited"}
           /\ UNCHANGED <<file, template, backend, failures, locked, life, user,
                          challenges, queue, pc, job, enr, found, lock, nextId, reply,
                          removed, tries>>
BY DEF NextFrame, Looping, WorkerFrame, storage, lockouts, objects, worker

\* Workers leave every variable in its type, except that an operation on a user's
\* lockout or record needs the session to have a user: see WorkerHasUser.
LEMMA WorkerTypes ==
    ASSUME TypeOK, NEW s \in Sessions, HalStep(s) \/ FrameStep(s),
           pc[s] # "idle" => user[s] \in Users,
           pc[s] \in {"capture", "store", "save"} => job[s].kind = "enroll"
    PROVE  TypeOK'
<1> USE ConstantsAssumption, Sentinels, FinishTypes, PlainReply
        DEF storage, lockouts, objects, WorkerFrame
<1>1. ASSUME NEW what \in Replies, Finish(s, what)
      PROVE  FinishWith(s, [NoReply EXCEPT !.to = s, !.what = what])
  BY <1>1 DEF Finish
<1>2. ASSUME NEW what \in Replies, Finish(s, what)
      PROVE  /\ pc' \in [Sessions -> Steps]
             /\ job' \in [Sessions -> Jobs]
             /\ enr' \in [Sessions -> Enrollment \cup {NoEnrollment}]
             /\ found' \in [Sessions -> {"nothing", "another", "match", "error"}]
             /\ lock' \in Sessions \cup {NoSession}
             /\ reply' \in Reply
  BY <1>1, <1>2
<1>3. ASSUME NEW p \in Steps, Continue(s, p)
      PROVE  /\ pc' \in [Sessions -> Steps]
             /\ job' \in [Sessions -> Jobs]
             /\ lock' \in Sessions \cup {NoSession}
             /\ reply' \in Reply
  BY <1>3 DEF Continue, TypeOK
<1>4. \A r \in RemoveFeature : r.template \in [AllBackends -> Ids]
  BY RemoveFeatureOutcome
<1>5. job[s] \in Jobs /\ job[s].id \in Ids
  BY DEF TypeOK, Jobs
<1> USE <1>2, <1>3, <1>4, <1>5
<1>6. CASE Dequeue(s)
  <2>1. Head(queue[s]) \in Jobs /\ Tail(queue[s]) \in Seq(Jobs)
    <3>1. queue[s] \in Seq(Jobs) /\ queue[s] # <<>>
      BY <1>6 DEF Dequeue, TypeOK
    <3> QED BY <3>1, HeadTailProperties
  <2> QED BY <1>6, <2>1 DEF Dequeue, TypeOK, Steps
<1>7. CASE EnrollRefused(s)
  BY <1>7 DEF EnrollRefused, TypeOK, Replies
<1>8. CASE EnrollBegin(s)
  BY <1>8 DEF EnrollBegin, TypeOK, Replies, Steps
<1>9. CASE EnrollCaptured(s)
  <2>1. [template EXCEPT !["auth"] = job[s].id] \in [AllBackends -> Ids]
    BY DEF TypeOK
  <2>2. template' \in [AllBackends -> Ids]
    BY <1>9, <2>1 DEF EnrollCaptured
  <2>3. /\ pc' \in [Sessions -> Steps]
        /\ job' \in [Sessions -> Jobs]
        /\ lock' \in Sessions \cup {NoSession}
        /\ reply' \in Reply
    BY <1>9 DEF EnrollCaptured, Steps
  <2> QED BY <1>9, <2>2, <2>3 DEF EnrollCaptured, TypeOK
<1>10. CASE EnrollGivesUp(s)
  BY <1>10 DEF EnrollGivesUp, TypeOK, Replies
<1>11. CASE EnrollStore(s)
  <2>1. /\ [template EXCEPT ![backend] = job[s].id] \in [AllBackends -> Ids]
        /\ [template EXCEPT !["data"] = 0] \in [AllBackends -> Ids]
    BY DEF TypeOK
  <2>2. template' \in [AllBackends -> Ids]
    BY <1>11, <2>1 DEF EnrollStore, TypeOK
  <2>3. CASE Continue(s, "save") /\ UNCHANGED <<enr, found>>
    BY <1>11, <2>2, <2>3 DEF EnrollStore, TypeOK, Steps
  <2>4. CASE Finish(s, "UNABLE_TO_PROCESS")
    BY <1>11, <2>2, <2>4 DEF EnrollStore, TypeOK, Replies
  <2> QED BY <1>11, <2>3, <2>4 DEF EnrollStore
<1>12. CASE EnrollSave(s)
  <2> DEFINE e == [user |-> user[s], id |-> job[s].id, authId |-> job[s].id,
                   attention |-> TRUE, engine |-> engineName]
  <2>1. e \in Enrollment
    BY <1>12 DEF EnrollSave, Enrollment, engineName, Jobs
  <2>2. PICK w \in SaveFile(e) :
          /\ file' = w.file
          /\ \/ /\ w.ok
                /\ UNCHANGED template
                /\ FinishWith(s, [to |-> s, what |-> "onEnrollmentProgress",
                                  id |-> job[s].id, face |-> 0])
             \/ /\ ~ w.ok
                /\ \E r \in RemoveFeature : template' = r.template
                /\ Finish(s, "UNABLE_TO_PROCESS")
    BY <1>12 DEF EnrollSave
  <2> HIDE DEF e
  <2>3. file' \in Enrollment \cup {NoEnrollment}
    BY <2>1, <2>2, SaveFileOutcome
  <2>4. [to |-> s, what |-> "onEnrollmentProgress", id |-> job[s].id, face |-> 0]
            \in Reply
    BY DEF Reply, Replies
  <2> QED BY <1>12, <2>2, <2>3, <2>4 DEF EnrollSave, TypeOK, Replies
<1>13. CASE AuthenticateRefused(s)
  BY <1>13 DEF AuthenticateRefused, TypeOK, Replies
<1>14. CASE AuthenticateBegin(s)
  BY <1>14 DEF AuthenticateBegin, TypeOK, Steps
<1>15. CASE AuthenticateCompared(s)
  BY <1>15 DEF AuthenticateCompared, TypeOK
<1>26. CASE NextFrame(s)
  BY <1>26, NextFrameStutters DEF TypeOK
<1>16. CASE AuthenticateStops(s)
  BY <1>16 DEF AuthenticateStops, TypeOK, Steps
<1>17. CASE AuthenticationSucceeded(s)
  <2>1. [to |-> s, what |-> "onAuthenticationSucceeded",
         id |-> enr[s].id, face |-> template[backend]] \in Reply
    <3>1. enr[s].id \in Ids
      BY RecordFields DEF TypeOK
    <3>2. template[backend] \in Ids
      BY DEF TypeOK
    <3> QED BY <3>1, <3>2 DEF Reply, Replies
  <2> QED BY <1>17, <2>1 DEF AuthenticationSucceeded, TypeOK
<1>18. CASE AuthenticationFailed(s)
  <2>1. /\ failures' \in [Users -> Nat]
        /\ tries' \in [Users -> Nat]
    <3>1. /\ failures' = [failures EXCEPT ![user[s]] = failures[user[s]] + 1]
          /\ tries' = [tries EXCEPT ![user[s]] = tries[user[s]] + 1]
      BY <1>18 DEF AuthenticationFailed
    <3>2. user[s] \in Users
      BY <1>18 DEF AuthenticationFailed
    <3>3. failures \in [Users -> Nat] /\ tries \in [Users -> Nat]
      BY DEF TypeOK
    <3> QED BY <3>1, <3>2, <3>3, CounterIncrement, Zenon
  <2> DEFINE n == failures[user[s]] + 1
             b == locked[user[s]] \/ (n < PermanentFailures /\ n % TimedFailures = 0)
  <2>2. locked' \in [Users -> BOOLEAN]
    <3>1. locked' = [locked EXCEPT ![user[s]] = b]
      BY <1>18 DEF AuthenticationFailed
    <3>2. b \in BOOLEAN
      OBVIOUS
    <3> HIDE DEF b
    <3> QED BY <3>1, <3>2 DEF TypeOK
  <2> QED BY <1>18, <2>1, <2>2 DEF AuthenticationFailed, TypeOK, Replies
<1>19. CASE AuthenticationError(s)
  BY <1>19 DEF AuthenticationError, TypeOK, Replies
<1>20. CASE RemoveBegin(s)
  BY <1>20 DEF RemoveBegin, Report, TypeOK, Replies, Steps
<1>21. CASE RemoveUnlink(s)
  BY <1>21 DEF RemoveUnlink, UnlinkFile, Report, TypeOK, Replies
<1>22. CASE RewriteBegin(s)
  <2>1. file.user = user[s] => Changed(s) \in Enrollment
    <3>1. file.user = user[s] => file \in Enrollment
      BY <1>22, RecordFields DEF RewriteBegin, Begins, TypeOK
    <3>2. file \in Enrollment => [file EXCEPT !.attention = job[s].on] \in Enrollment
      BY DEF Enrollment, TypeOK, Jobs
    <3>3. file \in Enrollment => [file EXCEPT !.authId = job[s].id] \in Enrollment
      BY DEF Enrollment
    <3> QED BY <3>1, <3>2, <3>3 DEF Changed
  <2>2. CASE Continue(s, "rewrite") /\ enr' = [enr EXCEPT ![s] = Changed(s)]
             /\ file.user = user[s] /\ UNCHANGED found
    BY <1>22, <2>1, <2>2 DEF RewriteBegin, TypeOK, Steps
  <2>3. CASE Finish(s, IF job[s].kind = "setFeature" THEN "UNABLE_TO_PROCESS"
                                     ELSE "onAuthenticatorIdInvalidated")
    BY <1>22, <2>3 DEF RewriteBegin, TypeOK, Replies
  <2> QED BY <1>22, <2>2, <2>3 DEF RewriteBegin
<1>23. CASE RewriteSave(s)
  <2>1. PICK w \in SaveFile(enr[s]) :
          /\ file' = w.file
          /\ \/ Finish(s, IF w.ok THEN "onFeatureSet" ELSE "UNABLE_TO_PROCESS")
             \/ FinishWith(s, [to |-> s, what |-> "onAuthenticatorIdInvalidated",
                               id |-> enr[s].authId, face |-> 0])
    BY <1>23 DEF RewriteSave
  <2>2. file' \in Enrollment \cup {NoEnrollment}
    <3>1. enr[s] \in Enrollment \cup {NoEnrollment}
      BY DEF TypeOK
    <3> QED BY <2>1, <3>1, SaveFileOutcome
  <2>3. [to |-> s, what |-> "onAuthenticatorIdInvalidated",
         id |-> enr[s].authId, face |-> 0] \in Reply
    <3>1. enr[s].authId \in Ids
      BY RecordFields DEF TypeOK
    <3> QED BY <3>1 DEF Reply, Replies
  <2> QED BY <1>23, <2>1, <2>2, <2>3 DEF RewriteSave, TypeOK, Replies
<1>24. CASE ResetLockout(s)
  BY <1>24 DEF ResetLockout, Begins, TypeOK, Replies
<1>25. CASE Query(s)
  BY <1>25 DEF Query, TypeOK, Replies
<1> QED BY <1>6, <1>7, <1>8, <1>9, <1>10, <1>11, <1>12, <1>13, <1>14, <1>15, <1>16,
           <1>17, <1>18, <1>19, <1>20, <1>21, <1>22, <1>23, <1>24, <1>25, <1>26
           DEF HalStep, FrameStep
-----------------------------------------------------------------------------
(* The inductive invariant.                                                *)

\* The template of an enrollment stays its own while the record stays, changed in
\* other fields or gone, and the store in use stays or is emptied.
LEMMA OwnedStays ==
    ASSUME TypeOK, TemplateOwned,
           \/ file' = NoEnrollment
           \/ file' = file
           \/ file # NoEnrollment /\ file'.id = file.id /\ file'.engine = file.engine,
           template' \in {template, [template EXCEPT ![backend] = 0]}
    PROVE  TemplateOwned'
<1> SUFFICES ASSUME file' # NoEnrollment, NEW b \in Backends,
                    (b = "auth") <=> (file'.engine = "auth")
             PROVE  template'[b] \in {0, file'.id}
  BY DEF TemplateOwned
<1>1. file # NoEnrollment /\ file'.id = file.id /\ file'.engine = file.engine
  OBVIOUS
<1>2. template[b] \in {0, file.id}
  BY <1>1 DEF TemplateOwned
<1>3. template'[b] \in {0, template[b]}
  BY ConstantsAssumption DEF TypeOK
<1> QED BY <1>1, <1>2, <1>3

\* A worker inside an operation, or at its beginning, is alone.
LEMMA Alone ==
    ASSUME TypeOK, Exclusion, StepsRelyOn, NEW s \in Sessions,
           lock = NoSession \/ pc[s] \in Holding, NEW t \in Sessions, t # s
    PROVE  pc[t] \notin Holding /\ found[t] = "nothing"
<1>1. lock # t
  BY ConstantsAssumption DEF Exclusion
<1> QED BY <1>1 DEF Exclusion, StepsRelyOn, ReliesOn, Holding

\* After an operation's last step nobody is inside one.
LEMMA FinishKeepsInv ==
    ASSUME Inv, NEW s \in Sessions, NEW r \in Reply, FinishWith(s, r),
           lock = NoSession \/ pc[s] \in Holding,
           UNCHANGED <<backend, life, user>>,
           camera' = "off", TypeOK', TemplateOwned',
           r.what = "onAuthenticationSucceeded" => r.id # 0 /\ r.face = r.id
    PROVE  Inv'
<1>1. ASSUME NEW t \in Sessions
      PROVE  /\ pc'[t] \in {"idle", "lock"}
             /\ found'[t] = "nothing"
             /\ pc'[t] # "idle" => pc[t] # "idle"
  <2>1. CASE t = s
    BY <2>1 DEF FinishWith, Inv, TypeOK
  <2>2. CASE t # s
    <3>1. pc[t] \notin Holding /\ found[t] = "nothing"
      BY <2>2, Alone DEF Inv
    <3>2. pc'[t] = pc[t] /\ found'[t] = found[t]
      BY <2>2 DEF FinishWith, Inv, TypeOK
    <3> QED BY <3>1, <3>2 DEF Holding, Inv, TypeOK, Steps
  <2> QED BY <2>1, <2>2
<1>2. Exclusion'
  BY <1>1, ConstantsAssumption DEF Exclusion, Holding, FinishWith
<1>3. WorkerHasUser'
  BY <1>1 DEF WorkerHasUser, Inv
<1>4. StepsRelyOn' /\ MatchIsCurrent' /\ CameraHeld'
  BY <1>1 DEF StepsRelyOn, ReliesOn, MatchIsCurrent, CurrentMatch, CameraHeld, Looping
<1>5. SuccessNamesItsFace'
  BY DEF SuccessNamesItsFace, FinishWith
<1> QED BY <1>2, <1>3, <1>4, <1>5 DEF Inv

\* A step further into an operation: only this worker is inside one.
LEMMA ContinueAlone ==
    ASSUME Inv, NEW s \in Sessions, NEW p \in Holding, Continue(s, p),
           lock = NoSession \/ pc[s] \in Holding, pc[s] # "idle",
           found' = [found EXCEPT ![s] = found'[s]],
           UNCHANGED <<life, user>>
    PROVE  /\ pc'[s] = p
           /\ \A t \in Sessions : t # s => /\ pc'[t] \in {"idle", "lock"}
                                           /\ found'[t] = "nothing"
           /\ Exclusion' /\ WorkerHasUser' /\ SuccessNamesItsFace'
<1>1. pc'[s] = p /\ lock' = s
  BY DEF Continue, Inv, TypeOK
<1>2. ASSUME NEW t \in Sessions, t # s
      PROVE  pc'[t] = pc[t] /\ pc'[t] \in {"idle", "lock"} /\ found'[t] = "nothing"
  <2>1. pc[t] \notin Holding /\ found[t] = "nothing"
    BY <1>2, Alone DEF Inv
  <2>2. pc'[t] = pc[t] /\ found'[t] = found[t]
    BY <1>2 DEF Continue, Inv, TypeOK
  <2> QED BY <2>1, <2>2 DEF Holding, Inv, TypeOK, Steps
<1>3. Exclusion'
  BY <1>1, <1>2 DEF Exclusion, Holding
<1>4. WorkerHasUser'
  BY <1>1, <1>2 DEF WorkerHasUser, Inv
<1>5. SuccessNamesItsFace'
  BY DEF SuccessNamesItsFace, Continue, NoReply
<1> QED BY <1>1, <1>2, <1>3, <1>4, <1>5
\* Callers, and the destructor of a session at rest, keep the invariant.
LEMMA ClientKeepsInv ==
    ASSUME Inv, NEW s \in Sessions, ClientStep(s) \/ SessionDestroyed(s)
    PROVE  Inv'
<1> USE DEF storage, lockouts, objects, worker
<1>1. TypeOK'
  BY ClientTypes DEF Inv
<1>2. UNCHANGED <<file, template, backend, failures, locked, pc, enr, found, lock,
                  camera, reply>>
  BY DEF ClientStep, SessionDestroyed, createSession, ReleaseSession, generateChallenge,
     revokeChallenge, enroll, authenticate, removeEnrollments, setFeature,
     invalidateAuthenticatorId, resetLockout, query, Cancel, schedule
<1>3. \A t \in Sessions : job'[t].kind = job[t].kind /\ job'[t].id = job[t].id
  <2>1. CASE UNCHANGED job
    BY <2>1
  <2>2. CASE Cancel(s) /\ job' = [job EXCEPT ![s].cancelled = TRUE]
    <3>1. job[s] \in Jobs
      BY DEF Inv, TypeOK
    <3>2. /\ [job[s] EXCEPT !.cancelled = TRUE].kind = job[s].kind
          /\ [job[s] EXCEPT !.cancelled = TRUE].id = job[s].id
      BY <3>1 DEF Jobs
    <3>3. job' = [job EXCEPT ![s] = [job[s] EXCEPT !.cancelled = TRUE]]
      BY <2>2 DEF Inv, TypeOK
    <3>4. ASSUME NEW t \in Sessions
          PROVE  job'[t] = IF t = s THEN [job[s] EXCEPT !.cancelled = TRUE] ELSE job[t]
      BY <3>3 DEF Inv, TypeOK
    <3> QED BY <3>2, <3>4
  <2> QED BY <2>1, <2>2 DEF ClientStep, SessionDestroyed, createSession, ReleaseSession,
     generateChallenge, revokeChallenge, enroll, authenticate, removeEnrollments,
     setFeature, invalidateAuthenticatorId, resetLockout, query, Cancel, schedule
<1>4. /\ \A t \in Sessions : pc[t] # "idle" => user'[t] = user[t] /\ life'[t] # "none"
      /\ \A t \in Sessions : life'[t] # "none" => user'[t] \in Users
  <2>1. CASE UNCHANGED <<life, user>>
    BY <2>1 DEF Inv, WorkerHasUser
  <2>2. ASSUME NEW u \in Users, createSession(s, u)
        PROVE  <1>4!1 /\ <1>4!2
    BY <2>2 DEF createSession, Inv, WorkerHasUser, TypeOK
  <2>3. CASE ReleaseSession(s)
    BY <2>3 DEF ReleaseSession, Inv, WorkerHasUser, TypeOK
  <2>4. CASE SessionDestroyed(s)
    BY <2>4 DEF SessionDestroyed, Inv, WorkerHasUser, TypeOK
  <2> QED BY <2>1, <2>2, <2>3, <2>4 DEF ClientStep, generateChallenge,
     revokeChallenge, enroll, authenticate, removeEnrollments, setFeature,
     invalidateAuthenticatorId, resetLockout, query, Cancel, schedule
<1>5. Exclusion' /\ CameraHeld' /\ TemplateOwned' /\ SuccessNamesItsFace'
  BY <1>2 DEF Inv, Exclusion, CameraHeld, Looping, TemplateOwned, SuccessNamesItsFace
<1>6. WorkerHasUser'
  BY <1>2, <1>4 DEF WorkerHasUser
<1>7. StepsRelyOn'
  BY <1>2, <1>3 DEF Inv, StepsRelyOn, ReliesOn
<1>8. MatchIsCurrent'
  BY <1>2, <1>4 DEF Inv, MatchIsCurrent, CurrentMatch, LockedOut, engineName
<1> QED BY <1>1, <1>5, <1>6, <1>7, <1>8 DEF Inv

\* Time and a new start of the process keep it.
LEMMA EnvironmentKeepsInv ==
    ASSUME Inv, Crash \/ \E u \in Users : LockoutExpires(u)
    PROVE  Inv'
<1> USE ConstantsAssumption, Sentinels DEF storage, lockouts, objects, worker
<1>1. CASE Crash
  <2>1. TypeOK'
    <3>1. template' \in [AllBackends -> Ids] /\ file' \in Enrollment \cup {NoEnrollment}
      <4>1. [template EXCEPT !["data"] = 0] \in [AllBackends -> Ids]
        BY DEF Inv, TypeOK
      <4>2. template' = template \/ template' = [template EXCEPT !["data"] = 0]
        BY <1>1 DEF Crash
      <4>3. file' = file \/ file' = NoEnrollment
        BY <1>1 DEF Crash
      <4> QED BY <4>1, <4>2, <4>3 DEF Inv, TypeOK
    <3>2. /\ failures' \in [Users -> Nat] /\ tries' \in [Users -> Nat]
          /\ locked' \in [Users -> BOOLEAN]
      BY <1>1 DEF Crash, ProcessStarts
    <3>3. /\ life' \in [Sessions -> {"none", "alive", "dying"}]
          /\ user' \in [Sessions -> Users \cup {NoUser}]
          /\ challenges' \in [Sessions -> SUBSET Challenges]
          /\ pc' \in [Sessions -> Steps]
          /\ job' \in [Sessions -> Jobs]
          /\ enr' \in [Sessions -> Enrollment \cup {NoEnrollment}]
          /\ found' \in [Sessions -> {"nothing", "another", "match", "error"}]
      BY <1>1 DEF Crash, ProcessStarts, Steps
    <3>4. queue' \in [Sessions -> Seq(Jobs)]
      BY <1>1, EmptySeq DEF Crash, ProcessStarts
    <3>5. /\ lock' = NoSession /\ camera' = "off" /\ reply' = NoReply
          /\ backend' \in Backends /\ UNCHANGED <<nextId, removed>>
      BY <1>1 DEF Crash, ProcessStarts
    <3> QED BY <3>1, <3>2, <3>3, <3>4, <3>5 DEF Inv, TypeOK
  <2>2. TemplateOwned'
    <3>1. CASE file' = NoEnrollment
      BY <3>1 DEF TemplateOwned
    <3>2. CASE file' = file /\ template' = template
      BY <3>2 DEF Inv, TemplateOwned
    <3>3. CASE \E s \in Sessions : pc[s] = "store" /\ file' = file
      BY <3>3 DEF Inv, StepsRelyOn, ReliesOn, TemplateOwned
    <3> QED BY <1>1, <3>1, <3>2, <3>3 DEF Crash
  <2>3. /\ Exclusion' /\ WorkerHasUser' /\ StepsRelyOn' /\ CameraHeld'
        /\ MatchIsCurrent' /\ SuccessNamesItsFace'
    BY <1>1 DEF Crash, ProcessStarts, Exclusion, Holding, WorkerHasUser, StepsRelyOn,
       ReliesOn, CameraHeld, Looping, MatchIsCurrent, CurrentMatch, SuccessNamesItsFace, NoReply
  <2> QED BY <2>1, <2>2, <2>3 DEF Inv
<1>2. ASSUME NEW u \in Users, LockoutExpires(u) PROVE Inv'
  <2>1. TypeOK'
    BY <1>2 DEF LockoutExpires, Inv, TypeOK
  <2>2. Exclusion' /\ WorkerHasUser' /\ StepsRelyOn' /\ CameraHeld' /\ TemplateOwned'
        /\ SuccessNamesItsFace'
    BY <1>2 DEF LockoutExpires, Inv, Exclusion, WorkerHasUser, StepsRelyOn, ReliesOn,
       CameraHeld, Looping, TemplateOwned, SuccessNamesItsFace
  <2>3. \A v \in Users : LockedOut(v)' => LockedOut(v)
    BY <1>2 DEF LockoutExpires, LockedOut, Inv, TypeOK
  <2>4. MatchIsCurrent'
    BY <1>2, <2>3 DEF LockoutExpires, MatchIsCurrent, CurrentMatch, engineName, Inv,
       WorkerHasUser
  <2> QED BY <2>1, <2>2, <2>4 DEF Inv
<1> QED BY <1>1, <1>2
\* A step further keeps the invariant if it keeps what concerns this worker.
LEMMA ContinueKeepsInv ==
    ASSUME Inv, NEW s \in Sessions, NEW p \in Holding, Continue(s, p),
           lock = NoSession \/ pc[s] \in Holding, pc[s] # "idle",
           found' = [found EXCEPT ![s] = found'[s]],
           UNCHANGED <<life, user>>,
           camera' # "off" <=> p \in {"capture", "match"},
           TypeOK', TemplateOwned', ReliesOn(s)', CurrentMatch(s)'
    PROVE  Inv'
<1>1. /\ pc'[s] = p
      /\ \A t \in Sessions : t # s => /\ pc'[t] \in {"idle", "lock"}
                                      /\ found'[t] = "nothing"
      /\ Exclusion' /\ WorkerHasUser' /\ SuccessNamesItsFace'
  BY ContinueAlone
<1>2. StepsRelyOn'
  BY <1>1 DEF StepsRelyOn, ReliesOn
<1>3. MatchIsCurrent'
  BY <1>1 DEF MatchIsCurrent, CurrentMatch
<1>4. lock' = s
  BY DEF Continue
<1>5. CameraHeld'
  BY <1>1, <1>4 DEF CameraHeld, Looping
<1> QED BY <1>1, <1>2, <1>3, <1>5 DEF Inv
\* Every step of a worker keeps the invariant.
LEMMA WorkerKeepsInv ==
    ASSUME Inv, NEW s \in Sessions, HalStep(s) \/ FrameStep(s)
    PROVE  Inv'
<1> USE ConstantsAssumption DEF storage, lockouts, objects, worker, WorkerFrame
<1>1. TypeOK /\ Exclusion /\ StepsRelyOn /\ TemplateOwned /\ MatchIsCurrent /\ CameraHeld
  BY DEF Inv
<1>2. TypeOK'
  BY <1>1, WorkerTypes DEF Inv, WorkerHasUser, StepsRelyOn, ReliesOn
<1>3. UNCHANGED <<backend, life, user>>
  BY DEF HalStep, FrameStep, NextFrame, Dequeue, EnrollRefused, EnrollBegin, EnrollCaptured,
     EnrollGivesUp, EnrollStore, EnrollSave, AuthenticateRefused, AuthenticateBegin,
     AuthenticateCompared, AuthenticateStops, AuthenticationSucceeded,
     AuthenticationFailed, AuthenticationError, RemoveBegin, RemoveUnlink, RewriteBegin,
     RewriteSave, ResetLockout, Query
<1>4. lock = NoSession => camera = "off"
  BY <1>1 DEF CameraHeld, Looping
<1>5. \A r \in RemoveFeature : r.template \in {template, [template EXCEPT ![backend] = 0]}
  BY <1>1, RemoveFeatureOutcome
<1>6. ASSUME NEW what \in Replies, what # "onAuthenticationSucceeded", Finish(s, what),
             lock = NoSession \/ pc[s] \in Holding, camera' = "off", TemplateOwned'
      PROVE  Inv'
  <2> DEFINE r == [NoReply EXCEPT !.to = s, !.what = what]
  <2>1. FinishWith(s, r) /\ r \in Reply
    BY <1>6, PlainReply DEF Finish
  <2>2. r.what = what
    BY DEF NoReply
  <2> HIDE DEF r
  <2> QED BY <1>2, <1>3, <1>6, <2>1, <2>2, FinishKeepsInv
<1>7. CASE Dequeue(s)
  <2>1. UNCHANGED <<file, template, failures, locked, enr, found, lock, camera, reply>>
    BY <1>7 DEF Dequeue
  <2>2. /\ pc[s] = "idle" /\ life[s] # "none"
        /\ pc' = [pc EXCEPT ![s] = "lock"]
        /\ \A t \in Sessions : t # s => job'[t] = job[t]
    BY <1>1, <1>7 DEF Dequeue, TypeOK
  <2>3. \A t \in Sessions : IF t = s THEN pc'[t] = "lock" ELSE pc'[t] = pc[t]
    BY <1>1, <2>2 DEF TypeOK
  <2>4. Exclusion' /\ CameraHeld' /\ TemplateOwned' /\ SuccessNamesItsFace'
    BY <1>1, <2>1, <2>2, <2>3 DEF Inv, Exclusion, Holding, CameraHeld, Looping,
       TemplateOwned, SuccessNamesItsFace
  <2>5. WorkerHasUser'
    BY <1>3, <2>2, <2>3 DEF Inv, WorkerHasUser
  <2>6. StepsRelyOn'
    BY <1>1, <1>3, <2>1, <2>2, <2>3 DEF StepsRelyOn, ReliesOn
  <2>7. MatchIsCurrent'
    BY <1>1, <1>3, <2>1, <2>3 DEF MatchIsCurrent, CurrentMatch, LockedOut, engineName
  <2> QED BY <1>2, <2>4, <2>5, <2>6, <2>7 DEF Inv
<1>8. CASE EnrollRefused(s) \/ AuthenticateRefused(s) \/ ResetLockout(s) \/ Query(s)
  <2>1. lock = NoSession /\ UNCHANGED <<file, template, camera>>
    BY <1>8 DEF EnrollRefused, AuthenticateRefused, ResetLockout, Query, Begins
  <2>2. TemplateOwned' /\ camera' = "off"
    BY <1>1, <1>3, <1>4, <2>1 DEF TemplateOwned, TypeOK
  <2>3. PICK what \in Replies \ {"onAuthenticationSucceeded"} : Finish(s, what)
    BY <1>8 DEF EnrollRefused, AuthenticateRefused, ResetLockout, Query, Replies
  <2> QED BY <1>6, <2>1, <2>2, <2>3
<1>9. CASE EnrollBegin(s)
  <2>1. /\ pc[s] = "lock" /\ lock = NoSession /\ job[s].kind = "enroll"
        /\ file = NoEnrollment /\ UNCHANGED file
    BY <1>9 DEF EnrollBegin, Begins
  <2>2. TemplateOwned'
    BY <2>1 DEF TemplateOwned
  <2>3. CASE Continue(s, "capture") /\ camera' = "on" /\ UNCHANGED <<enr, found>>
    <3>1. pc'[s] = "capture" /\ job' = job /\ found'[s] = "nothing"
      BY <1>1, <2>1, <2>3 DEF Continue, StepsRelyOn, ReliesOn, TypeOK
    <3>2. ReliesOn(s)' /\ CurrentMatch(s)'
      BY <2>1, <3>1 DEF ReliesOn, CurrentMatch
    <3>3. found' = [found EXCEPT ![s] = found'[s]]
      BY <1>1, <2>3 DEF TypeOK
    <3> QED BY <1>2, <1>3, <2>1, <2>2, <2>3, <3>2, <3>3, ContinueKeepsInv DEF Holding
  <2>4. CASE Finish(s, "UNABLE_TO_PROCESS") /\ UNCHANGED camera
    BY <1>1, <1>4, <1>6, <2>1, <2>2, <2>4 DEF Replies, TypeOK
  <2> QED BY <1>9, <2>3, <2>4 DEF EnrollBegin
<1>10. CASE EnrollCaptured(s)
  <2>1. /\ pc[s] = "capture" /\ job[s].kind = "enroll" /\ file' = NoEnrollment
        /\ camera' = "off" /\ UNCHANGED found /\ found[s] = "nothing"
    BY <1>1, <1>10 DEF EnrollCaptured, StepsRelyOn, ReliesOn
  <2>2. TemplateOwned'
    BY <2>1 DEF TemplateOwned
  <2>3. found' = [found EXCEPT ![s] = found'[s]]
    BY <1>1, <2>1 DEF TypeOK
  <2>4. CASE Continue(s, "save") /\ backend = "auth"
             /\ template' = [template EXCEPT !["auth"] = job[s].id]
    <3>1. pc'[s] = "save" /\ job' = job
      BY <1>1, <2>4 DEF Continue, TypeOK
    <3>2. template'[backend'] = job'[s].id
      BY <1>1, <1>3, <2>4, <3>1 DEF TypeOK
    <3>3. ReliesOn(s)' /\ CurrentMatch(s)'
      BY <2>1, <3>1, <3>2 DEF ReliesOn, CurrentMatch
    <3> QED BY <1>2, <1>3, <2>1, <2>2, <2>3, <2>4, <3>3, ContinueKeepsInv DEF Holding
  <2>5. CASE Continue(s, "store")
    <3>1. pc'[s] = "store" /\ job' = job
      BY <1>1, <2>5 DEF Continue, TypeOK
    <3>2. ReliesOn(s)' /\ CurrentMatch(s)'
      BY <2>1, <3>1 DEF ReliesOn, CurrentMatch
    <3> QED BY <1>2, <1>3, <2>1, <2>2, <2>3, <2>5, <3>2, ContinueKeepsInv DEF Holding
  <2> QED BY <1>10, <2>4, <2>5 DEF EnrollCaptured
<1>11. CASE EnrollGivesUp(s)
  <2>1. /\ pc[s] = "capture" /\ file' = NoEnrollment /\ camera' = "off"
    BY <1>1, <1>11 DEF EnrollGivesUp, StepsRelyOn, ReliesOn
  <2>2. PICK what \in Replies \ {"onAuthenticationSucceeded"} : Finish(s, what)
    BY <1>11 DEF EnrollGivesUp, Replies
  <2>3. TemplateOwned'
    BY <2>1 DEF TemplateOwned
  <2> QED BY <1>6, <2>1, <2>2, <2>3 DEF Holding
<1>12. CASE EnrollStore(s)
  <2>1. /\ pc[s] = "store" /\ job[s].kind = "enroll" /\ file' = NoEnrollment
        /\ UNCHANGED camera /\ found[s] = "nothing"
    BY <1>1, <1>12 DEF EnrollStore, StepsRelyOn, ReliesOn
  <2>2. TemplateOwned'
    BY <2>1 DEF TemplateOwned
  <2>3. camera = "off"
    BY <1>1, <2>1 DEF CameraHeld, Looping, Exclusion, Holding, TypeOK
  <2>4. CASE Continue(s, "save") /\ UNCHANGED <<enr, found>>
             /\ template' = [template EXCEPT ![backend] = job[s].id]
    <3>1. pc'[s] = "save" /\ job' = job
      BY <1>1, <2>4 DEF Continue, TypeOK
    <3>2. template'[backend'] = job'[s].id
      BY <1>1, <1>3, <2>4, <3>1 DEF TypeOK
    <3>3. ReliesOn(s)' /\ CurrentMatch(s)'
      BY <2>1, <2>4, <3>1, <3>2 DEF ReliesOn, CurrentMatch
    <3>4. found' = [found EXCEPT ![s] = found'[s]]
      BY <1>1, <2>4 DEF TypeOK
    <3> QED BY <1>2, <1>3, <2>1, <2>2, <2>3, <2>4, <3>3, <3>4, ContinueKeepsInv
               DEF Holding
  <2>5. CASE Finish(s, "UNABLE_TO_PROCESS")
    BY <1>6, <2>1, <2>2, <2>3, <2>5 DEF Replies, Holding
  <2> QED BY <1>12, <2>4, <2>5 DEF EnrollStore
<1>13. CASE EnrollSave(s)
  <2> DEFINE e == [user |-> user[s], id |-> job[s].id, authId |-> job[s].id,
                   attention |-> TRUE, engine |-> engineName]
  <2>1. /\ pc[s] = "save" /\ file = NoEnrollment /\ template[backend] = job[s].id
        /\ UNCHANGED camera
    BY <1>1, <1>13 DEF EnrollSave, StepsRelyOn, ReliesOn
  <2>2. camera = "off"
    BY <1>1, <2>1 DEF CameraHeld, Looping, Exclusion, Holding, TypeOK
  <2>3. PICK w \in SaveFile(e) :
          /\ file' = w.file
          /\ \/ /\ w.ok
                /\ UNCHANGED template
                /\ FinishWith(s, [to |-> s, what |-> "onEnrollmentProgress",
                                  id |-> job[s].id, face |-> 0])
             \/ /\ ~ w.ok
                /\ Finish(s, "UNABLE_TO_PROCESS")
    BY <1>13 DEF EnrollSave
  <2>4. w.ok \in BOOLEAN /\ (w.ok => w.file = e) /\ (~ w.ok => w.file = NoEnrollment)
    BY <2>1 DEF SaveFile
  <2>5. CASE w.ok
    <3>1. /\ file'.id = job[s].id /\ file'.engine = engineName /\ template' = template
      BY <2>3, <2>4, <2>5
    <3>2. \A b \in Backends : (b = "auth" <=> engineName = "auth") => b = backend
      <4>1. ~ ("tee" \in Backends /\ "data" \in Backends)
        OBVIOUS
      <4>2. backend \in Backends /\ Backends \subseteq {"tee", "data", "auth"}
        BY <1>1 DEF TypeOK, AllBackends
      <4> QED BY <4>1, <4>2 DEF engineName
    <3>3. TemplateOwned'
      BY <2>1, <3>1, <3>2 DEF TemplateOwned
    <3> DEFINE r == [to |-> s, what |-> "onEnrollmentProgress",
                     id |-> job[s].id, face |-> 0]
    <3>4. r \in Reply /\ FinishWith(s, r) /\ r.what # "onAuthenticationSucceeded"
      BY <1>1, <2>3, <2>5, Sentinels DEF Reply, Replies, TypeOK, Jobs
    <3> HIDE DEF r
    <3> QED BY <1>2, <1>3, <2>1, <2>2, <3>3, <3>4, FinishKeepsInv DEF Holding
  <2>6. CASE ~ w.ok
    <3>1. file' = NoEnrollment
      BY <2>3, <2>4, <2>6
    <3>2. TemplateOwned'
      BY <3>1 DEF TemplateOwned
    <3> QED BY <1>6, <2>1, <2>2, <2>3, <2>6, <3>2 DEF Holding, Replies
  <2> QED BY <2>4, <2>5, <2>6
<1>14. CASE AuthenticateBegin(s)
  <2>1. /\ pc[s] = "lock" /\ lock = NoSession /\ UNCHANGED <<file, template, found>>
        /\ file.user = user[s] /\ ~ LockedOut(user[s]) /\ file.engine = engineName
        /\ UNCHANGED <<failures, locked>> /\ camera' = "on" /\ Continue(s, "match")
        /\ enr' = [enr EXCEPT ![s] = file]
    BY <1>14 DEF AuthenticateBegin, Begins
  <2>2. /\ pc'[s] = "match" /\ enr'[s] = file /\ found'[s] = "nothing"
        /\ found' = [found EXCEPT ![s] = found'[s]]
    BY <1>1, <2>1 DEF Continue, StepsRelyOn, ReliesOn, TypeOK
  <2>3. ReliesOn(s)'
    BY <2>2 DEF ReliesOn
  <2>4. CurrentMatch(s)'
    BY <1>3, <2>1, <2>2 DEF CurrentMatch, LockedOut, engineName
  <2>5. TemplateOwned'
    BY <1>1, <2>1 DEF TemplateOwned
  <2> QED BY <1>2, <1>3, <2>1, <2>2, <2>3, <2>4, <2>5, ContinueKeepsInv DEF Holding
<1>15. CASE AuthenticateCompared(s)
  <2>1. /\ pc[s] = "match" /\ found[s] = "nothing"
        /\ found' = [found EXCEPT ![s] = "another"]
        /\ UNCHANGED <<file, template, failures, locked, pc, job, enr, lock, camera,
                       reply>>
    BY <1>15 DEF AuthenticateCompared
  <2>2. \A t \in Sessions : found'[t] = IF t = s THEN "another" ELSE found[t]
    BY <1>1, <2>1 DEF TypeOK
  <2>3. StepsRelyOn'
    BY <1>1, <1>3, <2>1, <2>2 DEF StepsRelyOn, ReliesOn
  <2>4. Exclusion' /\ WorkerHasUser' /\ CameraHeld' /\ TemplateOwned'
        /\ SuccessNamesItsFace'
    BY <1>1, <1>3, <2>1 DEF Inv, Exclusion, WorkerHasUser, CameraHeld, Looping,
       TemplateOwned, SuccessNamesItsFace
  <2>5. MatchIsCurrent'
    BY <1>1, <1>3, <2>1 DEF MatchIsCurrent, CurrentMatch, LockedOut, engineName
  <2> QED BY <1>2, <2>3, <2>4, <2>5 DEF Inv
<1>24. CASE NextFrame(s)
  <2>1. /\ pc[s] \in {"capture", "match"} /\ camera # "off" /\ camera' # "off"
        /\ UNCHANGED <<file, template, failures, locked, pc, job, enr, found, lock,
                       reply>>
    BY <1>24, NextFrameStutters
  <2>2. StepsRelyOn' /\ MatchIsCurrent'
    BY <1>1, <1>3, <2>1 DEF StepsRelyOn, ReliesOn, MatchIsCurrent, CurrentMatch,
       LockedOut, engineName
  <2>3. Exclusion' /\ WorkerHasUser' /\ CameraHeld' /\ TemplateOwned'
        /\ SuccessNamesItsFace'
    BY <1>1, <1>3, <2>1 DEF Inv, Exclusion, WorkerHasUser, CameraHeld, Looping,
       TemplateOwned, SuccessNamesItsFace
  <2> QED BY <1>2, <2>2, <2>3 DEF Inv
<1>16. CASE AuthenticateStops(s)
  <2>1. /\ pc[s] = "match" /\ camera' = "off" /\ Continue(s, "verdict")
        /\ UNCHANGED <<file, template, failures, locked, enr>>
        /\ \/ template[backend] # 0 /\ found' = [found EXCEPT ![s] = "match"]
           \/ found' = [found EXCEPT ![s] = "error"]
           \/ UNCHANGED found
    BY <1>16 DEF AuthenticateStops
  <2>2. /\ pc'[s] = "verdict"
        /\ found' = [found EXCEPT ![s] = found'[s]]
        /\ found'[s] = "match" => template[backend] # 0
    BY <1>1, <2>1 DEF Continue, TypeOK, StepsRelyOn, ReliesOn
  <2>3. ReliesOn(s)'
    BY <1>3, <2>1, <2>2 DEF ReliesOn
  <2>4. CurrentMatch(s)'
    BY <1>1, <1>3, <2>1 DEF MatchIsCurrent, CurrentMatch, LockedOut, engineName
  <2>5. TemplateOwned'
    BY <1>1, <2>1 DEF TemplateOwned
  <2> QED BY <1>2, <1>3, <2>1, <2>2, <2>3, <2>4, <2>5, ContinueKeepsInv DEF Holding
<1>17. ASSUME pc[s] = "verdict" \/ pc[s] = "unlink" \/ pc[s] = "rewrite"
       PROVE  camera = "off"
  BY <1>1, <1>17 DEF CameraHeld, Looping, Exclusion, Holding, TypeOK
<1>18. CASE AuthenticationSucceeded(s)
  <2> DEFINE r == [to |-> s, what |-> "onAuthenticationSucceeded",
                   id |-> enr[s].id, face |-> template[backend]]
  <2>1. /\ pc[s] = "verdict" /\ found[s] = "match" /\ FinishWith(s, r)
        /\ UNCHANGED <<file, template, camera>>
    BY <1>18 DEF AuthenticationSucceeded
  <2>2. /\ template[backend] # 0 /\ enr[s] = file /\ file.engine = engineName
        /\ file.user = user[s] /\ user[s] \in Users
    BY <1>1, <2>1 DEF StepsRelyOn, ReliesOn, MatchIsCurrent, CurrentMatch, Inv,
       WorkerHasUser
  <2>3. file \in Enrollment /\ file # NoEnrollment /\ file.id \in Ids
    BY <1>1, <2>2, RecordFields, Sentinels DEF TypeOK
  <2>4. template[backend] = file.id
    <3>1. (backend = "auth") <=> (file.engine = "auth")
      BY <2>2 DEF engineName
    <3> QED BY <1>1, <2>2, <2>3, <3>1 DEF TemplateOwned, TypeOK
  <2>5. r.id # 0 /\ r.face = r.id /\ r \in Reply
    BY <2>2, <2>3, <2>4 DEF Reply, Replies
  <2>6. TemplateOwned'
    BY <1>1, <2>1 DEF TemplateOwned
  <2> HIDE DEF r
  <2> QED BY <1>2, <1>3, <1>17, <2>1, <2>5, <2>6, FinishKeepsInv DEF Holding
<1>19. CASE AuthenticationFailed(s) \/ AuthenticationError(s)
  <2>1. pc[s] = "verdict" /\ UNCHANGED <<file, template, camera>>
    BY <1>19 DEF AuthenticationFailed, AuthenticationError
  <2>2. PICK what \in Replies \ {"onAuthenticationSucceeded"} : Finish(s, what)
    BY <1>19 DEF AuthenticationFailed, AuthenticationError, Replies
  <2>3. TemplateOwned'
    BY <1>1, <2>1 DEF TemplateOwned
  <2> QED BY <1>6, <1>17, <2>1, <2>2, <2>3 DEF Holding
<1>20. CASE RemoveBegin(s)
  <2>1. /\ pc[s] = "lock" /\ lock = NoSession /\ UNCHANGED <<file, camera>>
        /\ template' \in {template, [template EXCEPT ![backend] = 0]}
    BY <1>5, <1>20 DEF RemoveBegin, Begins
  <2>2. TemplateOwned'
    BY <1>1, <2>1, OwnedStays
  <2>3. camera' = "off"
    BY <1>1, <1>4, <2>1 DEF TypeOK
  <2>4. CASE Continue(s, "unlink") /\ UNCHANGED <<enr, found>>
    <3>1. pc'[s] = "unlink" /\ found'[s] = "nothing"
          /\ found' = [found EXCEPT ![s] = found'[s]]
      BY <1>1, <2>1, <2>4 DEF Continue, StepsRelyOn, ReliesOn, TypeOK
    <3>2. ReliesOn(s)' /\ CurrentMatch(s)'
      BY <3>1 DEF ReliesOn, CurrentMatch
    <3> QED BY <1>2, <1>3, <2>1, <2>2, <2>3, <2>4, <3>1, <3>2, ContinueKeepsInv
               DEF Holding
  <2>5. ASSUME NEW what \in {"onEnrollmentsRemoved", "UNABLE_TO_REMOVE"}, Finish(s, what)
        PROVE  Inv'
    BY <1>6, <2>1, <2>2, <2>3, <2>5 DEF Replies
  <2> QED BY <1>20, <2>4, <2>5 DEF RemoveBegin
<1>21. CASE RemoveUnlink(s)
  <2>1. /\ pc[s] = "unlink" /\ file' \in {file, NoEnrollment}
        /\ UNCHANGED <<template, camera>> /\ Finish(s, "onEnrollmentsRemoved")
    BY <1>21 DEF RemoveUnlink, UnlinkFile
  <2>2. TemplateOwned'
    BY <1>1, <2>1, OwnedStays
  <2> QED BY <1>6, <1>17, <2>1, <2>2 DEF Holding, Replies
<1>22. CASE RewriteBegin(s)
  <2>1. /\ pc[s] = "lock" /\ lock = NoSession /\ UNCHANGED <<file, template, camera>>
    BY <1>22 DEF RewriteBegin, Begins
  <2>2. TemplateOwned' /\ camera' = "off"
    BY <1>1, <1>3, <1>4, <2>1 DEF TemplateOwned, TypeOK
  <2>3. CASE /\ file.user = user[s] /\ enr' = [enr EXCEPT ![s] = Changed(s)]
             /\ Continue(s, "rewrite") /\ UNCHANGED found
    <3>1. file \in Enrollment /\ file # NoEnrollment
      BY <1>1, <2>1, <2>3, RecordFields, Sentinels DEF Inv, WorkerHasUser, TypeOK
    <3>2. /\ Changed(s).id = file.id /\ Changed(s).engine = file.engine
          /\ Changed(s).user = file.user
      BY <3>1 DEF Changed, Enrollment
    <3>3. /\ pc'[s] = "rewrite" /\ enr'[s] = Changed(s) /\ found'[s] = "nothing"
          /\ found' = [found EXCEPT ![s] = found'[s]]
          /\ enr'[s] \in Enrollment \cup {NoEnrollment}
      BY <1>1, <1>2, <2>1, <2>3 DEF Continue, StepsRelyOn, ReliesOn, TypeOK
    <3>4. enr'[s] \in Enrollment
      BY <1>1, <2>1, <2>3, <3>2, <3>3, RecordFields DEF Inv, WorkerHasUser
    <3>5. ReliesOn(s)' /\ CurrentMatch(s)'
      BY <2>1, <3>1, <3>2, <3>3, <3>4 DEF ReliesOn, CurrentMatch
    <3> QED BY <1>2, <1>3, <2>1, <2>2, <2>3, <3>3, <3>5, ContinueKeepsInv DEF Holding
  <2>4. ASSUME NEW what \in {"UNABLE_TO_PROCESS", "onAuthenticatorIdInvalidated"},
               Finish(s, what)
        PROVE  Inv'
    BY <1>6, <2>1, <2>2, <2>4 DEF Replies
  <2>5. \/ <2>3!1
        \/ Finish(s, "UNABLE_TO_PROCESS")
        \/ Finish(s, "onAuthenticatorIdInvalidated")
    BY <1>22 DEF RewriteBegin
  <2> QED BY <2>3, <2>4, <2>5
<1>23. CASE RewriteSave(s)
  <2>1. PICK w \in SaveFile(enr[s]) :
          /\ file' = w.file
          /\ \/ /\ job[s].kind = "setFeature"
                /\ Finish(s, IF w.ok THEN "onFeatureSet" ELSE "UNABLE_TO_PROCESS")
             \/ FinishWith(s, [to |-> s, what |-> "onAuthenticatorIdInvalidated",
                               id |-> enr[s].authId, face |-> 0])
    BY <1>23 DEF RewriteSave
  <2>2. /\ pc[s] = "rewrite" /\ UNCHANGED <<template, camera>>
        /\ file # NoEnrollment /\ enr[s] \in Enrollment
        /\ enr[s].id = file.id /\ enr[s].engine = file.engine
    BY <1>1, <1>23 DEF RewriteSave, StepsRelyOn, ReliesOn
  <2>3. file' \in {enr[s], file, NoEnrollment}
    BY <2>1 DEF SaveFile
  <2>4. TemplateOwned'
    BY <1>1, <2>2, <2>3, OwnedStays
  <2>5. ASSUME NEW what \in {"onFeatureSet", "UNABLE_TO_PROCESS"}, Finish(s, what)
        PROVE  Inv'
    BY <1>6, <1>17, <2>2, <2>4, <2>5 DEF Replies, Holding
  <2> DEFINE r == [to |-> s, what |-> "onAuthenticatorIdInvalidated",
                   id |-> enr[s].authId, face |-> 0]
  <2>6. r \in Reply /\ r.what # "onAuthenticationSucceeded"
    BY <2>2, RecordFields, Sentinels DEF Reply, Replies
  <2>7. CASE FinishWith(s, r)
    <3> HIDE DEF r
    <3> QED BY <1>2, <1>3, <1>17, <2>2, <2>4, <2>6, <2>7, FinishKeepsInv DEF Holding
  <2> QED BY <2>1, <2>5, <2>7
<1> QED BY <1>7, <1>8, <1>9, <1>10, <1>11, <1>12, <1>13, <1>14, <1>15, <1>16, <1>18,
           <1>19, <1>20, <1>21, <1>22, <1>23, <1>24 DEF HalStep, FrameStep
-----------------------------------------------------------------------------
(* The theorems.                                                           *)

\* A process starts with nothing running, nothing locked and, on a new device,
\* nothing enrolled.
LEMMA InitInv == Init => Inv
<1> SUFFICES ASSUME Init PROVE Inv
  OBVIOUS
<1> USE ConstantsAssumption, Sentinels DEF Init
<1>1. TypeOK
  <2>1. queue \in [Sessions -> Seq(Jobs)]
    BY EmptySeq
  <2>2. template \in [AllBackends -> Ids] /\ nextId \in Ids
    OBVIOUS
  <2>3. /\ failures \in [Users -> Nat] /\ tries \in [Users -> Nat]
        /\ locked \in [Users -> BOOLEAN]
    OBVIOUS
  <2>4. /\ pc \in [Sessions -> Steps] /\ job \in [Sessions -> Jobs]
        /\ enr \in [Sessions -> Enrollment \cup {NoEnrollment}]
        /\ found \in [Sessions -> {"nothing", "another", "match", "error"}]
    BY DEF Steps
  <2>5. /\ life \in [Sessions -> {"none", "alive", "dying"}]
        /\ user \in [Sessions -> Users \cup {NoUser}]
        /\ challenges \in [Sessions -> SUBSET Challenges]
    OBVIOUS
  <2> QED BY <2>1, <2>2, <2>3, <2>4, <2>5 DEF TypeOK
<1>2. Exclusion /\ WorkerHasUser /\ StepsRelyOn
  BY DEF Exclusion, WorkerHasUser, StepsRelyOn, ReliesOn, Holding
<1>3. CameraHeld /\ TemplateOwned /\ MatchIsCurrent
  BY DEF CameraHeld, Looping, TemplateOwned, MatchIsCurrent, CurrentMatch
<1>4. SuccessNamesItsFace
  BY DEF SuccessNamesItsFace, NoReply
<1> QED BY <1>1, <1>2, <1>3, <1>4 DEF Inv

\* Every step, of whichever thread, keeps the invariant.
LEMMA NextInv == Inv /\ [Next]_vars => Inv'
<1> SUFFICES ASSUME Inv, [Next]_vars PROVE Inv'
  OBVIOUS
<1>1. ASSUME NEW s \in Sessions, ClientStep(s) \/ SessionDestroyed(s) PROVE Inv'
  BY <1>1, ClientKeepsInv
<1>2. ASSUME NEW s \in Sessions, HalStep(s) \/ FrameStep(s) PROVE Inv'
  BY <1>2, WorkerKeepsInv
<1>3. CASE Crash \/ \E u \in Users : LockoutExpires(u)
  BY <1>3, EnvironmentKeepsInv
<1>4. CASE UNCHANGED vars
  BY <1>4 DEF vars, Inv, TypeOK, Exclusion, WorkerHasUser, StepsRelyOn, ReliesOn,
     CameraHeld, Looping, TemplateOwned, MatchIsCurrent, CurrentMatch, LockedOut, engineName,
     SuccessNamesItsFace
<1> QED BY <1>1, <1>2, <1>3, <1>4 DEF Next

\* The invariant that every property below is read off from: mutual exclusion of
\* the operations, and what each of their steps relies on.
THEOREM InvHolds == Spec => []Inv
BY InitInv, NextInv, PTL DEF Spec

\* Every variable has its type, with any number of sessions, users and ids.
THEOREM TypeCorrect == Spec => []TypeOK
<1>1. Inv => TypeOK
  BY DEF Inv
<1> QED BY <1>1, InvHolds, PTL

\* An enrollment on file never faces the template of another one: doEnroll's two
\* writes (storeFeature, then Enrollment::save), removeEnrollments' two erasures
\* and the rewrites of setFeature and invalidateAuthenticatorId leave record and
\* template of one enrollment or none, however they fail and wherever the
\* process dies.
THEOREM TemplateIsOwned == Spec => []TemplateOwned
<1>1. Inv => TemplateOwned
  BY DEF Inv
<1> QED BY <1>1, InvHolds, PTL

\* What doAuthenticate checked before its frame loop still holds when it decides.
THEOREM MatchStaysCurrent == Spec => []MatchIsCurrent
<1>1. Inv => MatchIsCurrent
  BY DEF Inv
<1> QED BY <1>1, InvHolds, PTL

\* onAuthenticationSucceeded names the enrollment whose face was in front of the
\* camera.
THEOREM SuccessIsNamed == Spec => []SuccessNamesItsFace
<1>1. Inv => SuccessNamesItsFace
  BY DEF Inv
<1> QED BY <1>1, InvHolds, PTL

\* The shared camera runs exactly while the holder of Hardware.lock is in a frame
\* loop.
THEOREM CameraIsHeld == Spec => []CameraHeld
<1>1. Inv => CameraHeld
  BY DEF Inv
<1> QED BY <1>1, InvHolds, PTL
-----------------------------------------------------------------------------
(* Lockouts.                                                               *)

\* How a user's failures stand to the attempts the user made since: the failures
\* that lock are whole rounds, those since the last wait are what is left of one.
RoundsOf(u) ==
    /\ tries[u] <= TimedFailures
    /\ failures[u] < PermanentFailures =>
           \E k \in Nat :
               \/ locked[u] /\ failures[u] = k * TimedFailures
               \/ /\ ~ locked[u]
                  /\ tries[u] < TimedFailures
                  /\ failures[u] = k * TimedFailures + tries[u]

Rounds == \A u \in Users : RoundsOf(u)

\* The remainder is 0 exactly for whole multiples.
LEMMA WholeRounds ==
    ASSUME NEW m \in Nat \ {0}
    PROVE  /\ \A k \in Nat : (k * m) % m = 0
           /\ \A n \in Nat : n % m = 0 => \E k \in Nat : n = k * m
<1>1. ASSUME NEW k \in Nat PROVE (k * m) % m = 0
  <2>1. k * m \in Nat
    OBVIOUS
  <2> DEFINE q == (k * m) \div m
             r == (k * m) % m
  <2>2. q \in Int /\ r \in 0 .. (m - 1) /\ k * m = m * q + r
    BY <2>1
  <2> HIDE DEF q, r
  <2>3. r = m * (k - q)
    BY <2>2
  <2>4. k - q <= 0 \/ k - q >= 1
    BY <2>2
  <2>5. k - q >= 1 => m * (k - q) >= m
    BY <2>2
  <2>6. k - q <= 0 => m * (k - q) <= 0
    BY <2>2
  <2>7. r = 0
    BY <2>2, <2>3, <2>4, <2>5, <2>6
  <2> QED BY <2>7 DEF r
<1>2. ASSUME NEW n \in Nat, n % m = 0 PROVE \E k \in Nat : n = k * m
  <2> DEFINE q == n \div m
             r == n % m
  <2>1. q \in Int /\ r \in 0 .. (m - 1) /\ n = m * q + r
    OBVIOUS
  <2>r. r = 0
    BY <1>2
  <2> HIDE DEF q, r
  <2>2. n = q * m
    BY <2>1, <2>r
  <2>3. q < 0 => q * m < 0
    BY <2>1
  <2>4. q \in Nat
    BY <2>1, <2>2, <2>3
  <2> QED BY <2>2, <2>4
<1> QED BY <1>1, <1>2

\* A user who starts over has used up nothing.
LEMMA FreshRounds ==
    ASSUME NEW u, failures'[u] = 0, locked'[u] = FALSE, tries'[u] = 0
    PROVE  RoundsOf(u)'
<1>1. 0 = 0 * TimedFailures + 0 /\ 0 < TimedFailures /\ 0 <= TimedFailures
  BY ConstantsAssumption
<1> QED BY <1>1 DEF RoundsOf

\* Every user starts over when the process does.
LEMMA InitRounds == Init => Rounds
<1> SUFFICES ASSUME Init, NEW u \in Users PROVE RoundsOf(u)
  BY DEF Rounds
<1>1. 0 = 0 * TimedFailures + 0 /\ 0 < TimedFailures /\ 0 <= TimedFailures
  BY ConstantsAssumption
<1>2. failures[u] = 0 /\ locked[u] = FALSE /\ tries[u] = 0
  BY DEF Init
<1> QED BY <1>1, <1>2 DEF RoundsOf

\* One more failed attempt, be it one that locks or one that does not.
LEMMA FailedRounds ==
    ASSUME Inv, Rounds, NEW s \in Sessions, AuthenticationFailed(s)
    PROVE  Rounds'
<1>u. PICK u \in Users : u = user[s]
  BY DEF AuthenticationFailed, Inv, WorkerHasUser
<1> DEFINE n == failures[u] + 1
<1>1. ~ locked[u] /\ failures[u] < PermanentFailures
  <2>1. ~ LockedOut(u)
    BY <1>u DEF AuthenticationFailed, Inv, MatchIsCurrent, CurrentMatch
  <2>2. failures[u] \in Nat
    BY <2>1 DEF Inv, TypeOK
  <2> QED BY <2>1, <2>2, ConstantsAssumption DEF LockedOut
<1>2. /\ failures' = [failures EXCEPT ![u] = n]
      /\ locked' = [locked EXCEPT ![u] =
                        @ \/ (n < PermanentFailures /\ n % TimedFailures = 0)]
      /\ tries' = [tries EXCEPT ![u] = @ + 1]
  BY <1>u DEF AuthenticationFailed
<1>3. /\ failures \in [Users -> Nat] /\ tries \in [Users -> Nat]
      /\ locked \in [Users -> BOOLEAN]
  BY DEF Inv, TypeOK
<1>4. ASSUME NEW v \in Users, v # u PROVE RoundsOf(v)'
  <2>1. failures'[v] = failures[v] /\ locked'[v] = locked[v] /\ tries'[v] = tries[v]
    BY <1>1, <1>2, <1>3, <1>4
  <2> QED BY <2>1 DEF Rounds, RoundsOf
<1>5. RoundsOf(u)'
  <2>1. /\ failures'[u] = n /\ tries'[u] = tries[u] + 1
        /\ locked'[u] <=> n < PermanentFailures /\ n % TimedFailures = 0
    BY <1>1, <1>2, <1>3
  <2>2. PICK k \in Nat : tries[u] < TimedFailures
                          /\ failures[u] = k * TimedFailures + tries[u]
    BY <1>1 DEF Rounds, RoundsOf
  <2>3. tries[u] \in Nat /\ failures[u] \in Nat /\ n \in Nat /\ k * TimedFailures \in Nat
    BY <1>1, <1>3, ConstantsAssumption
  <2>4. tries'[u] <= TimedFailures
    BY <2>1, <2>2, <2>3, ConstantsAssumption
  <2>5. CASE ~ (n < PermanentFailures)
    BY <2>1, <2>4, <2>5 DEF RoundsOf
  <2>6. CASE n < PermanentFailures /\ n % TimedFailures = 0
    <3>1. locked'[u]
      BY <2>1, <2>6
    <3>2. PICK l \in Nat : n = l * TimedFailures
      BY <2>3, <2>6, WholeRounds, ConstantsAssumption
    <3>3. failures'[u] = l * TimedFailures
      BY <2>1, <3>2
    <3> QED BY <2>4, <3>1, <3>3 DEF RoundsOf
  <2>7. CASE n < PermanentFailures /\ n % TimedFailures # 0
    <3>1. ~ locked'[u]
      BY <2>1, <2>7
    <3>2. n = k * TimedFailures + tries'[u]
      BY <2>1, <2>2, <2>3
    <3>3. ASSUME tries'[u] = TimedFailures PROVE FALSE
      <4>1. n = (k + 1) * TimedFailures /\ k + 1 \in Nat
        BY <3>2, <3>3, ConstantsAssumption
      <4> QED BY <2>7, <4>1, WholeRounds, ConstantsAssumption
    <3>4. tries'[u] < TimedFailures
      BY <2>1, <2>3, <2>4, <3>3, ConstantsAssumption
    <3>5. failures'[u] = k * TimedFailures + tries'[u]
      BY <2>1, <3>2
    <3> QED BY <2>4, <3>1, <3>4, <3>5 DEF RoundsOf
  <2> QED BY <2>5, <2>6, <2>7
<1> QED BY <1>4, <1>5 DEF Rounds

\* No step of anybody else's takes attempts off, or makes a round incomplete.
LEMMA NextRounds == Inv /\ Rounds /\ [Next]_vars => Rounds'
<1> SUFFICES ASSUME Inv, Rounds, [Next]_vars PROVE Rounds'
  OBVIOUS
<1> USE DEF lockouts, storage, worker, objects
<1>a. /\ failures \in [Users -> Nat] /\ tries \in [Users -> Nat]
      /\ locked \in [Users -> BOOLEAN]
  BY DEF Inv, TypeOK
<1>1. CASE UNCHANGED lockouts
  BY <1>1 DEF Rounds, RoundsOf
<1>2. ASSUME NEW s \in Sessions, AuthenticationSucceeded(s) \/ ResetLockout(s)
      PROVE  Rounds'
  <2>1. user[s] \in Users
    BY <1>2 DEF AuthenticationSucceeded, ResetLockout, Begins, Inv, WorkerHasUser
  <2>2. ASSUME NEW u \in Users PROVE RoundsOf(u)'
    <3>1. CASE u = user[s]
      BY <1>a, <1>2, <2>1, <3>1, FreshRounds DEF AuthenticationSucceeded, ResetLockout
    <3>2. CASE u # user[s]
      BY <1>a, <1>2, <2>1, <3>2 DEF AuthenticationSucceeded, ResetLockout, Rounds, RoundsOf
    <3> QED BY <3>1, <3>2
  <2> QED BY <2>2 DEF Rounds
<1>3. ASSUME NEW u \in Users, LockoutExpires(u) PROVE Rounds'
  <2>1. /\ failures' = failures /\ locked[u]
        /\ locked' = [locked EXCEPT ![u] = FALSE] /\ tries' = [tries EXCEPT ![u] = 0]
    BY <1>3 DEF LockoutExpires
  <2>2. ASSUME NEW v \in Users, v # u PROVE RoundsOf(v)'
    <3>1. locked'[v] = locked[v] /\ tries'[v] = tries[v]
      BY <1>a, <2>1, <2>2
    <3> QED BY <2>1, <3>1 DEF Rounds, RoundsOf
  <2>3. RoundsOf(u)'
    <3>1. ~ locked'[u] /\ tries'[u] = 0 /\ failures'[u] = failures[u] /\ failures[u] \in Nat
      BY <1>a, <2>1
    <3>2. failures[u] < PermanentFailures =>
              \E k \in Nat : failures[u] = k * TimedFailures
      BY <2>1 DEF Rounds, RoundsOf
    <3>3. failures[u] < PermanentFailures =>
              \E k \in Nat : failures'[u] = k * TimedFailures + tries'[u]
      BY <3>1, <3>2, ConstantsAssumption
    <3>4. 0 < TimedFailures /\ 0 <= TimedFailures
      BY ConstantsAssumption
    <3> QED BY <3>1, <3>3, <3>4 DEF RoundsOf
  <2> QED BY <2>2, <2>3 DEF Rounds
<1>4. CASE Crash
  BY <1>4, FreshRounds DEF Crash, ProcessStarts, Rounds
<1>5. ASSUME NEW s \in Sessions, ClientStep(s) \/ SessionDestroyed(s) PROVE UNCHANGED lockouts
  BY <1>5 DEF ClientStep, SessionDestroyed, createSession, ReleaseSession,
     generateChallenge, revokeChallenge, enroll, authenticate, removeEnrollments,
     setFeature, invalidateAuthenticatorId, resetLockout, query, Cancel, schedule
<1>6. ASSUME NEW s \in Sessions, HalStep(s) \/ FrameStep(s)
      PROVE  \/ UNCHANGED lockouts
             \/ AuthenticationSucceeded(s) \/ ResetLockout(s) \/ AuthenticationFailed(s)
  BY <1>6 DEF HalStep, FrameStep, NextFrame, Dequeue, EnrollRefused, EnrollBegin,
     EnrollCaptured, EnrollGivesUp, EnrollStore, EnrollSave, AuthenticateRefused,
     AuthenticateBegin, AuthenticateCompared, AuthenticateStops, AuthenticationError,
     RemoveBegin, RemoveUnlink, RewriteBegin, RewriteSave, Query
<1>7. CASE UNCHANGED vars
  BY <1>1, <1>7 DEF vars
<1> QED BY <1>1, <1>2, <1>3, <1>4, <1>5, <1>6, <1>7, FailedRounds DEF Next

\* Attempts and failures stand to each other as they should in every state.
LEMMA RoundsHold == Spec => []Rounds
  BY InitRounds, NextRounds, InvHolds, PTL DEF Spec

\* A user gets no more than TimedFailures failed attempts without a success, a
\* reset, a restart or a wait, on however many sessions they are made.
THEOREM AttemptsAreBounded == Spec => []AttemptsBounded
<1>1. Rounds => AttemptsBounded
  BY DEF Rounds, RoundsOf, AttemptsBounded
<1> QED BY <1>1, RoundsHold, PTL
-----------------------------------------------------------------------------
(* Removals.                                                               *)

\* The operations of a session: the one its worker runs, at place 0, and its queue.
Places(t) == {k \in 0 .. Len(queue[t]) : k = 0 => pc[t] # "idle"}
At(t, k)  == IF k = 0 THEN job[t] ELSE queue[t][k]

Enrolls(t, k) == At(t, k).kind = "enroll"
Waits(t, k)   == Enrolls(t, k) /\ (k = 0 => pc[t] = "lock")
Names(t, k)   == At(t, k).kind = "removeEnrollments"

\* No id is in use that was not drawn.
IdsDrawn ==
    /\ file.id <= nextId
    /\ \A i \in removed : i <= nextId
    /\ \A t \in Sessions : \A k \in Places(t) : At(t, k).id <= nextId

\* No two enrollments are made of one id.
IdsOnce ==
    \A t, u \in Sessions : \A k \in Places(t), l \in Places(u) :
        Enrolls(t, k) /\ Enrolls(u, l) /\ At(t, k).id = At(u, l).id => t = u /\ k = l

\* Nobody knows the id of an enrollment that has not begun, ...
WaitingUnseen ==
    \A t \in Sessions : \A k \in Places(t) :
        Waits(t, k) =>
            /\ At(t, k).id # file.id
            /\ At(t, k).id \notin removed
            /\ \A u \in Sessions : \A l \in Places(u) :
                   Names(u, l) => At(u, l).id # At(t, k).id

IdsApart == IdsDrawn /\ IdsOnce /\ WaitingUnseen

\* ... and while it runs it is not reported removed.
Running(t) ==
    /\ pc[t] \in {"capture", "store", "save"} => job[t].id \notin removed
    /\ pc[t] = "unlink" => template[backend] = 0 /\ job[t].kind = "removeEnrollments"

RunningKept == \A t \in Sessions : Running(t)

\* What was reported removed is gone, or has lost its face.
RemovedHasNoFace ==
    file # NoEnrollment /\ file.id \in removed =>
        \A b \in Backends :
            ((b = "auth") <=> (file.engine = "auth")) => template[b] = 0

RInv == IdsApart /\ RunningKept /\ RemovedHasNoFace /\ RemovedStaysRemoved

\* A removal that ends erased the template its record is matched against, because
\* every process finds the same engine, or never leaves the record behind.
RemovalReachesFace == "unlink" \notin Faults \/ \A b, c \in Backends : b = c

\* What is at a place is an operation; an enrollment is of a drawn id.
LEMMA PlaceTypes ==
    ASSUME TypeOK, NEW t \in Sessions, NEW k \in Places(t)
    PROVE  k \in Nat /\ At(t, k) \in Jobs /\ At(t, k).id \in Ids
           /\ (Enrolls(t, k) => At(t, k).id # 0)
<1>1. k \in Nat /\ At(t, k) \in Jobs
  BY DEF TypeOK, Places, At
<1> QED BY <1>1 DEF Jobs, Enrolls

\* Operations that move up in their queue, or end, keep their ids apart, if what is
\* now on file and reported removed is not what a waiting enrollment will be.
LEMMA Moved ==
    ASSUME TypeOK, IdsApart, NEW d,
           \A t \in Sessions : d[t] \in Nat,
           \A t \in Sessions : \A k \in Places(t)' :
               /\ k \in Nat
               /\ k + d[t] \in Places(t)
               /\ At(t, k)'.kind = At(t, k + d[t]).kind
               /\ At(t, k)'.id = At(t, k + d[t]).id
               /\ Waits(t, k)' => Waits(t, k + d[t]),
           nextId' = nextId, file'.id <= nextId, \A i \in removed' : i <= nextId,
           \A t \in Sessions : \A k \in Places(t) :
               Waits(t, k) => At(t, k).id # file'.id /\ At(t, k).id \notin removed'
    PROVE  IdsApart'
<1>1. IdsDrawn'
  BY DEF IdsApart, IdsDrawn
<1>2. IdsOnce'
  <2> SUFFICES ASSUME NEW t \in Sessions, NEW u \in Sessions,
                      NEW k \in Places(t)', NEW l \in Places(u)',
                      Enrolls(t, k)', Enrolls(u, l)', At(t, k)'.id = At(u, l)'.id
               PROVE  t = u /\ k = l
    BY DEF IdsOnce
  <2>1. t = u /\ k + d[t] = l + d[u]
    BY DEF IdsApart, IdsOnce, Enrolls
  <2>2. k \in Nat /\ l \in Nat /\ d[t] \in Nat
    OBVIOUS
  <2> QED BY <2>1, <2>2
<1>3. WaitingUnseen'
  <2> SUFFICES ASSUME NEW t \in Sessions, NEW k \in Places(t)', Waits(t, k)'
               PROVE  /\ At(t, k)'.id # file'.id
                      /\ At(t, k)'.id \notin removed'
                      /\ \A u \in Sessions : \A l \in Places(u)' :
                             Names(u, l)' => At(u, l)'.id # At(t, k)'.id
    BY DEF WaitingUnseen
  <2>1. k + d[t] \in Places(t) /\ Waits(t, k + d[t]) /\ At(t, k)'.id = At(t, k + d[t]).id
    OBVIOUS
  <2>2. ASSUME NEW u \in Sessions, NEW l \in Places(u)', Names(u, l)'
        PROVE  At(u, l)'.id # At(t, k)'.id
    <3>1. l + d[u] \in Places(u) /\ Names(u, l + d[u])
          /\ At(u, l)'.id = At(u, l + d[u]).id
      BY <2>2 DEF Names
    <3> QED BY <2>1, <3>1 DEF IdsApart, WaitingUnseen
  <2> QED BY <2>1, <2>2
<1> QED BY <1>1, <1>2, <1>3 DEF IdsApart

\* The usual case: no operation moves.
LEMMA Stayed ==
    ASSUME TypeOK, IdsApart,
           \A t \in Sessions :
               /\ \A k \in 1 .. Len(queue'[t]) :
                      /\ k \in 1 .. Len(queue[t])
                      /\ queue'[t][k].kind = queue[t][k].kind
                      /\ queue'[t][k].id = queue[t][k].id
               /\ pc'[t] # "idle" => /\ pc[t] # "idle"
                                     /\ job'[t].kind = job[t].kind
                                     /\ job'[t].id = job[t].id
               /\ pc'[t] = "lock" => pc[t] = "lock",
           nextId' = nextId, file'.id <= nextId, \A i \in removed' : i <= nextId,
           \A t \in Sessions : \A k \in Places(t) :
               Waits(t, k) => At(t, k).id # file'.id /\ At(t, k).id \notin removed'
    PROVE  IdsApart'
<1> DEFINE d == [t \in Sessions |-> 0]
<1>1. \A t \in Sessions : d[t] = 0 /\ d[t] \in Nat
  OBVIOUS
<1> HIDE DEF d
<1>2. ASSUME NEW t \in Sessions, NEW k \in Places(t)'
      PROVE  /\ k \in Nat
             /\ k \in Places(t)
             /\ At(t, k)'.kind = At(t, k).kind
             /\ At(t, k)'.id = At(t, k).id
             /\ Waits(t, k)' => Waits(t, k)
  <2>1. k \in 0 .. Len(queue'[t]) /\ (k = 0 => pc'[t] # "idle")
    BY DEF Places
  <2>2. CASE k = 0
    <3>1. Len(queue[t]) \in Nat
      BY DEF TypeOK
    <3> QED BY <2>1, <2>2, <3>1 DEF Places, At, Waits, Enrolls
  <2>3. CASE k # 0
    <3>1. k \in 1 .. Len(queue'[t])
      BY <2>1, <2>3
    <3> QED BY <2>3, <3>1 DEF Places, At, Waits, Enrolls
  <2> QED BY <2>2, <2>3
<1>3. \A t \in Sessions : \A k \in Places(t)' : k + d[t] = k
  BY <1>1, <1>2
<1> QED BY <1>1, <1>2, <1>3, Moved

\* A call's operation takes its place at the end of the queue.  An enrollment's id is
\* a new one, and a removal names an enrollment that has begun.
LEMMA Scheduled ==
    ASSUME Inv, IdsApart, NEW s \in Sessions, NEW j \in Jobs, schedule(s, j),
           nextId' \in Nat, nextId <= nextId', j.id <= nextId',
           j.kind = "enroll" => j.id = nextId + 1,
           j.kind = "removeEnrollments" => j.id \in KnownIds
    PROVE  IdsApart'
<1> USE DEF storage, worker
<1>0. TypeOK /\ nextId \in Nat /\ Len(queue[s]) \in Nat
  BY ConstantsAssumption DEF Inv, TypeOK, Ids
<1>1. UNCHANGED <<file, removed, pc, job>>
  BY DEF schedule
<1> DEFINE new == Len(queue[s]) + 1
<1>2. ASSUME NEW t \in Sessions, NEW k \in Places(t)'
      PROVE  \/ t = s /\ k = new /\ At(t, k)' = j /\ k # 0
             \/ k \in Places(t) /\ At(t, k)' = At(t, k)
  <2>1. k \in 0 .. Len(queue'[t]) /\ (k = 0 => pc[t] # "idle")
    BY <1>1 DEF Places
  <2>2. queue[t] \in Seq(Jobs) /\ queue[s] \in Seq(Jobs) /\ queue \in [Sessions -> Seq(Jobs)]
    BY <1>0 DEF TypeOK
  <2>3. CASE queue'[t] = queue[t]
    BY <1>1, <2>1, <2>3 DEF Places, At
  <2>4. CASE t = s /\ queue'[t] = Append(queue[s], j)
    <3>1. /\ Len(Append(queue[s], j)) = new
          /\ \A i \in 1 .. Len(queue[s]) : Append(queue[s], j)[i] = queue[s][i]
          /\ Append(queue[s], j)[new] = j
      BY <2>2, AppendProperties
    <3>2. CASE k = new
      BY <1>0, <2>4, <3>1, <3>2 DEF At
    <3>3. CASE k # new
      BY <1>0, <1>1, <2>1, <2>4, <3>1, <3>3 DEF Places, At
    <3> QED BY <3>2, <3>3
  <2>5. queue'[t] = queue[t] \/ (t = s /\ queue'[t] = Append(queue[s], j))
    <3> DEFINE q == Append(queue[s], j)
    <3>1. queue' = queue \/ queue' = [queue EXCEPT ![s] = q]
      BY DEF schedule
    <3> HIDE DEF q
    <3>2. CASE queue' = queue
      BY <3>2
    <3>3. CASE queue' = [queue EXCEPT ![s] = q]
      <4>1. queue'[t] = IF t = s THEN q ELSE queue[t]
        BY <2>2, <3>3
      <4> QED BY <4>1 DEF q
    <3> QED BY <3>1, <3>2, <3>3
  <2> QED BY <2>3, <2>4, <2>5
<1> HIDE DEF new
<1>3. IdsDrawn'
  <2>1. file.id <= nextId' /\ \A i \in removed : i <= nextId'
    <3>1. file.id \in Nat /\ \A i \in removed : i \in Nat
      BY <1>0, RecordFields, ConstantsAssumption DEF TypeOK, Ids
    <3> QED BY <1>0, <3>1 DEF IdsApart, IdsDrawn
  <2>2. ASSUME NEW t \in Sessions, NEW k \in Places(t)'
        PROVE  At(t, k)'.id <= nextId'
    <3>1. CASE At(t, k)' = j
      BY <3>1
    <3>2. CASE k \in Places(t) /\ At(t, k)' = At(t, k)
      <4>1. At(t, k).id \in Nat /\ At(t, k).id <= nextId
        BY <1>0, <3>2, PlaceTypes, ConstantsAssumption DEF Ids, IdsApart, IdsDrawn
      <4> QED BY <1>0, <3>2, <4>1
    <3> QED BY <1>2, <3>1, <3>2
  <2> QED BY <1>1, <2>1, <2>2 DEF IdsDrawn
\* An enrollment already called has another id than the new one.
<1>4. ASSUME NEW t \in Sessions, NEW k \in Places(t), j.kind = "enroll"
      PROVE  At(t, k).id # j.id
  <2>1. At(t, k).id \in Nat /\ At(t, k).id <= nextId
    BY <1>0, PlaceTypes, ConstantsAssumption DEF Ids, IdsApart, IdsDrawn
  <2> QED BY <1>0, <1>4, <2>1
<1>5. IdsOnce'
  <2> SUFFICES ASSUME NEW t \in Sessions, NEW u \in Sessions,
                      NEW k \in Places(t)', NEW l \in Places(u)',
                      Enrolls(t, k)', Enrolls(u, l)', At(t, k)'.id = At(u, l)'.id
               PROVE  t = u /\ k = l
    BY DEF IdsOnce
  <2>1. CASE At(t, k)' = j /\ t = s /\ k = new
    BY <1>2, <1>4, <2>1 DEF Enrolls
  <2>2. CASE At(u, l)' = j /\ u = s /\ l = new
    BY <1>2, <1>4, <2>2 DEF Enrolls
  <2>3. CASE /\ k \in Places(t) /\ At(t, k)' = At(t, k)
             /\ l \in Places(u) /\ At(u, l)' = At(u, l)
    BY <2>3 DEF IdsApart, IdsOnce, Enrolls
  <2> QED BY <1>2, <2>1, <2>2, <2>3
\* No waiting enrollment's id is known.
<1>6. ASSUME NEW t \in Sessions, NEW k \in Places(t), Waits(t, k)
      PROVE  At(t, k).id \notin KnownIds
  <2>1. At(t, k).id # file.id
    BY <1>6 DEF IdsApart, WaitingUnseen
  <2>2. ASSUME NEW u \in Sessions, pc[u] = "capture" PROVE job[u].id # At(t, k).id
    <3>1. 0 \in Places(u) /\ At(u, 0) = job[u] /\ Enrolls(u, 0)
      <4>1. Len(queue[u]) \in Nat
        BY <1>0 DEF TypeOK
      <4> QED BY <2>2, <4>1 DEF Inv, StepsRelyOn, ReliesOn, Places, At, Enrolls
    <3>2. ~ (t = u /\ k = 0)
      BY <1>6, <2>2 DEF Waits
    <3> QED BY <1>6, <3>1, <3>2 DEF IdsApart, IdsOnce, Waits
  <2> QED BY <2>1, <2>2 DEF KnownIds
<1>7. WaitingUnseen'
  <2> SUFFICES ASSUME NEW t \in Sessions, NEW k \in Places(t)', Waits(t, k)'
               PROVE  /\ At(t, k)'.id # file.id
                      /\ At(t, k)'.id \notin removed
                      /\ \A u \in Sessions : \A l \in Places(u)' :
                             Names(u, l)' => At(u, l)'.id # At(t, k)'.id
    BY <1>1 DEF WaitingUnseen
  <2>1. CASE At(t, k)' = j /\ j.kind = "enroll"
    <3>1. At(t, k)'.id # file.id /\ At(t, k)'.id \notin removed
      <4>1. file.id \in Nat /\ \A i \in removed : i \in Nat
        BY <1>0, RecordFields, ConstantsAssumption DEF TypeOK, Ids
      <4> QED BY <1>0, <2>1, <4>1 DEF IdsApart, IdsDrawn
    <3>2. ASSUME NEW u \in Sessions, NEW l \in Places(u)', Names(u, l)'
          PROVE  At(u, l)'.id # At(t, k)'.id
      <4>1. l \in Places(u) /\ At(u, l)' = At(u, l)
        BY <1>2, <2>1, <3>2 DEF Names
      <4> QED BY <1>4, <2>1, <4>1
    <3> QED BY <3>1, <3>2
  <2>2. CASE k \in Places(t) /\ At(t, k)' = At(t, k) /\ Waits(t, k)
    <3>1. At(t, k).id # file.id /\ At(t, k).id \notin removed
      BY <2>2 DEF IdsApart, WaitingUnseen
    <3>2. ASSUME NEW u \in Sessions, NEW l \in Places(u)', Names(u, l)'
          PROVE  At(u, l)'.id # At(t, k).id
      <4>1. CASE l \in Places(u) /\ At(u, l)' = At(u, l)
        BY <2>2, <3>2, <4>1 DEF IdsApart, WaitingUnseen, Names
      <4>2. CASE At(u, l)' = j
        BY <1>6, <2>2, <3>2, <4>2 DEF Names
      <4> QED BY <1>2, <4>1, <4>2
    <3> QED BY <2>2, <3>1, <3>2
  <2>3. \/ At(t, k)' = j /\ j.kind = "enroll"
        \/ k \in Places(t) /\ At(t, k)' = At(t, k) /\ Waits(t, k)
    BY <1>1, <1>2 DEF Waits, Enrolls
  <2> QED BY <2>1, <2>2, <2>3
<1> QED BY <1>3, <1>5, <1>7 DEF IdsApart


\* What stays where it was concerns no waiting enrollment.
LEMMA UnseenStays ==
    ASSUME IdsApart, file' = file, removed' = removed
    PROVE  /\ file'.id <= nextId /\ \A i \in removed' : i <= nextId
           /\ \A t \in Sessions : \A k \in Places(t) :
                  Waits(t, k) => At(t, k).id # file'.id /\ At(t, k).id \notin removed'
BY DEF IdsApart, IdsDrawn, WaitingUnseen

\* Callers and the destructor keep the ids apart: createSession draws a new one.
LEMMA ClientIds ==
    ASSUME Inv, IdsApart, NEW s \in Sessions, ClientStep(s) \/ SessionDestroyed(s)
    PROVE  IdsApart'
<1> USE DEF storage, objects, worker
<1>0. TypeOK /\ nextId \in Nat
  BY ConstantsAssumption DEF Inv, TypeOK, Ids
<1>1. CASE UNCHANGED <<queue, pc, job, nextId, file, removed>>
  <2>1. \A t \in Sessions : \A k \in 1 .. Len(queue'[t]) : k \in 1 .. Len(queue[t])
    BY <1>1
  <2> QED BY <1>0, <1>1, <2>1, UnseenStays, Stayed
<1>2. CASE SessionDestroyed(s)
  <2>1. UNCHANGED <<pc, job, nextId, file, removed>> /\ queue' = [queue EXCEPT ![s] = <<>>]
    BY <1>2 DEF SessionDestroyed
  <2>2. ASSUME NEW t \in Sessions, NEW k \in 1 .. Len(queue'[t])
        PROVE  k \in 1 .. Len(queue[t]) /\ queue'[t][k] = queue[t][k]
    BY <1>0, <2>1 DEF TypeOK
  <2> QED BY <1>0, <2>1, <2>2, UnseenStays, Stayed
<1>3. CASE Cancel(s)
  <2>0. UNCHANGED <<pc, nextId, file, removed>>
    BY <1>3 DEF Cancel
  <2>1. CASE UNCHANGED queue /\ job' = [job EXCEPT ![s].cancelled = TRUE]
    <3>1. job[s] \in Jobs
      BY <1>0 DEF TypeOK
    <3>2. /\ [job[s] EXCEPT !.cancelled = TRUE].kind = job[s].kind
          /\ [job[s] EXCEPT !.cancelled = TRUE].id = job[s].id
      BY <3>1 DEF Jobs
    <3>3. ASSUME NEW t \in Sessions
          PROVE  job'[t].kind = job[t].kind /\ job'[t].id = job[t].id
      <4>1. job' = [job EXCEPT ![s] = [job[s] EXCEPT !.cancelled = TRUE]]
        BY <1>0, <2>1 DEF TypeOK
      <4>2. job'[t] = IF t = s THEN [job[s] EXCEPT !.cancelled = TRUE] ELSE job[t]
        BY <1>0, <4>1 DEF TypeOK
      <4> QED BY <3>2, <4>2
    <3> QED BY <1>0, <2>0, <2>1, <3>3, UnseenStays, Stayed
  <2>2. ASSUME NEW n \in 1 .. Len(queue[s]), UNCHANGED job,
               queue' = [queue EXCEPT ![s][n].cancelled = TRUE]
        PROVE  IdsApart'
    <3>1. queue \in [Sessions -> Seq(Jobs)] /\ queue[s] \in Seq(Jobs) /\ queue[s][n] \in Jobs
      BY <1>0 DEF TypeOK
    <3>2. /\ [queue[s][n] EXCEPT !.cancelled = TRUE].kind = queue[s][n].kind
          /\ [queue[s][n] EXCEPT !.cancelled = TRUE].id = queue[s][n].id
          /\ [queue[s][n] EXCEPT !.cancelled = TRUE] \in Jobs
      BY <3>1 DEF Jobs
    <3> DEFINE j == [queue[s][n] EXCEPT !.cancelled = TRUE]
    <3>3. queue' = [queue EXCEPT ![s] = [queue[s] EXCEPT ![n] = j]]
      BY <2>2, <3>1
    <3> HIDE DEF j
    <3>4. ASSUME NEW t \in Sessions, NEW k \in 1 .. Len(queue'[t])
          PROVE  /\ k \in 1 .. Len(queue[t])
                 /\ queue'[t][k].kind = queue[t][k].kind
                 /\ queue'[t][k].id = queue[t][k].id
      <4>1. CASE t # s
        BY <3>1, <3>3, <4>1
      <4>2. CASE t = s
        <5>1. queue'[t] = [queue[s] EXCEPT ![n] = j]
          BY <3>1, <3>3, <4>2
        <5>2. /\ Len([queue[s] EXCEPT ![n] = j]) = Len(queue[s])
              /\ \A i \in 1 .. Len(queue[s]) :
                     [queue[s] EXCEPT ![n] = j][i] = IF i = n THEN j ELSE queue[s][i]
          BY <3>1, <3>2 DEF j
        <5>3. k \in 1 .. Len(queue[s])
          BY <5>1, <5>2
        <5> QED BY <3>2, <4>2, <5>1, <5>2, <5>3 DEF j
      <4> QED BY <4>1, <4>2
    <3> QED BY <1>0, <2>0, <2>2, <3>4, UnseenStays, Stayed
  <2> QED BY <1>3, <2>1, <2>2 DEF Cancel
<1>4. ASSUME nextId < MaxIds, nextId' = nextId + 1
      PROVE  /\ nextId' \in Nat /\ nextId <= nextId' /\ nextId + 1 <= nextId'
             /\ nextId + 1 \in Ids \ {0}
  BY <1>0, <1>4, ConstantsAssumption DEF Ids
<1>5. NoJob = [kind |-> "query", challenge |-> NoChallenge, id |-> 0, on |-> FALSE,
               cancelled |-> FALSE] /\ 0 \in Ids /\ 0 <= nextId
  BY <1>0, Sentinels DEF NoJob
<1>6. CASE enroll(s)
  <2>1. PICK c \in Challenges :
            schedule(s, [NoJob EXCEPT !.kind = "enroll", !.challenge = c,
                                      !.id = nextId + 1])
    BY <1>6 DEF enroll
  <2> DEFINE j == [NoJob EXCEPT !.kind = "enroll", !.challenge = c, !.id = nextId + 1]
  <2>2. j \in Jobs /\ j.kind = "enroll" /\ j.id = nextId + 1
    BY <1>4, <1>5, <1>6 DEF enroll, Jobs, Kinds
  <2> HIDE DEF j
  <2>3. schedule(s, j)
    BY <2>1 DEF j
  <2> QED BY <1>4, <1>6, <2>2, <2>3, Scheduled DEF enroll
<1>7. CASE invalidateAuthenticatorId(s)
  <2> DEFINE j == [NoJob EXCEPT !.kind = "invalidateAuthenticatorId", !.id = nextId + 1]
  <2>1. j \in Jobs /\ j.kind = "invalidateAuthenticatorId" /\ j.id = nextId + 1
    BY <1>4, <1>5, <1>7 DEF invalidateAuthenticatorId, Jobs, Kinds
  <2>2. schedule(s, j)
    BY <1>7 DEF invalidateAuthenticatorId
  <2> HIDE DEF j
  <2> QED BY <1>4, <1>7, <2>1, <2>2, Scheduled DEF invalidateAuthenticatorId
<1>8. CASE removeEnrollments(s)
  <2>1. PICK i \in KnownIds :
            schedule(s, [NoJob EXCEPT !.kind = "removeEnrollments", !.id = i])
    BY <1>8 DEF removeEnrollments
  <2>2. i \in Ids /\ i <= nextId
    <3>1. CASE i = file.id
      BY <1>0, <3>1, RecordFields DEF TypeOK, IdsApart, IdsDrawn
    <3>2. ASSUME NEW t \in Sessions, pc[t] = "capture", i = job[t].id PROVE <2>2
      <4>1. 0 \in Places(t) /\ At(t, 0) = job[t]
        <5>1. Len(queue[t]) \in Nat
          BY <1>0 DEF TypeOK
        <5> QED BY <3>2, <5>1 DEF Places, At
      <4> QED BY <1>0, <3>2, <4>1, PlaceTypes DEF IdsApart, IdsDrawn
    <3> QED BY <3>1, <3>2 DEF KnownIds
  <2> DEFINE j == [NoJob EXCEPT !.kind = "removeEnrollments", !.id = i]
  <2>3. j \in Jobs /\ j.kind = "removeEnrollments" /\ j.id = i
    BY <1>5, <2>2 DEF Jobs, Kinds
  <2> HIDE DEF j
  <2>4. schedule(s, j) /\ nextId' = nextId
    BY <1>8, <2>1 DEF removeEnrollments, j
  <2> QED BY <1>0, <2>2, <2>3, <2>4, Scheduled
<1>9. ASSUME NEW j \in Jobs, j.id = 0, j.kind \notin {"enroll", "removeEnrollments"},
             schedule(s, j), nextId' = nextId
      PROVE  IdsApart'
  BY <1>0, <1>5, <1>9, Scheduled
<1>10. CASE authenticate(s)
  <2> DEFINE j == [NoJob EXCEPT !.kind = "authenticate"]
  <2>1. j \in Jobs /\ j.id = 0 /\ j.kind = "authenticate"
    BY <1>5 DEF Jobs, Kinds
  <2>2. schedule(s, j) /\ nextId' = nextId
    BY <1>10 DEF authenticate
  <2> HIDE DEF j
  <2> QED BY <1>9, <2>1, <2>2
<1>11. CASE setFeature(s)
  <2>1. PICK on \in BOOLEAN :
            schedule(s, [NoJob EXCEPT !.kind = "setFeature", !.on = on])
    BY <1>11 DEF setFeature
  <2> DEFINE j == [NoJob EXCEPT !.kind = "setFeature", !.on = on]
  <2>2. j \in Jobs /\ j.id = 0 /\ j.kind = "setFeature"
    BY <1>5 DEF Jobs, Kinds
  <2>3. schedule(s, j) /\ nextId' = nextId
    BY <1>11, <2>1 DEF setFeature
  <2> HIDE DEF j
  <2> QED BY <1>9, <2>2, <2>3
<1>12. CASE resetLockout(s)
  <2> DEFINE j == [NoJob EXCEPT !.kind = "resetLockout"]
  <2>1. j \in Jobs /\ j.id = 0 /\ j.kind = "resetLockout"
    BY <1>5 DEF Jobs, Kinds
  <2>2. schedule(s, j) /\ nextId' = nextId
    BY <1>12 DEF resetLockout
  <2> HIDE DEF j
  <2> QED BY <1>9, <2>1, <2>2
<1>13. CASE query(s)
  <2>1. NoJob \in Jobs /\ NoJob.id = 0 /\ NoJob.kind = "query"
    BY <1>5, Sentinels
  <2>2. schedule(s, NoJob) /\ nextId' = nextId
    BY <1>13 DEF query
  <2> QED BY <1>9, <2>1, <2>2
<1>14. CASE \/ ReleaseSession(s) \/ generateChallenge(s) \/ revokeChallenge(s)
            \/ \E u \in Users : createSession(s, u)
  BY <1>1, <1>14 DEF ReleaseSession, generateChallenge, revokeChallenge, createSession
<1> QED BY <1>2, <1>3, <1>6, <1>7, <1>8, <1>10, <1>11, <1>12, <1>13, <1>14 DEF ClientStep

\* The worker takes its next operation: the places move up by one.
LEMMA DequeueIds ==
    ASSUME Inv, IdsApart, NEW s \in Sessions, Dequeue(s)
    PROVE  IdsApart'
<1> DEFINE d == [t \in Sessions |-> IF t = s THEN 1 ELSE 0]
<1>1. \A t \in Sessions : d[t] = (IF t = s THEN 1 ELSE 0) /\ d[t] \in Nat
  OBVIOUS
<1> HIDE DEF d
<1>2. TypeOK /\ UNCHANGED <<file, removed, nextId>>
  BY DEF Dequeue, storage, Inv
<1>3. /\ queue[s] \in Seq(Jobs) /\ queue[s] # <<>> /\ queue \in [Sessions -> Seq(Jobs)]
      /\ pc \in [Sessions -> Steps] /\ job \in [Sessions -> Jobs]
  BY <1>2 DEF Dequeue, TypeOK
<1>4. /\ Head(queue[s]) = queue[s][1] /\ Len(Tail(queue[s])) = Len(queue[s]) - 1
      /\ Len(queue[s]) \in Nat \ {0}
      /\ \A k \in 1 .. Len(Tail(queue[s])) : Tail(queue[s])[k] = queue[s][k + 1]
  BY <1>3, HeadTailProperties
<1>5. ASSUME NEW t \in Sessions, NEW k \in Places(t)'
      PROVE  /\ k \in Nat
             /\ k + d[t] \in Places(t)
             /\ At(t, k)' = At(t, k + d[t])
             /\ Waits(t, k)' => Waits(t, k + d[t])
  <2>1. k \in 0 .. Len(queue'[t]) /\ (k = 0 => pc'[t] # "idle")
    BY DEF Places
  <2>2. CASE t # s
    <3>1. queue'[t] = queue[t] /\ pc'[t] = pc[t] /\ job'[t] = job[t]
      BY <1>3, <2>2 DEF Dequeue
    <3>2. k \in Nat /\ k + d[t] = k
      BY <1>1, <1>3, <2>1, <2>2, <3>1
    <3> QED BY <2>1, <3>1, <3>2 DEF Places, At, Waits, Enrolls
  <2>3. CASE t = s
    <3> DEFINE q == Tail(queue[s])
               h == Head(queue[s])
    <3>1. queue' = [queue EXCEPT ![s] = q] /\ job' = [job EXCEPT ![s] = h]
          /\ pc' = [pc EXCEPT ![s] = "lock"]
      BY DEF Dequeue
    <3> HIDE DEF q, h
    <3>2. queue'[t] = q /\ job'[t] = h /\ pc'[t] = "lock"
      BY <1>3, <2>3, <3>1
    <3>3. /\ k \in Nat /\ k + d[t] = k + 1 /\ k + 1 \in 1 .. Len(queue[s])
          /\ k # 0 => k \in 1 .. Len(q)
      BY <1>1, <1>4, <2>1, <2>3, <3>2 DEF q
    <3>4. At(t, k)' = queue[s][k + 1]
      BY <1>4, <3>2, <3>3 DEF At, q, h
    <3>5. k + 1 \in Places(t) /\ At(t, k + 1) = queue[s][k + 1] /\ k + 1 # 0
      BY <2>3, <3>3 DEF Places, At
    <3> QED BY <3>3, <3>4, <3>5 DEF Waits, Enrolls
  <2> QED BY <2>2, <2>3
<1> QED BY <1>1, <1>2, <1>5, UnseenStays, Moved

\* A worker's step inside an operation awaits a frame, looks at one, goes on or
\* finishes.
Outcome(s) ==
    \/ NextFrame(s) \/ AuthenticateCompared(s)
    \/ \E p \in Holding : Continue(s, p)
    \/ AuthenticationSucceeded(s)
    \/ \E r : /\ FinishWith(s, r) /\ r.to = s
              /\ r.what # "onAuthenticationSucceeded"

\* Apart from Dequeue a step of a worker goes on or answers.
LEMMA WorkerOutcome ==
    ASSUME NEW s \in Sessions, HalStep(s) \/ FrameStep(s), ~ Dequeue(s)
    PROVE  Outcome(s)
<1>1. ASSUME NEW what, Finish(s, what), what # "onAuthenticationSucceeded" PROVE Outcome(s)
  <2>1. /\ [NoReply EXCEPT !.to = s, !.what = what].what = what
        /\ [NoReply EXCEPT !.to = s, !.what = what].to = s
    BY DEF NoReply
  <2> QED BY <1>1, <2>1 DEF Finish, Outcome
<1>2. ASSUME NEW p \in Holding, Continue(s, p) PROVE Outcome(s)
  BY <1>2 DEF Outcome
<1>3. ASSUME NEW r, FinishWith(s, r), r.to = s, r.what # "onAuthenticationSucceeded"
      PROVE  Outcome(s)
  BY <1>3 DEF Outcome
<1>4. CASE NextFrame(s) \/ AuthenticateCompared(s) \/ AuthenticationSucceeded(s)
  BY <1>4 DEF Outcome
<1>5. CASE EnrollRefused(s) \/ EnrollBegin(s) \/ EnrollCaptured(s) \/ EnrollGivesUp(s)
  BY <1>1, <1>2, <1>5
     DEF EnrollRefused, EnrollBegin, EnrollCaptured, EnrollGivesUp, Holding
<1>6. CASE EnrollStore(s)
  BY <1>1, <1>2, <1>6 DEF EnrollStore, Holding
<1>7. CASE EnrollSave(s)
  <2> DEFINE r == [to |-> s, what |-> "onEnrollmentProgress", id |-> job[s].id, face |-> 0]
  <2>1. r.what # "onAuthenticationSucceeded" /\ r.to = s
    OBVIOUS
  <2> QED BY <1>1, <1>3, <1>7, <2>1 DEF EnrollSave
<1>8. CASE AuthenticateRefused(s) \/ AuthenticateBegin(s) \/ AuthenticateStops(s)
  BY <1>1, <1>2, <1>8
     DEF AuthenticateRefused, AuthenticateBegin, AuthenticateStops, Holding
<1>9. CASE AuthenticationFailed(s) \/ AuthenticationError(s)
  BY <1>1, <1>9 DEF AuthenticationFailed, AuthenticationError
<1>10. CASE RemoveBegin(s) \/ RemoveUnlink(s)
  BY <1>1, <1>2, <1>10 DEF RemoveBegin, RemoveUnlink, Holding
<1>11. CASE RewriteBegin(s)
  <2>1. ASSUME Finish(s, IF job[s].kind = "setFeature" THEN "UNABLE_TO_PROCESS"
                                           ELSE "onAuthenticatorIdInvalidated")
        PROVE  Outcome(s)
    BY <1>1, <2>1
  <2> QED BY <1>2, <1>11, <2>1 DEF RewriteBegin, Holding
<1>12. CASE RewriteSave(s)
  <2>1. ASSUME NEW w, Finish(s, IF w.ok THEN "onFeatureSet" ELSE "UNABLE_TO_PROCESS")
        PROVE  Outcome(s)
    BY <1>1, <2>1
  <2> DEFINE r == [to |-> s, what |-> "onAuthenticatorIdInvalidated",
                   id |-> enr[s].authId, face |-> 0]
  <2>2. r.what # "onAuthenticationSucceeded" /\ r.to = s
    OBVIOUS
  <2> QED BY <1>3, <1>12, <2>1, <2>2 DEF RewriteSave
<1>13. CASE ResetLockout(s) \/ Query(s)
  BY <1>1, <1>13 DEF ResetLockout, Query
<1> QED
  BY <1>4, <1>5, <1>6, <1>7, <1>8, <1>9, <1>10, <1>11, <1>12, <1>13
     DEF HalStep, FrameStep

\* What every other step of a worker leaves of its own operation and of the others.
LEMMA WorkerLeaves ==
    ASSUME Inv, NEW s \in Sessions, HalStep(s) \/ FrameStep(s), ~ Dequeue(s)
    PROVE  /\ UNCHANGED <<queue, nextId, backend, user, life>>
           /\ lock = NoSession \/ pc[s] \in Holding
           /\ \A t \in Sessions : t # s => pc'[t] = pc[t] /\ job'[t] = job[t]
           /\ pc'[s] # "lock" /\ pc[s] # "idle"
           /\ pc'[s] # "idle" => job'[s] = job[s]
<1> USE DEF WorkerFrame, objects
<1>0. /\ pc \in [Sessions -> Steps] /\ job \in [Sessions -> Jobs]
  BY DEF Inv, TypeOK
<1>1. UNCHANGED <<queue, nextId, backend, user, life>>
  BY DEF HalStep, FrameStep, NextFrame, EnrollRefused, EnrollBegin,
     EnrollCaptured, EnrollGivesUp, EnrollStore, EnrollSave, AuthenticateRefused,
     AuthenticateBegin, AuthenticateCompared, AuthenticateStops, AuthenticationSucceeded,
     AuthenticationFailed, AuthenticationError, RemoveBegin, RemoveUnlink, RewriteBegin,
     RewriteSave, ResetLockout, Query
<1>2. /\ lock = NoSession \/ pc[s] \in Holding
      /\ pc[s] # "idle"
  BY DEF HalStep, FrameStep, NextFrame, EnrollRefused, EnrollBegin,
     EnrollCaptured, EnrollGivesUp, EnrollStore, EnrollSave, AuthenticateRefused,
     AuthenticateBegin, AuthenticateCompared, AuthenticateStops, AuthenticationSucceeded,
     AuthenticationFailed, AuthenticationError, RemoveBegin, RemoveUnlink, RewriteBegin,
     RewriteSave, ResetLockout, Query, Begins, Holding, Looping
<1>3. CASE NextFrame(s) \/ AuthenticateCompared(s)
  BY <1>1, <1>2, <1>3, NextFrameStutters DEF AuthenticateCompared
<1>4. ASSUME NEW p \in Holding, Continue(s, p)
      PROVE  /\ \A t \in Sessions : t # s => pc'[t] = pc[t] /\ job'[t] = job[t]
             /\ pc'[s] # "lock" /\ (pc'[s] # "idle" => job'[s] = job[s])
  BY <1>0, <1>4 DEF Continue, Holding
<1>5. ASSUME NEW r, FinishWith(s, r)
      PROVE  /\ \A t \in Sessions : t # s => pc'[t] = pc[t] /\ job'[t] = job[t]
             /\ pc'[s] = "idle"
  BY <1>0, <1>5 DEF FinishWith
<1>6. AuthenticationSucceeded(s) => \E r : FinishWith(s, r)
  BY DEF AuthenticationSucceeded
<1> QED BY <1>1, <1>2, <1>3, <1>4, <1>5, <1>6, WorkerOutcome DEF Outcome

\* A worker keeps its ids apart, whatever it leaves on file and reports removed.
LEMMA WorkerIds ==
    ASSUME Inv, IdsApart, NEW s \in Sessions, HalStep(s) \/ FrameStep(s), ~ Dequeue(s),
           file'.id <= nextId, \A i \in removed' : i <= nextId,
           \A t \in Sessions : \A k \in Places(t) :
               Waits(t, k) => At(t, k).id # file'.id /\ At(t, k).id \notin removed'
    PROVE  IdsApart'
<1>1. ASSUME NEW t \in Sessions
      PROVE  /\ \A k \in 1 .. Len(queue'[t]) :
                    /\ k \in 1 .. Len(queue[t])
                    /\ queue'[t][k].kind = queue[t][k].kind
                    /\ queue'[t][k].id = queue[t][k].id
             /\ pc'[t] # "idle" => /\ pc[t] # "idle"
                                   /\ job'[t].kind = job[t].kind
                                   /\ job'[t].id = job[t].id
             /\ pc'[t] = "lock" => pc[t] = "lock"
  <2>1. queue' = queue
    BY WorkerLeaves
  <2>2. CASE t = s
    BY <2>1, <2>2, WorkerLeaves
  <2>3. CASE t # s
    BY <2>1, <2>3, WorkerLeaves
  <2> QED BY <2>2, <2>3
<1>2. nextId' = nextId /\ TypeOK
  BY WorkerLeaves DEF Inv
<1> QED BY <1>1, <1>2, Stayed

\* The operation at hand is a place of its own.
LEMMA Hand ==
    ASSUME TypeOK, NEW s \in Sessions, pc[s] # "idle"
    PROVE  0 \in Places(s) /\ At(s, 0) = job[s] /\ job[s].id \in Ids
<1>1. Len(queue[s]) \in Nat /\ job[s] \in Jobs
  BY DEF TypeOK
<1> QED BY <1>1 DEF Places, At, Jobs

\* A waiting enrollment's id is not that of a running one, nor one being removed.
LEMMA NotAtHand ==
    ASSUME Inv, IdsApart, NEW s \in Sessions, pc[s] # "idle",
           \/ job[s].kind = "enroll" /\ pc[s] # "lock"
           \/ job[s].kind = "removeEnrollments",
           NEW t \in Sessions, NEW k \in Places(t), Waits(t, k)
    PROVE  At(t, k).id # job[s].id
<1>1. 0 \in Places(s) /\ At(s, 0) = job[s]
  BY Hand DEF Inv
<1>2. CASE job[s].kind = "enroll" /\ pc[s] # "lock"
  <2>1. ~ (t = s /\ k = 0) /\ Enrolls(s, 0) /\ Enrolls(t, k)
    BY <1>1, <1>2 DEF Waits, Enrolls
  <2> QED BY <1>1, <2>1 DEF IdsApart, IdsOnce
<1>3. CASE job[s].kind = "removeEnrollments"
  BY <1>1, <1>3 DEF IdsApart, WaitingUnseen, Names
<1> QED BY <1>2, <1>3

\* A step of a worker leaves the others waiting or idle, so that only its own
\* operation can be running.
LEMMA RunningAlone ==
    ASSUME Inv, NEW s \in Sessions, HalStep(s) \/ FrameStep(s), ~ Dequeue(s), Running(s)'
    PROVE  RunningKept'
<1> SUFFICES ASSUME NEW t \in Sessions, t # s PROVE Running(t)'
  BY DEF RunningKept
<1>1. pc[t] \notin Holding /\ pc'[t] = pc[t]
  BY WorkerLeaves, Alone DEF Inv
<1> QED BY <1>1 DEF Running, Holding

\* Erasing templates, rewriting the record's other fields and taking it off the file
\* leave what was removed without a face.
LEMMA FacelessStays ==
    ASSUME TypeOK, RemovedHasNoFace,
           \/ file' = NoEnrollment
           \/ file' = file
           \/ file # NoEnrollment /\ file'.id = file.id /\ file'.engine = file.engine,
           template' \in {template, [template EXCEPT ![backend] = 0]},
           file.id \in removed' => file.id \in removed
    PROVE  RemovedHasNoFace'
<1> SUFFICES ASSUME file' # NoEnrollment, file'.id \in removed', NEW b \in Backends,
                    (b = "auth") <=> (file'.engine = "auth")
             PROVE  template'[b] = 0
  BY DEF RemovedHasNoFace
<1>1. file # NoEnrollment /\ file'.id = file.id /\ file'.engine = file.engine
  OBVIOUS
<1>2. template[b] = 0
  BY <1>1 DEF RemovedHasNoFace
<1>3. template'[b] \in {0, template[b]}
  BY ConstantsAssumption DEF TypeOK
<1> QED BY <1>2, <1>3

\* A worker's step leaves what was removed removed.
LEMMA WorkerRemovals ==
    ASSUME Inv, RInv, RemovalReachesFace, NEW s \in Sessions, HalStep(s) \/ FrameStep(s)
    PROVE  RInv'
<1> USE DEF storage, WorkerFrame, Finish
<1>0. /\ TypeOK /\ Exclusion /\ StepsRelyOn /\ IdsApart /\ RunningKept /\ RemovedHasNoFace
      /\ RemovedStaysRemoved
  BY DEF RInv, Inv
<1>1. CASE Dequeue(s)
  <2>1. UNCHANGED <<file, template, backend, removed, reply>>
    BY <1>1 DEF Dequeue
  <2>2. \A t \in Sessions : pc'[t] = "lock" \/ (pc'[t] = pc[t] /\ job'[t] = job[t])
    BY <1>0, <1>1 DEF Dequeue, TypeOK
  <2>3. RunningKept'
    BY <1>0, <2>1, <2>2 DEF RunningKept, Running
  <2>4. RemovedHasNoFace' /\ RemovedStaysRemoved'
    BY <1>0, <2>1 DEF RemovedHasNoFace, RemovedStaysRemoved
  <2> QED BY <1>0, <1>1, <2>3, <2>4, DequeueIds DEF RInv
<1> SUFFICES ASSUME ~ Dequeue(s) PROVE RInv'
  BY <1>1
<1>2. /\ pc'[s] # "idle" => job'[s] = job[s]
      /\ backend' = backend
      /\ pc[s] # "idle"
  BY WorkerLeaves
<1>3. /\ file.id <= nextId /\ \A i \in removed : i <= nextId
      /\ job[s].id <= nextId /\ job[s].id \in Ids /\ 0 <= nextId
  BY <1>0, <1>2, Hand, ConstantsAssumption DEF IdsApart, IdsDrawn, TypeOK, Ids
<1>4. ASSUME NEW what, FinishWith(s, [NoReply EXCEPT !.to = s, !.what = what])
      PROVE  pc'[s] = "idle" /\ reply'.what = what
  <2>1. [NoReply EXCEPT !.to = s, !.what = what].what = what
    BY DEF NoReply
  <2> QED BY <1>0, <1>4, <2>1 DEF FinishWith, TypeOK
<1>5. ASSUME NEW p \in Holding, Continue(s, p)
      PROVE  pc'[s] = p /\ reply'.what = "none"
  BY <1>0, <1>5 DEF Continue, TypeOK, NoReply
<1>6. ASSUME UNCHANGED <<file, removed>>,
             template' \in {template, [template EXCEPT ![backend] = 0]},
             Running(s)', RemovedStaysRemoved'
      PROVE  RInv'
  <2>1. IdsApart'
    BY <1>0, <1>6, UnseenStays, WorkerIds
  <2>2. RemovedHasNoFace'
    BY <1>0, <1>6, FacelessStays
  <2> QED BY <1>6, <2>1, <2>2, RunningAlone DEF RInv
<1>7. \A r \in RemoveFeature : /\ r.template \in {template, [template EXCEPT ![backend] = 0]}
                               /\ r.ok => r.template = [template EXCEPT ![backend] = 0]
  BY <1>0, RemoveFeatureOutcome
<1>8. ASSUME pc'[s] \notin {"capture", "store", "save", "unlink"} PROVE Running(s)'
  BY <1>8 DEF Running
<1>9. ASSUME reply'.what # "onAuthenticationSucceeded" PROVE RemovedStaysRemoved'
  BY <1>9 DEF RemovedStaysRemoved
<1> HIDE DEF Finish
<1>10. ASSUME NEW what, Finish(s, what)
       PROVE  pc'[s] = "idle" /\ reply'.what = what
  BY <1>4, <1>10 DEF Finish
<1>11. CASE EnrollRefused(s) \/ AuthenticateRefused(s) \/ AuthenticationFailed(s)
            \/ AuthenticationError(s) \/ ResetLockout(s) \/ Query(s)
  <2>1. \E what \in Replies \ {"onAuthenticationSucceeded"} : Finish(s, what)
    BY <1>11 DEF EnrollRefused, AuthenticateRefused, AuthenticationFailed,
       AuthenticationError, ResetLockout, Query, Replies
  <2>2. UNCHANGED <<file, template, removed>>
    BY <1>11 DEF EnrollRefused, AuthenticateRefused, AuthenticationFailed,
       AuthenticationError, ResetLockout, Query
  <2> QED BY <1>6, <1>8, <1>9, <1>10, <2>1, <2>2
<1>12. CASE NextFrame(s) \/ AuthenticateCompared(s)
  <2>1. UNCHANGED <<file, template, backend, removed, reply, pc, job>>
    BY <1>12, NextFrameStutters DEF AuthenticateCompared
  <2>2. RemovedStaysRemoved'
    BY <1>0, <2>1 DEF RemovedStaysRemoved
  <2>3. Running(s)'
    BY <1>0, <2>1 DEF RunningKept, Running
  <2> QED BY <1>6, <2>1, <2>2, <2>3
<1>13. CASE AuthenticateBegin(s) \/ AuthenticateStops(s)
  <2>1. UNCHANGED <<file, template, removed>>
        /\ \E p \in {"match", "verdict"} : Continue(s, p)
    BY <1>13 DEF AuthenticateBegin, AuthenticateStops
  <2> QED BY <1>5, <1>6, <1>8, <1>9, <2>1 DEF Holding
<1>14. CASE EnrollBegin(s)
  <2>1. /\ UNCHANGED <<file, removed>>
        /\ template' \in {template, [template EXCEPT ![backend] = 0]}
        /\ pc[s] = "lock" /\ job[s].kind = "enroll"
    BY <1>7, <1>14 DEF EnrollBegin, Begins
  <2>2. job[s].id \notin removed
    BY <1>0, <1>2, <2>1, Hand DEF IdsApart, WaitingUnseen, Waits, Enrolls
  <2>3. CASE Continue(s, "capture")
    <3>1. Running(s)'
      BY <1>2, <1>5, <2>1, <2>2, <2>3 DEF Running, Holding
    <3> QED BY <1>5, <1>6, <1>9, <2>1, <2>3, <3>1 DEF Holding
  <2>4. CASE Finish(s, "UNABLE_TO_PROCESS")
    BY <1>6, <1>8, <1>9, <1>10, <2>1, <2>4
  <2> QED BY <1>14, <2>3, <2>4 DEF EnrollBegin
<1>15. ASSUME pc[s] \in {"capture", "store", "save"}
       PROVE  /\ file = NoEnrollment /\ job[s].id \notin removed /\ job[s].kind = "enroll"
              /\ file' = NoEnrollment => RemovedHasNoFace'
  BY <1>0, <1>15 DEF StepsRelyOn, ReliesOn, RunningKept, Running, RemovedHasNoFace
<1>16. ASSUME UNCHANGED <<file, removed>>, pc[s] \in {"capture", "store"},
              Running(s)', RemovedStaysRemoved'
       PROVE  RInv'
  <2>1. IdsApart'
    BY <1>0, <1>16, UnseenStays, WorkerIds
  <2> QED BY <1>15, <1>16, <2>1, RunningAlone DEF RInv
<1>17. CASE EnrollCaptured(s) \/ EnrollStore(s)
  <2>1. UNCHANGED <<file, removed>> /\ pc[s] \in {"capture", "store"}
    BY <1>17 DEF EnrollCaptured, EnrollStore
  <2>2. ASSUME NEW p \in {"save", "store"}, Continue(s, p) PROVE RInv'
    <3>1. Running(s)'
      BY <1>2, <1>5, <1>15, <2>1, <2>2 DEF Running, Holding
    <3> QED BY <1>5, <1>9, <1>16, <2>1, <2>2, <3>1 DEF Holding
  <2>3. CASE Finish(s, "UNABLE_TO_PROCESS")
    BY <1>8, <1>9, <1>10, <1>16, <2>1, <2>3
  <2> QED BY <1>17, <2>2, <2>3 DEF EnrollCaptured, EnrollStore
<1>18. CASE EnrollGivesUp(s)
  <2>1. UNCHANGED <<file, removed>> /\ pc[s] = "capture"
    BY <1>18 DEF EnrollGivesUp
  <2>2. \E what : Finish(s, what) /\ what # "onAuthenticationSucceeded"
    BY <1>18 DEF EnrollGivesUp
  <2> QED BY <1>8, <1>9, <1>10, <1>16, <2>1, <2>2
<1>19. CASE EnrollSave(s)
  <2> DEFINE e == [user |-> user[s], id |-> job[s].id, authId |-> job[s].id,
                   attention |-> TRUE, engine |-> engineName]
             r == [to |-> s, what |-> "onEnrollmentProgress", id |-> job[s].id,
                   face |-> 0]
  <2>1. pc[s] = "save" /\ removed' = removed
    BY <1>19 DEF EnrollSave
  <2>2. e.id = job[s].id /\ NoEnrollment.id = 0 /\ r.what = "onEnrollmentProgress"
    BY DEF NoEnrollment
  <2>3. PICK w \in SaveFile(e) :
          /\ file' = w.file
          /\ \/ FinishWith(s, r)
             \/ Finish(s, "UNABLE_TO_PROCESS")
    BY <1>19 DEF EnrollSave
  <2>4. file' \in {e, NoEnrollment}
    BY <1>15, <2>1, <2>3 DEF SaveFile
  <2> HIDE DEF e, r
  <2>5. pc'[s] = "idle" /\ reply'.what # "onAuthenticationSucceeded"
    BY <1>0, <1>10, <2>2, <2>3 DEF FinishWith, TypeOK
  <2>6. file'.id <= nextId
    BY <1>3, <2>2, <2>4
  <2>7. ASSUME NEW t \in Sessions, NEW k \in Places(t), Waits(t, k)
        PROVE  At(t, k).id # file'.id /\ At(t, k).id \notin removed'
    <3>1. At(t, k).id # job[s].id
      BY <1>0, <1>2, <1>15, <2>1, <2>7, NotAtHand
    <3>2. At(t, k).id # 0
      BY <1>0, <2>7, PlaceTypes DEF Waits
    <3>3. At(t, k).id \notin removed
      BY <1>0, <2>7 DEF IdsApart, WaitingUnseen
    <3> QED BY <2>1, <2>2, <2>4, <3>1, <3>2, <3>3
  <2>8. IdsApart'
    BY <1>0, <1>3, <2>1, <2>6, <2>7, WorkerIds
  <2>9. RemovedHasNoFace'
    BY <1>15, <2>1, <2>2, <2>4 DEF RemovedHasNoFace
  <2> QED BY <1>8, <1>9, <2>5, <2>8, <2>9, RunningAlone DEF RInv
<1>20. CASE AuthenticationSucceeded(s)
  <2> DEFINE r == [to |-> s, what |-> "onAuthenticationSucceeded",
                   id |-> enr[s].id, face |-> template[backend]]
  <2>1. /\ pc[s] = "verdict" /\ found[s] = "match" /\ FinishWith(s, r)
        /\ UNCHANGED <<file, template, removed>>
    BY <1>20 DEF AuthenticationSucceeded
  <2>2. /\ template[backend] # 0 /\ enr[s] = file /\ file.engine = engineName
        /\ file.user = user[s] /\ user[s] \in Users /\ backend \in Backends
    BY <1>0, <2>1 DEF StepsRelyOn, ReliesOn, MatchIsCurrent, CurrentMatch, Inv,
       WorkerHasUser, TypeOK
  <2>3. file # NoEnrollment
    BY <1>0, <2>2, RecordFields, Sentinels DEF TypeOK
  <2>4. file.id \notin removed
    <3>1. (backend = "auth") <=> (file.engine = "auth")
      BY <2>2 DEF engineName
    <3> QED BY <1>0, <2>2, <2>3, <3>1 DEF RemovedHasNoFace
  <2>5. reply'.id = file.id
    BY <2>1, <2>2 DEF FinishWith
  <2>6. pc'[s] = "idle"
    BY <1>0, <2>1 DEF FinishWith, TypeOK
  <2>7. RemovedStaysRemoved'
    BY <2>1, <2>4, <2>5 DEF RemovedStaysRemoved
  <2> QED BY <1>6, <1>8, <2>1, <2>6, <2>7
<1>21. CASE RewriteBegin(s)
  <2>1. UNCHANGED <<file, template, removed>>
    BY <1>21 DEF RewriteBegin
  <2>2. CASE Continue(s, "rewrite")
    BY <1>5, <1>6, <1>8, <1>9, <2>1, <2>2 DEF Holding
  <2>3. CASE Finish(s, "UNABLE_TO_PROCESS") \/ Finish(s, "onAuthenticatorIdInvalidated")
    BY <1>6, <1>8, <1>9, <1>10, <2>1, <2>3
  <2> QED BY <1>21, <2>2, <2>3 DEF RewriteBegin
<1>22. CASE RewriteSave(s)
  <2> DEFINE r == [to |-> s, what |-> "onAuthenticatorIdInvalidated",
                   id |-> enr[s].authId, face |-> 0]
  <2>1. PICK w \in SaveFile(enr[s]) :
          /\ file' = w.file
          /\ \/ Finish(s, IF w.ok THEN "onFeatureSet" ELSE "UNABLE_TO_PROCESS")
             \/ FinishWith(s, r)
    BY <1>22 DEF RewriteSave
  <2>2. /\ pc[s] = "rewrite" /\ UNCHANGED <<template, removed>> /\ file # NoEnrollment
        /\ enr[s].id = file.id /\ enr[s].engine = file.engine
        /\ r.what = "onAuthenticatorIdInvalidated"
    BY <1>0, <1>22 DEF RewriteSave, StepsRelyOn, ReliesOn
  <2>3. file' \in {enr[s], file, NoEnrollment}
    BY <2>1 DEF SaveFile
  <2> HIDE DEF r
  <2>4. pc'[s] = "idle" /\ reply'.what # "onAuthenticationSucceeded"
    <3>1. CASE FinishWith(s, r)
      BY <1>0, <2>2, <3>1 DEF FinishWith, TypeOK
    <3>2. CASE Finish(s, "onFeatureSet") \/ Finish(s, "UNABLE_TO_PROCESS")
      BY <1>10, <3>2
    <3> QED BY <2>1, <3>1, <3>2
  <2>5. RemovedHasNoFace'
    BY <1>0, <2>2, <2>3, FacelessStays
  <2>6. file'.id \in {file.id, 0}
    BY <2>2, <2>3 DEF NoEnrollment
  <2>7. ASSUME NEW t \in Sessions, NEW k \in Places(t), Waits(t, k)
        PROVE  At(t, k).id # file'.id /\ At(t, k).id \notin removed'
    BY <1>0, <2>2, <2>6, <2>7, PlaceTypes DEF IdsApart, WaitingUnseen, Waits
  <2>8. IdsApart'
    BY <1>0, <1>3, <2>2, <2>6, <2>7, WorkerIds
  <2> QED BY <1>8, <1>9, <2>4, <2>5, <2>8, RunningAlone DEF RInv
<1>23. ASSUME job[s].kind = "removeEnrollments", removed' = removed \cup {job[s].id},
              file'.id \in {file.id, 0}
       PROVE  IdsApart'
  <2>1. ASSUME NEW t \in Sessions, NEW k \in Places(t), Waits(t, k)
        PROVE  At(t, k).id # file'.id /\ At(t, k).id \notin removed'
    <3>1. At(t, k).id # job[s].id
      BY <1>0, <1>2, <1>23, <2>1, NotAtHand
    <3>2. At(t, k).id # 0 /\ At(t, k).id # file.id /\ At(t, k).id \notin removed
      BY <1>0, <2>1, PlaceTypes DEF IdsApart, WaitingUnseen, Waits
    <3> QED BY <1>23, <3>1, <3>2
  <2> QED BY <1>0, <1>3, <1>23, <2>1, WorkerIds
<1>24. CASE RemoveBegin(s)
  <2>1. file' = file /\ job[s].kind = "removeEnrollments"
    BY <1>24 DEF RemoveBegin, Begins
  <2>2. CASE /\ file.id # job[s].id /\ Report(s) /\ Finish(s, "onEnrollmentsRemoved")
             /\ template' = template
    <3>1. IdsApart'
      BY <1>23, <2>1, <2>2 DEF Report
    <3>2. RemovedHasNoFace'
      BY <1>0, <2>1, <2>2, FacelessStays DEF Report
    <3> QED BY <1>8, <1>9, <1>10, <2>2, <3>1, <3>2, RunningAlone DEF RInv
  <2>3. CASE UNCHANGED <<template, removed>> /\ Finish(s, "onEnrollmentsRemoved")
    BY <1>6, <1>8, <1>9, <1>10, <2>1, <2>3
  <2>4. ASSUME NEW r \in RemoveFeature, template' = r.template, removed' = removed,
               \/ r.ok /\ Continue(s, "unlink")
               \/ Finish(s, "UNABLE_TO_REMOVE")
        PROVE  RInv'
    <3>1. template' \in {template, [template EXCEPT ![backend] = 0]}
      BY <1>7, <2>4
    <3>2. CASE r.ok /\ Continue(s, "unlink")
      <4>1. template' = [template EXCEPT ![backend] = 0]
        BY <1>7, <2>4, <3>2
      <4>2. template'[backend'] = 0
        BY <1>0, <1>2, <4>1, ConstantsAssumption DEF TypeOK
      <4>3. Running(s)'
        BY <1>2, <1>5, <2>1, <3>2, <4>2 DEF Running, Holding
      <4> QED BY <1>5, <1>6, <1>9, <2>1, <2>4, <3>1, <3>2, <4>3 DEF Holding
    <3>3. CASE Finish(s, "UNABLE_TO_REMOVE")
      BY <1>6, <1>8, <1>9, <1>10, <2>1, <2>4, <3>1, <3>3
    <3> QED BY <2>4, <3>2, <3>3
  <2> QED BY <1>24, <2>2, <2>3, <2>4 DEF RemoveBegin
<1>25. CASE RemoveUnlink(s)
  <2>1. /\ pc[s] = "unlink" /\ file' \in UnlinkFile /\ Report(s) /\ template' = template
        /\ Finish(s, "onEnrollmentsRemoved")
    BY <1>25 DEF RemoveUnlink
  <2>2. /\ job[s].kind = "removeEnrollments" /\ template[backend] = 0
        /\ backend \in Backends
    BY <1>0, <2>1 DEF RunningKept, Running, TypeOK
  <2>3. file'.id \in {file.id, 0}
    BY <2>1 DEF UnlinkFile, NoEnrollment
  <2>4. IdsApart'
    BY <1>23, <2>1, <2>2, <2>3 DEF Report
  <2>5. RemovedHasNoFace'
    BY <1>2, <2>1, <2>2 DEF UnlinkFile, RemovalReachesFace, RemovedHasNoFace
  <2> QED BY <1>8, <1>9, <1>10, <2>1, <2>4, <2>5, RunningAlone DEF RInv
<1> QED BY <1>11, <1>12, <1>13, <1>14, <1>17, <1>18, <1>19, <1>20, <1>21, <1>22, <1>24,
           <1>25 DEF HalStep, FrameStep

\* So does every step, if removals reach the face they are about.
LEMMA NextRemovals == Inv /\ RInv /\ RemovalReachesFace /\ [Next]_vars => RInv'
<1> SUFFICES ASSUME Inv, RInv, RemovalReachesFace, [Next]_vars PROVE RInv'
  OBVIOUS
<1> USE DEF storage, lockouts, objects, worker
<1>0. /\ TypeOK /\ IdsApart /\ RunningKept /\ RemovedHasNoFace
      /\ RemovedStaysRemoved
  BY DEF RInv, Inv
<1>1. ASSUME NEW s \in Sessions, ClientStep(s) \/ SessionDestroyed(s) PROVE RInv'
  <2>1. UNCHANGED <<file, template, backend, removed, reply, pc>>
    BY <1>1 DEF ClientStep, SessionDestroyed, createSession, ReleaseSession,
       generateChallenge, revokeChallenge, enroll, authenticate, removeEnrollments,
       setFeature, invalidateAuthenticatorId, resetLockout, query, Cancel, schedule
  <2>2. \A t \in Sessions : job'[t].kind = job[t].kind /\ job'[t].id = job[t].id
    <3>1. CASE UNCHANGED job
      BY <3>1
    <3>2. CASE Cancel(s) /\ job' = [job EXCEPT ![s].cancelled = TRUE]
      <4>1. job[s] \in Jobs
        BY <1>0 DEF TypeOK
      <4>2. /\ [job[s] EXCEPT !.cancelled = TRUE].kind = job[s].kind
            /\ [job[s] EXCEPT !.cancelled = TRUE].id = job[s].id
        BY <4>1 DEF Jobs
      <4>3. job' = [job EXCEPT ![s] = [job[s] EXCEPT !.cancelled = TRUE]]
        BY <1>0, <3>2 DEF TypeOK
      <4>4. ASSUME NEW t \in Sessions
            PROVE  job'[t] = IF t = s THEN [job[s] EXCEPT !.cancelled = TRUE] ELSE job[t]
        BY <1>0, <4>3 DEF TypeOK
      <4> QED BY <4>2, <4>4
    <3> QED BY <1>1, <3>1, <3>2 DEF ClientStep, SessionDestroyed, createSession,
       ReleaseSession, generateChallenge, revokeChallenge, enroll, authenticate,
       removeEnrollments, setFeature, invalidateAuthenticatorId, resetLockout, query,
       Cancel, schedule
  <2>3. RunningKept' /\ RemovedHasNoFace' /\ RemovedStaysRemoved'
    BY <1>0, <2>1, <2>2 DEF RunningKept, Running, RemovedHasNoFace, RemovedStaysRemoved
  <2> QED BY <1>0, <1>1, <2>3, ClientIds DEF RInv
<1>2. ASSUME NEW s \in Sessions, HalStep(s) \/ FrameStep(s) PROVE RInv'
  BY <1>2, WorkerRemovals
<1>3. ASSUME UNCHANGED <<file, template, backend, queue, pc, job, nextId, reply, removed>>
      PROVE  RInv'
  <2>1. ASSUME NEW t \in Sessions PROVE Places(t)' = Places(t)
    BY <1>3 DEF Places
  <2>2. ASSUME NEW t \in Sessions, NEW k
        PROVE  /\ At(t, k)' = At(t, k) /\ Enrolls(t, k)' = Enrolls(t, k)
               /\ Waits(t, k)' = Waits(t, k) /\ Names(t, k)' = Names(t, k)
    BY <1>3 DEF At, Enrolls, Waits, Names
  <2>3. IdsDrawn'
    BY <1>0, <1>3, <2>1, <2>2 DEF IdsApart, IdsDrawn
  <2>4. IdsOnce'
    BY <1>0, <1>3, <2>1, <2>2 DEF IdsApart, IdsOnce
  <2>5. WaitingUnseen'
    BY <1>0, <1>3, <2>1, <2>2 DEF IdsApart, WaitingUnseen
  <2>6. RunningKept' /\ RemovedHasNoFace' /\ RemovedStaysRemoved'
    BY <1>0, <1>3 DEF RunningKept, Running, RemovedHasNoFace, RemovedStaysRemoved
  <2> QED BY <2>3, <2>4, <2>5, <2>6 DEF RInv, IdsApart
<1>4. CASE Crash
  <2>1. /\ removed' = removed /\ nextId' = nextId /\ reply'.what = "none"
        /\ file' \in {file, NoEnrollment}
        /\ \A t \in Sessions : pc'[t] = "idle" /\ queue'[t] = <<>>
    BY <1>4 DEF Crash, ProcessStarts, NoReply
  <2>2. \A t \in Sessions : Places(t)' = {}
    BY <2>1 DEF Places
  <2>3. IdsApart'
    <3>1. file'.id <= nextId /\ \A i \in removed : i <= nextId
      BY <1>0, <2>1, ConstantsAssumption
         DEF IdsApart, IdsDrawn, NoEnrollment, TypeOK, Ids
    <3> QED BY <2>1, <2>2, <3>1 DEF IdsApart, IdsDrawn, IdsOnce, WaitingUnseen
  <2>4. RunningKept' /\ RemovedStaysRemoved'
    BY <2>1 DEF RunningKept, Running, RemovedStaysRemoved
  <2>5. RemovedHasNoFace'
    <3>1. CASE file' = NoEnrollment
      BY <3>1 DEF RemovedHasNoFace
    <3>2. CASE file' = file /\ template' = template
      BY <1>0, <2>1, <3>2 DEF RemovedHasNoFace
    <3>3. CASE \E s \in Sessions : pc[s] = "store" /\ file' = file
      BY <3>3 DEF Inv, StepsRelyOn, ReliesOn, RemovedHasNoFace
    <3> QED BY <1>4, <3>1, <3>2, <3>3 DEF Crash
  <2> QED BY <2>3, <2>4, <2>5 DEF RInv
<1>5. CASE UNCHANGED vars
  BY <1>3, <1>5 DEF vars
<1>6. CASE \E s \in Sessions :
               ClientStep(s) \/ HalStep(s) \/ FrameStep(s) \/ SessionDestroyed(s)
  <2>1. PICK s \in Sessions :
            \/ ClientStep(s) \/ SessionDestroyed(s)
            \/ HalStep(s) \/ FrameStep(s)
    BY <1>6
  <2> QED BY <1>1, <1>2, <2>1
<1>7. CASE \E u \in Users : LockoutExpires(u)
  BY <1>3, <1>7 DEF LockoutExpires
<1>8. CASE Next
  <2>1. \/ \E s \in Sessions :
                ClientStep(s) \/ HalStep(s) \/ FrameStep(s) \/ SessionDestroyed(s)
        \/ \E u \in Users : LockoutExpires(u)
        \/ Crash
    BY <1>8 DEF Next
  <2> QED BY <1>4, <1>6, <1>7, <2>1
<1> QED BY <1>5, <1>8

\* Nothing is scheduled, removed or enrolled in the beginning.
LEMMA InitRemovals == Init => RInv
<1> SUFFICES ASSUME Init PROVE RInv
  OBVIOUS
<1>1. \A t \in Sessions : Places(t) = {}
  BY DEF Init, Places
<1>2. IdsApart
  BY <1>1 DEF Init, IdsApart, IdsDrawn, IdsOnce, WaitingUnseen, NoEnrollment
<1> QED BY <1>2 DEF Init, RInv, RunningKept, Running, RemovedHasNoFace,
           RemovedStaysRemoved, NoReply

\* If removals reach the face they are about, a face reported removed is not accepted
\* again: no later success names it, through
\* restarts, failing writes, and enrollments made while it was being removed.
THEOREM RemovalIsFinal == RemovalReachesFace => (Spec => []RemovedStaysRemoved)
<1>1. RInv => RemovedStaysRemoved
  BY DEF RInv
<1> SUFFICES ASSUME RemovalReachesFace PROVE Spec => []RemovedStaysRemoved
  OBVIOUS
<1>2. Inv /\ RInv /\ [Next]_vars => RInv'
  BY NextRemovals
<1> QED BY <1>1, <1>2, InitRemovals, InvHolds, PTL DEF Spec
-----------------------------------------------------------------------------
(* The refinement.                                                         *)

\* What the refinement reads off the state.
HasFace  == file # NoEnrollment /\ template[StoreOf(file.engine)] = file.id
Accepted == IF reply.what = "onAuthenticationSucceeded" THEN reply.id ELSE 0

\* An answer that accepts nothing maps to Answer, if what is enrolled stays.
LEMMA MapsToAnswer ==
    ASSUME Accepted' = 0, file'.user = file.user, file'.id = file.id, HasFace' = HasFace
    PROVE  Abstract!Next
BY DEF Abstract!Next, Abstract!Answer, Accepted, HasFace

\* The record is kept in its fields that count, and no template appears.
LEMMA MapsToLoss ==
    ASSUME TypeOK, Accepted' = 0, file # NoEnrollment, file' # NoEnrollment,
           file'.user = file.user, file'.id = file.id, file'.engine = file.engine,
           template' \in {template, [template EXCEPT ![backend] = 0]}
    PROVE  Abstract!Next
<1>1. file \in Enrollment
  BY DEF TypeOK
<1>2. file.id # 0 /\ StoreOf(file.engine) \in AllBackends
  BY <1>1 DEF Enrollment, StoreOf, AllBackends
<1>3. HasFace' => HasFace
  <2>1. template'[StoreOf(file.engine)] \in {0, template[StoreOf(file.engine)]}
    BY <1>2 DEF TypeOK
  <2>2. StoreOf(file.engine)' = StoreOf(file.engine)
    BY DEF StoreOf
  <2> QED BY <1>2, <2>1, <2>2 DEF HasFace, StoreOf
<1>4. CASE HasFace' = HasFace
  BY <1>4, MapsToAnswer
<1>5. CASE HasFace /\ ~ HasFace'
  BY <1>5 DEF Abstract!Next, Abstract!LoseFace, HasFace, Accepted
<1> QED BY <1>3, <1>4, <1>5 DEF HasFace

\* The record is gone, or there was none.
LEMMA MapsToForget ==
    ASSUME TypeOK, Accepted' = 0, file' = NoEnrollment
    PROVE  Abstract!Next
<1>1. file'.user = NoUser /\ file'.id = 0 /\ HasFace' = FALSE
  BY DEF NoEnrollment, HasFace
<1>2. CASE file = NoEnrollment
  BY <1>2, MapsToAnswer DEF HasFace
<1>3. CASE file # NoEnrollment
  <2>1. file.user # NoUser
    BY <1>3, RecordFields DEF TypeOK
  <2> QED BY <1>1, <2>1 DEF Abstract!Next, Abstract!Forget, HasFace, Accepted
<1> QED BY <1>2, <1>3

\* No answer and nothing written.
LEMMA MapsToStutter ==
    ASSUME UNCHANGED <<file, template, reply>>
    PROVE  UNCHANGED Abstract!vars
BY DEF Abstract!vars

\* The store of the engine in use is the store in use.
LEMMA StoreInUse ==
    ASSUME TypeOK
    PROVE  StoreOf(engineName) = backend
BY ConstantsAssumption DEF TypeOK, StoreOf, engineName, AllBackends

\* The record written at the end of an enrollment maps to Enroll.
LEMMA EnrollSaveMaps ==
    ASSUME Inv, NEW s \in Sessions, EnrollSave(s)
    PROVE  Abstract!Next
<1> DEFINE e == [user |-> user[s], id |-> job[s].id, authId |-> job[s].id,
                 attention |-> TRUE, engine |-> engineName]
           r == [to |-> s, what |-> "onEnrollmentProgress", id |-> job[s].id, face |-> 0]
<1>1. TypeOK /\ pc[s] = "save" /\ file = NoEnrollment /\ template[backend] = job[s].id
      /\ job[s].kind = "enroll" /\ user[s] \in Users
  BY DEF EnrollSave, Inv, StepsRelyOn, ReliesOn, WorkerHasUser
<1>2. PICK w \in SaveFile(e) :
          /\ file' = w.file
          /\ \/ w.ok /\ UNCHANGED template /\ FinishWith(s, r)
             \/ ~ w.ok /\ Finish(s, "UNABLE_TO_PROCESS")
  BY DEF EnrollSave
<1>3. (w.ok => w.file = e) /\ (~ w.ok => w.file = NoEnrollment)
  BY <1>1 DEF SaveFile
<1>4. r.what = "onEnrollmentProgress"
  OBVIOUS
<1>5. e.user = user[s] /\ e.id = job[s].id /\ e.engine = engineName
  OBVIOUS
<1>6. job[s].id \in Ids \ {0}
  BY <1>1 DEF TypeOK, Jobs
<1>7. e # NoEnrollment
  BY <1>1, <1>5, ConstantsAssumption DEF NoEnrollment
<1> HIDE DEF e, r
<1>8. CASE w.ok /\ UNCHANGED template /\ FinishWith(s, r)
  <2>1. Accepted' = 0
    BY <1>4, <1>8 DEF FinishWith, Accepted
  <2>2. file' = e
    BY <1>2, <1>3, <1>8
  <2>3. HasFace'
    <3>1. StoreOf(file'.engine) = backend
      BY <1>1, <1>5, <2>2, StoreInUse
    <3>2. StoreOf(file.engine)' = StoreOf(file'.engine)
      BY DEF StoreOf
    <3> QED BY <1>1, <1>5, <1>7, <1>8, <2>2, <3>1, <3>2 DEF HasFace
  <2>4. file.user = NoUser /\ file.id = 0 /\ HasFace = FALSE
    BY <1>1 DEF NoEnrollment, HasFace
  <2>5. file'.user \in Users /\ file'.id \in Ids \ {0}
    BY <1>1, <1>5, <1>6, <2>2
  <2> QED BY <2>1, <2>3, <2>4, <2>5
          DEF Abstract!Next, Abstract!Enroll, Abstract!Nobody, HasFace, Accepted
<1>9. CASE ~ w.ok /\ Finish(s, "UNABLE_TO_PROCESS")
  <2>1. Accepted' = 0
    BY <1>9 DEF Finish, FinishWith, Accepted, NoReply
  <2> QED BY <1>1, <1>2, <1>3, <1>9, <2>1, MapsToForget
<1> QED BY <1>2, <1>8, <1>9

\* A success maps to Accept: the record on file and its face are what it names.
LEMMA SucceededMaps ==
    ASSUME Inv, NEW s \in Sessions, AuthenticationSucceeded(s)
    PROVE  Abstract!Next
<1> DEFINE r == [to |-> s, what |-> "onAuthenticationSucceeded",
                 id |-> enr[s].id, face |-> template[backend]]
<1>1. /\ pc[s] = "verdict" /\ found[s] = "match" /\ FinishWith(s, r)
      /\ UNCHANGED <<file, template>>
  BY DEF AuthenticationSucceeded, storage
<1>2. /\ template[backend] # 0 /\ enr[s] = file /\ file.engine = engineName
      /\ file.user = user[s] /\ user[s] \in Users /\ TypeOK /\ TemplateOwned
      /\ backend \in Backends
  BY <1>1 DEF Inv, StepsRelyOn, ReliesOn, MatchIsCurrent, CurrentMatch, WorkerHasUser, TypeOK
<1>3. file # NoEnrollment /\ file.user # NoUser
  BY <1>2, RecordFields, ConstantsAssumption DEF TypeOK
<1>4. template[backend] = file.id
  <2>1. (backend = "auth") <=> (file.engine = "auth")
    BY <1>2 DEF engineName
  <2> QED BY <1>2, <1>3, <2>1 DEF TemplateOwned
<1>5. HasFace
  BY <1>2, <1>3, <1>4, StoreInUse DEF HasFace
<1>6. r.what = "onAuthenticationSucceeded" /\ r.id = file.id
  BY <1>2
<1> HIDE DEF r
<1>7. Accepted' = file.id
  BY <1>1, <1>6 DEF FinishWith, Accepted
<1> QED BY <1>1, <1>3, <1>5, <1>7 DEF Abstract!Next, Abstract!Accept, HasFace, Accepted, StoreOf

\* A step that answers something else than a success, or only goes on.
LEMMA Unaccepted ==
    ASSUME NEW s \in Sessions
    PROVE  /\ \A p \in Holding : Continue(s, p) => Accepted' = 0
           /\ \A r : FinishWith(s, r) /\ r.what # "onAuthenticationSucceeded" => Accepted' = 0
BY DEF Continue, FinishWith, Accepted, NoReply

\* Each step of a worker maps to one of the abstract steps, or to none.
LEMMA WorkerMaps ==
    ASSUME Inv, NEW s \in Sessions, HalStep(s) \/ FrameStep(s)
    PROVE  Abstract!Next \/ UNCHANGED Abstract!vars
<1> USE DEF storage
<1>0. TypeOK /\ StepsRelyOn
  BY DEF Inv
<1>1. CASE Dequeue(s) \/ NextFrame(s) \/ AuthenticateCompared(s)
  BY <1>1, MapsToStutter, NextFrameStutters DEF Dequeue, AuthenticateCompared
<1>2. CASE EnrollSave(s)
  BY <1>2, EnrollSaveMaps
<1>3. CASE AuthenticationSucceeded(s)
  BY <1>3, SucceededMaps
<1> SUFFICES ASSUME ~ Dequeue(s), ~ NextFrame(s), ~ AuthenticateCompared(s),
                    ~ EnrollSave(s), ~ AuthenticationSucceeded(s)
             PROVE  Abstract!Next
  BY <1>1, <1>2, <1>3
<1>4. Accepted' = 0
  BY WorkerOutcome, Unaccepted DEF Outcome
<1>5. \A r \in RemoveFeature : r.template \in {template, [template EXCEPT ![backend] = 0]}
  BY <1>0, RemoveFeatureOutcome
<1>6. ASSUME template' \in {template, [template EXCEPT ![backend] = 0]}, file' = file
      PROVE  Abstract!Next
  BY <1>0, <1>4, <1>6, MapsToForget, MapsToLoss
<1>7. CASE \/ EnrollRefused(s) \/ AuthenticateRefused(s) \/ AuthenticateBegin(s)
           \/ AuthenticateStops(s) \/ AuthenticationFailed(s) \/ AuthenticationError(s)
           \/ RewriteBegin(s) \/ ResetLockout(s) \/ Query(s)
  <2>1. UNCHANGED <<file, template>>
    BY <1>7 DEF EnrollRefused, AuthenticateRefused, AuthenticateBegin, AuthenticateStops,
       AuthenticationFailed, AuthenticationError, RewriteBegin, ResetLockout, Query
  <2> QED BY <1>6, <2>1
<1>8. CASE EnrollBegin(s) \/ RemoveBegin(s)
  <2>1. file' = file /\ template' \in {template, [template EXCEPT ![backend] = 0]}
    BY <1>5, <1>8 DEF EnrollBegin, RemoveBegin
  <2> QED BY <1>6, <2>1
<1>9. CASE EnrollCaptured(s) \/ EnrollStore(s) \/ EnrollGivesUp(s)
  <2>1. file' = NoEnrollment
    BY <1>0, <1>9 DEF EnrollCaptured, EnrollStore, EnrollGivesUp, StepsRelyOn, ReliesOn
  <2> QED BY <1>0, <1>4, <2>1, MapsToForget
<1>10. CASE RemoveUnlink(s)
  <2>1. file' \in {file, NoEnrollment} /\ template' = template
    BY <1>10 DEF RemoveUnlink, UnlinkFile
  <2> QED BY <1>0, <1>4, <1>6, <2>1, MapsToForget
<1>11. CASE RewriteSave(s)
  <2>1. PICK w \in SaveFile(enr[s]) : file' = w.file
    BY <1>11 DEF RewriteSave
  <2>2. file' \in {enr[s], file, NoEnrollment} /\ template' = template
    BY <1>11, <2>1 DEF SaveFile, RewriteSave
  <2>3. /\ file # NoEnrollment /\ enr[s].user = file.user
        /\ enr[s].id = file.id /\ enr[s].engine = file.engine
    BY <1>0, <1>11 DEF RewriteSave, StepsRelyOn, ReliesOn
  <2> QED BY <1>0, <1>4, <1>6, <2>2, <2>3, MapsToForget, MapsToLoss
<1> QED BY <1>7, <1>8, <1>9, <1>10, <1>11 DEF HalStep, FrameStep

\* And so does every step of the HAL.
LEMMA NextMaps == Inv /\ [Next]_vars => [Abstract!Next]_Abstract!vars
<1> SUFFICES ASSUME Inv, [Next]_vars PROVE Abstract!Next \/ UNCHANGED Abstract!vars
  OBVIOUS
<1> USE DEF storage, lockouts, objects, worker
<1>1. ASSUME NEW s \in Sessions, ClientStep(s) \/ SessionDestroyed(s)
      PROVE  UNCHANGED Abstract!vars
  <2>1. UNCHANGED <<file, template, reply>>
    BY <1>1 DEF ClientStep, SessionDestroyed, createSession, ReleaseSession,
       generateChallenge, revokeChallenge, enroll, authenticate, removeEnrollments,
       setFeature, invalidateAuthenticatorId, resetLockout, query, Cancel, schedule
  <2> QED BY <2>1, MapsToStutter
<1>2. ASSUME NEW s \in Sessions, HalStep(s) \/ FrameStep(s)
      PROVE  Abstract!Next \/ UNCHANGED Abstract!vars
  BY <1>2, WorkerMaps
<1>3. ASSUME NEW u \in Users, LockoutExpires(u) PROVE UNCHANGED Abstract!vars
  BY <1>3, MapsToStutter DEF LockoutExpires
<1>4. CASE Crash
  <2>1. Accepted' = 0
    BY <1>4 DEF Crash, ProcessStarts, Accepted, NoReply
  <2>2. CASE file' = NoEnrollment
    BY <2>1, <2>2, MapsToForget DEF Inv
  <2>3. CASE UNCHANGED storage
    BY <2>1, <2>3, MapsToAnswer DEF HasFace, StoreOf
  <2>4. file' = NoEnrollment \/ UNCHANGED storage
    BY <1>4 DEF Crash, Inv, StepsRelyOn, ReliesOn
  <2> QED BY <2>2, <2>3, <2>4
<1>5. CASE UNCHANGED vars
  BY <1>5, MapsToStutter DEF vars
<1> QED BY <1>1, <1>2, <1>3, <1>4, <1>5 DEF Next

\* The sessions, their workers, two files and two engines, with crashes and failing
\* writes, behave as one enrollment with one face, which alone is ever accepted.
THEOREM Implements == Spec => ImplementsEnrollment
<1>1. Init => Abstract!Init
  BY DEF Init, Abstract!Init, Abstract!Nobody, NoEnrollment, NoReply
<1> QED BY <1>1, NextMaps, InvHolds, PTL DEF Spec, ImplementsEnrollment, Abstract!Spec
-----------------------------------------------------------------------------
(* Answers.                                                                *)

\* An operation of s is over when it was answered, and no step answers s otherwise.
Answers(s) ==
    /\ pc[s] # "idle" /\ pc'[s] = "idle" => reply'.to = s
    /\ reply'.to = s /\ reply' # reply => life[s] # "none" /\ pc[s] # "idle" /\ pc'[s] = "idle"
    /\ lock = s /\ lock' # s => reply'.to = s

\* With the process all operations and sessions are gone.
AllGone == \A s \in Sessions : life'[s] = "none" /\ pc'[s] = "idle"

\* Every operation that began ends with one callback, to its own session, which still
\* exists, and the lock is not released without; but for a crash.
AnsweredOnce == [][(\A s \in Sessions : Answers(s)) \/ AllGone]_vars

\* A worker answers for itself, and when it is through.
LEMMA WorkerAnswers ==
    ASSUME Inv, NEW s \in Sessions, HalStep(s) \/ FrameStep(s), NEW t \in Sessions
    PROVE  Answers(t)
<1>0. /\ TypeOK /\ Exclusion /\ WorkerHasUser /\ NoSession \notin Sessions
      /\ pc \in [Sessions -> Steps] /\ "lock" \notin Holding /\ "idle" \notin Holding
  BY ConstantsAssumption DEF Inv, TypeOK, Holding
<1>1. CASE Dequeue(s)
  <2>1. /\ pc' = [pc EXCEPT ![s] = "lock"] /\ pc[s] = "idle" /\ UNCHANGED <<reply, lock>>
    BY <1>1 DEF Dequeue
  <2> QED BY <1>0, <2>1 DEF Answers
<1>2. CASE ~ Dequeue(s)
  <2>1. /\ pc[s] # "idle" /\ (lock = NoSession \/ pc[s] \in Holding)
        /\ \A u \in Sessions : u # s => pc'[u] = pc[u]
    BY <1>2, WorkerLeaves
  <2>2. lock = t => t = s
    BY <1>0, <2>1 DEF Exclusion
  <2>3. life[s] # "none"
    BY <1>0, <2>1 DEF WorkerHasUser
  <2>4. ASSUME NEW r, FinishWith(s, r), r.to = s PROVE Answers(t)
    <3>1. pc'[s] = "idle" /\ reply'.to = s
      BY <1>0, <2>4 DEF FinishWith
    <3> QED BY <2>1, <2>2, <2>3, <3>1 DEF Answers
  <2>5. ASSUME NEW p \in Holding, Continue(s, p) PROVE Answers(t)
    <3>1. pc'[s] # "idle" /\ reply'.to = NoSession /\ lock' = s
      BY <1>0, <2>5 DEF Continue, NoReply
    <3> QED BY <1>0, <2>1, <2>2, <3>1 DEF Answers
  <2>6. CASE NextFrame(s) \/ AuthenticateCompared(s)
    BY <1>0, <2>1, <2>6, NextFrameStutters DEF AuthenticateCompared, Answers
  <2>7. CASE AuthenticationSucceeded(s)
    <3> DEFINE r == [to |-> s, what |-> "onAuthenticationSucceeded",
                     id |-> enr[s].id, face |-> template[backend]]
    <3>1. FinishWith(s, r) /\ r.to = s
      BY <2>7 DEF AuthenticationSucceeded
    <3> QED BY <2>4, <3>1
  <2> QED BY <1>2, <2>4, <2>5, <2>6, <2>7, WorkerOutcome DEF Outcome
<1> QED BY <1>1, <1>2

\* Nobody else answers, nor ends an operation, nor releases the lock.
LEMMA NextAnswers ==
    Inv /\ [Next]_vars => (\A s \in Sessions : Answers(s)) \/ AllGone
<1> SUFFICES ASSUME Inv, [Next]_vars PROVE (\A s \in Sessions : Answers(s)) \/ AllGone
  OBVIOUS
<1>1. ASSUME UNCHANGED <<pc, reply, lock>> PROVE \A s \in Sessions : Answers(s)
  BY <1>1 DEF Answers
<1>2. ASSUME NEW s \in Sessions, ClientStep(s) \/ SessionDestroyed(s)
      PROVE  UNCHANGED <<pc, reply, lock>>
  BY <1>2 DEF ClientStep, SessionDestroyed, createSession, ReleaseSession,
     generateChallenge, revokeChallenge, enroll, authenticate, removeEnrollments,
     setFeature, invalidateAuthenticatorId, resetLockout, query, Cancel, schedule, worker
<1>3. ASSUME NEW s \in Sessions, HalStep(s) \/ FrameStep(s)
      PROVE  \A t \in Sessions : Answers(t)
  BY <1>3, WorkerAnswers
<1>4. ASSUME NEW u \in Users, LockoutExpires(u) PROVE UNCHANGED <<pc, reply, lock>>
  BY <1>4 DEF LockoutExpires, worker
<1>5. CASE Crash
  BY <1>5 DEF Crash, ProcessStarts, AllGone
<1>6. CASE UNCHANGED vars
  BY <1>1, <1>6 DEF vars
<1> QED BY <1>1, <1>2, <1>3, <1>4, <1>5, <1>6 DEF Next

\* No operation is left without its answer, answered twice or answered for another
\* session, on any of its paths and whatever calls come meanwhile.
THEOREM OperationsAreAnswered == Spec => AnsweredOnce
<1>1. Inv /\ [Next]_vars => [(\A s \in Sessions : Answers(s)) \/ AllGone]_vars
  BY NextAnswers
<1> QED BY <1>1, InvHolds, PTL DEF Spec, AnsweredOnce
=============================================================================
