------------------------------- MODULE FaceHal -------------------------------
(***************************************************************************)
(* The face authentication HAL (aidl/face): ISession objects that share    *)
(* one Hardware, the enrollment record on disk, the template slot of each  *)
(* engine and the lockout table.                                           *)
(*                                                                         *)
(* A session's binder methods (generateChallenge, revokeChallenge and the  *)
(* calls that queue an operation) run on the binder thread; its operations *)
(* run on its own worker thread, one at a time, holding Hardware.lock from *)
(* beginning to end.  Between the first step of an operation, which takes  *)
(* the lock, and its last one, which releases it, only binder methods,     *)
(* cancellation, the passage of time and a crash of the process can occur, *)
(* so an operation is cut into steps only where one of these can tell.     *)
(***************************************************************************)
EXTENDS Naturals, Sequences, FiniteSets

CONSTANTS Sessions,            \* session objects (their addresses)
          NoSession,           \* "nobody": the free lock, the unaddressed reply
          Users,               \* user ids
          NoUser,              \* userId -1
          Challenges,          \* values generateChallenge draws
          NoChallenge,         \* the challenge of a call that carries none
          Backends,            \* what a start of the process can find usable
          Faults,              \* the failures of the outside world considered
          Calls,               \* bound: what callers do in this instance
          QueueMax,            \* mWorker(16)
          TimedFailures,       \* kLockoutTimedFailures
          PermanentFailures,   \* kLockoutPermanentFailures
          MaxIds,              \* bound: ids drawn over a behaviour
          MaxPending           \* bound: operations called and not answered yet

AllBackends == {"tee", "data", "auth"}

AllFaults == {"prepare",   \* an engine, the TEE app or the camera does not start
              "begin",     \* st_auth refuses its configuration
              "erase",     \* a template cannot be erased
              "store",     \* a template cannot be written
              "write",     \* the enrollment file cannot be written
              "unlink",    \* the enrollment file cannot be removed
              "engine",    \* st_auth reports an error for a frame
              "crash"}     \* the process dies and is started again

AllCalls == {"release", "challenge", "revoke", "enroll", "authenticate",
             "removeEnrollments", "setFeature", "invalidateAuthenticatorId",
             "resetLockout", "query", "cancel"}

\* The template is kept in the TEE or in /data according to a property that is
\* set when the device is built, so one device meets at most one of the two.
ASSUME ConstantsAssumption ==
    /\ NoSession \notin Sessions
    /\ NoUser \notin Users
    /\ NoChallenge \notin Challenges
    /\ Backends \subseteq AllBackends
    /\ Backends # {}
    /\ ~ ({"tee", "data"} \subseteq Backends)
    /\ Faults \subseteq AllFaults
    /\ Calls \subseteq AllCalls
    /\ QueueMax \in Nat \ {0}
    /\ TimedFailures \in Nat \ {0}
    /\ PermanentFailures \in Nat \ {0}
    /\ MaxIds \in Nat
    /\ MaxPending \in Nat

VARIABLES
    file,       \* the enrollment file, as Enrollment::load reads it
    template,   \* per template store: the enrollment its face came from, or 0
    backend,    \* the engine and store this process uses
    failures,   \* sLockouts[user].failures
    locked,     \* sLockouts[user].lockedUntil is in the future
    life,       \* per session: whether the object exists
    user,       \* mUserId
    challenges, \* mChallenges
    queue,      \* the queue of mWorker
    pc,         \* where the worker thread stands
    job,        \* the operation it took from the queue
    enr,        \* the operation's local Enrollment
    found,      \* what the frames of a running authenticate showed
    lock,       \* Hardware.lock: the session whose worker holds it
    camera,     \* Hardware.camera: "off", "on" (in a frame loop, which has a
                \* frame ready or looks at one) or "awaited" (nextFrame waits)
    nextId,     \* randomId(): ids are numbered in the order they are drawn
    reply,      \* the last operation's final callback
    removed,    \* history: ids reported removed that were the owner's or unknown
    tries       \* history: failures since the user last waited out a lockout

storage  == <<file, template>>
lockouts == <<failures, locked, tries>>
objects  == <<life, user>>
worker   == <<pc, job, enr, found>>
vars == <<file, template, backend, failures, locked, life, user, challenges,
          queue, pc, job, enr, found, lock, camera, nextId, reply, removed,
          tries>>
-----------------------------------------------------------------------------
(* The data.                                                               *)

Ids == 0 .. MaxIds          \* 0: no id

NoEnrollment == [user |-> NoUser, id |-> 0, authId |-> 0,
                 attention |-> TRUE, engine |-> "none"]

Enrollment == [user : Users, id : Ids \ {0}, authId : Ids,
               attention : BOOLEAN, engine : {"cv", "auth"}]

Kinds == {"enroll", "authenticate", "removeEnrollments", "setFeature",
          "invalidateAuthenticatorId", "resetLockout", "query"}

\* An operation of the queue: its arguments, the ids it will draw and whether
\* its CancellationSignal was cancelled or let go of.
Jobs == {j \in [kind : Kinds, challenge : Challenges \cup {NoChallenge},
                id : Ids, on : BOOLEAN, cancelled : BOOLEAN] :
            j.kind = "enroll" => j.id # 0}

NoJob == [kind |-> "query", challenge |-> NoChallenge, id |-> 0,
          on |-> FALSE, cancelled |-> FALSE]

Steps == {"idle",      \* waiting for the queue
          "lock",      \* waiting for Hardware.lock
          "capture",   \* in the frame loop of an enrollment
          "store",     \* about to write the new template
          "save",      \* about to write the new enrollment
          "match",     \* in the frame loop of an authentication
          "verdict",   \* past the loop, the camera stopped
          "unlink",    \* template erased, the enrollment file still there
          "rewrite"}   \* about to write the changed enrollment

Replies == {"none", "onEnrollmentProgress", "onAuthenticationSucceeded",
            "onAuthenticationFailed", "onLockout", "onEnrollmentsRemoved",
            "onFeatureSet", "onAuthenticatorIdInvalidated", "onLockoutCleared",
            "answer", "UNABLE_TO_PROCESS", "NO_SPACE", "HW_UNAVAILABLE",
            "CANCELED", "TIMEOUT", "UNABLE_TO_REMOVE", "REENROLL_REQUIRED"}

Reply == [to : Sessions \cup {NoSession}, what : Replies,
          id : Ids, face : Ids]

NoReply == [to |-> NoSession, what |-> "none", id |-> 0, face |-> 0]

\* Session::engineName: the engine of both template stores of the faceapp is cv.
engineName == IF backend = "auth" THEN "auth" ELSE "cv"
-----------------------------------------------------------------------------
(* The world outside: each call's possible outcomes.                       *)

\* (mutant) The command's result is taken for success whatever it is.
RemoveFeatureUnchecked ==
    LET erased == [template EXCEPT ![backend] = 0]
    IN  {r \in [ok : {TRUE}, template : {template, erased}] :
            r.template = erased \/ "erase" \in Faults}

\* Session::removeFeature for the store in use.  The trusted app answers an
\* empty slot with a non-zero result; unlink treats it as done, and so does
\* st_auth.  st_auth drops the face id first, so a failure can still leave the
\* template unusable.
RemoveFeature ==
    LET erased == [template EXCEPT ![backend] = 0]
        empty  == backend = "tee" /\ template["tee"] = 0
    IN  {r \in [ok : BOOLEAN, template : {template, erased}] :
            \/ r.ok /\ r.template = erased /\ ~ empty
            \/ ~ r.ok /\ r.template = template /\ (empty \/ "erase" \in Faults)
            \/ /\ ~ r.ok
               /\ r.template = erased
               /\ backend = "auth"
               /\ "erase" \in Faults}

\* Enrollment::save of a record with an owner: WriteStringToFile truncates the
\* file before it writes, and removes it when the write fails.
SaveFile(e) ==
    {w \in [ok : BOOLEAN, file : {e, file, NoEnrollment}] :
        \/ w.ok /\ w.file = e
        \/ ~ w.ok /\ w.file \in {file, NoEnrollment} /\ "write" \in Faults}

\* Enrollment().save(): unlink.
UnlinkFile == {NoEnrollment} \cup (IF "unlink" \in Faults THEN {file} ELSE {})
-----------------------------------------------------------------------------
(* Binder methods.                                                         *)

\* Face::createSession: another session over the same Hardware; earlier ones
\* stay as they are.
createSession(s, u) ==
    /\ life[s] = "none"
    /\ life' = [life EXCEPT ![s] = "alive"]
    /\ user' = [user EXCEPT ![s] = u]
    /\ UNCHANGED <<storage, backend, lockouts, challenges, queue, worker, lock,
                   camera, nextId, reply, removed>>

\* Callers hold no reference any more: the destructor takes the members down,
\* mChallenges before mWorker.
ReleaseSession(s) ==
    /\ life[s] = "alive"
    /\ life' = [life EXCEPT ![s] = "dying"]
    /\ challenges' = [challenges EXCEPT ![s] = {}]
    /\ UNCHANGED <<storage, backend, lockouts, user, queue, worker, lock,
                   camera, nextId, reply, removed>>

\* ~WorkerThread joined the thread; what is still in its queue is dropped.
SessionDestroyed(s) ==
    /\ life[s] = "dying"
    /\ pc[s] = "idle"
    /\ life' = [life EXCEPT ![s] = "none"]
    /\ user' = [user EXCEPT ![s] = NoUser]
    /\ queue' = [queue EXCEPT ![s] = <<>>]
    /\ UNCHANGED <<storage, backend, lockouts, challenges, worker, lock,
                   camera, nextId, reply, removed>>

generateChallenge(s) ==
    /\ life[s] = "alive"
    /\ \E c \in Challenges :
          /\ \A t \in Sessions : c \notin challenges[t]
          /\ challenges' = [challenges EXCEPT ![s] = @ \cup {c}]
    /\ UNCHANGED <<storage, backend, lockouts, objects, queue, worker, lock,
                   camera, nextId, reply, removed>>

revokeChallenge(s) ==
    /\ life[s] = "alive"
    /\ \E c \in challenges[s] :
          challenges' = [challenges EXCEPT ![s] = @ \ {c}]
    /\ UNCHANGED <<storage, backend, lockouts, objects, queue, worker, lock,
                   camera, nextId, reply, removed>>

\* The operations a worker runs (place 0) or has in its queue.
Pending == {p \in Sessions \X (0 .. QueueMax) :
               IF p[2] = 0 THEN pc[p[1]] # "idle" ELSE p[2] <= Len(queue[p[1]])}

\* Session::schedule: a full queue refuses the operation, and nobody looks.
schedule(s, j) ==
    /\ life[s] = "alive"
    /\ Cardinality(Pending) < MaxPending
    /\ queue' = IF Len(queue[s]) < QueueMax
                   THEN [queue EXCEPT ![s] = Append(@, j)] ELSE queue
    /\ UNCHANGED <<storage, backend, lockouts, objects, challenges, worker,
                   lock, camera, reply, removed>>

\* (mutant) The ids are counted from 0.
enrollIdZero(s) ==
    /\ nextId < MaxIds
    /\ nextId' = nextId + 1
    /\ \E c \in Challenges :
          schedule(s, [NoJob EXCEPT !.kind = "enroll", !.challenge = c,
                                    !.id = nextId])

\* enroll, enrollWithContext, enrollWithOptions; the draw of the enrollment's
\* ids is brought forward to the call, where no one can tell it from later.  The
\* 31 bits drawn are taken never to be 0 and never to repeat.
enroll(s) ==
    /\ nextId < MaxIds
    /\ nextId' = nextId + 1
    /\ \E c \in Challenges :
          schedule(s, [NoJob EXCEPT !.kind = "enroll", !.challenge = c,
                                    !.id = nextId + 1])

authenticate(s) ==
    /\ UNCHANGED nextId
    /\ schedule(s, [NoJob EXCEPT !.kind = "authenticate"])

\* A client learns an enrollment id from the enrollment in progress, or by
\* enumerating.
KnownIds == ({file.id} \cup {job[t].id : t \in {t \in Sessions : pc[t] = "capture"}})
                \ {0}

removeEnrollments(s) ==
    /\ UNCHANGED nextId
    /\ \E i \in KnownIds :
          schedule(s, [NoJob EXCEPT !.kind = "removeEnrollments", !.id = i])

setFeature(s) ==
    /\ UNCHANGED nextId
    /\ \E on \in BOOLEAN :
          schedule(s, [NoJob EXCEPT !.kind = "setFeature", !.on = on])

invalidateAuthenticatorId(s) ==
    /\ nextId < MaxIds
    /\ nextId' = nextId + 1
    /\ schedule(s, [NoJob EXCEPT !.kind = "invalidateAuthenticatorId",
                                 !.id = nextId + 1])

resetLockout(s) ==
    /\ UNCHANGED nextId
    /\ schedule(s, [NoJob EXCEPT !.kind = "resetLockout"])

\* enumerateEnrollments, getFeatures, getAuthenticatorId, detectInteraction and
\* setFeature of another feature: they answer and change nothing.
query(s) ==
    /\ UNCHANGED nextId
    /\ schedule(s, NoJob)

\* ICancellationSignal::cancel, or the last reference to the signal dropped: the
\* promise is fulfilled or broken, and shouldCancel sees it ready either way.
Cancel(s) ==
    /\ \/ /\ pc[s] # "idle"
          /\ ~ job[s].cancelled
          /\ job[s].kind \in {"enroll", "authenticate"}
          /\ job' = [job EXCEPT ![s].cancelled = TRUE]
          /\ UNCHANGED queue
       \/ \E k \in 1 .. Len(queue[s]) :
             /\ ~ queue[s][k].cancelled
             /\ queue[s][k].kind \in {"enroll", "authenticate"}
             /\ queue' = [queue EXCEPT ![s][k].cancelled = TRUE]
             /\ UNCHANGED job
    /\ UNCHANGED <<storage, backend, lockouts, objects, challenges, pc, enr,
                   found, lock, camera, nextId, reply, removed>>
-----------------------------------------------------------------------------
(* The worker thread.                                                      *)

Dequeue(s) ==
    /\ life[s] # "none"
    /\ pc[s] = "idle"
    /\ queue[s] # <<>>
    /\ pc' = [pc EXCEPT ![s] = "lock"]
    /\ job' = [job EXCEPT ![s] = Head(queue[s])]
    /\ queue' = [queue EXCEPT ![s] = Tail(@)]
    /\ UNCHANGED <<storage, backend, lockouts, objects, challenges, enr, found,
                   lock, camera, nextId, reply, removed>>

\* (mutant) The operation's lock_guard is missing.
BeginsUnlocked(s, kind) ==
    /\ pc[s] = "lock"
    /\ job[s].kind = kind

\* The worker finds Hardware.lock free and begins an operation of this kind.
Begins(s, kind) ==
    /\ pc[s] = "lock"
    /\ lock = NoSession
    /\ job[s].kind = kind

\* What the operation still does: go on to step p with the lock ...
Continue(s, p) ==
    /\ pc' = [pc EXCEPT ![s] = p]
    /\ lock' = s
    /\ reply' = NoReply
    /\ UNCHANGED job

\* (mutant) A path that returns early leaves the lock behind.
FinishKeepingLock(s, r) ==
    /\ pc' = [pc EXCEPT ![s] = "idle"]
    /\ job' = [job EXCEPT ![s] = NoJob]
    /\ enr' = [enr EXCEPT ![s] = NoEnrollment]
    /\ found' = [found EXCEPT ![s] = "nothing"]
    /\ lock' = IF r.what = "CANCELED" THEN s ELSE NoSession
    /\ reply' = r

\* ... or make its final callback and let go of the lock.
FinishWith(s, r) ==
    /\ pc' = [pc EXCEPT ![s] = "idle"]
    /\ job' = [job EXCEPT ![s] = NoJob]
    /\ enr' = [enr EXCEPT ![s] = NoEnrollment]
    /\ found' = [found EXCEPT ![s] = "nothing"]
    /\ lock' = NoSession
    /\ reply' = r

Finish(s, what) == FinishWith(s, [NoReply EXCEPT !.to = s, !.what = what])

\* What a step of a worker never touches.
WorkerFrame == UNCHANGED <<backend, objects, challenges, queue, nextId>>

\* Whether the challenge is in mChallenges.  While the session is being
\* destroyed the set is read after its destruction.
ChallengeKnown(s) ==
    IF life[s] = "alive" THEN {job[s].challenge \in challenges[s]} ELSE BOOLEAN
-----------------------------------------------------------------------------
(* The frame loops.                                                        *)

Looping(s) == pc[s] \in {"capture", "match"}

\* nextFrame waits when no frame is ready, and returns the one it waited for
\* unless by then the operation is cancelled (or late, WaitRunsOut).  It asks for
\* neither when a frame is ready.
NextFrame(s) ==
    /\ Looping(s)
    /\ \/ camera = "on" /\ camera' = "awaited"
       \/ camera = "awaited" /\ ~ job[s].cancelled /\ camera' = "on"
    /\ WorkerFrame
    /\ UNCHANGED <<storage, lockouts, worker, lock, reply, removed>>
-----------------------------------------------------------------------------
(* enroll: doEnroll, doEnrollAuth.                                         *)

EnrollRefused(s) ==
    /\ Begins(s, "enroll")
    /\ \/ FALSE \in ChallengeKnown(s) /\ Finish(s, "UNABLE_TO_PROCESS")
       \/ /\ TRUE \in ChallengeKnown(s)
          /\ file # NoEnrollment
          /\ Finish(s, "NO_SPACE")
       \/ /\ TRUE \in ChallengeKnown(s)
          /\ file = NoEnrollment
          /\ "prepare" \in Faults
          /\ Finish(s, "HW_UNAVAILABLE")
    /\ WorkerFrame
    /\ UNCHANGED <<storage, lockouts, camera, removed>>

\* (mutant) The file is not looked at: whoever asks may enroll.
EnrollBeginOverOther(s) ==
    /\ Begins(s, "enroll")
    /\ TRUE \in ChallengeKnown(s)
    /\ backend # "auth"
    /\ camera' = "on"
    /\ Continue(s, "capture")
    /\ WorkerFrame
    /\ UNCHANGED <<storage, lockouts, enr, found, removed>>

\* AuthEngine::beginEnroll erases what was enrolled; its failures to erase are
\* not looked at, those to configure st_auth end the operation.
EnrollBegin(s) ==
    /\ Begins(s, "enroll")
    /\ TRUE \in ChallengeKnown(s)
    /\ file = NoEnrollment
    /\ \/ /\ backend # "auth"
          /\ UNCHANGED template
       \/ /\ backend = "auth"
          /\ \E r \in RemoveFeature : template' = r.template
    /\ \/ /\ Continue(s, "capture")
          /\ camera' = "on"
          /\ UNCHANGED <<enr, found>>
       \/ /\ backend = "auth"
          /\ "begin" \in Faults
          /\ Finish(s, "UNABLE_TO_PROCESS")
          /\ UNCHANGED camera
    /\ WorkerFrame
    /\ UNCHANGED <<file, lockouts, removed>>

\* The loop ends with a face.  st_auth has stored its template by then; for the
\* faceapp storeFeature erases the old template first, whatever comes of that.
EnrollCaptured(s) ==
    /\ pc[s] = "capture"
    /\ camera = "on"
    /\ camera' = "off"
    /\ \/ /\ backend = "auth"
          /\ template' = [template EXCEPT !["auth"] = job[s].id]
          /\ Continue(s, "save")
       \/ /\ backend # "auth"
          /\ \E r \in RemoveFeature : template' = r.template
          /\ Continue(s, "store")
    /\ WorkerFrame
    /\ UNCHANGED <<file, lockouts, enr, found, removed>>

\* The loop ends without one: nextFrame waited past the deadline or a cancellation,
\* the camera failed, or st_auth reports an error for a frame.
EnrollGivesUp(s) ==
    /\ pc[s] = "capture"
    /\ camera' = "off"
    /\ \/ backend # "auth" /\ UNCHANGED template
       \/ /\ backend = "auth"
          /\ \E r \in RemoveFeature : template' = r.template
    /\ \/ Finish(s, IF job[s].cancelled THEN "CANCELED" ELSE "TIMEOUT")
       \/ /\ backend = "auth"
          /\ camera = "on"
          /\ "engine" \in Faults
          /\ \E e \in {"UNABLE_TO_PROCESS", "NO_SPACE"} : Finish(s, e)
    /\ WorkerFrame
    /\ UNCHANGED <<file, lockouts, removed>>

\* The second half of storeFeature.  A failed write to /data leaves nothing.
EnrollStore(s) ==
    /\ pc[s] = "store"
    /\ \/ /\ template' = [template EXCEPT ![backend] = job[s].id]
          /\ Continue(s, "save")
          /\ UNCHANGED <<enr, found>>
       \/ /\ "store" \in Faults
          /\ \/ UNCHANGED template
             \/ /\ backend = "data"
                /\ template' = [template EXCEPT !["data"] = 0]
          /\ Finish(s, "UNABLE_TO_PROCESS")
    /\ WorkerFrame
    /\ UNCHANGED <<file, lockouts, camera, removed>>

EnrollSave(s) ==
    /\ pc[s] = "save"
    /\ \E w \in SaveFile([user |-> user[s], id |-> job[s].id, authId |-> job[s].id,
                          attention |-> TRUE, engine |-> engineName]) :
          /\ file' = w.file
          /\ \/ /\ w.ok
                /\ UNCHANGED template
                /\ FinishWith(s, [to |-> s, what |-> "onEnrollmentProgress",
                                  id |-> job[s].id, face |-> 0])
             \/ /\ ~ w.ok
                /\ \E r \in RemoveFeature : template' = r.template
                /\ Finish(s, "UNABLE_TO_PROCESS")
    /\ WorkerFrame
    /\ UNCHANGED <<lockouts, camera, removed>>
-----------------------------------------------------------------------------
(* authenticate: doAuthenticate, doAuthenticateAuth.                       *)

\* (mutant) lockedUntil is not compared with the clock.
LockedOutPermanently(u) == failures[u] >= PermanentFailures

\* checkLockoutLocked.
LockedOut(u) == failures[u] >= PermanentFailures \/ locked[u]

AuthenticateRefused(s) ==
    /\ Begins(s, "authenticate")
    /\ \/ /\ file.user # user[s]
          /\ Finish(s, "UNABLE_TO_PROCESS")
       \/ /\ file.user = user[s]
          /\ LockedOut(user[s])
          /\ Finish(s, "onLockout")
       \/ /\ file.user = user[s]
          /\ ~ LockedOut(user[s])
          /\ \/ "prepare" \in Faults /\ Finish(s, "HW_UNAVAILABLE")
             \/ file.engine # engineName /\ Finish(s, "REENROLL_REQUIRED")
             \/ /\ file.engine = engineName
                /\ backend = "auth"
                /\ \/ template["auth"] = 0 /\ Finish(s, "REENROLL_REQUIRED")
                   \/ /\ template["auth"] # 0
                      /\ "begin" \in Faults
                      /\ Finish(s, "UNABLE_TO_PROCESS")
    /\ WorkerFrame
    /\ UNCHANGED <<storage, lockouts, camera, removed>>

\* (mutant) The engine named in the record is not compared with the one in use.
AuthenticateBeginAnyEngine(s) ==
    /\ Begins(s, "authenticate")
    /\ file.user = user[s]
    /\ ~ LockedOut(user[s])
    /\ backend = "auth" => template["auth"] # 0
    /\ enr' = [enr EXCEPT ![s] = file]
    /\ camera' = "on"
    /\ Continue(s, "match")
    /\ WorkerFrame
    /\ UNCHANGED <<storage, lockouts, found, removed>>

AuthenticateBegin(s) ==
    /\ Begins(s, "authenticate")
    /\ file.user = user[s]
    /\ ~ LockedOut(user[s])
    /\ file.engine = engineName
    /\ backend = "auth" => template["auth"] # 0
    /\ enr' = [enr EXCEPT ![s] = file]
    /\ camera' = "on"
    /\ Continue(s, "match")
    /\ WorkerFrame
    /\ UNCHANGED <<storage, lockouts, found, removed>>

\* A frame's face was compared with the stored template and is another one, or
\* is not alive.  Against an empty slot nothing can be compared.
AuthenticateCompared(s) ==
    /\ pc[s] = "match"
    /\ camera = "on"
    /\ found[s] = "nothing"
    /\ template[backend] # 0
    /\ found' = [found EXCEPT ![s] = "another"]
    /\ WorkerFrame
    /\ UNCHANGED <<storage, lockouts, pc, job, enr, lock, camera, reply, removed>>

\* The loop ends: with a frame that matches or that st_auth reports an error for,
\* or because nextFrame has no further frame.
AuthenticateStops(s) ==
    /\ pc[s] = "match"
    /\ \/ /\ camera = "on"
          /\ template[backend] # 0
          /\ found' = [found EXCEPT ![s] = "match"]
       \/ /\ backend = "auth"
          /\ camera = "on"
          /\ "engine" \in Faults
          /\ found' = [found EXCEPT ![s] = "error"]
       \/ UNCHANGED found
    /\ camera' = "off"
    /\ Continue(s, "verdict")
    /\ WorkerFrame
    /\ UNCHANGED <<storage, lockouts, enr, removed>>

AuthenticationSucceeded(s) ==
    /\ pc[s] = "verdict"
    /\ found[s] = "match"
    /\ failures' = [failures EXCEPT ![user[s]] = 0]
    /\ locked' = [locked EXCEPT ![user[s]] = FALSE]
    /\ tries' = [tries EXCEPT ![user[s]] = 0]
    /\ FinishWith(s, [to |-> s, what |-> "onAuthenticationSucceeded",
                      id |-> enr[s].id, face |-> template[backend]])
    /\ WorkerFrame
    /\ UNCHANGED <<storage, camera, removed>>

\* onAuthenticationFailedLocked.
AuthenticationFailed(s) ==
    LET u == user[s]
        n == failures[u] + 1
    IN  /\ pc[s] = "verdict"
        /\ found[s] = "another"
        /\ ~ job[s].cancelled
        /\ failures' = [failures EXCEPT ![u] = n]
        /\ locked' = [locked EXCEPT ![u] =
                          @ \/ (n < PermanentFailures /\ n % TimedFailures = 0)]
        /\ tries' = [tries EXCEPT ![u] = @ + 1]
        /\ Finish(s, "onAuthenticationFailed")
        /\ WorkerFrame
        /\ UNCHANGED <<storage, camera, removed>>

AuthenticationError(s) ==
    /\ pc[s] = "verdict"
    /\ \/ /\ found[s] = "error"
          /\ \E e \in {"HW_UNAVAILABLE", "REENROLL_REQUIRED"} : Finish(s, e)
       \/ /\ found[s] \in {"nothing", "another"}
          /\ job[s].cancelled
          /\ Finish(s, "CANCELED")
       \/ /\ found[s] = "nothing"
          /\ ~ job[s].cancelled
          /\ Finish(s, "TIMEOUT")
    /\ WorkerFrame
    /\ UNCHANGED <<storage, lockouts, camera, removed>>

\* Thirty seconds pass since lockedUntil was set.
LockoutExpires(u) ==
    /\ locked[u]
    /\ locked' = [locked EXCEPT ![u] = FALSE]
    /\ tries' = [tries EXCEPT ![u] = 0]
    /\ UNCHANGED <<storage, backend, failures, objects, challenges, queue,
                   worker, lock, camera, nextId, reply, removed>>
-----------------------------------------------------------------------------
(* The other operations.                                                   *)

Report(s) == removed' = removed \cup {job[s].id}

RemoveBegin(s) ==
    /\ Begins(s, "removeEnrollments")
    /\ \/ /\ file.id # job[s].id
          /\ Report(s)
          /\ Finish(s, "onEnrollmentsRemoved")
          /\ UNCHANGED template
       \/ /\ file.id = job[s].id
          /\ file.user # user[s]
          /\ Finish(s, "onEnrollmentsRemoved")
          /\ UNCHANGED <<template, removed>>
       \/ /\ file.user = user[s]
          /\ file.id = job[s].id
          /\ UNCHANGED removed
          /\ \E r \in RemoveFeature :
                /\ template' = r.template
                /\ \/ r.ok /\ Continue(s, "unlink") /\ UNCHANGED <<enr, found>>
                   \/ ~ r.ok /\ Finish(s, "UNABLE_TO_REMOVE")
    /\ WorkerFrame
    /\ UNCHANGED <<file, lockouts, camera>>

\* The result of Enrollment().save() is not looked at.
RemoveUnlink(s) ==
    /\ pc[s] = "unlink"
    /\ file' \in UnlinkFile
    /\ Report(s)
    /\ Finish(s, "onEnrollmentsRemoved")
    /\ WorkerFrame
    /\ UNCHANGED <<template, lockouts, camera>>

\* setFeature and invalidateAuthenticatorId change one field of the record ...
Changed(s) ==
    IF job[s].kind = "setFeature" THEN [file EXCEPT !.attention = job[s].on]
                                  ELSE [file EXCEPT !.authId = job[s].id]

RewriteBegin(s) ==
    /\ \/ Begins(s, "setFeature")
       \/ Begins(s, "invalidateAuthenticatorId")
    /\ \/ /\ file.user # user[s]
          /\ Finish(s, IF job[s].kind = "setFeature" THEN "UNABLE_TO_PROCESS"
                                                     ELSE "onAuthenticatorIdInvalidated")
       \/ /\ file.user = user[s]
          /\ enr' = [enr EXCEPT ![s] = Changed(s)]
          /\ Continue(s, "rewrite")
          /\ UNCHANGED found
    /\ WorkerFrame
    /\ UNCHANGED <<storage, lockouts, camera, removed>>

\* ... and save it; only setFeature looks at the result.
RewriteSave(s) ==
    /\ pc[s] = "rewrite"
    /\ \E w \in SaveFile(enr[s]) :
          /\ file' = w.file
          /\ \/ /\ job[s].kind = "setFeature"
                /\ Finish(s, IF w.ok THEN "onFeatureSet" ELSE "UNABLE_TO_PROCESS")
             \/ /\ job[s].kind = "invalidateAuthenticatorId"
                /\ FinishWith(s, [to |-> s, what |-> "onAuthenticatorIdInvalidated",
                                  id |-> enr[s].authId, face |-> 0])
    /\ WorkerFrame
    /\ UNCHANGED <<template, lockouts, camera, removed>>

ResetLockout(s) ==
    /\ Begins(s, "resetLockout")
    /\ failures' = [failures EXCEPT ![user[s]] = 0]
    /\ locked' = [locked EXCEPT ![user[s]] = FALSE]
    /\ tries' = [tries EXCEPT ![user[s]] = 0]
    /\ Finish(s, "onLockoutCleared")
    /\ WorkerFrame
    /\ UNCHANGED <<storage, camera, removed>>

Query(s) ==
    /\ Begins(s, "query")
    /\ Finish(s, "answer")
    /\ WorkerFrame
    /\ UNCHANGED <<storage, lockouts, camera, removed>>
-----------------------------------------------------------------------------
(* The process.                                                            *)

\* What a starting process finds: storage survives, everything else is new.
ProcessStarts ==
    /\ failures' = [u \in Users |-> 0]
    /\ locked' = [u \in Users |-> FALSE]
    /\ tries' = [u \in Users |-> 0]
    /\ life' = [s \in Sessions |-> "none"]
    /\ user' = [s \in Sessions |-> NoUser]
    /\ challenges' = [s \in Sessions |-> {}]
    /\ queue' = [s \in Sessions |-> <<>>]
    /\ pc' = [s \in Sessions |-> "idle"]
    /\ job' = [s \in Sessions |-> NoJob]
    /\ enr' = [s \in Sessions |-> NoEnrollment]
    /\ found' = [s \in Sessions |-> "nothing"]
    /\ lock' = NoSession
    /\ camera' = "off"
    /\ reply' = NoReply
    /\ backend' \in Backends

\* The process dies.  A file being written is whole, untouched or, having been
\* truncated already, worth nothing to whoever reads it next.
Crash ==
    /\ "crash" \in Faults
    /\ \/ UNCHANGED storage
       \/ /\ \E s \in Sessions : pc[s] = "rewrite"
          /\ file' = NoEnrollment
          /\ UNCHANGED template
       \/ /\ backend = "data"
          /\ \E s \in Sessions : pc[s] = "store"
          /\ template' = [template EXCEPT !["data"] = 0]
          /\ UNCHANGED file
    /\ ProcessStarts
    /\ UNCHANGED <<nextId, removed>>

Init ==
    /\ file = NoEnrollment
    /\ template = [b \in AllBackends |-> 0]
    /\ backend \in Backends
    /\ failures = [u \in Users |-> 0]
    /\ locked = [u \in Users |-> FALSE]
    /\ life = [s \in Sessions |-> "none"]
    /\ user = [s \in Sessions |-> NoUser]
    /\ challenges = [s \in Sessions |-> {}]
    /\ queue = [s \in Sessions |-> <<>>]
    /\ pc = [s \in Sessions |-> "idle"]
    /\ job = [s \in Sessions |-> NoJob]
    /\ enr = [s \in Sessions |-> NoEnrollment]
    /\ found = [s \in Sessions |-> "nothing"]
    /\ lock = NoSession
    /\ camera = "off"
    /\ nextId = 0
    /\ reply = NoReply
    /\ removed = {}
    /\ tries = [u \in Users |-> 0]

\* A caller's step on session s.
ClientStep(s) ==
    \/ \E u \in Users : createSession(s, u)
    \/ "release" \in Calls /\ ReleaseSession(s)
    \/ "challenge" \in Calls /\ generateChallenge(s)
    \/ "revoke" \in Calls /\ revokeChallenge(s)
    \/ "enroll" \in Calls /\ enroll(s)
    \/ "authenticate" \in Calls /\ authenticate(s)
    \/ "removeEnrollments" \in Calls /\ removeEnrollments(s)
    \/ "setFeature" \in Calls /\ setFeature(s)
    \/ "invalidateAuthenticatorId" \in Calls /\ invalidateAuthenticatorId(s)
    \/ "resetLockout" \in Calls /\ resetLockout(s)
    \/ "query" \in Calls /\ query(s)
    \/ "cancel" \in Calls /\ Cancel(s)

\* A step of the worker thread of session s outside the frame loops ...
HalStep(s) ==
    \/ Dequeue(s)
    \/ EnrollRefused(s)
    \/ EnrollBegin(s)
    \/ EnrollStore(s)
    \/ EnrollSave(s)
    \/ AuthenticateRefused(s)
    \/ AuthenticateBegin(s)
    \/ AuthenticationSucceeded(s)
    \/ AuthenticationFailed(s)
    \/ AuthenticationError(s)
    \/ RemoveBegin(s)
    \/ RemoveUnlink(s)
    \/ RewriteBegin(s)
    \/ RewriteSave(s)
    \/ ResetLockout(s)
    \/ Query(s)

\* ... and inside them.
FrameStep(s) ==
    \/ NextFrame(s)
    \/ EnrollCaptured(s)
    \/ EnrollGivesUp(s)
    \/ AuthenticateCompared(s)
    \/ AuthenticateStops(s)

\* nextFrame comes back from a wait with the deadline passed.
WaitRunsOut(s) == camera = "awaited" /\ (EnrollGivesUp(s) \/ AuthenticateStops(s))

Next ==
    \/ \E s \in Sessions : \/ ClientStep(s)
                            \/ HalStep(s)
                            \/ FrameStep(s)
                            \/ SessionDestroyed(s)
    \/ \E u \in Users : LockoutExpires(u)
    \/ Crash

Spec == Init /\ [][Next]_vars

\* Every thread is scheduled: a worker that can take a step takes one, and a
\* destructor whose thread has come to rest ends.  The deadline of a loop is one
\* instant, so a loop that comes to wait again and again waits past it in the end
\* (strong fairness: between two waits it looks at frames).  It is not assumed that
\* a loop ever waits, and nothing of callers, faces, lockouts and crashes, nor that
\* the mutex is handed out in any order.
FairSpec ==
    /\ Spec
    /\ \A s \in Sessions : /\ WF_vars(HalStep(s))
                            /\ SF_vars(WaitRunsOut(s))
                            /\ WF_vars(SessionDestroyed(s))
-----------------------------------------------------------------------------
(* Properties.                                                             *)

\* Every variable has its type.
TypeOK ==
    /\ file \in Enrollment \cup {NoEnrollment}
    /\ template \in [AllBackends -> Ids]
    /\ backend \in Backends
    /\ failures \in [Users -> Nat]
    /\ locked \in [Users -> BOOLEAN]
    /\ life \in [Sessions -> {"none", "alive", "dying"}]
    /\ user \in [Sessions -> Users \cup {NoUser}]
    /\ challenges \in [Sessions -> SUBSET Challenges]
    /\ queue \in [Sessions -> Seq(Jobs)]
    /\ pc \in [Sessions -> Steps]
    /\ job \in [Sessions -> Jobs]
    /\ enr \in [Sessions -> Enrollment \cup {NoEnrollment}]
    /\ found \in [Sessions -> {"nothing", "another", "match", "error"}]
    /\ lock \in Sessions \cup {NoSession}
    /\ camera \in {"off", "on", "awaited"}
    /\ nextId \in Ids
    /\ reply \in Reply
    /\ removed \subseteq Ids
    /\ tries \in [Users -> Nat]

\* The camera of the shared Hardware runs exactly while the session that holds
\* the lock is in a frame loop: no path through an operation leaves it on, and
\* none uses it after another session could have stopped it.
CameraHeld == camera # "off" <=> \E s \in Sessions : Looping(s) /\ lock = s

\* The trusted app stores a single feature, so the record and the template are
\* two writes that can part.  However they fail and wherever the process dies,
\* an enrollment on file never faces the template of another one in the store
\* its engine uses.
TemplateOwned ==
    file # NoEnrollment =>
        \A b \in Backends :
            ((b = "auth") <=> (file.engine = "auth")) => template[b] \in {0, file.id}

\* The record an authentication loaded before its frame loop, the owner check,
\* the engine check and the lockout check it made then are all still good when
\* it decides, seconds later and with any number of other calls in between.
CurrentMatch(s) ==
    pc[s] \in {"match", "verdict"} =>
        /\ enr[s] = file
        /\ file.user = user[s]
        /\ file.engine = engineName
        /\ ~ LockedOut(user[s])

MatchIsCurrent == \A s \in Sessions : CurrentMatch(s)

\* A success names the enrollment whose face was matched.
SuccessNamesItsFace ==
    reply.what = "onAuthenticationSucceeded" => reply.id # 0 /\ reply.face = reply.id

\* Once a user was told that an enrollment is removed, it does not unlock again,
\* whether or not the file could be unlinked.  (On a device whose st_auth comes and
\* goes between two starts this takes a file that can be: removeFeature erases the
\* store in use, which need not be the one the record on file names.)
RemovedStaysRemoved ==
    reply.what = "onAuthenticationSucceeded" => reply.id \notin removed

\* However the calls of a user's sessions interleave, the user gets no more
\* than TimedFailures failed attempts without a success, a reset, a restart of
\* the service or a wait.
AttemptsBounded == \A u \in Users : tries[u] <= TimedFailures

\* Hardware.lock is never kept: whatever the outcome, an operation that took it
\* lets go of it.  The one exception is a frame loop that never waits again because
\* a frame is ready whenever it asks: nothing in the code ends it.
LockReleased ==
    \A s \in Sessions : lock = s ~> (lock # s \/ [](camera = "on"))

\* Once callers stop calling, every operation the queue has taken is answered, and
\* a session being destroyed does not wait for its thread forever, with the same
\* exception.  (An operation that a full queue refuses is never answered.)
Quiescence ==
    <>[][\A s \in Sessions : Len(queue'[s]) <= Len(queue[s])]_vars
        => \/ <>[](camera = "on")
           \/ /\ <>[](\A s \in Sessions : queue[s] = <<>> /\ pc[s] = "idle")
              /\ \A s \in Sessions : life[s] = "dying" ~> life[s] # "dying"

\* "Remove commands return non-zero when the slot is empty, which callers treat
\* as benign": with no other failure in sight, a removal is not refused because
\* there is no template to erase.
EmptySlotIsBenign ==
    [][reply'.what = "UNABLE_TO_REMOVE" /\ reply' # reply => template[backend] # 0]_vars
-----------------------------------------------------------------------------
(* The inductive invariant behind TemplateOwned, MatchIsCurrent, CameraHeld *)
(* and SuccessNamesItsFace: what each step of an operation relies on.       *)

Holding == {"capture", "store", "save", "match", "verdict", "unlink", "rewrite"}

\* Hardware.lock is held exactly by the worker inside an operation.
Exclusion == \A s \in Sessions : pc[s] \in Holding <=> lock = s

\* A thread runs only in a session that exists, and such a session has a user.
WorkerHasUser ==
    \A s \in Sessions : /\ pc[s] # "idle" => life[s] # "none"
                        /\ life[s] # "none" => user[s] \in Users

\* Nothing an operation found out at an earlier step has changed since.
ReliesOn(s) ==
    /\ pc[s] \in {"capture", "store", "save"} =>
           job[s].kind = "enroll" /\ file = NoEnrollment
    /\ pc[s] = "save" => template[backend] = job[s].id
    /\ found[s] # "nothing" => pc[s] \in {"match", "verdict"}
    /\ found[s] = "match" => pc[s] = "verdict" /\ template[backend] # 0
    /\ pc[s] = "rewrite" =>
           /\ file # NoEnrollment
           /\ enr[s] \in Enrollment
           /\ enr[s].user = file.user
           /\ enr[s].id = file.id
           /\ enr[s].engine = file.engine

StepsRelyOn == \A s \in Sessions : ReliesOn(s)

Inv ==
    /\ TypeOK
    /\ Exclusion
    /\ WorkerHasUser
    /\ StepsRelyOn
    /\ CameraHeld
    /\ TemplateOwned
    /\ MatchIsCurrent
    /\ SuccessNamesItsFace
=============================================================================
