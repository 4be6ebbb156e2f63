# TLA+ models of android_hardware_oneplus

Specifications, model-checking runs and machine-checked proofs about the hardware
abstraction layers and services of this repository. File and line numbers are those of the
sources beside this directory; `PROJECT.json` maps every definition to its lines.

Run from this directory: `tlc -config X.cfg M` checks a run, `tlapm M.tla` checks the
proofs of a module.

## 1. The system and its parts

| Part | State it keeps | Operations | Talks to | Model |
|---|---|---|---|---|
| Face sessions (`aidl/face/Session.cpp`, `Face.cpp`) | enrollment file, template, challenges and a worker thread per session, `Hardware.lock`, lockout table | `generateChallenge`, `enroll`, `authenticate`, `removeEnrollments`, `setFeature`, `invalidateAuthenticatorId`, `resetLockout`, queries, cancellation | camera, engines, framework callbacks | `FaceHal` |
| st_auth engine (`AuthEngine.cpp`), faceapp (`FaceTee.cpp`), TEE channel (`AuthTee.cpp`) | libraries, sessions of the trusted app, the template slot | `init`, `open`, `close`; store, erase, compare | proprietary libraries, the TEE, the name the process shows | bring-up in `FaceEngines`, outcomes in `FaceHal` |
| Detection (`FaceEngine.cpp`) | a library and five handles | `init`; numeric calls per frame | a proprietary library | bring-up in `FaceEngines` |
| Camera (`CameraSource.cpp`) | NDK objects, one frame, two flags | `start`, `nextFrame`, `stop`, callbacks | camera and image reader threads | `CameraSource` |
| Alert slider (`KeyHandler.kt`) | a task queue, `wasMuted` | uevents, tasks, broadcasts | zen mode, ringer mode, music stream, the dialog | `KeyHandler` |
| Slider dialog (`AlertSliderPlugin.kt`, `AlertSliderDialog.kt`) | message queue, timeout, dialog | show, dismiss, update, recreate | the slider's broadcasts | `AlertSliderPlugin`, with the service `AlertSlider` |
| Vibrator (`aidl/vibrator`) | effect id, magnitude, callback threads | `on`, `off`, `perform`, `setAmplitude`, `setExternalControl` | the kernel | `Vibrator` |
| Fingerprint (`hidl/fingerprint`) | one object, `mDevice`, the client callback, `isCancelled`; the panel's nodes and the vendor's long press switch outlive it | the constructor, enroll, authenticate, cancel, setNotify, finger up and down, `notify` | the vendor library's thread, the framework, the kernel | `Fingerprint` |
| Audio amplifier (`audio_amplifier.c`) | the feedback stream, its use case, a pointer to it | set feedback, open, close | the audio HAL's list, devices and routes | `Amplifier` |
| Doze (`packages/Doze`) | sensor registrations, a thread per sensor | settings, boot, service life, display on and off | the activity manager, broadcasts, the sensor manager | `Doze` |
| livedisplay, touch, dirac_gef, oneplus-fwk, interfaces, wifi, settings screens | none, or a node of the kernel | one read or write per call | | none |

What is hard, per part:

* **Face.** Each session has a thread, all share one record, one template slot, one camera and
  one lockout table; an operation reads the record and acts on it up to a minute later. The record and the template
  are written separately; any write may fail, the process may die between two. Callers cancel,
  drop sessions and revoke challenges meanwhile.
* **Camera.** Four threads; a callback may be in flight when the loop it is for is over; start
  may fail anywhere between its first and last acquisition; nothing wakes a waiting loop when it is cancelled.
* **Slider.** Positions come faster than modes are committed; broadcasts come late; others set
  the same modes.
* **Dialog.** Messages that are due, a message that is delayed, and calls that take waiting
  messages away, over a dialog that is replaced while it shows.
* **Vibrator.** The vibration goes on after the call, in a kernel with few slots whose calls
  fail; a detached thread says when it is over.
* **Engines.** Each is brought up in a dozen calls that may fail, some of them repeated, and
  the next operation starts from whatever the last attempt left.
* **Fingerprint.** A binder thread and the library's thread write the same nodes; the library
  may notify before the constructor has returned; the process dies, what it wrote stays.
* **Doze.** Settings, display, activity manager and two sensor threads each take their time; a
  service may be destroyed with registrations still to be made.
* **Amplifier.** One call at a time, but each may fail halfway or be out of place, and leaves a
  pointer, a list and a count to the next.

## 2. Modules

### `FaceHal`: sessions, storage and lockouts

State: `file` is the enrollment file as `Enrollment::load` reads it (a missing or mutilated
file is `NoEnrollment`), `template` holds for each store the enrollment its face came from,
`backend` is what this process found usable (`tee`, `data`: the faceapp engine with its
template in the TEE or in /data; `auth`: st_auth). `life`, `user`, `challenges`, `queue` are
the sessions; `pc`, `job`, `enr`, `found` the worker threads; `lock` and `camera` the shared
`Hardware`; `failures` and `locked` are `sLockouts`.

Actions: a binder method is one action. An operation takes the lock in its first step and
gives it up in its last, so it is cut only where someone can tell: before its frame loop, in
it (`NextFrame` and what a frame may show) and after it, and between its writes (`EnrollBegin`, `EnrollCaptured`, `EnrollStore`,
`EnrollSave`; `RemoveBegin`, `RemoveUnlink`; `RewriteBegin`, `RewriteSave`). `Crash` may
come between any two, and during a write. `ProcessStarts` chooses a backend again, since
which engine is usable is found out at each start. Time is an event: the deadline of a frame loop may have
passed at the end of any wait, and `LockoutExpires` may come at any time.

Choices made: ids are numbered in the order they are drawn. The code draws enrollment ids of
31 bits at random; that one is 0 or repeats, which has a probability of 2^-31, is left out. An id
drawn in an operation is drawn at the call instead. `WriteStringToFile` truncates, writes and
removes the file when the write fails; `unlink` may fail and leave the file. A removal of an empty slot is
refused by the trusted app, and by no other store, as the comment in FaceTee.cpp says. `camera` tells a loop with a frame ready ("on") from one that waits in
nextFrame ("awaited"): only the latter can find the deadline passed or the operation cancelled. A
session being destroyed reads `mChallenges` after its destruction (member order in
Session.h): the answer is either one.

`FaceEnrollment` is what it promises: one enrollment slot, filled with its face at once,
whose face may go before the record and never comes back, and nothing accepted but an
enrollment that still has its face. `FaceHalRefinement` states the mapping (the slot is the
file together with the template in the store the file's engine uses) and what it claims,
`ImplementsEnrollment`, which TLC checks and `FaceHalProofs` proves.

### `CameraSource`: one frame loop after another

`held` is the set of non-null members; `Acquire` also records a member that is overwritten
while non-null, which nobody can free any more. Frames are told apart by the loop whose camera
made them. `start` is five steps, `nextFrame` two, `stop` three: the callbacks can come
between any of them. The image callback tests `mPreview` in one step and is done drawing in
another. `AImageReader_delete` joins that callback: it waits until none runs.

### `FaceEngines` and `FaceLoops`: what looks at the frames

`FaceEngines` is `Session::prepare` and `Session::removeFeature` down to each library call.
`members` are the pointers and flags that are set, in three classes; `step` is named for the
function the worker is in or the handle it is about to get. An attempt at a session of faceapp
may bring none, one without a buffer, or a good one; the last of `MaxTries` gives up. `apps`
counts the sessions that really run, so that a handle that is lost shows. `symbols` stands for
all function pointers of the pipeline: `loadSymbols` sets `mLib` before it looks for them, a later
`init` does not look again, and a call through one that is missing is the end of the process
(`dead`). `refused` remembers what an `init` failed at that no later one looks at. `cmdline` is what
`withStockCmdline` changes while a library looks at it. Which engine is usable is a choice
made at the start, as it is found out by the code at its start.

`FaceLoops` composes it with `CameraSource`: both are members of `Hardware`, used by one
worker under its lock, and the camera's callbacks go on during either. The camera starts
when the engine is ready.

### `KeyHandler`: the alert slider service

`tasks` is the executor's queue; the task at hand goes through the steps of `handleMode`'s
lambda. `requested` is a zen mode asked for and not committed, `changes` are the
mute broadcasts under way. Preferences are constants: a behaviour has one assignment of modes
to positions, any of the seven modes each. `Meddlers` says who else sets modes. What it
announces waits in `broadcasts` until it is delivered.

### `AlertSliderPlugin`: the dialog

The looper's queue is a sequence of the messages that are due; the delayed dismissal is a
flag, `timer`, until it is due. `Without` is what `removeMessages` leaves of the queue. The dialog has what it displays and where an animation is
moving it; a dialog the handler replaced while it was on screen would be counted in `stray`.
Of `MSG_DIALOG_RESET` nothing is seen: nobody sends it, and handleResetTimeout is part
of the actions that call it.

### `AlertSlider`: the two together

The service and the dialog live in different processes. `ChangeHeard` delivers a broadcast: a step of
both, the only one they share. An announcement is told by its position, since the
preferences fix its mode; one without a mode, or after the plugin was destroyed, is dropped.

### `Fingerprint`

A method is a sequence, `todo`, of the writes it makes outside the process (nodes, the
vendor's `updateStatus`, calls into the library); binder and notify threads take turns between
any two of them, and the process may die there. `process` follows main and the constructor,
between whose steps the library may notify already. `notifier` is the library's thread in
`notify`, with the client it read. Without a library the service is registered all the same,
and a call into it ends the process. Nodes and the vendor's switch survive a death.
`cut` remembers what a death may have left half done: the properties about those pieces
wait for the next call that sets them.

### `Doze`

`record` is what the activity manager believes, `scheduled` what it has sent to the main
thread, `service` the object that exists. Settings change in one step and are looked at in
another: a gesture's preference is stored after its listener returned, so the fragment posts the
check. `jobs` has a queue per sensor and object, since each sensor has an executor. `stale` and
`raced` name the two things the code does not repair: a check lost with its process, and
a sensor turned off in the moment the display went on.

### `Amplifier`

The audio HAL calls under its lock, so a call is a step, and its failures are its outcomes.
Blocks of memory are told apart, so that `usecase_tx` can dangle and a block can be used
again. Enabling the device and the route may fail, counted or not, and the module does not look
(`ignored`). A start that fails at what it does look at undoes everything but the pointer. Of the audio HAL there is a list,
a count per device and a set of routes. It opens the module only when it has none, and
calls nothing of a module that could not be opened.

### `Vibrator`

`slots` and `playing` are the kernel's, `mCurrAppId` the HAL's. Times are ticks.
`ReplayLimit` is 2^16 ms: what `on` uploads is the time modulo it, and a length of 0 plays nothing or
until it is stopped (`left` is 0), as the driver has it. `ProductLimit` is where `timeoutMs * 1000`
(Vibrator.cpp:492) is no int any more: from there on the thread sleeps for any time up to the one asked for, which
includes what a build that wraps around does. `sleepers` are the detached
threads. `LED_EFFECTS` is a list of writes whose results nobody looks at.

## 3. Runs

Passing runs:

| Run | Checks | Instance |
|---|---|---|
| FaceStorage | `TypeOK`, `CameraHeld`, `TemplateOwned`, `SuccessNamesItsFace`, `ImplementsEnrollment` | 2 sessions, 2 users, backends tee and auth, every fault, 2 ids, 3 pending operations |
| FaceRewrite | `MatchIsCurrent`, `RemovedStaysRemoved`, `AttemptsBounded` | 2 sessions of 1 user, backend data, lockouts at 2 and 3 failures, storage faults and crashes |
| FaceProgress | `LockReleased`, `Quiescence` | 2 sessions, backend tee, releases, cancellations, crashes, fairness |
| Camera | `FrameIsCurrent`, `PreviewAlive`, `Released`, `AppsAccounted`, `CmdlineIsOwn`, `LoopHasItsEngine`, `LoopEnds` | engines and camera: 3 loops, 2 attempts per session of faceapp, every failure of a library or the NDK |
| AlertSlider | `MusicComesBack`, `SliderDecides`, `OneDialog`, `DismissalPending`, `ShowsLastChange`, `ChangeIsShown`, `DialogGoesAway` | service and dialog: silent, zen and normal positions, 3 moves, 1 change by others, 1 configuration change |
| Fingerprint | `OneInstance`, `DeviceIdValid`, `ClientStays`, `PressFollowsFinger`, `LongPressOffWhileEnrolling`, `DimmedAfterCancel` | 2 clients, 5 calls, 1 death, an error, an acquisition, a success and a failure notified at any time |
| Doze | `NothingOutlivesService`, `ListensWithDisplayOff`, `Checked`, `ServiceFollowsSettings` | both sensors, 2 objects, 3 changes of settings, queues of 2 |
| Amplifier | `NothingLeaks`, `OneStreamOneUsecase`, `NothingFreedIsUsed` | 3 blocks, a speaker and another device, 3 openings |
| Vibrations | `SlotsAccounted`, `OffSilences`, `CompletionNotEarly` | all devices, 2 slots, times below the 16 bit limit, past it, twice it (0 in 16 bits), and past the int product, every fault, 3 vibrations |

Why the bounds are enough. The invariants of these runs are proved for all bounds (section 4); the
liveness properties are not. Face: two sessions are what it takes for one to interfere with
another, and the lock lets no third one in; two ids distinguish "this enrollment" from "another"; three
pending operations let one run while another waits in each session. The two thresholds of the
lockout are 2 and 3 instead of 5 and 20: a timed lockout, its expiry, a further failure and
the permanent one all occur. Camera: a
third loop starts over what the second left of the first; with two attempts a session is tried
again and given up. Slider: three moves come to the silent position and leave it, a second
announcement waits behind a dismissal that is due, a third behind a dialog made
anew. Fingerprint: five calls are an enrollment or authentication, a finger down and up, a cancel, and
the call that finds what they left, with a restart between any two writes. Doze: three changes turn the
service off, on and off while a second object begins. Amplifier: two openings abandon
a stream each and the third runs over both. Vibrator: three calls are one that loses a slot,
one that plays beside it and one that finds none. FrameLoop needs one loop and no failures.

Fairness. Worker threads, the executor, the main looper and callback threads that have begun
are scheduled weakly fairly: the code runs each on a thread that does nothing else. Of a frame loop
`FaceHal` assumes strong fairness of `WaitRunsOut`: the deadline is one instant, so a loop that
waits again and again has a wait that ends past it. Nothing is assumed that makes a loop wait. nextFrame
(CameraSource.cpp:258) looks at the deadline and at shouldStop after a wait only, and does not wait while
a frame is ready; a loop that never waits again (`[](camera = "on")`) is therefore a behaviour of the model, and
the exception in `LockReleased` and `Quiescence`. `LoopEnds` shows the same of the camera itself: a loop that is
late or cancelled ends unless it never waits again, with fair threads and nothing else. That the exception
is the code's, against the comment in CameraSource.h:31, is the run FrameLoop. Doze's posts, jobs and service commands are run, as each waits in the
queue of a thread that does nothing else. The notification service commits what it was asked to and broadcasts
arrive. Nothing is assumed of callers, users, faces, configuration changes, crashes, or
the order in which the mutex is handed out. `Quiescence` therefore has a premise: no
further call is accepted. It is about operations a queue has taken; one that `schedule` drops because the
queue is full (Session.cpp:129) is never answered, in the model as in the code.

What properties leave out because the code does: `MusicComesBack` the mute overtaken by an earlier unmute's
broadcast (`overtaken`), `ChangeIsShown` the announcement a due dismissal takes (`lost`),
`PressFollowsFinger` the touch that falls between a result and its lifting (`settled`),
`ListensWithDisplayOff` a sensor turned off in the moment of a broadcast (`raced`), `Checked` and
`ServiceFollowsSettings` a check lost with its process (`stale`), `LoopHasItsEngine` loops without
`mHackness` or without a symbol after an operation was refused for it, `CompletionNotEarly` times whose product is
no int and vibrations that play until they are stopped. Each exception is a behaviour the model has, none is
one a comment or a test of the repository rules out, and each is named in the property's comment.

Each passing property has a mutant, an operator marked "(mutant)" in the module, that changes
one definition the way a plausible slip in the code would: a missing lock, an unchecked
result, two calls in the wrong order, a guard left out. The property fails under it.

Where the code does not do what it says (runs that expect a violation):

* **StuckRemoval** (`EmptySlotIsBenign`). FaceTee.cpp:127 has it that callers take an empty
  slot as benign; `removeEnrollments` (Session.cpp:635) does not. A process that dies between
  erasing the template and unlinking the record leaves an enrollment that can neither unlock
  nor be removed, and that keeps everyone from enrolling.
* **ZenWait** (`WaitsUntilCommitted`). KeyHandler.kt:150 waits "until zen mode change is
  committed", but compares the mode with its own: if do not disturb is turned on or off by
  someone else within the 10 ms after the commit, the executor waits for ever.
* **FrameLoop** (`DeadlineIsKept`). CameraSource.h:31: nextFrame "Waits for the next frame until the
  deadline or until shouldStop returns true." A camera that has published the next frame whenever the loop has
  looked at the last one keeps it there past both, and with it `Hardware.lock`; a slow detector on
  a fast camera comes close.

A fourth disagreement is in the model without a run of its own: Vibrator.cpp:217 has it that a non-zero time
means playing, and after a failed write of the play event `ret` is overwritten by the clean-up's result
(Vibrator.cpp:300), so that `on` and `perform` report success, with a callback, for a vibration that
never was (`PlayFails(TRUE)`).

## 4. Proofs

All are for arbitrary constants under the named assumptions of the module
(`ConstantsAssumption`, `CameraAssumption`, `EnginesAssumption`, `KeyHandlerAssumption`,
`PluginAssumption`, `SliderAssumption`, `FingerprintAssumption`, `DozeAssumption`,
`AmplifierAssumption`, `VibratorAssumption`), which TLC evaluates in the runs.

* `FaceHalProofs`. The inductive invariant `Inv` adds to the properties: `Exclusion` (the lock is
  held exactly by the worker inside an operation), `WorkerHasUser` (a thread that is not idle
  has a session with a user), and `StepsRelyOn` (what each step found out still holds: an
  enrollment past its check still finds no record, one about to save has its template in
  place, a match still has a template, a rewrite has the record it read). `TemplateOwned` alone
  is not inductive: `EnrollSave` puts a record beside a template and needs to know whose
  template that is, and `EnrollStore` overwrites one and needs to know that no record speaks of
  it. The argument is that only the lock's holder writes the file and the store in use
  (`Alone`, `ContinueKeepsInv`, `FinishKeepsInv`), so what the others rely on
  stays; `OwnedStays` is the one fact about a store that changes under a record. Theorems: `InvHolds`,
  `TypeCorrect`, `TemplateIsOwned`, `MatchStaysCurrent`, `SuccessIsNamed`, `CameraIsHeld`.
  Three more rest on `Inv`:
  * Lockouts (`AttemptsAreBounded`). `AttemptsBounded` says nothing of `failures`, which decides
    about locks; `Rounds` relates them: before the permanent lockout a user's failures are a whole number
    of rounds of `TimedFailures` while locked, and otherwise that and the attempts since. The step
    that locks is the one that completes a round (`WholeRounds` is the arithmetic of it).
  * Removals (`RemovalIsFinal`). What a removal reports is gone or faceless (`RemovedHasNoFace`), but a
    later enrollment must not bring that id back: `IdsApart` says of all operations, at work or
    waiting in any queue, that no two enroll one id, and that nobody has named, filed or removed
    the id of an enrollment that has not begun. The theorem has the hypothesis
    `RemovalReachesFace`: every start finds the same engine, or `unlink` does not fail. Without it the
    property is false, as TLC shows with the backends tee and auth: `removeFeature` (Session.cpp:176) erases
    the store of the engine in use, the record names the one it was enrolled with, and the record
    that could not be unlinked is matched again after a start that finds the old engine.
  * Refinement (`Implements`). `Init` maps to `Abstract!Init`, and each step to a step of
    `FaceEnrollment` or to none (`NextMaps`): `EnrollSave` to `Enroll`, a success to `Accept`, what
    erases the template to `LoseFace`, what loses the record to `Forget`, other answers to
    `Answer`. `Inv` supplies what the abstract guards ask: an empty slot when a record is
    written, a template that is the record's when a match succeeds.
  * Answers (`OperationsAreAnswered`), an action property: an operation ends with one callback to its own
    session, and lets go of the lock with it, on all of its paths.
* `CameraSourceProofs`. `ListenerRuns` (images arrive only between a successful start and
  the deletion of the reader), `FrameIsOwn` (what is available was published by this loop's
  camera), `HeldAt` (what each step can hold) make `FrameIsCurrent`, `PreviewAlive` and
  `Released` inductive.
* `FaceLoopsProofs`. `LoopsAreCamera`: a behaviour of engines and camera, seen without the
  engines, is one of the camera, so the camera's theorems hold of the composition. `EnginesInv`
  says at which step which members are set. What `mVerify` and `mLib` stand for is less than a complete
  pipeline: `CvSteps` and `SymbolsSought` say that what is missing beside them was refused to an operation before. Counting the sessions of faceapp is cardinality of a set with one handle more or less.
* `AlertSliderProofs`. What the slider muted and left muted is remembered, about to be
  remembered, or announced unmuted; `KInv` says at which step which. `ServiceAlone` and
  `DialogAlone` show that the slider is, to either half, that half alone, which carries
  what is proved of a half over to the whole. `DInv` is the dialog's invariant: an animation
  moves on screen only and is not dismissed meanwhile, the dialog is of the configuration the handler
  knows, an announcement is shown, waits or is lost. Its steps need to know what
  `removeMessages` leaves: `Without` is a recursive function over the queue, and
  `WithoutProperties` (all of its kinds are taken and no other) and `LatestOfWithout` (the last
  of the others stays the last) are shown by induction over a set of numbers (`Least`,
  `Induct`), which unlike the library's induction theorems takes no operator.
  `SliderIsObeyed` is the safety half of `SliderDecides`: when executor, broadcasts and looper
  are through, modes and dialog are those of the slider's last position. `Carries` says how far the task at
  hand has come, and that a zen mode not committed yet is its own; `Announced` follows its
  announcement through the broadcasts, the messages and the dialog.
* `FingerprintProofs`. The run's invariants speak of the moments between two calls and are not
  inductive; the invariant proved speaks of every moment, in terms of what `todo` still holds: a switch
  that is off is on again or about to be (`LongPress`), a pending write of the press flag agrees with the finger
  (`PressFlag`), the dim node is set or about to be (`Dimmed`), and `Bringing` says what
  exists at each step of the constructor.
* `DozeProofs`. Commands and broadcasts under way alternate and end in what their sender believes
  (`Manager`, `Display`); an executor whose last job is to unregister is as good as silent
  (`Listeners`). Together they say that a destroyed service will be silent whatever it had queued,
  and, with `Checked`, that the service exists exactly if the settings want it once nothing is on its
  way (`SettingsAreFollowed`, the safety half of `ServiceFollowsSettings`).
* `AmplifierProofs`. The list has no block twice, so what the look-up finds is freed once, and
  a stream is open only in an open module; memory and streams are then
  functions of the list and of what was abandoned, and routes and count are bounded by the list, and equal to it
  while no failure to enable them was ignored.
* `VibratorProofs`. `VInv` relates a vibration to its callback thread: they are of one call,
  and a vibration that ends by itself never has longer to go, because what is played is the time modulo 2^16
  and what is slept is the time, as long as its product is an int.

Every invariant the runs check is proved, and the refinement. Only model-checked: what needs
fairness (`LockReleased`, `Quiescence`, `LoopEnds`, `SliderDecides`, `DialogGoesAway`,
`ServiceFollowsSettings`), which is out of the prover's reach as it rests on ENABLED. Of `SliderDecides`
and `ServiceFollowsSettings` the theorems above are the part without fairness: what they
leave to TLC is that things come to rest. Type correctness of the service, the dialog, the fingerprint
HAL, Doze, the amplifier and the vibrator is proved and not run. The parts of the inductive
invariants added for `AttemptsBounded`, `RemovedStaysRemoved`, the dialog and the slider at rest
were model-checked on the instances of section 3 before they were proved.

## 5. Not modelled

* What the libraries compute: detection, quality and comparison in `FaceEngine`, `AuthEngine`
  and `FaceTee`, and the pixels of `CameraSource`. A frame's outcome is a choice, and so is what a trusted
  app answers; the layout of its commands and the buffers of `AuthTee::communicate`, which
  are released on every path, are left out.
* The NDK calls `start` does not look at, but `createCaptureRequest`, are taken to succeed.
* Preferences that change during a behaviour, vibration effects of the slider, uevent formats.
* What a sensor event of Doze does: a rate limit and a pulse or wake up nobody else looks at.
* The fingerprint HAL's translation of error and acquisition codes beyond what `notify` decides by.
* A second opening of the amplifier while it is open: the audio HAL has one.
* Negative times: the framework's interface counts milliseconds from 0.
* livedisplay, touch, dirac_gef, oneplus-fwk, interfaces, wifi-mac-generator, properties,
  `UdfpsExtension` and settings screens: single reads and writes, stubs, a pure function and user interface.

## 6. State of the plan

Every part with state of its own and more than one actor, or more than one call, is modelled, each has its run,
and each module its proofs. Left, in order of what it would add:

1. `FaceHal` over `FaceLoops` instead of over outcomes: one state space with sessions, engines
   and camera is beyond TLC, so it would be a refinement of the frame loop's steps.
2. More action properties of the kind of `AnsweredOnce`: what a call of the amplifier, the
   vibrator or the fingerprint HAL may change, and that it answers once.
