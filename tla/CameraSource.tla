---------------------------- MODULE CameraSource ----------------------------
(***************************************************************************)
(* The camera of the face HAL (aidl/face/CameraSource.cpp) under one frame *)
(* loop after another (the loops of doEnroll, doEnrollAuth, doAuthenticate *)
(* and doAuthenticateAuth are alike: start, nextFrame until it returns     *)
(* false or the frame settles the matter, stop).                           *)
(*                                                                         *)
(* Four threads meet here: the worker in the loop, the image reader's      *)
(* callback thread, the camera device's callback thread, and whoever       *)
(* cancels.  mMutex guards mFrame, mFrameAvailable and mFailed only; the   *)
(* members start and stop set are read by the callbacks without it.        *)
(***************************************************************************)
EXTENDS Naturals, FiniteSets

CONSTANTS MaxStarts,  \* bound: frame loops of a behaviour
          Failing     \* the NDK calls of start that may fail here

\* The calls of start whose failure is told apart.
NdkCalls == {"getCameraIdList", "openCamera", "ImageReader_new",
             "createCaptureRequest", "createCaptureSession",
             "setRepeatingRequest"}

ASSUME CameraAssumption == MaxStarts \in Nat /\ Failing \subseteq NdkCalls

VARIABLES
    pc,         \* where the worker stands in the loop
    starts,     \* the number of this loop: frames are told apart by it
    held,       \* the members of CameraSource that are not null
    lost,       \* members overwritten while not null: never freed
    available,  \* mFrameAvailable
    frame,      \* the loop whose camera filled mFrame
    failed,     \* mFailed
    nv21,       \* the loop whose frame the worker was given last
    streaming,  \* the device fills the reader's window
    image,      \* the callback thread in onImageAvailable: step and loop
    cancelled,  \* shouldStop
    late        \* the deadline has passed

\* The parts that change together.
loop   == <<starts, cancelled, late>>
shared == <<available, frame, failed>>
ndk    == <<held, lost, streaming>>
vars == <<pc, starts, held, lost, available, frame, failed, nv21, streaming,
          image, cancelled, late>>
-----------------------------------------------------------------------------
Members == {"mPreview", "mDevice", "mReader", "mOutputs", "mTarget", "mRequest",
            "mSession"}

Steps == {"off",        \* no loop
          "open",       \* in start: about to open the device
          "configure",  \* ... about to create the reader and the request
          "session",    \* ... about to create the capture session
          "repeat",     \* ... about to set the repeating request
          "next",       \* about to call nextFrame
          "waiting",    \* in nextFrame's wait_until
          "frame",      \* looking at a frame
          "stop",       \* in stop: about to take the session and device down
          "delete",     \* ... about to delete the reader
          "release"}    \* ... about to release the preview

Looping == {"next", "waiting", "frame"}

NoImage == [at |-> "none", of |-> 0]

Images == [at : {"none", "copied", "rendering"}, of : 0 .. MaxStarts]

Fails(call) == call \in Failing

\* A call that sets these members overwrites what they hold.
Acquire(ms) ==
    /\ held' = held \cup ms
    /\ lost' = lost \cup (ms \cap held)
-----------------------------------------------------------------------------
(* start.  Its failures end in stop.                                       *)

\* (mutant) mFrameAvailable is not reset.
StartKeepingFrame ==
    /\ pc = "off"
    /\ starts < MaxStarts
    /\ starts' = starts + 1
    /\ cancelled' = FALSE
    /\ late' = FALSE
    /\ pc' = "open"
    /\ \E preview \in SUBSET {"mPreview"} : Acquire(preview)
    /\ failed' = FALSE
    /\ UNCHANGED <<available, frame, streaming, nv21, image>>

\* findFrontCamera, the preview and, under the lock, the two flags.
Start ==
    /\ pc = "off"
    /\ starts < MaxStarts
    /\ starts' = starts + 1
    /\ cancelled' = FALSE
    /\ late' = FALSE
    /\ \/ /\ Fails("getCameraIdList")
          /\ UNCHANGED <<pc, ndk, shared>>
       \/ /\ pc' = "open"
          /\ \E preview \in SUBSET {"mPreview"} : Acquire(preview)
          /\ available' = FALSE
          /\ failed' = FALSE
          /\ UNCHANGED <<frame, streaming>>
    /\ UNCHANGED <<nv21, image>>

OpenCamera ==
    /\ pc = "open"
    /\ \/ pc' = "configure" /\ Acquire({"mDevice"})
       \/ Fails("openCamera") /\ pc' = "stop" /\ UNCHANGED <<held, lost>>
    /\ UNCHANGED <<loop, shared, nv21, streaming, image>>

\* The reader, the outputs, the request and its target.  What createCaptureRequest
\* returns is not looked at: without a request the target is made all the same.
Configure ==
    /\ pc = "configure"
    /\ \/ Fails("ImageReader_new") /\ pc' = "stop" /\ UNCHANGED <<held, lost>>
       \/ /\ pc' = "session"
          /\ \/ Acquire({"mReader", "mOutputs", "mTarget", "mRequest"})
             \/ /\ Fails("createCaptureRequest")
                /\ Acquire({"mReader", "mOutputs", "mTarget"})
    /\ UNCHANGED <<loop, shared, nv21, streaming, image>>

CreateCaptureSession ==
    /\ pc = "session"
    /\ \/ pc' = "repeat" /\ Acquire({"mSession"})
       \/ Fails("createCaptureSession") /\ pc' = "stop" /\ UNCHANGED <<held, lost>>
    /\ UNCHANGED <<loop, shared, nv21, streaming, image>>

\* There is nothing to repeat without a request.
SetRepeatingRequest ==
    /\ pc = "repeat"
    /\ \/ /\ "mRequest" \in held
          /\ pc' = "next"
          /\ streaming' = TRUE
       \/ /\ "mRequest" \notin held \/ Fails("setRepeatingRequest")
          /\ pc' = "stop"
          /\ UNCHANGED streaming
    /\ UNCHANGED <<loop, shared, nv21, held, lost, image>>
-----------------------------------------------------------------------------
(* nextFrame and the loop around it.                                       *)

\* (mutant) nextFrame sleeps until the deadline or a notification.
WakesWhenNotified == failed \/ available \/ late

\* wait_until returns: notified, or because 50 ms are over.
Wakes == TRUE

\* The loop of nextFrame is left: mFailed and mFrameAvailable, in this order.
FrameOrFailure ==
    /\ failed \/ available
    /\ IF failed
          THEN pc' = "stop" /\ UNCHANGED <<available, nv21>>
          ELSE pc' = "frame" /\ available' = FALSE /\ nv21' = frame

\* nextFrame takes mMutex; it asks neither the clock nor shouldStop before it has
\* waited once.
NextFrame ==
    /\ pc = "next"
    /\ \/ FrameOrFailure
       \/ ~ failed /\ ~ available /\ pc' = "waiting" /\ UNCHANGED <<available, nv21>>
    /\ UNCHANGED <<loop, frame, failed, ndk, image>>

\* It wakes up with mMutex taken again.  Otherwise it goes on waiting.
WaitEnds ==
    /\ pc = "waiting"
    /\ Wakes
    /\ \/ (cancelled \/ late) /\ pc' = "stop" /\ UNCHANGED <<available, nv21>>
       \/ ~ (cancelled \/ late) /\ FrameOrFailure
    /\ UNCHANGED <<loop, frame, failed, ndk, image>>

\* The engine refuses the enrollment or authentication, before the first frame.
BeginFails ==
    /\ pc = "next"
    /\ nv21 # starts
    /\ pc' = "stop"
    /\ UNCHANGED <<loop, shared, nv21, ndk, image>>

\* The loop's body: the frame says nothing yet, or it settles the matter.
LookAtFrame ==
    /\ pc = "frame"
    /\ pc' \in {"next", "stop"}
    /\ UNCHANGED <<loop, shared, nv21, ndk, image>>

ShouldStop ==
    /\ pc \in Looping
    /\ ~ cancelled
    /\ cancelled' = TRUE
    /\ UNCHANGED <<pc, starts, late, shared, nv21, ndk, image>>

DeadlinePasses ==
    /\ pc \in Looping
    /\ ~ late
    /\ late' = TRUE
    /\ UNCHANGED <<pc, starts, cancelled, shared, nv21, ndk, image>>
-----------------------------------------------------------------------------
(* stop.                                                                   *)

\* (mutant) The preview is released first, not last.
StopPreviewFirst ==
    /\ pc = "stop"
    /\ pc' = "delete"
    /\ held' = held \ ({"mPreview", "mSession", "mDevice", "mOutputs", "mRequest"} \cup
                       (IF "mRequest" \in held THEN {"mTarget"} ELSE {}))
    /\ UNCHANGED <<loop, shared, nv21, lost, streaming, image>>

\* (mutant) The device is closed only with a session.
StopSessionOnly ==
    /\ pc = "stop"
    /\ pc' = "delete"
    /\ held' = held \ ({"mSession", "mOutputs"} \cup
                       (IF "mSession" \in held THEN {"mDevice"} ELSE {}) \cup
                       (IF "mRequest" \in held THEN {"mRequest", "mTarget"} ELSE {}))
    /\ UNCHANGED <<loop, shared, nv21, lost, streaming, image>>

\* The session, the device, the request with its target, the outputs.
StopDevice ==
    /\ pc = "stop"
    /\ pc' = "delete"
    /\ held' = held \ ({"mSession", "mDevice", "mOutputs", "mRequest"} \cup
                       (IF "mRequest" \in held THEN {"mTarget"} ELSE {}))
    /\ UNCHANGED <<loop, shared, nv21, lost, streaming, image>>

\* AImageReader_delete joins the reader's callback thread.
DeleteReader ==
    /\ pc = "delete"
    /\ image = NoImage
    /\ pc' = "release"
    /\ held' = held \ {"mReader"}
    /\ streaming' = FALSE
    /\ UNCHANGED <<loop, shared, nv21, lost, image>>

ReleasePreview ==
    /\ pc = "release"
    /\ pc' = "off"
    /\ held' = held \ {"mPreview"}
    /\ UNCHANGED <<loop, shared, nv21, lost, streaming, image>>
-----------------------------------------------------------------------------
(* The callbacks.                                                          *)

\* onImageAvailable acquires and copies an image; images already in the reader's
\* window arrive after the device is closed as well.  It looks for a preview here
\* and draws into it next, without a lock.
ImageAcquired ==
    /\ streaming
    /\ image = NoImage
    /\ image' = [at |-> IF "mPreview" \in held THEN "rendering" ELSE "copied",
                 of |-> starts]
    /\ UNCHANGED <<pc, loop, shared, nv21, ndk>>

\* renderPreview returns.
PreviewRendered ==
    /\ image.at = "rendering"
    /\ image' = [image EXCEPT !.at = "copied"]
    /\ UNCHANGED <<pc, loop, shared, nv21, ndk>>

\* The frame is published under mMutex.
FramePublished ==
    /\ image.at = "copied"
    /\ image' = NoImage
    /\ frame' = image.of
    /\ available' = TRUE
    /\ UNCHANGED <<pc, loop, failed, nv21, ndk>>

\* onDisconnected, onError: until ACameraDevice_close.
DeviceFails ==
    /\ "mDevice" \in held
    /\ ~ failed
    /\ failed' = TRUE
    /\ UNCHANGED <<pc, loop, available, frame, nv21, ndk, image>>
-----------------------------------------------------------------------------
Init ==
    /\ pc = "off"
    /\ starts = 0
    /\ held = {}
    /\ lost = {}
    /\ available = FALSE
    /\ frame = 0
    /\ failed = FALSE
    /\ nv21 = 0
    /\ streaming = FALSE
    /\ image = NoImage
    /\ cancelled = FALSE
    /\ late = FALSE

\* The worker thread.
Worker ==
    \/ OpenCamera
    \/ Configure
    \/ CreateCaptureSession
    \/ SetRepeatingRequest
    \/ BeginFails
    \/ NextFrame
    \/ WaitEnds
    \/ LookAtFrame
    \/ StopDevice
    \/ DeleteReader
    \/ ReleasePreview

\* The reader's callback thread, once it has an image.
ImageListener == PreviewRendered \/ FramePublished

Next ==
    \/ Start
    \/ Worker
    \/ ImageAcquired
    \/ ImageListener
    \/ DeviceFails
    \/ ShouldStop
    \/ DeadlinePasses

Spec == Init /\ [][Next]_vars

\* Threads that can run do.  Nothing is assumed of the camera: it may send no
\* image, or always have the next one ready before it is asked for.
FairSpec == Spec /\ WF_vars(Worker) /\ WF_vars(ImageListener)
-----------------------------------------------------------------------------
(* Properties.                                                             *)

\* Every variable has its type.
TypeOK ==
    /\ pc \in Steps
    /\ starts \in 0 .. MaxStarts
    /\ held \subseteq Members
    /\ lost \subseteq Members
    /\ available \in BOOLEAN
    /\ frame \in 0 .. MaxStarts
    /\ failed \in BOOLEAN
    /\ nv21 \in 0 .. MaxStarts
    /\ streaming \in BOOLEAN
    /\ image \in Images
    /\ cancelled \in BOOLEAN
    /\ late \in BOOLEAN

\* A loop is given frames of its own camera only: what the callback thread
\* published behind the back of an earlier loop that had stopped listening is
\* gone by the time the next one listens.
FrameIsCurrent == pc = "frame" => nv21 = starts

\* The preview window is not released under the callback that draws into it,
\* though mPreview is read, tested and cleared without a lock.
PreviewAlive == image.at = "rendering" => "mPreview" \in held

\* On every path through start and stop each thing acquired is let go of, save an
\* output target made for a request that was refused.
Released ==
    /\ pc = "off" => held \subseteq {"mTarget"}
    /\ lost \subseteq {"mTarget"}

\* Cancelled or past its deadline a loop ends when it waits for a frame, without a
\* wakeup from anyone, and whatever the camera does: only a loop that never waits
\* again, a frame being ready whenever it asks, goes on.
LoopEnds ==
    pc \in Looping /\ (cancelled \/ late)
        ~> (pc \notin Looping \/ [](pc # "waiting"))

\* "Waits for the next frame until the deadline or until shouldStop returns true."
\* A loop whose deadline has passed, or that is to stop, ends.
DeadlineIsKept == pc \in Looping /\ (cancelled \/ late) ~> pc \notin Looping
-----------------------------------------------------------------------------
(* The inductive invariant behind the three safety properties.             *)

\* Images arrive and are drawn only between a successful start and the deletion
\* of the reader, and they are the running loop's.
ListenerRuns ==
    /\ streaming \/ image # NoImage => pc \in Looping \cup {"stop", "delete"}
    /\ image # NoImage => image.of = starts

\* What start reset and nothing but this loop's camera has filled since.
FrameIsOwn ==
    /\ pc # "off" /\ available => frame = starts
    /\ pc = "frame" => nv21 = starts

\* What can be held at each step.
HeldAt ==
    /\ pc = "open" => held \subseteq {"mPreview", "mTarget"}
    /\ pc = "configure" => held \subseteq {"mPreview", "mTarget", "mDevice"}
    /\ pc = "session" => "mSession" \notin held
    /\ pc = "delete" => held \subseteq {"mPreview", "mTarget", "mReader"}
    /\ pc = "release" => held \subseteq {"mPreview", "mTarget"}

Inv == TypeOK /\ ListenerRuns /\ FrameIsOwn /\ HeldAt /\ PreviewAlive /\ Released
=============================================================================
