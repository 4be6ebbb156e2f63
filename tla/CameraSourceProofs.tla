------------------------- MODULE CameraSourceProofs -------------------------
(***************************************************************************)
(* Proofs about CameraSource, for any number of frame loops and every set *)
(* of NDK calls that fail.                                                 *)
(***************************************************************************)
EXTENDS CameraSource, TLAPS

\* Nothing is held and nothing runs before the first loop.
LEMMA InitInv == Init => Inv
<1> SUFFICES ASSUME Init PROVE Inv
  OBVIOUS
<1>1. 0 \in 0 .. MaxStarts
  BY CameraAssumption
<1>2. TypeOK
  BY <1>1 DEF Init, TypeOK, Steps, Members, Images, NoImage
<1> QED BY <1>2 DEF Init, Inv, NoImage, ListenerRuns, FrameIsOwn, HeldAt, PreviewAlive,
        Released

\* The steps of start.
LEMMA StartKeepsInv ==
    ASSUME Inv, \/ Start \/ OpenCamera \/ Configure
                \/ CreateCaptureSession \/ SetRepeatingRequest
    PROVE  Inv'
<1> USE CameraAssumption DEF Inv, TypeOK, Steps, Members, Looping, Images, ListenerRuns,
        FrameIsOwn, HeldAt, PreviewAlive, Released, Acquire, loop, shared, ndk
<1>1. CASE Start
  <2>1. TypeOK'
    <3>1. starts' \in 0 .. MaxStarts /\ UNCHANGED <<frame, nv21, streaming, image>>
      BY <1>1 DEF Start
    <3>2. pc' \in Steps /\ available' \in BOOLEAN /\ failed' \in BOOLEAN
      BY <1>1 DEF Start
    <3>3. held' \subseteq Members /\ lost' \subseteq Members
      BY <1>1 DEF Start
    <3>4. cancelled' \in BOOLEAN /\ late' \in BOOLEAN
      BY <1>1 DEF Start
    <3> QED BY <3>1, <3>2, <3>3, <3>4
  <2>2. ListenerRuns' /\ FrameIsOwn'
    BY <1>1 DEF Start
  <2>3. HeldAt' /\ PreviewAlive' /\ Released'
    BY <1>1 DEF Start
  <2> QED BY <2>1, <2>2, <2>3
<1>2. CASE OpenCamera
  BY <1>2 DEF OpenCamera
<1>3. CASE Configure
  BY <1>3 DEF Configure
<1>4. CASE CreateCaptureSession
  BY <1>4 DEF CreateCaptureSession
<1>5. CASE SetRepeatingRequest
  BY <1>5 DEF SetRepeatingRequest
<1> QED BY <1>1, <1>2, <1>3, <1>4, <1>5

\* The steps of nextFrame and of the loop, and what ends it.
LEMMA LoopKeepsInv ==
    ASSUME Inv, \/ BeginFails \/ NextFrame \/ WaitEnds \/ LookAtFrame
                \/ ShouldStop \/ DeadlinePasses
    PROVE  Inv'
<1> USE CameraAssumption DEF Inv, TypeOK, Steps, Members, Looping, Images, ListenerRuns,
        FrameIsOwn, HeldAt, PreviewAlive, Released, loop, shared, ndk
<1>1. CASE NextFrame
  <2>1. TypeOK'
    BY <1>1 DEF NextFrame, FrameOrFailure
  <2>2. ListenerRuns' /\ FrameIsOwn'
    BY <1>1 DEF NextFrame, FrameOrFailure
  <2>3. HeldAt' /\ PreviewAlive' /\ Released'
    BY <1>1 DEF NextFrame, FrameOrFailure
  <2> QED BY <2>1, <2>2, <2>3
<1>2. CASE WaitEnds
  BY <1>2 DEF WaitEnds, FrameOrFailure
<1>3. CASE LookAtFrame
  BY <1>3 DEF LookAtFrame
<1>4. CASE ShouldStop \/ DeadlinePasses
  <2>1. TypeOK'
    BY <1>4 DEF ShouldStop, DeadlinePasses
  <2>2. ListenerRuns' /\ FrameIsOwn'
    BY <1>4 DEF ShouldStop, DeadlinePasses
  <2>3. HeldAt' /\ PreviewAlive' /\ Released'
    BY <1>4 DEF ShouldStop, DeadlinePasses
  <2> QED BY <2>1, <2>2, <2>3
<1>5. CASE BeginFails
  <2>1. TypeOK'
    BY <1>5 DEF BeginFails
  <2>2. ListenerRuns' /\ FrameIsOwn'
    BY <1>5 DEF BeginFails
  <2>3. HeldAt' /\ PreviewAlive' /\ Released'
    BY <1>5 DEF BeginFails
  <2> QED BY <2>1, <2>2, <2>3
<1> QED BY <1>1, <1>2, <1>3, <1>4, <1>5

\* The steps of stop: the reader's callbacks are joined before the preview goes.
LEMMA StopKeepsInv ==
    ASSUME Inv, StopDevice \/ DeleteReader \/ ReleasePreview
    PROVE  Inv'
<1> USE DEF Inv, TypeOK, Steps, Members, Looping, Images, NoImage, ListenerRuns,
        FrameIsOwn, HeldAt, PreviewAlive, Released, loop, shared, ndk
<1>1. CASE StopDevice
  BY <1>1 DEF StopDevice
<1>2. CASE DeleteReader
  BY <1>2 DEF DeleteReader
<1>3. CASE ReleasePreview
  BY <1>3 DEF ReleasePreview
<1> QED BY <1>1, <1>2, <1>3

\* The callbacks.
LEMMA CallbackKeepsInv ==
    ASSUME Inv, ImageAcquired \/ PreviewRendered \/ FramePublished \/ DeviceFails
    PROVE  Inv'
<1> USE DEF Inv, TypeOK, Steps, Members, Looping, Images, NoImage, ListenerRuns,
        FrameIsOwn, HeldAt, PreviewAlive, Released, loop, shared, ndk
<1>1. CASE ImageAcquired
  BY <1>1 DEF ImageAcquired
<1>2. CASE PreviewRendered
  BY <1>2 DEF PreviewRendered
<1>3. CASE FramePublished
  <2>1. TypeOK'
    <3>1. image.of \in 0 .. MaxStarts /\ NoImage \in Images
      BY CameraAssumption
    <3> QED BY <1>3, <3>1 DEF FramePublished
  <2>2. ListenerRuns' /\ FrameIsOwn'
    BY <1>3 DEF FramePublished
  <2>3. HeldAt' /\ PreviewAlive' /\ Released'
    BY <1>3 DEF FramePublished
  <2> QED BY <2>1, <2>2, <2>3
<1>4. CASE DeviceFails
  BY <1>4 DEF DeviceFails
<1> QED BY <1>1, <1>2, <1>3, <1>4

\* Every step of every thread keeps the invariant.
LEMMA NextInv == Inv /\ [Next]_vars => Inv'
<1> SUFFICES ASSUME Inv, [Next]_vars PROVE Inv'
  OBVIOUS
<1>1. CASE UNCHANGED vars
  BY <1>1 DEF vars, Inv, TypeOK, ListenerRuns, FrameIsOwn, HeldAt, PreviewAlive, Released
<1> QED BY <1>1, StartKeepsInv, LoopKeepsInv, StopKeepsInv, CallbackKeepsInv
        DEF Next, Worker, ImageListener

\* The invariant: which thread may run at which step of the loop, and what is held.
THEOREM InvHolds == Spec => []Inv
BY InitInv, NextInv, PTL DEF Spec

\* Every variable has its type.
THEOREM TypeCorrect == Spec => []TypeOK
<1>1. Inv => TypeOK
  BY DEF Inv
<1> QED BY <1>1, InvHolds, PTL

\* A frame loop is never given a frame of an earlier one.
THEOREM FramesAreCurrent == Spec => []FrameIsCurrent
<1>1. Inv => FrameIsCurrent
  BY DEF Inv, FrameIsOwn, FrameIsCurrent
<1> QED BY <1>1, InvHolds, PTL

\* renderPreview never draws into a window that stop has released: the reader is
\* deleted, and its callback thread joined, first.
THEOREM PreviewIsAlive == Spec => []PreviewAlive
<1>1. Inv => PreviewAlive
  BY DEF Inv
<1> QED BY <1>1, InvHolds, PTL

\* Every path through start and stop lets go of what it acquired, whichever call
\* failed, but for the target of a refused request.
THEOREM EverythingReleased == Spec => []Released
<1>1. Inv => Released
  BY DEF Inv
<1> QED BY <1>1, InvHolds, PTL
=============================================================================
